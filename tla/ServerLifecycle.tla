-------------------------- MODULE ServerLifecycle --------------------------
(***************************************************************************)
(* The life of the game server process in server.rs: start_server,         *)
(* stop_server, restart_server, the stdout reader that notices its exit,   *)
(* and the automatic restart.                                              *)
(*                                                                         *)
(* All of them share one ServerManager behind a mutex that each of them    *)
(* takes and releases several times; an action here is what runs between   *)
(* taking and releasing it.  What is written to the server's stdin is      *)
(* written with the mutex held, so that a server that no longer reads its  *)
(* stdin keeps everybody out once the pipe is full.  A task is a call of   *)
(* the API (the app, or the remote control server) or the reader of a      *)
(* process, which turns into a start_server of its own when it restarts    *)
(* the server.                                                             *)
(*                                                                         *)
(* A definition marked FAULTY is a variant, with a plausible bug, of the   *)
(* definition below it; no action uses it.  It shows that the properties   *)
(* can fail.                                                               *)
(***************************************************************************)
EXTENDS Naturals, FiniteSets

CONSTANTS
    Call,           \* API calls that can be under way together
    Process,        \* the processes that can be spawned (each once)
    NoProcess,      \* no process
    Hanging,        \* the processes that may stop reading their stdin
    Garbling,       \* the processes that may write a line that is not UTF-8
    Console,        \* whoever writes a command: the app, the TPS question, the pre-generation
    Nobody,         \* no task
    MaxRestarts,    \* MAX_RESTARTS_IN_WINDOW
    MaxGeneration,  \* bound: no call starts the server after so many starts
    AutoRestart,    \* the profile's auto_restart setting
    Overlap,        \* may calls overlap (the remote API takes no OperationGuard)?
    Prompt          \* do exits and timers come only when no task has work left, and
                    \* calls begin or go on only when nobody keeps the mutex either?

ASSUME ConstantsAssumption ==
    /\ NoProcess \notin Process
    /\ Call \cap Process = {}
    /\ Hanging \subseteq Process /\ Garbling \subseteq Process
    /\ Console \notin Call \cup Process
    /\ Nobody \notin Call \cup Process \cup {Console}
    /\ MaxRestarts \in Nat
    /\ MaxGeneration \in Nat
    /\ AutoRestart \in BOOLEAN
    /\ Overlap \in BOOLEAN
    /\ Prompt \in BOOLEAN

Task == Call \cup Process

\* The statuses a ServerManager takes (four more are declared, none is set).
Status == {"Stopped", "Starting", "Running", "Stopping", "Error"}

StartStep == {"canStart", "isStopped", "mark", "launch", "spawn", "register",
              "failed", "restartFailed"}
StopStep == {"stop", "request", "wait", "kill", "reset", "pause"}
ReadStep == {"read", "eof", "cleared", "sleep", "done"}

VARIABLES
    status, pid, stopRequested, generation,     \* ServerManager
    recent,         \* length of recent_auto_restarts
    pidFile,        \* the process .lbby-server.pid names
    process,        \* the state of each process
    pc,             \* where each task is
    held,           \* the process a task spawned, watches or is about to kill
    restarting,     \* the calls that are restart_server
    captured,       \* what each reader captured at the end of the stream
    hung,           \* the processes that read no stdin any more: their pipe is full
    holder,         \* who holds the mutex while it waits for a write to end
    unread          \* the processes whose reader ended at a line it could not read

manager == <<status, pid, stopRequested, generation>>
tasks == <<pc, held, restarting, captured>>
pipes == <<hung, holder, unread>>
vars == <<manager, recent, pidFile, process, tasks, pipes>>

TypeOK ==
    /\ status \in Status
    /\ pid \in Process \cup {NoProcess}
    /\ stopRequested \in BOOLEAN
    /\ generation \in Nat
    /\ recent \in 0..MaxRestarts
    /\ pidFile \in Process \cup {NoProcess}
    /\ process \in [Process -> {"unborn", "booting", "listening", "ready", "dead"}]
    /\ pc \in [Task -> {"idle"} \cup StartStep \cup StopStep \cup ReadStep]
    /\ held \in [Task -> Process \cup {NoProcess}]
    /\ restarting \in SUBSET Call
    /\ captured \in [Process -> [unexpected : BOOLEAN, generation : Nat]]
    /\ hung \in SUBSET Hanging
    /\ holder \in Call \cup {Console, Nobody}
    /\ unread \in SUBSET Garbling

Init ==
    /\ status = "Stopped"
    /\ pid = NoProcess
    /\ stopRequested = FALSE
    /\ generation = 0
    /\ recent = 0
    /\ pidFile = NoProcess
    /\ process = [p \in Process |-> "unborn"]
    /\ pc = [t \in Task |-> "idle"]
    /\ held = [t \in Task |-> NoProcess]
    /\ restarting = {}
    /\ captured = [p \in Process |-> [unexpected |-> FALSE, generation |-> 0]]
    /\ hung = {}
    /\ holder = Nobody
    /\ unread = {}

-----------------------------------------------------------------------------
(***************************************************************************)
(* Helpers.                                                                *)
(***************************************************************************)

Alive(p) == process[p] \in {"booting", "listening", "ready"}

\* A server that runs, and whose output can still be read.
Known(p) == Alive(p) /\ p \notin unread

\* The ServerManager's mutex can be taken.
Free == holder = Nobody

\* A write to the stdin in the ServerManager, which is that of `pid', waits.
WriteBlocks == pid # NoProcess /\ pid \in hung /\ Alive(pid)

\* Somebody waits for a write, with the mutex.
Blocked == ~Free /\ WriteBlocks

\* A task that has something to do other than waiting for time to pass, for
\* output, for a download, or for its own write to end.
Runnable(t) ==
    \/ /\ pc[t] \in {"canStart", "isStopped", "mark", "launch", "register", "failed",
                     "restartFailed", "stop", "request", "reset", "eof", "cleared"}
       /\ ~(t = holder /\ WriteBlocks)
    \/ t \in Process /\ pc[t] = "read" /\ process[t] = "dead"

\* A process ends, or a wait is over.
Later == Prompt => \A t \in Task : ~Runnable(t)

Goto(t, step) == pc' = [pc EXCEPT ![t] = step]

\* The task is over.
Finish(t) ==
    /\ Goto(t, IF t \in Call THEN "idle" ELSE "done")
    /\ held' = [held EXCEPT ![t] = NoProcess]
    /\ restarting' = restarting \ {t}

\* A start ended in an error: restart_server looks at the status once more.
GiveUp(t) ==
    IF t \in restarting
    THEN Goto(t, "restartFailed") /\ UNCHANGED <<held, restarting>>
    ELSE Finish(t)

-----------------------------------------------------------------------------
(***************************************************************************)
(* start_server and do_start_server.                                       *)
(***************************************************************************)

\* start_server: can_start.
CanStart(t) ==
    /\ pc[t] = "canStart"
    /\ Free
    /\ \/ /\ status \in {"Stopped", "Error"}
          /\ Goto(t, "isStopped")
          /\ UNCHANGED <<held, restarting>>
       \/ /\ status \notin {"Stopped", "Error"}
          /\ GiveUp(t)
    /\ UNCHANGED <<manager, recent, pidFile, process, captured, pipes>>

\* do_start_server: its own check.
IsStopped(t) ==
    /\ pc[t] = "isStopped"
    /\ Free
    /\ Goto(t, IF status = "Stopped" THEN "mark" ELSE "failed")
    /\ UNCHANGED <<manager, recent, pidFile, process, held, restarting, captured, pipes>>

\* do_start_server: the server is Starting, as a new generation.
MarkStarting(t) ==
    /\ pc[t] = "mark"
    /\ Free
    /\ status' = "Starting"
    /\ stopRequested' = FALSE
    /\ generation' = generation + 1
    /\ Goto(t, "launch")
    /\ UNCHANGED <<pid, recent, pidFile, process, held, restarting, captured, pipes>>

\* check_port_available fails while a server listens.
PortTaken == \E p \in Process : process[p] \in {"listening", "ready"}

\* A session.lock of an earlier run: the process that its pid file names is
\* killed, and the pid file removed.
Cleanup(lock) ==
    IF lock
    THEN /\ process' = IF pidFile = NoProcess THEN process
                       ELSE [process EXCEPT ![pidFile] = "dead"]
         /\ pidFile' = NoProcess
    ELSE UNCHANGED <<process, pidFile>>

\* do_start_server checks its preconditions, the port among them, and cleans up.
Launch(t) ==
    /\ pc[t] = "launch"
    /\ \/ /\ Goto(t, "failed")
          /\ UNCHANGED <<process, pidFile>>
       \/ /\ ~PortTaken
          /\ \E lock \in BOOLEAN : Cleanup(lock)
          /\ Goto(t, "spawn")
    /\ UNCHANGED <<manager, recent, held, restarting, captured, pipes>>

\* Then it looks for Java, downloads it if need be, and spawns the server.
Spawn(t) ==
    /\ pc[t] = "spawn"
    /\ Later
    /\ \/ \E p \in Process :
            /\ process[p] = "unborn"
            /\ process' = [process EXCEPT ![p] = "booting"]
            /\ held' = [held EXCEPT ![t] = p]
            /\ Goto(t, "register")
       \/ /\ Goto(t, "failed")
          /\ UNCHANGED <<process, held>>
    /\ UNCHANGED <<manager, recent, pidFile, restarting, captured, pipes>>

\* do_start_server after spawn: record the process, start its reader.
WithoutReader(steps, p) == steps \* FAULTY
WithReader(steps, p) == [steps EXCEPT ![p] = "read"]

Register(t) ==
    LET p == held[t] IN
    /\ pc[t] = "register"
    /\ Free
    /\ pid' = p
    /\ pidFile' = p
    /\ pc' = WithReader([pc EXCEPT ![t] = IF t \in Call THEN "idle" ELSE "done"], p)
    /\ held' = [held EXCEPT ![t] = NoProcess]
    /\ restarting' = restarting \ {t}
    /\ UNCHANGED <<status, stopRequested, generation, recent, process, captured, pipes>>

\* start_server, when do_start_server returned an error.
StartFailed(t) ==
    /\ pc[t] = "failed"
    /\ Free
    /\ IF status = "Starting"
       THEN status' = "Error" /\ pid' = NoProcess
       ELSE UNCHANGED <<status, pid>>
    /\ GiveUp(t)
    /\ UNCHANGED <<stopRequested, generation, recent, pidFile, process, captured, pipes>>

\* restart_server, when start_server returned an error.
RestartFailed(t) ==
    /\ pc[t] = "restartFailed"
    /\ Free
    /\ IF status = "Starting"
       THEN status' = "Stopped" /\ pid' = NoProcess
       ELSE UNCHANGED <<status, pid>>
    /\ Finish(t)
    /\ UNCHANGED <<stopRequested, generation, recent, pidFile, process, captured, pipes>>

-----------------------------------------------------------------------------
(***************************************************************************)
(* stop_server, force_stop_server and restart_server: a call that is in    *)
(* `restarting' goes on to start the server when its stop returns.         *)
(***************************************************************************)

Begin(t) ==
    /\ pc[t] = "idle"
    /\ Later
    /\ Prompt => Free
    /\ Overlap \/ \A u \in Call : pc[u] = "idle"
    /\ \E step \in {"canStart", "stop", "request"}, restart \in BOOLEAN :
        /\ restart => step = "stop"
        /\ restart \/ step = "canStart" => generation < MaxGeneration
        /\ Goto(t, step)
        /\ restarting' = IF restart THEN restarting \cup {t} ELSE restarting
    /\ UNCHANGED <<manager, recent, pidFile, process, held, captured, pipes>>

\* The stop is over, and a restart_server pauses.
StopReturnsTo(t) ==
    IF t \in restarting
    THEN /\ Goto(t, "pause")
         /\ held' = [held EXCEPT ![t] = NoProcess]
         /\ UNCHANGED restarting
    ELSE Finish(t)

\* stop_server: a stopped server cannot be stopped, nor restarted.
Stop(t) ==
    /\ pc[t] = "stop"
    /\ Free
    /\ \/ status = "Stopped" /\ Finish(t)
       \/ status # "Stopped" /\ Goto(t, "request") /\ UNCHANGED <<held, restarting>>
    /\ UNCHANGED <<manager, recent, pidFile, process, captured, pipes>>

\* graceful_or_force_stop_server: the process to watch, and the request.
Watched == IF status \in {"Running", "Starting", "Stopping"} THEN pid ELSE NoProcess

RequestStop(t) ==
    /\ pc[t] = "request"
    /\ holder \in {Nobody, t}
    /\ status \in {"Running", "Starting"} => ~WriteBlocks
    /\ IF status \in {"Running", "Starting"}
       THEN status' = "Stopping" /\ stopRequested' = TRUE
       ELSE UNCHANGED <<status, stopRequested>>
    /\ \/ Watched = NoProcess /\ StopReturnsTo(t)
       \/ /\ Watched # NoProcess
          /\ Goto(t, "wait")
          /\ held' = [held EXCEPT ![t] = Watched]
          /\ UNCHANGED restarting
    /\ holder' = Nobody
    /\ UNCHANGED <<pid, generation, recent, pidFile, process, captured, hung, unread>>

\* The word "stop" does not fit into the pipe: the call waits with the mutex.
RequestWaits(t) ==
    /\ pc[t] = "request"
    /\ Free
    /\ status \in {"Running", "Starting"}
    /\ WriteBlocks
    /\ stopRequested' = TRUE
    /\ holder' = t
    /\ UNCHANGED <<status, pid, generation, recent, pidFile, process, tasks, hung, unread>>

HasStopped == status = "Stopped" \/ pid = NoProcess

\* It looks every 500 ms, and turns to killing when its patience ends.
PollForever(t) == \* FAULTY
    /\ Later
    /\ HasStopped
    /\ StopReturnsTo(t)
Poll(t) ==
    /\ Later
    /\ \/ HasStopped /\ StopReturnsTo(t)
       \/ /\ ~HasStopped
          /\ Goto(t, "kill")
          /\ held' = [held EXCEPT ![t] = pid]
          /\ UNCHANGED restarting

Wait(t) ==
    /\ pc[t] = "wait"
    /\ Free
    /\ Poll(t)
    /\ UNCHANGED <<manager, recent, pidFile, process, captured, pipes>>

\* kill_unix_process_tree.
AliveAfterKill(p) == process \* FAULTY
DeadAfterKill(p) == [process EXCEPT ![p] = "dead"]

Kill(t) ==
    /\ pc[t] = "kill"
    /\ Later
    /\ process' = DeadAfterKill(held[t])
    /\ Goto(t, "reset")
    /\ UNCHANGED <<manager, recent, pidFile, held, restarting, captured, pipes>>

Reset(t) ==
    /\ pc[t] = "reset"
    /\ Free
    /\ status' = "Stopped"
    /\ pid' = NoProcess
    /\ StopReturnsTo(t)
    /\ UNCHANGED <<stopRequested, generation, recent, pidFile, process, captured, pipes>>

\* restart_server: three seconds after the stop.
StartAgain(t) ==
    /\ pc[t] = "pause"
    /\ Later
    /\ Prompt => Free
    /\ Goto(t, "canStart")
    /\ UNCHANGED <<manager, recent, pidFile, process, held, restarting, captured, pipes>>

-----------------------------------------------------------------------------
(***************************************************************************)
(* The stdout reader of a process, and the process.                        *)
(***************************************************************************)

\* The server listens, and says so in the "Done" line ...
Listen(p) ==
    /\ process[p] = "booting"
    /\ ~PortTaken
    /\ process' = [process EXCEPT ![p] = "listening"]
    /\ UNCHANGED <<manager, recent, pidFile, tasks, pipes>>

\* ... which the reader reads.
ReadDone(p) ==
    /\ pc[p] = "read"
    /\ process[p] = "listening"
    /\ Free
    /\ process' = [process EXCEPT ![p] = "ready"]
    /\ status' = IF status = "Starting" THEN "Running" ELSE status
    /\ UNCHANGED <<pid, stopRequested, generation, recent, pidFile, tasks, pipes>>

\* The stream ended.
CapturedAsCrash == [unexpected |-> TRUE, generation |-> generation] \* FAULTY
CapturedAtEnd == [unexpected |-> ~stopRequested, generation |-> generation]

EndOfStream(p) ==
    /\ pc[p] = "read"
    /\ process[p] = "dead"
    /\ Free
    /\ captured' = [captured EXCEPT ![p] = CapturedAtEnd]
    /\ Goto(p, "eof")
    /\ UNCHANGED <<manager, recent, pidFile, process, held, restarting, pipes>>

\* The reader's loop also ends at a line that is not UTF-8, with the server
\* running: nobody reads its output any more.
ReadError(p) ==
    /\ p \in Garbling
    /\ pc[p] = "read"
    /\ Alive(p)
    /\ Later
    /\ Free
    /\ captured' = [captured EXCEPT ![p] = CapturedAtEnd]
    /\ unread' = unread \cup {p}
    /\ Goto(p, "eof")
    /\ UNCHANGED <<manager, recent, pidFile, process, held, restarting, hung, holder>>

ClearedOnlyPid == UNCHANGED status /\ pid' = NoProcess \* FAULTY
Cleared == status' = "Stopped" /\ pid' = NoProcess

Clear(p) ==
    /\ pc[p] = "eof"
    /\ Free
    /\ Cleared
    /\ pidFile' = NoProcess
    /\ Goto(p, "cleared")
    /\ UNCHANGED <<stopRequested, generation, recent, process, held, restarting, captured, pipes>>

\* Whether to restart the server automatically.
MayRestart == recent < MaxRestarts

Decide(p) ==
    /\ pc[p] = "cleared"
    /\ \/ /\ captured[p].unexpected /\ AutoRestart /\ MayRestart
          /\ recent' = recent + 1
          /\ Goto(p, "sleep")
       \/ /\ ~(captured[p].unexpected /\ AutoRestart /\ MayRestart)
          /\ Goto(p, "done")
          /\ UNCHANGED recent
    /\ UNCHANGED <<manager, pidFile, process, held, restarting, captured, pipes>>

\* Whether no start has been marked since the end of the stream.
StillCurrent(p) == captured[p].generation = generation

\* Three seconds later, unless a newer start has been marked.
Wake(p) ==
    /\ pc[p] = "sleep"
    /\ Later
    /\ Free
    /\ Goto(p, IF StillCurrent(p) THEN "canStart" ELSE "done")
    /\ UNCHANGED <<manager, recent, pidFile, process, held, restarting, captured, pipes>>

\* A restart is older than RESTART_WINDOW_SECS.
Expire ==
    /\ recent > 0
    /\ recent' = recent - 1
    /\ UNCHANGED <<manager, pidFile, process, tasks, pipes>>

\* The process ends, when told to or by itself.
Exit(p) ==
    /\ Alive(p)
    /\ Later
    /\ process' = [process EXCEPT ![p] = "dead"]
    /\ UNCHANGED <<manager, recent, pidFile, tasks, pipes>>

\* It stops reading its stdin, and what was written fills the pipe.
Hang(p) ==
    /\ Alive(p)
    /\ p \in Hanging \ hung
    /\ hung' = hung \cup {p}
    /\ UNCHANGED <<manager, recent, pidFile, process, tasks, holder, unread>>

\* A console command, a question for the TPS or a batch of the pre-generation
\* waits in the write, with the mutex, until the process ends.
Command ==
    /\ Free
    /\ WriteBlocks
    /\ Later
    /\ holder' = Console
    /\ UNCHANGED <<manager, recent, pidFile, process, tasks, hung, unread>>

CommandFails ==
    /\ holder = Console
    /\ ~WriteBlocks
    /\ holder' = Nobody
    /\ UNCHANGED <<manager, recent, pidFile, process, tasks, hung, unread>>

-----------------------------------------------------------------------------
StartWork(t) ==
    \/ CanStart(t) \/ IsStopped(t) \/ MarkStarting(t) \/ Launch(t) \/ Spawn(t)
    \/ Register(t) \/ StartFailed(t) \/ RestartFailed(t)

StopWork(t) ==
    \/ Stop(t) \/ RequestStop(t) \/ RequestWaits(t) \/ Wait(t) \/ Kill(t) \/ Reset(t)
    \/ StartAgain(t)

ReadWork(p) == EndOfStream(p) \/ Clear(p) \/ Decide(p) \/ Wake(p)

ProcessWork(p) == Listen(p) \/ ReadDone(p) \/ ReadError(p) \/ Exit(p) \/ Hang(p)

Next ==
    \/ \E t \in Task : StartWork(t)
    \/ \E t \in Call : Begin(t) \/ StopWork(t)
    \/ \E p \in Process : ReadWork(p) \/ ProcessWork(p)
    \/ Expire \/ Command \/ CommandFails

Spec == Init /\ [][Next]_vars

\* The runtime runs every task that can run, and every timer fires.
Fairness ==
    /\ \A t \in Task : WF_vars(StartWork(t))
    /\ \A t \in Call : WF_vars(StopWork(t))
    /\ \A p \in Process : WF_vars(ReadWork(p))
    /\ WF_vars(CommandFails)

FairSpec == Spec /\ Fairness

-----------------------------------------------------------------------------
(***************************************************************************)
(* Properties.                                                             *)
(***************************************************************************)

\* No start is between its mark and the process it registers, and no reader
\* has an exit to report.
Settled ==
    /\ \A t \in Task :
        pc[t] \notin {"launch", "spawn", "register", "failed", "restartFailed", "eof"}
    /\ \A p \in Process : pc[p] = "read" => Alive(p)

\* Every server that runs has a reader that will notice its end, or is about
\* to get one: do_start_server returns no error once it has spawned.  The
\* exception is a server that wrote a line the reader could not read.
EveryServerIsWatched ==
    \A p \in Process : Known(p) =>
        pc[p] = "read" \/ \E t \in Task : pc[t] = "register" /\ held[t] = p

\* At most one game server runs (start_server's guard, against a second start
\* and against the automatic restart), beside those whose reader gave up.
OneServer == \A p, q \in Process : Known(p) /\ Known(q) => p = q

\* When nothing is under way and the status says Stopped, no server runs: no
\* server is left that nothing can stop any more, but for one whose reader
\* gave up.
StoppedMeansStopped == Settled /\ status = "Stopped" => \A p \in Process : ~Known(p)

\* When nothing is under way and the status says Running, pid and the pid file
\* name a process that runs.
RunningHasProcess ==
    Settled /\ status = "Running" => pid # NoProcess /\ Known(pid) /\ pidFile = pid

\* When nothing is under way, the status that every caller sees, and that the
\* file operations of the other services ask before they touch the server, is
\* that of the operating system's processes, as far as their output is read.
StatusIsTrue == StoppedMeansStopped /\ RunningHasProcess

\* What the reader says at the end of its loop: "Stream ended -- server process
\* exited".  It is what the status, the automatic restart and the removal of
\* the pid file rest on.
EndMeansExited == \A p \in Process : pc[p] \in {"eof", "cleared", "sleep"} => ~Alive(p)

\* The automatic restart of a reader starts the server only when no other
\* start was marked since the reader saw the end of its process: "invalidate
\* stale restart requests (e.g. if the user manually started a new server
\* between crash and delayed restart)".
StaleRestartIsSkipped ==
    [][\A p \in Process :
        pc[p] = "mark" /\ pc'[p] = "launch" => captured[p].generation = generation]_vars

\* A server that a call of stop is waiting for is not restarted automatically
\* when it exits, nor when its reader gives up (stop_requested).
StopIsNotACrash ==
    \A t \in Call, p \in Process :
        [](pc[t] = "wait" /\ held[t] = p /\ Known(p) => [](pc[p] # "sleep"))

\* A server that stop waits for ends, by itself or killed, unless its reader
\* gives up first, or a write to a server that hangs keeps the mutex for ever.
StopEndsProcess ==
    \A t \in Call, p \in Process :
        pc[t] = "wait" /\ held[t] = p ~> ~Alive(p) \/ p \in unread \/ []Blocked

\* Every call of stop returns, whatever the server and the other calls do,
\* unless a write to a server that hangs keeps the mutex for ever.
StopReturns ==
    \A t \in Call : pc[t] \in StopStep \ {"pause"} ~> pc[t] \in {"idle", "pause"} \/ []Blocked

\* What stop_server says: it "waits up to 10 seconds for a clean exit, then
\* force-kills the entire process tree if it is still alive", so that it
\* returns whatever the server does.
AlwaysStops == \A t \in Call : pc[t] \in StopStep \ {"pause"} ~> pc[t] \in {"idle", "pause"}

\* A start that start_server lets through ("only start from Stopped or Error
\* states") is not refused when the status has not changed.
StartableStarts ==
    [][\A t \in Task : pc[t] = "isStopped" /\ pc'[t] = "failed" => status # "Error"]_vars

\* When stop returns to restart, the server is stopped: "blocks until the
\* server is fully Stopped".
StopBlocksUntilStopped ==
    [][\A t \in Call : pc[t] \in StopStep /\ pc[t] # "pause" /\ pc'[t] = "pause"
            => status' = "Stopped"]_vars
=============================================================================
