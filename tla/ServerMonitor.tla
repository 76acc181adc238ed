---------------------------- MODULE ServerMonitor ----------------------------
(***************************************************************************)
(* What a start of the game server leaves running beside it                *)
(* (do_start_server of server.rs, stats.rs): the reader of its output,     *)
(* which keeps the list of players, a task that samples the process, and   *)
(* one that asks the server for its speed.  The last two look at the       *)
(* status only when they wake, and end when they see Stopped.              *)
(*                                                                         *)
(* Servers run one after the other, known by their number; what may go     *)
(* wrong between starts and stops is the matter of ServerLifecycle.  Time  *)
(* passes when no task has work left but a sample, which walks the world   *)
(* and may take any time.                                                  *)
(*                                                                         *)
(* Definitions marked FAULTY are variants, with a plausible bug, of the    *)
(* definition below them; no action uses them.                             *)
(***************************************************************************)
EXTENDS Naturals, FiniteSets, Sequences

CONSTANTS
    Player,
    MaxRuns,        \* bound: the starts of the server
    POLL,           \* seconds between two samples, 2
    TPS_FIRST,      \* seconds before the first question for the speed, 20
    TPS,            \* and between two of them, 10
    RECENT_PLAYERS_CAP

Run == 1..MaxRuns
Longest == TPS_FIRST + POLL     \* times are told apart up to here

VARIABLES
    status, run,        \* ServerManager; run is its pid, 0 for none
    reader,             \* what the reader of each run does next
    heard,              \* how many players it counted when it gave their lock back
    online, recent,     \* online_players, recent_players
    shown,              \* stats: how many players, and the run that was sampled
    tick,               \* the run of last_gametime_sample
    poller, asker,      \* the tasks of the runs that have one, and the seconds they sleep
    sampling,           \* the tasks that have a sample to write
    since, soonest      \* history: time since the last end, or the end of a sample
                        \* that outlasted it, and its least at a start

tasks == <<poller, asker, sampling>>
vars == <<status, run, reader, heard, online, recent, shown, tick, tasks, since, soonest>>

Reset == [players |-> 0, run |-> 0]
Started == {r \in Run : reader[r] # "none"}

TypeOK ==
    /\ status \in {"Stopped", "Starting", "Running", "Stopping"}
    /\ run \in 0..MaxRuns
    /\ reader \in [Run -> {"none", "read", "joined", "eof", "clear", "done"}]
    /\ heard \in 0..Cardinality(Player)
    /\ online \subseteq Player
    /\ recent \in Seq(Player) /\ Len(recent) <= RECENT_PLAYERS_CAP
    /\ shown \in [players : 0..Cardinality(Player), run : 0..MaxRuns]
    /\ tick \in 0..MaxRuns
    /\ DOMAIN poller \subseteq Run /\ \A r \in DOMAIN poller : poller[r] \in 0..POLL
    /\ DOMAIN asker \subseteq Run /\ \A r \in DOMAIN asker : asker[r] \in 0..TPS_FIRST
    /\ sampling \subseteq DOMAIN poller
    /\ since \in 0..Longest /\ soonest \in 0..Longest

Init ==
    /\ status = "Stopped" /\ run = 0
    /\ reader = [r \in Run |-> "none"]
    /\ heard = 0
    /\ online = {} /\ recent = <<>>
    /\ shown = Reset
    /\ tick = 0
    /\ poller = <<>> /\ asker = <<>> /\ sampling = {}
    /\ since = Longest /\ soonest = Longest

-----------------------------------------------------------------------------
(***************************************************************************)
(* Time, and the host.                                                     *)
(***************************************************************************)

\* A reader that has statistics to write may have to wait for who samples.
Busy ==
    \/ \E r \in Run : reader[r] = "eof" \/ (reader[r] \in {"joined", "clear"} /\ sampling = {})
    \/ \E r \in DOMAIN poller \ sampling : poller[r] = 0
    \/ \E r \in DOMAIN asker : asker[r] = 0

Sleeping(of, r, seconds) == [q \in DOMAIN of \cup {r} |-> IF q = r THEN seconds ELSE of[q]]
Ended(of, r) == [q \in DOMAIN of \ {r} |-> of[q]]

Second ==
    /\ ~Busy
    /\ since' = IF status = "Stopped" /\ sampling = {} /\ since < Longest THEN since + 1 ELSE since
    /\ poller' = [r \in DOMAIN poller |-> IF r \in sampling THEN poller[r] ELSE poller[r] - 1]
    /\ asker' = [r \in DOMAIN asker |-> asker[r] - 1]
    /\ UNCHANGED <<status, run, reader, heard, online, recent, shown, tick, sampling>>
    /\ UNCHANGED soonest

\* A start is marked, after the last reader has ended; the launch takes its time.
Mark ==
    /\ ~Busy
    /\ \A r \in Run : reader[r] # "clear"
    /\ status = "Stopped"
    /\ Cardinality(Started) < MaxRuns
    /\ status' = "Starting"
    /\ soonest' = IF since < soonest THEN since ELSE soonest
    /\ UNCHANGED <<run, reader, heard, online, recent, shown, tick, tasks, since>>

\* The process is registered and gets its tasks.
Register ==
    /\ status = "Starting" /\ run = 0
    /\ LET r == Cardinality(Started) + 1
       IN /\ run' = r
          /\ reader' = [reader EXCEPT ![r] = "read"]
          /\ poller' = Sleeping(poller, r, POLL)
          /\ asker' = Sleeping(asker, r, TPS_FIRST)
    /\ shown' = Reset
    /\ tick' = 0
    /\ UNCHANGED <<status, heard, online, recent, sampling, since, soonest>>

RequestStop ==
    /\ status \in {"Starting", "Running"} /\ run # 0
    /\ status' = "Stopping"
    /\ UNCHANGED <<run, reader, heard, online, recent, shown, tick, tasks, since, soonest>>

-----------------------------------------------------------------------------
(***************************************************************************)
(* The reader.                                                             *)
(***************************************************************************)

\* parse_player_event: what a line of the log says, and of whom.  A disconnect
\* is told twice, and of a name that is none nothing is told.
Joins(line) == line = "joined the game"
Leaves(line) == line \in {"left the game", "lost connection"}
Line == {"joined the game", "left the game", "lost connection"}

ReadDone(r) ==
    /\ reader[r] = "read"
    /\ status = "Starting"
    /\ status' = "Running"
    /\ UNCHANGED <<run, reader, heard, online, recent, shown, tick, tasks, since, soonest>>

\* The list of players, under its lock; recent_players is passed over while
\* another holds it.
ReadPlayer(r, p, line) ==
    /\ reader[r] = "read"
    /\ online' = IF Joins(line) THEN online \cup {p} ELSE online \ {p}
    /\ heard' = Cardinality(online')
    /\ \/ Joins(line) /\ recent' = SubSeq(<<p>> \o recent, 1, RECENT_PLAYERS_CAP)
       \/ UNCHANGED recent
    /\ Joins(line) \/ Leaves(line)
    /\ reader' = [reader EXCEPT ![r] = "joined"]
    /\ UNCHANGED <<status, run, shown, tick, tasks, since, soonest>>

\* Then the statistics, under theirs.
ShowPlayers(r) ==
    /\ reader[r] = "joined"
    /\ shown' = [shown EXCEPT !.players = heard]
    /\ reader' = [reader EXCEPT ![r] = "read"]
    /\ UNCHANGED <<status, run, heard, online, recent, tick, tasks, since, soonest>>

\* "The time is": the speed is the ticks since the last such line.
ReadTime(r) ==
    /\ reader[r] = "read"
    /\ status = "Running"
    /\ tick' = r
    /\ UNCHANGED <<status, run, reader, heard, online, recent, shown, tasks>>
    /\ UNCHANGED <<since, soonest>>

Exit(r) ==
    /\ reader[r] = "read"
    /\ run = r
    /\ reader' = [reader EXCEPT ![r] = "eof"]
    /\ UNCHANGED <<status, run, heard, online, recent, shown, tick, tasks, since, soonest>>

EndOfStream(r) ==
    /\ reader[r] = "eof"
    /\ status' = "Stopped"
    /\ run' = 0
    /\ reader' = [reader EXCEPT ![r] = "clear"]
    /\ since' = 0
    /\ UNCHANGED <<heard, online, recent, shown, tick, tasks, soonest>>

\* The statistics and the players, under both locks.
ClearedStats == shown' = Reset /\ UNCHANGED online \* FAULTY
Cleared == shown' = Reset /\ online' = {}

Clear(r) ==
    /\ reader[r] = "clear"
    /\ Cleared
    /\ reader' = [reader EXCEPT ![r] = "done"]
    /\ UNCHANGED <<status, run, heard, recent, tick, tasks, since, soonest>>

-----------------------------------------------------------------------------
(***************************************************************************)
(* The task that samples the process.                                      *)
(***************************************************************************)

\* It ends when the server has stopped, and waits on while nothing has a pid.
EndsWithServer == status = "Stopped"

Poll(r) ==
    /\ r \in DOMAIN poller /\ r \notin sampling
    /\ poller[r] = 0
    /\ \/ EndsWithServer /\ poller' = Ended(poller, r) /\ UNCHANGED sampling
       \/ /\ ~EndsWithServer /\ run = 0
          /\ poller' = Sleeping(poller, r, POLL) /\ UNCHANGED sampling
       \/ ~EndsWithServer /\ run # 0 /\ sampling' = sampling \cup {r} /\ UNCHANGED poller
    /\ UNCHANGED <<status, run, reader, heard, online, recent, shown, tick, asker>>
    /\ UNCHANGED <<since, soonest>>

\* StatsPoller::sample: a process that is gone, or whose number a program has that
\* is known not to be a server, gives no sample.
Sampled(r) == {0, r}

\* A sample goes into the statistics with the time since the task's own start.
Write(r) ==
    /\ r \in sampling
    /\ sampling' = sampling \ {r}
    /\ poller' = Sleeping(poller, r, POLL)
    /\ \E sample \in Sampled(r) :
          shown' = IF sample = 0 THEN shown ELSE [shown EXCEPT !.run = sample]
    /\ UNCHANGED <<status, run, reader, heard, online, recent, tick, asker, since, soonest>>

\* The task that asks for the speed.
Ask(r) ==
    /\ r \in DOMAIN asker
    /\ asker[r] = 0
    /\ asker' = IF status = "Stopped" THEN Ended(asker, r) ELSE Sleeping(asker, r, TPS)
    /\ UNCHANGED <<status, run, reader, heard, online, recent, shown, tick, poller>>
    /\ UNCHANGED <<sampling, since, soonest>>

ReadWork(r) ==
    \/ ReadDone(r) \/ ReadTime(r) \/ ShowPlayers(r)
    \/ \E p \in Player, line \in Line : ReadPlayer(r, p, line)
    \/ Exit(r) \/ EndOfStream(r) \/ Clear(r)

Next ==
    \/ Second \/ Mark \/ Register \/ RequestStop
    \/ \E r \in Run : ReadWork(r) \/ Poll(r) \/ Write(r) \/ Ask(r)

Spec == Init /\ [][Next]_vars

-----------------------------------------------------------------------------
(***************************************************************************)
(* Properties.                                                             *)
(***************************************************************************)

\* The number of players that the statistics show is that of the list whenever
\* no reader is between the two, and nobody is online on a server that stopped,
\* whoever was when it crashed.
ShownIsCounted ==
    (\A r \in Run : reader[r] \notin {"joined", "eof", "clear"}) =>
        /\ shown.players = Cardinality(online)
        /\ run = 0 => online = {}

\* One task samples the server, and shows its time, unless it was started again
\* within two seconds of its end or of a sample that was still under way at its end.
\* An automatic restart, or restart_server, comes three seconds after the end; but a
\* walk of a large world can take longer.  The speed is computed from two lines of
\* one server.
OneSampler ==
    /\ Cardinality(DOMAIN poller) > 1 => soonest < POLL
    /\ status = "Running" /\ shown.run \notin {0, run} => soonest < POLL
    /\ run # 0 => tick \in {0, run}

\* One task asks for the speed, unless the server was started so soon after its
\* end, or the end of such a sample, that the last one still slept.
OneAsker == Cardinality(DOMAIN asker) > 1 => soonest < TPS_FIRST

(***************************************************************************)
(* Properties that the code does not have.                                 *)
(***************************************************************************)

\* A restart leaves one task that asks for the speed: the three seconds that
\* it waits are less than the ten between two questions, and every restart adds
\* a task.
RestartsAskOnce == Cardinality(DOMAIN asker) > 1 => soonest < POLL + 1

\* The statistics of a stopped server are empty: a sample that was under way
\* when it stopped is written after they were reset.
StoppedShowsNothing == status = "Stopped" /\ ~Busy => shown = Reset
=============================================================================
