----------------------- MODULE ServerLifecycleProofs -----------------------
(***************************************************************************)
(* Proofs about ServerLifecycle, for any number of calls and processes.    *)
(* The first are of calls that overlap or not, with tasks delayed at will; *)
(* the others of one call at a time and of prompt tasks.                   *)
(***************************************************************************)
EXTENDS ServerLifecycle, TLAPS

\* A task that registers a process holds one that was spawned, that no other
\* task registers, and that has no reader yet.
RegistersItsOwn ==
    /\ \A t \in Task : pc[t] = "register" =>
        /\ held[t] \in Process
        /\ process[held[t]] # "unborn"
        /\ pc[held[t]] = "idle"
    /\ \A t, u \in Task :
        pc[t] = "register" /\ pc[u] = "register" /\ held[t] = held[u] => t = u

\* A process that has not been spawned has no reader.
UnbornIsUnread == \A p \in Process : process[p] = "unborn" => pc[p] = "idle"

\* A reader that gave up on its process has left its loop.
GaveUpIsGone == \A p \in Process : p \in unread => pc[p] \notin {"idle", "read"}

Inv ==
    /\ TypeOK
    /\ RegistersItsOwn
    /\ UnbornIsUnread
    /\ GaveUpIsGone
    /\ EveryServerIsWatched

-----------------------------------------------------------------------------
\* Calls and processes are tasks, and NoProcess is none.
LEMMA Tasks ==
    /\ Call \subseteq Task
    /\ Process \subseteq Task
    /\ NoProcess \notin Process
    /\ \A t \in Task : t \in Call \/ t \in Process
  BY ConstantsAssumption DEF Task

\* The invariant holds at the start.
LEMMA InitInv == Init => Inv
<1> SUFFICES ASSUME Init PROVE Inv
  OBVIOUS
<1>1. \A t \in Task : pc[t] = "idle"
  BY DEF Init
<1>2. \A p \in Process : process[p] = "unborn"
  BY DEF Init
<1>3. TypeOK
  <2>1. recent \in 0..MaxRestarts /\ generation \in Nat
    BY ConstantsAssumption DEF Init
  <2>2. captured \in [Process -> [unexpected : BOOLEAN, generation : Nat]]
    BY DEF Init
  <2>3. pc \in [Task -> {"idle"} \cup StartStep \cup StopStep \cup ReadStep]
    BY DEF Init
  <2>4. held \in [Task -> Process \cup {NoProcess}] /\ restarting \in SUBSET Call
    BY DEF Init
  <2>5. process \in [Process -> {"unborn", "booting", "listening", "ready", "dead"}]
    BY DEF Init
  <2>6. /\ status \in Status /\ stopRequested \in BOOLEAN
        /\ pid \in Process \cup {NoProcess} /\ pidFile \in Process \cup {NoProcess}
    BY DEF Init, Status
  <2>7. hung \in SUBSET Hanging /\ unread \in SUBSET Garbling /\ holder \in Call \cup {Console, Nobody}
    BY DEF Init
  <2> QED
    BY <2>1, <2>2, <2>3, <2>4, <2>5, <2>6, <2>7 DEF TypeOK
<1>4. RegistersItsOwn
  BY <1>1 DEF RegistersItsOwn
<1>5. UnbornIsUnread
  BY <1>1, Tasks DEF UnbornIsUnread
<1>6. EveryServerIsWatched
  BY <1>2 DEF EveryServerIsWatched, Known, Alive
<1>7. GaveUpIsGone
  BY DEF Init, GaveUpIsGone
<1> QED
  BY <1>3, <1>4, <1>5, <1>6, <1>7 DEF Inv

-----------------------------------------------------------------------------
(***************************************************************************)
(* The type invariant, action by action.                                   *)
(***************************************************************************)
LEMMA StartTypes ==
  ASSUME TypeOK, NEW t \in Task, StartWork(t)
  PROVE  TypeOK'
<1> USE ConstantsAssumption, Tasks
    DEF TypeOK, Status, StartStep, StopStep, ReadStep, Goto, Finish, GiveUp,
        manager, tasks, pipes
<1>1. CASE CanStart(t)
  BY <1>1 DEF CanStart
<1>2. CASE IsStopped(t)
  BY <1>2 DEF IsStopped
<1>3. CASE MarkStarting(t)
  <2>1. generation' \in Nat
    BY <1>3 DEF MarkStarting
  <2>2. pc' \in [Task -> {"idle"} \cup StartStep \cup StopStep \cup ReadStep]
    BY <1>3 DEF MarkStarting
  <2>3. status' \in Status /\ stopRequested' \in BOOLEAN
    BY <1>3 DEF MarkStarting
  <2> QED
    BY <1>3, <2>1, <2>2, <2>3 DEF MarkStarting
<1>4. CASE Launch(t)
  BY <1>4 DEF Launch, Cleanup
<1>8. CASE Spawn(t)
  BY <1>8 DEF Spawn
<1>5. CASE Register(t)
  BY <1>5 DEF Register, WithReader
<1>6. CASE StartFailed(t)
  BY <1>6 DEF StartFailed
<1>7. CASE RestartFailed(t)
  BY <1>7 DEF RestartFailed
<1> QED
  BY <1>1, <1>2, <1>3, <1>4, <1>5, <1>6, <1>7, <1>8 DEF StartWork

LEMMA StopTypes ==
  ASSUME TypeOK, NEW t \in Call, Begin(t) \/ StopWork(t)
  PROVE  TypeOK'
<1> USE ConstantsAssumption, Tasks
    DEF TypeOK, Status, StartStep, StopStep, ReadStep, Goto, Finish,
        StopReturnsTo, manager, tasks, pipes
<1>1. CASE Begin(t)
  BY <1>1 DEF Begin
<1>2. CASE Stop(t)
  BY <1>2 DEF Stop
<1>3. CASE RequestStop(t)
  <2>1. status' \in Status /\ stopRequested' \in BOOLEAN
    BY <1>3 DEF RequestStop
  <2>2. Watched \in Process \cup {NoProcess}
    BY DEF Watched
  <2>3. pc' \in [Task -> {"idle"} \cup StartStep \cup StopStep \cup ReadStep]
    BY <1>3 DEF RequestStop
  <2>4. held' \in [Task -> Process \cup {NoProcess}]
    BY <1>3, <2>2 DEF RequestStop
  <2>5. restarting' \in SUBSET Call
    BY <1>3 DEF RequestStop
  <2> QED
    BY <1>3, <2>1, <2>3, <2>4, <2>5 DEF RequestStop
<1>4. CASE Wait(t)
  BY <1>4 DEF Wait, Poll, HasStopped
<1>5. CASE Kill(t)
  BY <1>5 DEF Kill, DeadAfterKill
<1>6. CASE Reset(t)
  BY <1>6 DEF Reset
<1>7. CASE StartAgain(t)
  BY <1>7 DEF StartAgain
<1>8. CASE RequestWaits(t)
  BY <1>8 DEF RequestWaits
<1> QED
  BY <1>1, <1>2, <1>3, <1>4, <1>5, <1>6, <1>7, <1>8 DEF StopWork

LEMMA ReadTypes ==
  ASSUME TypeOK, NEW p \in Process, ReadWork(p) \/ ProcessWork(p)
  PROVE  TypeOK'
<1> USE ConstantsAssumption, Tasks
    DEF TypeOK, Status, StartStep, StopStep, ReadStep, Goto, manager, tasks, pipes
<1>1. CASE EndOfStream(p)
  BY <1>1 DEF EndOfStream, CapturedAtEnd
<1>2. CASE Clear(p)
  BY <1>2 DEF Clear, Cleared
<1>3. CASE Decide(p)
  BY <1>3 DEF Decide, MayRestart
<1>4. CASE Wake(p)
  BY <1>4 DEF Wake
<1>5. CASE ReadDone(p)
  BY <1>5 DEF ReadDone
<1>6. CASE Exit(p)
  BY <1>6 DEF Exit
<1>7. CASE ReadError(p)
  BY <1>7 DEF ReadError, CapturedAtEnd
<1>8. CASE Listen(p) \/ Hang(p)
  BY <1>8 DEF Listen, Hang
<1> QED
  BY <1>1, <1>2, <1>3, <1>4, <1>5, <1>6, <1>7, <1>8 DEF ReadWork, ProcessWork

LEMMA CommandTypes ==
  ASSUME TypeOK, Expire \/ Command \/ CommandFails
  PROVE  TypeOK'
  BY ConstantsAssumption DEF Expire, Command, CommandFails, TypeOK, manager, tasks, pipes

\* Every step keeps the types.
LEMMA NextTypes == TypeOK /\ [Next]_vars => TypeOK'
<1> SUFFICES ASSUME TypeOK, [Next]_vars PROVE TypeOK'
  OBVIOUS
<1>1. CASE \E t \in Task : StartWork(t)
  BY <1>1, StartTypes
<1>2. CASE \E t \in Call : Begin(t) \/ StopWork(t)
  BY <1>2, StopTypes
<1>3. CASE \E p \in Process : ReadWork(p) \/ ProcessWork(p)
  BY <1>3, ReadTypes
<1>4. CASE Expire \/ Command \/ CommandFails
  BY <1>4, CommandTypes
<1>5. CASE UNCHANGED vars
  BY <1>5 DEF vars, manager, tasks, pipes, TypeOK
<1> QED
  BY <1>1, <1>2, <1>3, <1>4, <1>5 DEF Next

-----------------------------------------------------------------------------
(***************************************************************************)
(* The rest of the invariant depends on the processes, on who registers,   *)
(* and on who is idle or reads.                                            *)
(***************************************************************************)

\* What a step may do to a task without disturbing the invariant: nothing
\* comes to register, and nobody that was idle or reading is moved, unless it
\* is a call, or the reader of a process that ended or that it gave up on.
Quiet ==
    /\ \A t \in Task : pc'[t] = "register" => pc[t] = "register" /\ held'[t] = held[t]
    /\ \A p \in Process : pc[p] = "idle" <=> pc'[p] = "idle"
    /\ \A p \in Process : pc[p] = "read" /\ Known(p)' => pc'[p] = "read"
    /\ \A p \in Process : pc'[p] = "read" => pc[p] = "read"
    /\ \A t \in Task : pc[t] = "register" => pc'[t] = "register"
    /\ \A p \in Process : process[p] = "unborn" \/ process'[p] # "unborn"
    /\ \A p \in Process : Known(p)' => Known(p)
    /\ \A p \in Process : p \in unread' => p \in unread \/ pc'[p] = "eof"

\* A quiet step keeps the invariant.
LEMMA QuietKeeps ==
  ASSUME Inv, Quiet, TypeOK'
  PROVE  Inv'
<1>1. RegistersItsOwn'
  BY Tasks DEF Inv, Quiet, RegistersItsOwn
<1>2. UnbornIsUnread'
  BY DEF Inv, Quiet, UnbornIsUnread
<1>3. EveryServerIsWatched'
  <2> SUFFICES ASSUME NEW p \in Process, Known(p)'
               PROVE  pc'[p] = "read" \/ \E t \in Task : pc'[t] = "register" /\ held'[t] = p
    BY DEF EveryServerIsWatched
  <2>1. Known(p)
    BY DEF Quiet
  <2>2. CASE pc[p] = "read"
    BY <2>1, <2>2 DEF Quiet
  <2>3. CASE \E t \in Task : pc[t] = "register" /\ held[t] = p
    BY <2>3 DEF Quiet
  <2> QED
    BY <2>1, <2>2, <2>3 DEF Inv, EveryServerIsWatched
<1>4. GaveUpIsGone'
  BY DEF Inv, TypeOK, Quiet, GaveUpIsGone
<1> QED
  BY <1>1, <1>2, <1>3, <1>4 DEF Inv

\* The processes only leave a state for a later one.
Grow ==
    /\ \A p \in Process : process[p] = "unborn" \/ process'[p] # "unborn"
    /\ \A p \in Process : Known(p)' => Known(p)
    /\ \A p \in Process : p \in unread' => p \in unread \/ pc'[p] = "eof"

\* A task that is neither idle nor registering nor reading a known process moves
\* to a step of the same kind: the step is quiet.
LEMMA MoveIsQuiet ==
  ASSUME Grow, NEW t \in Task,
         pc[t] # "register", pc'[t] # "register",
         t \in Process => /\ pc[t] # "idle" /\ pc'[t] \notin {"idle", "read"}
                          /\ pc[t] = "read" => ~Known(t)',
         \A u \in Task \ {t} : pc'[u] = pc[u] /\ held'[u] = held[u]
  PROVE  Quiet
  BY Tasks DEF Quiet, Grow

\* A step that moves no task is quiet.
LEMMA StillIsQuiet ==
  ASSUME Grow, UNCHANGED <<pc, held>>
  PROVE  Quiet
  BY DEF Quiet, Grow

\* The steps of a start but Spawn and Register.
LEMMA StartIsQuiet ==
  ASSUME Inv, NEW t \in Task, StartWork(t), ~Spawn(t), ~Register(t)
  PROVE  Quiet
<1> USE Tasks DEF Inv, TypeOK, Goto, Finish, GiveUp, tasks, manager, pipes
<1>1. Grow
  <2>1. CASE Launch(t)
    BY <2>1 DEF Launch, Cleanup, Grow, Known, Alive
  <2>2. CASE ~Launch(t)
    BY <2>2 DEF StartWork, CanStart, IsStopped, MarkStarting, StartFailed, RestartFailed,
                Grow, Known, Alive
  <2> QED
    BY <2>1, <2>2
<1>2. pc[t] \in StartStep \ {"register"} /\ pc'[t] # "register"
  BY DEF StartWork, CanStart, IsStopped, MarkStarting, Launch, StartFailed, RestartFailed,
         StartStep
<1>3. t \in Process => pc'[t] \notin {"idle", "read"}
  BY ConstantsAssumption
  DEF StartWork, CanStart, IsStopped, MarkStarting, Launch, StartFailed, RestartFailed
<1>4. \A u \in Task \ {t} : pc'[u] = pc[u] /\ held'[u] = held[u]
  BY DEF StartWork, CanStart, IsStopped, MarkStarting, Launch, StartFailed, RestartFailed
<1> QED
  BY <1>1, <1>2, <1>3, <1>4, MoveIsQuiet DEF StartStep

\* The steps of a stop.
LEMMA StopIsQuiet ==
  ASSUME Inv, NEW t \in Call, Begin(t) \/ StopWork(t)
  PROVE  Quiet
<1> USE Tasks DEF Inv, TypeOK, Goto, Finish, StopReturnsTo, tasks, manager, pipes
<1>1. Grow
  BY DEF Begin, StopWork, Stop, RequestStop, RequestWaits, Wait, Kill, DeadAfterKill, Reset, StartAgain,
         Grow, Known, Alive
<1>2. pc[t] # "register" /\ pc'[t] # "register"
  BY DEF Begin, StopWork, Stop, RequestStop, RequestWaits, Wait, Poll, Kill, Reset, StartAgain
<1>3. t \notin Process
  BY ConstantsAssumption
<1>4. \A u \in Task \ {t} : pc'[u] = pc[u] /\ held'[u] = held[u]
  BY DEF Begin, StopWork, Stop, RequestStop, RequestWaits, Wait, Poll, Kill, Reset, StartAgain
<1> QED
  BY <1>1, <1>2, <1>3, <1>4, MoveIsQuiet

\* The steps of a reader and of its process.
LEMMA ReadIsQuiet ==
  ASSUME Inv, NEW p \in Process, ReadWork(p) \/ ProcessWork(p)
  PROVE  Quiet
<1> USE Tasks DEF Inv, TypeOK, Goto, tasks, manager, pipes
<1>1. CASE ReadWork(p) \/ ReadError(p)
  <2>1. Grow
    BY <1>1 DEF ReadWork, EndOfStream, ReadError, Clear, Decide, Wake, Grow, Known, Alive
  <2>2. /\ pc[p] \notin {"register", "idle"} /\ pc'[p] \notin {"register", "idle", "read"}
        /\ pc[p] = "read" => ~Known(p)'
    BY <1>1 DEF ReadWork, EndOfStream, ReadError, Clear, Decide, Wake, Known, Alive
  <2>3. \A u \in Task \ {p} : pc'[u] = pc[u] /\ held'[u] = held[u]
    BY <1>1 DEF ReadWork, EndOfStream, ReadError, Clear, Decide, Wake
  <2> QED
    BY <2>1, <2>2, <2>3, MoveIsQuiet
<1>2. CASE Listen(p) \/ ReadDone(p) \/ Exit(p) \/ Hang(p)
  <2>1. Grow
    BY <1>2 DEF Listen, ReadDone, Exit, Hang, Grow, Known, Alive
  <2>2. UNCHANGED <<pc, held>>
    BY <1>2 DEF Listen, ReadDone, Exit, Hang
  <2> QED
    BY <2>1, <2>2, StillIsQuiet
<1> QED
  BY <1>1, <1>2 DEF ProcessWork

-----------------------------------------------------------------------------
(***************************************************************************)
(* The two steps that are not quiet: a process is spawned, and gets its    *)
(* reader.                                                                 *)
(***************************************************************************)
LEMMA SpawnKeeps ==
  ASSUME Inv, TypeOK', NEW t \in Task, Spawn(t)
  PROVE  Inv'
<1> USE Tasks DEF Inv, TypeOK, Goto, pipes
<1>1. CASE Goto(t, "failed") /\ UNCHANGED <<process, held>>
  <2>1. Quiet
    <3>1. Grow /\ pc[t] = "spawn" /\ pc'[t] = "failed"
      BY <1>1 DEF Spawn, Grow, Known, Alive
    <3>2. \A u \in Task \ {t} : pc'[u] = pc[u] /\ held'[u] = held[u]
      BY <1>1
    <3> QED
      BY <3>1, <3>2, MoveIsQuiet
  <2> QED
    BY <2>1, QuietKeeps
<1>2. CASE \E p \in Process : /\ process[p] = "unborn"
                              /\ process' = [process EXCEPT ![p] = "booting"]
                              /\ held' = [held EXCEPT ![t] = p]
                              /\ Goto(t, "register")
  <2>1. PICK p \in Process : /\ process[p] = "unborn"
                             /\ process' = [process EXCEPT ![p] = "booting"]
                             /\ held' = [held EXCEPT ![t] = p]
                             /\ pc' = [pc EXCEPT ![t] = "register"]
    BY <1>2
  <2>2. pc[t] = "spawn" /\ pc[p] = "idle" /\ p # t
    BY <2>1 DEF Spawn, UnbornIsUnread
  <2>3. \A u \in Task : pc[u] = "register" => held[u] # p
    BY <2>1 DEF RegistersItsOwn
  <2>4. pc'[t] = "register" /\ held'[t] = p /\ process'[p] = "booting"
    BY <2>1
  <2>5. \A u \in Task \ {t} : pc'[u] = pc[u] /\ held'[u] = held[u]
    BY <2>1
  <2>6. \A q \in Process \ {p} : process'[q] = process[q]
    BY <2>1
  <2>7. RegistersItsOwn'
    <3>1. ASSUME NEW u \in Task, pc'[u] = "register"
          PROVE  held'[u] \in Process /\ process'[held'[u]] # "unborn" /\ pc'[held'[u]] = "idle"
      <4>1. CASE u = t
        BY <2>2, <2>4, <2>5, <4>1
      <4>2. CASE u # t
        <5>1. pc[u] = "register" /\ held'[u] = held[u] /\ held[u] # p
          BY <2>3, <2>5, <3>1, <4>2
        <5>2. held[u] \in Process /\ process[held[u]] # "unborn" /\ pc[held[u]] = "idle"
          BY <5>1 DEF RegistersItsOwn
        <5> QED
          BY <2>2, <2>5, <2>6, <5>1, <5>2
      <4> QED
        BY <4>1, <4>2
    <3>2. ASSUME NEW u \in Task, NEW v \in Task,
                 pc'[u] = "register", pc'[v] = "register", held'[u] = held'[v]
          PROVE  u = v
      BY <2>3, <2>4, <2>5, <3>2 DEF RegistersItsOwn
    <3> QED
      BY <3>1, <3>2 DEF RegistersItsOwn
  <2>8. UnbornIsUnread'
    BY <2>2, <2>4, <2>5, <2>6 DEF UnbornIsUnread
  <2>9. EveryServerIsWatched'
    <3> SUFFICES ASSUME NEW q \in Process, Known(q)'
                 PROVE  pc'[q] = "read" \/ \E u \in Task : pc'[u] = "register" /\ held'[u] = q
      BY DEF EveryServerIsWatched
    <3>1. CASE q = p
      BY <2>4, <3>1
    <3>2. CASE q # p
      <4>1. Known(q)
        BY <2>6, <3>2 DEF Spawn, Known, Alive
      <4>2. CASE pc[q] = "read"
        BY <2>2, <2>5, <4>2
      <4>3. ASSUME NEW u \in Task, pc[u] = "register", held[u] = q PROVE pc'[u] = "register" /\ held'[u] = q
        BY <2>2, <2>5, <4>3
      <4> QED
        BY <4>1, <4>2, <4>3 DEF EveryServerIsWatched
    <3> QED
      BY <3>1, <3>2
  <2>10. GaveUpIsGone'
    BY <2>2, <2>4, <2>5 DEF Spawn, GaveUpIsGone
  <2> QED
    BY <2>7, <2>8, <2>9, <2>10
<1> QED
  BY <1>1, <1>2 DEF Spawn

LEMMA RegisterKeeps ==
  ASSUME Inv, TypeOK', NEW t \in Task, Register(t)
  PROVE  Inv'
<1> DEFINE p == held[t]
<1> USE Tasks DEF Inv, TypeOK, pipes
<1>1. p \in Process /\ process[p] # "unborn" /\ pc[p] = "idle" /\ pc[t] = "register" /\ p # t
  BY DEF Register, RegistersItsOwn
<1>2. pc'[p] = "read" /\ pc'[t] \in {"idle", "done"} /\ (t \in Process => pc'[t] = "done")
  BY <1>1, ConstantsAssumption DEF Register, WithReader
<1>3. \A u \in Task \ {t, p} : pc'[u] = pc[u] /\ held'[u] = held[u]
  BY <1>1 DEF Register, WithReader
<1>4. process' = process
  BY DEF Register
<1>5. \A u \in Task \ {t} : pc[u] = "register" => held[u] # p /\ held[u] # t
  BY <1>1 DEF RegistersItsOwn
<1>6. RegistersItsOwn'
  <2>1. ASSUME NEW u \in Task, pc'[u] = "register"
        PROVE  /\ pc[u] = "register" /\ held'[u] = held[u]
               /\ held[u] \in Process /\ process'[held[u]] # "unborn" /\ pc'[held[u]] = "idle"
    <3>1. u \notin {t, p} /\ pc[u] = "register" /\ held'[u] = held[u]
      BY <1>2, <1>3, <2>1
    <3>2. held[u] \in Process /\ process[held[u]] # "unborn" /\ pc[held[u]] = "idle"
      BY <3>1 DEF RegistersItsOwn
    <3>3. held[u] \notin {t, p}
      BY <1>5, <3>1
    <3> QED
      BY <1>3, <1>4, <3>1, <3>2, <3>3
  <2>2. ASSUME NEW u \in Task, NEW v \in Task,
               pc'[u] = "register", pc'[v] = "register", held'[u] = held'[v]
        PROVE  u = v
    BY <2>1, <2>2 DEF RegistersItsOwn
  <2> QED
    BY <2>1, <2>2 DEF RegistersItsOwn
<1>7. UnbornIsUnread'
  BY <1>1, <1>2, <1>3, <1>4 DEF UnbornIsUnread
<1>8. EveryServerIsWatched'
  <2> SUFFICES ASSUME NEW q \in Process, Known(q)'
               PROVE  pc'[q] = "read" \/ \E u \in Task : pc'[u] = "register" /\ held'[u] = q
    BY DEF EveryServerIsWatched
  <2>1. CASE q = p
    BY <1>2, <2>1
  <2>2. CASE q # p
    <3>1. Known(q)
      BY <1>4 DEF Register, Known, Alive
    <3>2. CASE pc[q] = "read"
      BY <1>1, <1>3, <2>2, <3>2
    <3>3. ASSUME NEW u \in Task, pc[u] = "register", held[u] = q
          PROVE  pc'[u] = "register" /\ held'[u] = q
      BY <1>1, <1>3, <2>2, <3>3
    <3> QED
      BY <3>1, <3>2, <3>3 DEF EveryServerIsWatched
  <2> QED
    BY <2>1, <2>2
<1>9. GaveUpIsGone'
  BY <1>1, <1>2, <1>3 DEF Register, GaveUpIsGone
<1> QED
  BY <1>6, <1>7, <1>8, <1>9

\* Every step keeps the invariant.
LEMMA NextInv == Inv /\ [Next]_vars => Inv'
<1> SUFFICES ASSUME Inv, [Next]_vars PROVE Inv'
  OBVIOUS
<1>0. TypeOK'
  BY NextTypes DEF Inv
<1>1. CASE \E t \in Task : StartWork(t)
  BY <1>0, <1>1, SpawnKeeps, RegisterKeeps, StartIsQuiet, QuietKeeps
<1>2. CASE \E t \in Call : Begin(t) \/ StopWork(t)
  BY <1>0, <1>2, StopIsQuiet, QuietKeeps
<1>3. CASE \E p \in Process : ReadWork(p) \/ ProcessWork(p)
  BY <1>0, <1>3, ReadIsQuiet, QuietKeeps
<1>4. CASE Expire \/ Command \/ CommandFails \/ UNCHANGED vars
  <2>1. UNCHANGED <<pc, held, process, unread>>
    BY <1>4 DEF Expire, Command, CommandFails, vars, tasks, pipes
  <2>2. Grow
    BY <2>1 DEF Grow, Known, Alive
  <2> QED
    BY <1>0, <2>1, <2>2, StillIsQuiet, QuietKeeps
<1> QED
  BY <1>1, <1>2, <1>3, <1>4 DEF Next

-----------------------------------------------------------------------------
\* The invariant holds throughout.
THEOREM Invariance == Spec => []Inv
<1>1. Init => Inv
  BY InitInv
<1>2. Inv /\ [Next]_vars => Inv'
  BY NextInv
<1> QED
  BY <1>1, <1>2, PTL DEF Spec

\* Every variable of the server's life keeps its type, the count of automatic
\* restarts in the window (at most MAX_RESTARTS_IN_WINDOW) among them.
THEOREM TypeCorrect == Spec => []TypeOK
<1>1. Inv => TypeOK
  BY DEF Inv
<1> QED
  BY <1>1, Invariance, PTL

\* Every game server that runs has a reader that will notice its end, or a
\* task that is about to start it, however calls and restarts interleave.
THEOREM ServersAreWatched == Spec => []EveryServerIsWatched
<1>1. Inv => EveryServerIsWatched
  BY DEF Inv
<1> QED
  BY <1>1, Invariance, PTL

-----------------------------------------------------------------------------
(***************************************************************************)
(* One server and a true status, when calls do not overlap (the host's     *)
(* OperationGuard) and come, like exits and timers, only when no task has  *)
(* work left.  Any number of processes, restarts and generations.          *)
(*                                                                         *)
(* Without the first assumption two starts pass the check of the status    *)
(* (server.rs:187), and without the second a start meets the report of an  *)
(* exit that nobody has read yet.                                          *)
(***************************************************************************)

\* The steps in which a task looks at the manager and decides; the others wait for
\* time to pass, for output, or for a download.
Deciding == {"canStart", "isStopped", "mark", "launch", "register", "failed", "restartFailed",
             "stop", "request", "reset"}
Spawning == {"launch", "spawn", "register"}
Waiting == {"wait", "kill", "reset", "pause"}

NoServer == \A p \in Process : ~Known(p)
NoStart == \A t \in Task : pc[t] \notin Spawning

\* A reader that has the end of its process to report, or has just reported it.
Reports(p) == pc[p] = "eof" \/ (pc[p] = "read" /\ process[p] = "dead")

\* Calls do not overlap, one task decides at a time, and none while a reader reports,
\* but for the end of a server that a call has killed, or that has kept a call in its
\* write, with the mutex.
OneCall == \A t, u \in Call : pc[t] # "idle" /\ pc[u] # "idle" => t = u
OneDecides == \A t, u \in Task : pc[t] \in Deciding /\ pc[u] \in Deciding => t = u
DecidesAlone ==
    \A t \in Task : pc[t] \in Deciding \ {"reset"} =>
        \A p \in Process : pc[p] \notin {"eof", "cleared"} /\ (Reports(p) => t = holder)

\* A call that keeps the mutex asks the server there is to stop.
HolderAsks ==
    holder \in Call => /\ pc[holder] = "request" /\ stopRequested
                       /\ status \in {"Running", "Starting"} /\ pid # NoProcess

\* One start at a time, and no server with it but its own.
OneStart == \A t, u \in Task : pc[t] \in Spawning /\ pc[u] \in Spawning => t = u
StartsAlone ==
    \A t \in Task :
        /\ pc[t] \in {"launch", "spawn"} => NoServer
        /\ pc[t] = "register" =>
              Known(held[t]) /\ \A p \in Process : Known(p) => p = held[t]
        /\ pc[t] \in Spawning => pid = NoProcess /\ status \in {"Starting", "Stopping"}

\* What the status says of the processes.
DownIsDown == status \in {"Stopped", "Error"} => NoServer /\ pid = NoProcess
RunningIsRead ==
    status = "Running" => /\ pid # NoProcess /\ pidFile = pid
                          /\ pc[pid] \in {"read", "eof"}
StoppingIsAsked == status = "Stopping" => stopRequested

\* What a task that decides knows of the status.
DecidesRightly ==
    \A t \in Task :
        /\ pc[t] = "idle" => t \notin restarting
        /\ pc[t] = "isStopped" => status \in {"Stopped", "Error"}
        /\ pc[t] = "mark" => status = "Stopped"
        /\ pc[t] = "failed" => NoServer /\ NoStart
        /\ pc[t] = "restartFailed" => status # "Starting"
        /\ pc[t] = "canStart" /\ t \in restarting => status # "Starting"
        /\ pc[t] = "request" /\ t \in restarting => status # "Stopped"

\* What a reader knows of its process, and when it may restart it.
ReaderKnows ==
    \A p \in Process :
        /\ pc[p] = "read" /\ Known(p) => pid = p /\ pidFile = p
        /\ Reports(p) => NoServer /\ NoStart
        /\ captured[p].generation <= generation
        /\ pc[p] \in {"cleared", "sleep"} /\ StillCurrent(p) => status = "Stopped"

\* While a call waits for a server to end, nothing starts one.
WaitsAlone ==
    \A t \in Call : pc[t] \in Waiting =>
        /\ status # "Starting"
        /\ stopRequested \/ \A p \in Process : pc[p] # "read"
        /\ \A p \in Process :
              /\ pc[p] \notin {"canStart", "isStopped", "mark", "launch"}
              /\ pc[p] = "sleep" => ~StillCurrent(p)
              /\ pc[p] \in {"eof", "cleared"} => ~captured[p].unexpected \/ ~StillCurrent(p)

\* A call kills the server there is.
KillsTheServer ==
    \A t \in Call :
        /\ pc[t] \in {"kill", "reset"} => NoStart
        /\ pc[t] = "kill" => \A p \in Process : Known(p) => p = held[t]
        /\ pc[t] = "reset" => NoServer

GInv ==
    /\ OneCall /\ OneDecides /\ DecidesAlone /\ HolderAsks
    /\ OneStart /\ StartsAlone
    /\ DownIsDown /\ RunningIsRead /\ StoppingIsAsked
    /\ DecidesRightly /\ ReaderKnows
    /\ WaitsAlone /\ KillsTheServer

-----------------------------------------------------------------------------
\* The invariant holds at the start.
LEMMA InitGuarded == Init => GInv
<1> SUFFICES ASSUME Init PROVE GInv
  OBVIOUS
<1>1. \A t \in Task : pc[t] = "idle" /\ t \notin restarting
  BY DEF Init
<1>2. \A p \in Process : p \in Task /\ pc[p] = "idle" /\ process[p] = "unborn"
  BY <1>1, Tasks DEF Init
<1>3. \A t \in Call : t \in Task /\ pc[t] = "idle"
  BY <1>1, Tasks
<1>4. status = "Stopped" /\ pid = NoProcess /\ generation = 0
  BY DEF Init
<1>5. \A p \in Process : captured[p].generation <= generation
  BY DEF Init
<1>6. OneCall /\ OneDecides /\ DecidesAlone /\ OneStart /\ StartsAlone
  BY <1>1, <1>3 DEF OneCall, OneDecides, DecidesAlone, Deciding, OneStart,
      StartsAlone, Spawning
<1>7. DownIsDown /\ RunningIsRead /\ StoppingIsAsked
  BY <1>2, <1>4 DEF DownIsDown, RunningIsRead, StoppingIsAsked, NoServer, Known, Alive
<1>8. DecidesRightly
  BY <1>1 DEF DecidesRightly
<1>9. ReaderKnows
  BY <1>2, <1>5 DEF ReaderKnows, Reports
<1>10. WaitsAlone /\ KillsTheServer
  BY <1>3 DEF WaitsAlone, Waiting, KillsTheServer
<1>11. HolderAsks
  BY ConstantsAssumption DEF Init, HolderAsks
<1> QED
  BY <1>6, <1>7, <1>8, <1>9, <1>10, <1>11 DEF GInv

\* While time passes, no task decides but a call that waits in its write.
LEMMA LaterIsQuiet ==
  ASSUME Prompt = TRUE, TypeOK, Later, NEW u \in Task, pc[u] \in Deciding
  PROVE  u = holder /\ u \in Call
<1>1. ~Runnable(u)
  BY DEF Later
<1>2. u = holder
  BY <1>1 DEF Runnable, Deciding
<1> QED
  BY <1>2, Tasks, ConstantsAssumption DEF TypeOK

\* start_server looks at the status.
LEMMA CanStartGuarded ==
  ASSUME Overlap = FALSE, Prompt = TRUE, Inv, Inv', GInv, NEW t \in Task, CanStart(t)
  PROVE  GInv'
<1> USE Tasks, ConstantsAssumption DEF Inv, GInv, TypeOK, pipes, CanStart, GiveUp, Finish,
        Goto, manager
<1>1. OneCall'
  BY DEF OneCall
<1>2. OneDecides'
  BY DEF OneDecides, Deciding
<1>3. DecidesAlone'
  BY DEF DecidesAlone, Deciding, Reports
<1>4. OneStart'
  BY DEF OneStart, Spawning
<1>5. StartsAlone'
  BY DEF StartsAlone, Spawning, NoServer, Known, Alive
<1>6. DownIsDown'
  BY DEF DownIsDown, NoServer, Known, Alive
<1>7. RunningIsRead'
  BY DEF RunningIsRead
<1>8. StoppingIsAsked'
  BY DEF StoppingIsAsked
<1>9. DecidesRightly'
  BY DEF DecidesRightly, NoServer, NoStart, Spawning, Known, Alive
<1>10. ReaderKnows'
  BY DEF ReaderKnows, Reports, NoServer, NoStart, Spawning, Known, Alive, StillCurrent
<1>11. WaitsAlone'
  BY DEF WaitsAlone, Waiting, StillCurrent
<1>12. KillsTheServer'
  BY DEF KillsTheServer, NoServer, NoStart, Spawning, Known, Alive
<1>13. HolderAsks'
  BY DEF HolderAsks, Free
<1> QED
  BY <1>1, <1>2, <1>3, <1>4, <1>5, <1>6, <1>7, <1>8, <1>9, <1>10, <1>11, <1>12, <1>13

\* do_start_server looks again.
LEMMA IsStoppedGuarded ==
  ASSUME Overlap = FALSE, Prompt = TRUE, Inv, Inv', GInv, NEW t \in Task, IsStopped(t)
  PROVE  GInv'
<1> USE Tasks, ConstantsAssumption DEF Inv, GInv, TypeOK, pipes, IsStopped, Goto, manager
<1>1. OneCall'
  BY DEF OneCall
<1>2. OneDecides'
  BY DEF OneDecides, Deciding
<1>3. DecidesAlone'
  BY DEF DecidesAlone, Deciding, Reports
<1>4. OneStart'
  BY DEF OneStart, Spawning
<1>5. StartsAlone'
  BY DEF StartsAlone, Spawning, NoServer, Known, Alive
<1>6. DownIsDown'
  BY DEF DownIsDown, NoServer, Known, Alive
<1>7. RunningIsRead'
  BY DEF RunningIsRead
<1>8. StoppingIsAsked'
  BY DEF StoppingIsAsked
<1>9. DecidesRightly'
  BY DEF StartsAlone, DownIsDown, DecidesRightly, Spawning, NoServer, Known, Alive, NoStart
<1>10. ReaderKnows'
  BY DEF ReaderKnows, Reports, NoServer, NoStart, Spawning, Known, Alive, StillCurrent
<1>11. WaitsAlone'
  BY DEF WaitsAlone, Waiting, StillCurrent
<1>12. KillsTheServer'
  BY DEF KillsTheServer, NoServer, NoStart, Spawning, Known, Alive
<1>13. HolderAsks'
  BY DEF HolderAsks, Free
<1> QED
  BY <1>1, <1>2, <1>3, <1>4, <1>5, <1>6, <1>7, <1>8, <1>9, <1>10, <1>11, <1>12, <1>13

\* The start is marked: no server runs, and nobody else decides.
LEMMA MarkStartingGuarded ==
  ASSUME Overlap = FALSE, Prompt = TRUE, Inv, Inv', GInv, NEW t \in Task, MarkStarting(t)
  PROVE  GInv'
<1> USE Tasks, ConstantsAssumption DEF Inv, GInv, TypeOK, pipes, MarkStarting, Goto
<1>1. OneCall'
  BY DEF OneCall
<1>2. OneDecides'
  BY DEF OneDecides, Deciding
<1>3. DecidesAlone'
  BY DEF DecidesAlone, Deciding, Reports
<1>4. OneStart'
  BY DEF OneStart, StartsAlone, DecidesRightly, Spawning, NoServer, Known, Alive, NoStart
<1>5. StartsAlone'
  BY DEF StartsAlone, DownIsDown, DecidesRightly, Spawning, NoServer, Known, Alive, NoStart
<1>6. DownIsDown'
  BY DEF DownIsDown, NoServer, Known, Alive
<1>7. RunningIsRead'
  BY DEF RunningIsRead
<1>8. StoppingIsAsked'
  BY DEF StoppingIsAsked
<1>9. DecidesRightly'
  BY DEF OneDecides, DecidesRightly, Deciding, NoServer, NoStart, Spawning, Known, Alive
<1>10. ReaderKnows'
  BY DEF Free, DecidesAlone, ReaderKnows, Deciding, Reports, NoServer, NoStart, Spawning,
      Known, Alive, StillCurrent
<1>11. WaitsAlone'
  BY DEF OneCall, WaitsAlone, Waiting, StillCurrent
<1>12. KillsTheServer'
  BY DEF OneCall, WaitsAlone, KillsTheServer, Waiting, StillCurrent, NoServer,
      NoStart, Spawning, Known, Alive
<1>13. HolderAsks'
  BY DEF HolderAsks, Free
<1> QED
  BY <1>1, <1>2, <1>3, <1>4, <1>5, <1>6, <1>7, <1>8, <1>9, <1>10, <1>11, <1>12, <1>13

\* The launch kills the process a stale session.lock names; there is none alive.
LEMMA LaunchGuarded ==
  ASSUME Overlap = FALSE, Prompt = TRUE, Inv, Inv', GInv, NEW t \in Task, Launch(t)
  PROVE  GInv'
<1> USE Tasks, ConstantsAssumption DEF Inv, GInv, TypeOK, pipes, Launch, Cleanup, Goto, manager
<1>1. OneCall'
  BY DEF OneCall
<1>2. OneDecides'
  BY DEF OneDecides, Deciding
<1>3. DecidesAlone'
  BY DEF OneDecides, DecidesAlone, Deciding, Reports
<1>4. OneStart'
  BY DEF OneStart, Spawning
<1>5. StartsAlone'
  BY DEF StartsAlone, RegistersItsOwn, Spawning, NoServer, Known, Alive
<1>6. DownIsDown'
  BY DEF DownIsDown, NoServer, Known, Alive
<1>7. RunningIsRead'
  BY DEF StartsAlone, RunningIsRead, Spawning, NoServer, Known, Alive
<1>8. StoppingIsAsked'
  BY DEF StoppingIsAsked
<1>9. DecidesRightly'
  BY DEF OneStart, StartsAlone, DecidesRightly, Spawning, NoServer, Known, Alive, NoStart
<1>10. ReaderKnows'
  BY DEF StartsAlone, ReaderKnows, UnbornIsUnread, GaveUpIsGone, Spawning, NoServer, Known, Alive, Reports,
      NoStart, StillCurrent
<1>11. WaitsAlone'
  BY DEF WaitsAlone, Waiting, StillCurrent
<1>12. KillsTheServer'
  BY DEF KillsTheServer, NoServer, NoStart, Spawning, Known, Alive
<1>13. HolderAsks'
  BY DEF HolderAsks, Free
<1> QED
  BY <1>1, <1>2, <1>3, <1>4, <1>5, <1>6, <1>7, <1>8, <1>9, <1>10, <1>11, <1>12, <1>13

\* The only server there is is the one just spawned.
LEMMA SpawnGuarded ==
  ASSUME Overlap = FALSE, Prompt = TRUE, Inv, Inv', GInv, NEW t \in Task, Spawn(t)
  PROVE  GInv'
<1> USE Tasks, ConstantsAssumption DEF Inv, GInv, TypeOK, pipes, Spawn, Later, Runnable,
        Goto, manager
<1>1. OneCall'
  BY DEF OneCall
<1>2. OneDecides'
  BY LaterIsQuiet DEF StartsAlone, Spawning, HolderAsks, OneDecides, Deciding
<1>3. DecidesAlone'
  BY DEF DecidesAlone, Deciding, Reports
<1>4. OneStart'
  BY DEF OneStart, Spawning
<1>5. StartsAlone'
  BY DEF OneStart, StartsAlone, UnbornIsUnread, GaveUpIsGone, Spawning, NoServer, Known, Alive
<1>6. DownIsDown'
  BY DEF StartsAlone, DownIsDown, Spawning, NoServer, Known, Alive
<1>7. RunningIsRead'
  BY DEF RunningIsRead
<1>8. StoppingIsAsked'
  BY DEF StoppingIsAsked
<1>9. DecidesRightly'
  BY DEF OneStart, StartsAlone, DecidesRightly, Spawning, NoServer, Known, Alive, NoStart
<1>10. ReaderKnows'
  BY DEF ReaderKnows, UnbornIsUnread, Reports, NoServer, NoStart, Spawning, Known, Alive,
      StillCurrent
<1>11. WaitsAlone'
  BY DEF WaitsAlone, Waiting, StillCurrent
<1>12. KillsTheServer'
  BY DEF KillsTheServer, NoServer, NoStart, Spawning, Known, Alive
<1>13. HolderAsks'
  BY DEF HolderAsks, Free
<1> QED
  BY <1>1, <1>2, <1>3, <1>4, <1>5, <1>6, <1>7, <1>8, <1>9, <1>10, <1>11, <1>12, <1>13

\* The new server gets its reader.
LEMMA RegisterGuarded ==
  ASSUME Overlap = FALSE, Prompt = TRUE, Inv, Inv', GInv, NEW t \in Task, Register(t)
  PROVE  GInv'
<1> USE Tasks, ConstantsAssumption DEF Inv, GInv, TypeOK, pipes, Register, WithReader
<1>1. OneCall'
  BY DEF OneCall, RegistersItsOwn
<1>2. OneDecides'
  BY DEF OneDecides, Deciding
<1>3. DecidesAlone'
  BY DEF DecidesAlone, StartsAlone, Deciding, Reports, Spawning, NoServer, Known, Alive
<1>4. OneStart'
  BY DEF OneStart, Spawning
<1>5. StartsAlone'
  BY DEF StartsAlone, RegistersItsOwn, Spawning, NoServer, Known, Alive
<1>6. DownIsDown'
  BY DEF StartsAlone, DownIsDown, Spawning, NoServer, Known, Alive
<1>7. RunningIsRead'
  BY DEF RunningIsRead, RegistersItsOwn
<1>8. StoppingIsAsked'
  BY DEF StoppingIsAsked
<1>9. DecidesRightly'
  BY DEF DecidesRightly, NoServer, NoStart, Spawning, Known, Alive
<1>10. ReaderKnows'
  BY DEF StartsAlone, ReaderKnows, Spawning, NoServer, Known, Alive, Reports, NoStart,
      StillCurrent
<1>11. WaitsAlone'
  BY DEF StartsAlone, StoppingIsAsked, WaitsAlone, Spawning, NoServer, Known, Alive, Waiting,
      StillCurrent
<1>12. KillsTheServer'
  BY DEF KillsTheServer, NoServer, NoStart, Spawning, Known, Alive
<1>13. HolderAsks'
  BY DEF HolderAsks, Free
<1> QED
  BY <1>1, <1>2, <1>3, <1>4, <1>5, <1>6, <1>7, <1>8, <1>9, <1>10, <1>11, <1>12, <1>13

\* A start that failed leaves no process.
LEMMA StartFailedGuarded ==
  ASSUME Overlap = FALSE, Prompt = TRUE, Inv, Inv', GInv, NEW t \in Task, StartFailed(t)
  PROVE  GInv'
<1> USE Tasks, ConstantsAssumption DEF Inv, GInv, TypeOK, pipes, StartFailed, GiveUp, Finish,
        Goto
<1>1. OneCall'
  BY DEF OneCall
<1>2. OneDecides'
  BY DEF OneDecides, Deciding
<1>3. DecidesAlone'
  BY DEF DecidesAlone, Deciding, Reports
<1>4. OneStart'
  BY DEF OneStart, Spawning
<1>5. StartsAlone'
  BY DEF StartsAlone, DecidesRightly, Spawning, NoServer, Known, Alive, NoStart
<1>6. DownIsDown'
  BY DEF DownIsDown, DecidesRightly, NoServer, Known, Alive, NoStart, Spawning
<1>7. RunningIsRead'
  BY DEF RunningIsRead
<1>8. StoppingIsAsked'
  BY DEF StoppingIsAsked
<1>9. DecidesRightly'
  BY DEF DecidesRightly, NoServer, NoStart, Spawning, Known, Alive
<1>10. ReaderKnows'
  BY DEF DecidesRightly, ReaderKnows, NoServer, NoStart, Spawning, Known, Alive, Reports,
      StillCurrent
<1>11. WaitsAlone'
  BY DEF WaitsAlone, Waiting, StillCurrent
<1>12. KillsTheServer'
  BY DEF KillsTheServer, NoServer, NoStart, Spawning, Known, Alive
<1>13. HolderAsks'
  BY DEF HolderAsks, Free
<1> QED
  BY <1>1, <1>2, <1>3, <1>4, <1>5, <1>6, <1>7, <1>8, <1>9, <1>10, <1>11, <1>12, <1>13

\* A restart that failed leaves no process.
LEMMA RestartFailedGuarded ==
  ASSUME Overlap = FALSE, Prompt = TRUE, Inv, Inv', GInv, NEW t \in Task, RestartFailed(t)
  PROVE  GInv'
<1> USE Tasks, ConstantsAssumption DEF Inv, GInv, TypeOK, pipes, RestartFailed, Finish, Goto
<1>1. OneCall'
  BY DEF OneCall
<1>2. OneDecides'
  BY DEF OneDecides, Deciding
<1>3. DecidesAlone'
  BY DEF DecidesAlone, Deciding, Reports
<1>4. OneStart'
  BY DEF OneStart, Spawning
<1>5. StartsAlone'
  BY DEF StartsAlone, DecidesRightly, Spawning, NoServer, Known, Alive, NoStart
<1>6. DownIsDown'
  BY DEF DownIsDown, DecidesRightly, NoServer, Known, Alive, NoStart, Spawning
<1>7. RunningIsRead'
  BY DEF RunningIsRead
<1>8. StoppingIsAsked'
  BY DEF StoppingIsAsked
<1>9. DecidesRightly'
  BY DEF DecidesRightly, NoServer, NoStart, Spawning, Known, Alive
<1>10. ReaderKnows'
  BY DEF DecidesRightly, ReaderKnows, NoServer, NoStart, Spawning, Known, Alive, Reports,
      StillCurrent
<1>11. WaitsAlone'
  BY DEF WaitsAlone, Waiting, StillCurrent
<1>12. KillsTheServer'
  BY DEF KillsTheServer, NoServer, NoStart, Spawning, Known, Alive
<1>13. HolderAsks'
  BY DEF HolderAsks, Free
<1> QED
  BY <1>1, <1>2, <1>3, <1>4, <1>5, <1>6, <1>7, <1>8, <1>9, <1>10, <1>11, <1>12, <1>13

\* A call begins only when nothing else has work left.
LEMMA BeginGuarded ==
  ASSUME Overlap = FALSE, Prompt = TRUE, Inv, Inv', GInv, NEW t \in Call, Begin(t)
  PROVE  GInv'
<1> USE Tasks, ConstantsAssumption DEF Inv, GInv, TypeOK, pipes, Begin, Later, Runnable,
        Goto, manager
<1>1. OneCall'
  BY DEF OneCall
<1>2. OneDecides'
  BY DEF OneDecides, Deciding
<1>3. DecidesAlone'
  BY DEF DecidesAlone, Deciding, Reports
<1>4. OneStart'
  BY DEF OneStart, Spawning
<1>5. StartsAlone'
  BY DEF StartsAlone, Spawning, NoServer, Known, Alive
<1>6. DownIsDown'
  BY DEF DownIsDown, NoServer, Known, Alive
<1>7. RunningIsRead'
  BY DEF RunningIsRead
<1>8. StoppingIsAsked'
  BY DEF StoppingIsAsked
<1>9. DecidesRightly'
  BY DEF DecidesRightly, NoServer, NoStart, Spawning, Known, Alive
<1>10. ReaderKnows'
  BY DEF ReaderKnows, Reports, NoServer, NoStart, Spawning, Known, Alive, StillCurrent
<1>11. WaitsAlone'
  BY DEF WaitsAlone, Waiting, StillCurrent
<1>12. KillsTheServer'
  BY DEF KillsTheServer, NoServer, NoStart, Spawning, Known, Alive
<1>13. HolderAsks'
  BY DEF HolderAsks, Free
<1> QED
  BY <1>1, <1>2, <1>3, <1>4, <1>5, <1>6, <1>7, <1>8, <1>9, <1>10, <1>11, <1>12, <1>13

\* stop_server looks at the status.
LEMMA StopGuarded ==
  ASSUME Overlap = FALSE, Prompt = TRUE, Inv, Inv', GInv, NEW t \in Call, Stop(t)
  PROVE  GInv'
<1> USE Tasks, ConstantsAssumption DEF Inv, GInv, TypeOK, pipes, Stop, Finish, Goto, manager
<1>1. OneCall'
  BY DEF OneCall
<1>2. OneDecides'
  BY DEF OneDecides, Deciding
<1>3. DecidesAlone'
  BY DEF DecidesAlone, Deciding, Reports
<1>4. OneStart'
  BY DEF OneStart, Spawning
<1>5. StartsAlone'
  BY DEF StartsAlone, Spawning, NoServer, Known, Alive
<1>6. DownIsDown'
  BY DEF DownIsDown, NoServer, Known, Alive
<1>7. RunningIsRead'
  BY DEF RunningIsRead
<1>8. StoppingIsAsked'
  BY DEF StoppingIsAsked
<1>9. DecidesRightly'
  BY DEF DecidesRightly, NoServer, NoStart, Spawning, Known, Alive
<1>10. ReaderKnows'
  BY DEF ReaderKnows, Reports, NoServer, NoStart, Spawning, Known, Alive, StillCurrent
<1>11. WaitsAlone'
  BY DEF WaitsAlone, Waiting, StillCurrent
<1>12. KillsTheServer'
  BY DEF KillsTheServer, NoServer, NoStart, Spawning, Known, Alive
<1>13. HolderAsks'
  BY DEF HolderAsks, Free
<1> QED
  BY <1>1, <1>2, <1>3, <1>4, <1>5, <1>6, <1>7, <1>8, <1>9, <1>10, <1>11, <1>12, <1>13

\* A stop that waits, or a restart that pauses after it, is alone.
LEMMA RequestStopWaits ==
  ASSUME Overlap = FALSE, Prompt = TRUE, Inv, Inv', GInv, NEW t \in Call, RequestStop(t)
  PROVE  WaitsAlone'
<1> USE Tasks, ConstantsAssumption DEF Inv, GInv, TypeOK
<1>1. /\ pc[t] = "request"
      /\ pc' = [pc EXCEPT ![t] = pc'[t]]
      /\ pc'[t] \in {"idle", "wait", "pause"}
      /\ UNCHANGED <<generation, captured>>
  BY DEF RequestStop, StopReturnsTo, Finish, Goto
<1>2. \A u \in Call : pc'[u] \in Waiting => u = t
  BY <1>1 DEF OneCall, Waiting
<1>3. \A p \in Process : pc'[p] = pc[p]
  BY <1>1, ConstantsAssumption
<1> SUFFICES ASSUME pc'[t] \in Waiting
             PROVE  /\ status' # "Starting"
                    /\ stopRequested' \/ \A p \in Process : pc[p] # "read"
                    /\ \A p \in Process :
                          /\ pc[p] \notin {"canStart", "isStopped", "mark", "launch"}
                          /\ pc[p] = "sleep" => ~StillCurrent(p)
                          /\ pc[p] \notin {"eof", "cleared"}
  BY <1>1, <1>2, <1>3 DEF WaitsAlone, StillCurrent
<1>4. status # "Stopped"
  BY <1>1 DEF RequestStop, Watched, StopReturnsTo, Finish, Goto, DecidesRightly, Waiting
<1>5. status' # "Starting"
  BY DEF RequestStop
<1>6. stopRequested' \/ \A p \in Process : pc[p] # "read"
  <2>1. CASE status = "Error"
    <3>0. t # holder
      BY <2>1 DEF HolderAsks
    <3>1. \A p \in Process : ~Known(p) /\ ~Reports(p)
      BY <1>1, <2>1, <3>0 DEF DownIsDown, NoServer, DecidesAlone, Deciding
    <3>2. \A p \in Process : pc[p] = "read" => process[p] # "unborn" /\ p \notin unread
      BY DEF UnbornIsUnread, GaveUpIsGone
    <3> QED
      BY <3>1, <3>2 DEF Known, Alive, Reports
  <2>2. CASE status # "Error"
    BY <1>4, <2>2 DEF RequestStop, StoppingIsAsked, Status
  <2> QED
    BY <2>1, <2>2
<1>7. ASSUME NEW p \in Process
      PROVE  /\ pc[p] \notin {"canStart", "isStopped", "mark", "launch"}
             /\ pc[p] = "sleep" => ~StillCurrent(p)
             /\ pc[p] \notin {"eof", "cleared"}
  <2>1. pc[p] \notin {"canStart", "isStopped", "mark", "launch"}
    BY <1>1 DEF OneDecides, Deciding
  <2>2. pc[p] = "sleep" => ~StillCurrent(p)
    BY <1>4 DEF ReaderKnows
  <2>3. pc[p] \notin {"eof", "cleared"}
    BY <1>1 DEF DecidesAlone, Deciding, Reports
  <2> QED
    BY <2>1, <2>2, <2>3
<1> QED
  BY <1>5, <1>6, <1>7

\* The stop is requested.
LEMMA RequestStopGuarded ==
  ASSUME Overlap = FALSE, Prompt = TRUE, Inv, Inv', GInv, NEW t \in Call, RequestStop(t)
  PROVE  GInv'
<1> USE Tasks, ConstantsAssumption DEF Inv, GInv, TypeOK, pipes, RequestStop, Watched,
        StopReturnsTo, Finish, Goto
<1>1. OneCall'
  BY DEF OneCall
<1>2. OneDecides'
  BY DEF OneDecides, Deciding
<1>3. DecidesAlone'
  BY DEF DecidesAlone, Deciding, Reports
<1>4. OneStart'
  BY DEF OneStart, Spawning
<1>5. StartsAlone'
  BY DEF StartsAlone, Spawning, NoServer, Known, Alive
<1>6. DownIsDown'
  BY DEF DownIsDown, NoServer, Known, Alive
<1>7. RunningIsRead'
  BY DEF RunningIsRead
<1>8. StoppingIsAsked'
  BY DEF StoppingIsAsked
<1>9. DecidesRightly'
  BY DEF DecidesRightly, NoServer, NoStart, Spawning, Known, Alive
<1>10. ReaderKnows'
  BY DEF ReaderKnows, Reports, NoServer, NoStart, Spawning, Known, Alive, StillCurrent
<1>11. WaitsAlone'
  BY RequestStopWaits
<1>12. KillsTheServer'
  BY DEF KillsTheServer, NoServer, NoStart, Spawning, Known, Alive
<1>13. HolderAsks'
  BY DEF HolderAsks, Free
<1> QED
  BY <1>1, <1>2, <1>3, <1>4, <1>5, <1>6, <1>7, <1>8, <1>9, <1>10, <1>11, <1>12, <1>13

\* The request waits, with the mutex, for a server that no longer reads its stdin.
LEMMA RequestWaitsGuarded ==
  ASSUME Overlap = FALSE, Prompt = TRUE, Inv, Inv', GInv, NEW t \in Call, RequestWaits(t)
  PROVE  GInv'
<1> USE Tasks, ConstantsAssumption DEF Inv, GInv, TypeOK, pipes, RequestWaits, WriteBlocks, manager,
        tasks
<1>1. OneCall'
  BY DEF OneCall
<1>2. OneDecides'
  BY DEF OneDecides, Deciding
<1>3. DecidesAlone'
  BY DEF DecidesAlone, Deciding, Reports
<1>4. OneStart'
  BY DEF OneStart, Spawning
<1>5. StartsAlone'
  BY DEF StartsAlone, Spawning, NoServer, Known, Alive
<1>6. DownIsDown'
  BY DEF DownIsDown, NoServer, Known, Alive
<1>7. RunningIsRead'
  BY DEF RunningIsRead
<1>8. StoppingIsAsked'
  BY DEF StoppingIsAsked
<1>9. DecidesRightly'
  BY DEF DecidesRightly, NoServer, NoStart, Spawning, Known, Alive
<1>10. ReaderKnows'
  BY DEF ReaderKnows, Reports, NoServer, NoStart, Spawning, Known, Alive, StillCurrent
<1>11. WaitsAlone'
  BY DEF WaitsAlone, Waiting, StillCurrent
<1>12. KillsTheServer'
  BY DEF KillsTheServer, NoServer, NoStart, Spawning, Known, Alive
<1>13. HolderAsks'
  BY DEF HolderAsks, Free
<1> QED
  BY <1>1, <1>2, <1>3, <1>4, <1>5, <1>6, <1>7, <1>8, <1>9, <1>10, <1>11, <1>12, <1>13

\* The stop looks again, or turns to killing the server there is.
LEMMA WaitGuarded ==
  ASSUME Overlap = FALSE, Prompt = TRUE, Inv, Inv', GInv, NEW t \in Call, Wait(t)
  PROVE  GInv'
<1> USE Tasks, ConstantsAssumption DEF Inv, GInv, TypeOK, pipes, Wait, Poll, HasStopped,
        Later, Runnable, StopReturnsTo, Finish, Goto, manager
<1>1. OneCall'
  BY DEF OneCall
<1>2. OneDecides'
  BY DEF OneDecides, Deciding
<1>3. DecidesAlone'
  BY DEF DecidesAlone, Deciding, Reports
<1>4. OneStart'
  BY DEF OneStart, Spawning
<1>5. StartsAlone'
  BY DEF StartsAlone, Spawning, NoServer, Known, Alive
<1>6. DownIsDown'
  BY DEF DownIsDown, NoServer, Known, Alive
<1>7. RunningIsRead'
  BY DEF RunningIsRead
<1>8. StoppingIsAsked'
  BY DEF StoppingIsAsked
<1>9. DecidesRightly'
  BY DEF DecidesRightly, NoServer, NoStart, Spawning, Known, Alive
<1>10. ReaderKnows'
  BY DEF ReaderKnows, Reports, NoServer, NoStart, Spawning, Known, Alive, StillCurrent
<1>11. WaitsAlone'
  BY DEF WaitsAlone, Waiting, StillCurrent
<1>12. KillsTheServer'
  BY DEF StartsAlone, ReaderKnows, KillsTheServer, EveryServerIsWatched, Spawning,
      NoServer, Known, Alive, Reports, NoStart, StillCurrent
<1>13. HolderAsks'
  BY DEF HolderAsks, Free
<1> QED
  BY <1>1, <1>2, <1>3, <1>4, <1>5, <1>6, <1>7, <1>8, <1>9, <1>10, <1>11, <1>12, <1>13

\* Killing ends the only server.
LEMMA KillGuarded ==
  ASSUME Overlap = FALSE, Prompt = TRUE, Inv, Inv', GInv, NEW t \in Call, Kill(t)
  PROVE  GInv'
<1> USE Tasks, ConstantsAssumption DEF Inv, GInv, TypeOK, pipes, Kill, DeadAfterKill, Later,
        Runnable, Goto, manager
<1>1. OneCall'
  BY DEF OneCall
<1>2. OneDecides'
  BY LaterIsQuiet DEF OneCall, OneDecides, Deciding
<1>3. DecidesAlone'
  BY DEF DecidesAlone, Deciding, Reports
<1>4. OneStart'
  BY DEF OneStart, Spawning
<1>5. StartsAlone'
  BY LaterIsQuiet DEF HolderAsks, Deciding, StartsAlone, Spawning, NoServer, Known, Alive
<1>6. DownIsDown'
  BY DEF DownIsDown, NoServer, Known, Alive
<1>7. RunningIsRead'
  BY DEF RunningIsRead
<1>8. StoppingIsAsked'
  BY DEF StoppingIsAsked
<1>9. DecidesRightly'
  BY DEF DecidesRightly, NoServer, NoStart, Spawning, Known, Alive
<1>10. ReaderKnows'
  BY DEF ReaderKnows, KillsTheServer, Reports, NoServer, NoStart, Spawning, Known, Alive,
      StillCurrent
<1>11. WaitsAlone'
  BY DEF WaitsAlone, Waiting, StillCurrent
<1>12. KillsTheServer'
  BY DEF KillsTheServer, NoServer, NoStart, Spawning, Known, Alive
<1>13. HolderAsks'
  BY DEF HolderAsks, Free
<1> QED
  BY <1>1, <1>2, <1>3, <1>4, <1>5, <1>6, <1>7, <1>8, <1>9, <1>10, <1>11, <1>12, <1>13

\* After the kill, the manager forgets the process.
LEMMA ResetGuarded ==
  ASSUME Overlap = FALSE, Prompt = TRUE, Inv, Inv', GInv, NEW t \in Call, Reset(t)
  PROVE  GInv'
<1> USE Tasks, ConstantsAssumption DEF Inv, GInv, TypeOK, pipes, Reset, StopReturnsTo,
        Finish, Goto
<1>1. OneCall'
  BY DEF OneCall
<1>2. OneDecides'
  BY DEF OneDecides, Deciding
<1>3. DecidesAlone'
  BY DEF DecidesAlone, Deciding, Reports
<1>4. OneStart'
  BY DEF OneStart, Spawning
<1>5. StartsAlone'
  BY DEF StartsAlone, KillsTheServer, Spawning, NoServer, Known, Alive, NoStart
<1>6. DownIsDown'
  BY DEF DownIsDown, KillsTheServer, NoServer, Known, Alive, NoStart, Spawning
<1>7. RunningIsRead'
  BY DEF RunningIsRead
<1>8. StoppingIsAsked'
  BY DEF StoppingIsAsked
<1>9. DecidesRightly'
  BY DEF OneDecides, DecidesRightly, Deciding, NoServer, NoStart, Spawning, Known, Alive
<1>10. ReaderKnows'
  BY DEF ReaderKnows, KillsTheServer, Reports, NoServer, NoStart, Spawning, Known, Alive,
      StillCurrent
<1>11. WaitsAlone'
  BY DEF WaitsAlone, Waiting, StillCurrent
<1>12. KillsTheServer'
  BY DEF KillsTheServer, NoServer, NoStart, Spawning, Known, Alive
<1>13. HolderAsks'
  BY DEF HolderAsks, Free
<1> QED
  BY <1>1, <1>2, <1>3, <1>4, <1>5, <1>6, <1>7, <1>8, <1>9, <1>10, <1>11, <1>12, <1>13

\* restart_server goes on to its start.
LEMMA StartAgainGuarded ==
  ASSUME Overlap = FALSE, Prompt = TRUE, Inv, Inv', GInv, NEW t \in Call, StartAgain(t)
  PROVE  GInv'
<1> USE Tasks, ConstantsAssumption DEF Inv, GInv, TypeOK, pipes, StartAgain, Later, Runnable,
        Goto, manager
<1>1. OneCall'
  BY DEF OneCall
<1>2. OneDecides'
  BY LaterIsQuiet DEF Free, OneDecides, Deciding
<1>3. DecidesAlone'
  BY DEF DecidesAlone, Deciding, Reports
<1>4. OneStart'
  BY DEF OneStart, Spawning
<1>5. StartsAlone'
  BY DEF StartsAlone, Spawning, NoServer, Known, Alive
<1>6. DownIsDown'
  BY DEF DownIsDown, NoServer, Known, Alive
<1>7. RunningIsRead'
  BY DEF RunningIsRead
<1>8. StoppingIsAsked'
  BY DEF StoppingIsAsked
<1>9. DecidesRightly'
  BY DEF DecidesRightly, WaitsAlone, NoServer, NoStart, Spawning, Known, Alive, Waiting,
      StillCurrent
<1>10. ReaderKnows'
  BY DEF ReaderKnows, Reports, NoServer, NoStart, Spawning, Known, Alive, StillCurrent
<1>11. WaitsAlone'
  BY DEF WaitsAlone, Waiting, StillCurrent
<1>12. KillsTheServer'
  BY DEF KillsTheServer, NoServer, NoStart, Spawning, Known, Alive
<1>13. HolderAsks'
  BY DEF HolderAsks, Free
<1> QED
  BY <1>1, <1>2, <1>3, <1>4, <1>5, <1>6, <1>7, <1>8, <1>9, <1>10, <1>11, <1>12, <1>13

\* A reader sees the end of its process.
LEMMA EndOfStreamGuarded ==
  ASSUME Overlap = FALSE, Prompt = TRUE, Inv, Inv', GInv, NEW t \in Process, EndOfStream(t)
  PROVE  GInv'
<1> USE Tasks, ConstantsAssumption DEF Inv, GInv, TypeOK, pipes, EndOfStream, CapturedAtEnd,
        Goto, manager
<1>1. OneCall'
  BY DEF OneCall
<1>2. OneDecides'
  BY DEF OneDecides, Deciding
<1>3. DecidesAlone'
  BY DEF Free, DecidesAlone, Deciding, Reports
<1>4. OneStart'
  BY DEF OneStart, Spawning
<1>5. StartsAlone'
  BY DEF StartsAlone, Spawning, NoServer, Known, Alive
<1>6. DownIsDown'
  BY DEF DownIsDown, NoServer, Known, Alive
<1>7. RunningIsRead'
  BY DEF RunningIsRead
<1>8. StoppingIsAsked'
  BY DEF StoppingIsAsked
<1>9. DecidesRightly'
  BY DEF DecidesRightly, NoServer, NoStart, Spawning, Known, Alive
<1>10. ReaderKnows'
  BY DEF ReaderKnows, Reports, NoServer, NoStart, Spawning, Known, Alive, StillCurrent
<1>11. WaitsAlone'
  BY DEF WaitsAlone, Waiting, StillCurrent
<1>12. KillsTheServer'
  BY DEF KillsTheServer, NoServer, NoStart, Spawning, Known, Alive
<1>13. HolderAsks'
  BY DEF HolderAsks, Free
<1> QED
  BY <1>1, <1>2, <1>3, <1>4, <1>5, <1>6, <1>7, <1>8, <1>9, <1>10, <1>11, <1>12, <1>13

\* The reader clears the manager.
LEMMA ClearGuarded ==
  ASSUME Overlap = FALSE, Prompt = TRUE, Inv, Inv', GInv, NEW t \in Process, Clear(t)
  PROVE  GInv'
<1> USE Tasks, ConstantsAssumption DEF Inv, GInv, TypeOK, pipes, Clear, Cleared, Goto
<1>1. OneCall'
  BY DEF OneCall
<1>2. OneDecides'
  BY DEF OneDecides, Deciding
<1>3. DecidesAlone'
  BY DEF DecidesAlone, Deciding, Reports
<1>4. OneStart'
  BY DEF OneStart, Spawning
<1>5. StartsAlone'
  BY DEF StartsAlone, ReaderKnows, Spawning, NoServer, Known, Alive, Reports, NoStart,
      StillCurrent
<1>6. DownIsDown'
  BY DEF DownIsDown, ReaderKnows, NoServer, Known, Alive, Reports, NoStart, Spawning,
      StillCurrent
<1>7. RunningIsRead'
  BY DEF RunningIsRead
<1>8. StoppingIsAsked'
  BY DEF StoppingIsAsked
<1>9. DecidesRightly'
  BY DEF DecidesAlone, DecidesRightly, Deciding, Reports, NoServer, NoStart, Spawning,
      Known, Alive
<1>10. ReaderKnows'
  BY DEF ReaderKnows, Reports, NoServer, NoStart, Spawning, Known, Alive, StillCurrent
<1>11. WaitsAlone'
  BY DEF WaitsAlone, Waiting, StillCurrent
<1>12. KillsTheServer'
  BY DEF KillsTheServer, NoServer, NoStart, Spawning, Known, Alive
<1>13. HolderAsks'
  BY DEF HolderAsks, Free
<1> QED
  BY <1>1, <1>2, <1>3, <1>4, <1>5, <1>6, <1>7, <1>8, <1>9, <1>10, <1>11, <1>12, <1>13

\* The reader decides on a restart.
LEMMA DecideGuarded ==
  ASSUME Overlap = FALSE, Prompt = TRUE, Inv, Inv', GInv, NEW t \in Process, Decide(t)
  PROVE  GInv'
<1> USE Tasks, ConstantsAssumption DEF Inv, GInv, TypeOK, pipes, Decide, Goto, manager
<1>1. OneCall'
  BY DEF OneCall
<1>2. OneDecides'
  BY DEF OneDecides, Deciding
<1>3. DecidesAlone'
  BY DEF DecidesAlone, Deciding, Reports
<1>4. OneStart'
  BY DEF OneStart, Spawning
<1>5. StartsAlone'
  BY DEF StartsAlone, Spawning, NoServer, Known, Alive
<1>6. DownIsDown'
  BY DEF DownIsDown, NoServer, Known, Alive
<1>7. RunningIsRead'
  BY DEF RunningIsRead
<1>8. StoppingIsAsked'
  BY DEF StoppingIsAsked
<1>9. DecidesRightly'
  BY DEF DecidesRightly, NoServer, NoStart, Spawning, Known, Alive
<1>10. ReaderKnows'
  BY DEF ReaderKnows, Reports, NoServer, NoStart, Spawning, Known, Alive, StillCurrent
<1>11. WaitsAlone'
  BY DEF WaitsAlone, Waiting, StillCurrent
<1>12. KillsTheServer'
  BY DEF KillsTheServer, NoServer, NoStart, Spawning, Known, Alive
<1>13. HolderAsks'
  BY DEF HolderAsks, Free
<1> QED
  BY <1>1, <1>2, <1>3, <1>4, <1>5, <1>6, <1>7, <1>8, <1>9, <1>10, <1>11, <1>12, <1>13

\* The restart's pause is over.
LEMMA WakeGuarded ==
  ASSUME Overlap = FALSE, Prompt = TRUE, Inv, Inv', GInv, NEW t \in Process, Wake(t)
  PROVE  GInv'
<1> USE Tasks, ConstantsAssumption DEF Inv, GInv, TypeOK, pipes, Wake, Later, Runnable, Goto,
        manager
<1>1. OneCall'
  BY DEF OneCall
<1>2. OneDecides'
  BY LaterIsQuiet DEF Free, OneDecides, Deciding
<1>3. DecidesAlone'
  BY DEF DecidesAlone, Deciding, Reports
<1>4. OneStart'
  BY DEF OneStart, Spawning
<1>5. StartsAlone'
  BY DEF StartsAlone, Spawning, NoServer, Known, Alive
<1>6. DownIsDown'
  BY DEF DownIsDown, NoServer, Known, Alive
<1>7. RunningIsRead'
  BY DEF RunningIsRead
<1>8. StoppingIsAsked'
  BY DEF StoppingIsAsked
<1>9. DecidesRightly'
  BY DEF DecidesRightly, NoServer, NoStart, Spawning, Known, Alive
<1>10. ReaderKnows'
  BY DEF ReaderKnows, Reports, NoServer, NoStart, Spawning, Known, Alive, StillCurrent
<1>11. WaitsAlone'
  BY DEF WaitsAlone, Waiting, StillCurrent
<1>12. KillsTheServer'
  BY DEF KillsTheServer, NoServer, NoStart, Spawning, Known, Alive
<1>13. HolderAsks'
  BY DEF HolderAsks, Free
<1> QED
  BY <1>1, <1>2, <1>3, <1>4, <1>5, <1>6, <1>7, <1>8, <1>9, <1>10, <1>11, <1>12, <1>13

\* A server that boots listens; the manager learns it later.
LEMMA ListenGuarded ==
  ASSUME Overlap = FALSE, Prompt = TRUE, Inv, Inv', GInv, NEW t \in Process, Listen(t)
  PROVE  GInv'
<1> USE Tasks, ConstantsAssumption DEF Inv, GInv, TypeOK, pipes, Listen, manager, tasks
<1>0. \A p \in Process : process'[p] \in {"booting", "listening", "ready"}
                             <=> process[p] \in {"booting", "listening", "ready"}
  OBVIOUS
<1>1. OneCall'
  BY DEF OneCall
<1>2. OneDecides'
  BY DEF OneDecides, Deciding
<1>3. DecidesAlone'
  BY DEF DecidesAlone, Deciding, Reports
<1>4. OneStart'
  BY DEF OneStart, Spawning
<1>5. StartsAlone'
  BY <1>0 DEF StartsAlone, RegistersItsOwn, Spawning, NoServer, Known, Alive
<1>6. DownIsDown'
  BY DEF DownIsDown, NoServer, Known, Alive
<1>7. RunningIsRead'
  BY DEF RunningIsRead, ReaderKnows, GaveUpIsGone, Known, Alive
<1>8. StoppingIsAsked'
  BY DEF StoppingIsAsked
<1>9. DecidesRightly'
  BY DEF DecidesRightly, NoServer, NoStart, Spawning, Known, Alive
<1>10. ReaderKnows'
  BY DEF ReaderKnows, Reports, NoServer, NoStart, Spawning, Known, Alive, StillCurrent
<1>11. WaitsAlone'
  BY DEF WaitsAlone, Waiting, StillCurrent
<1>12. KillsTheServer'
  BY DEF KillsTheServer, NoServer, NoStart, Spawning, Known, Alive
<1>13. HolderAsks'
  BY DEF HolderAsks, Free
<1> QED
  BY <1>1, <1>2, <1>3, <1>4, <1>5, <1>6, <1>7, <1>8, <1>9, <1>10, <1>11, <1>12, <1>13

\* The reader gives up: its process runs on, unknown.
LEMMA ReadErrorGuarded ==
  ASSUME Overlap = FALSE, Prompt = TRUE, Inv, Inv', GInv, NEW t \in Process, ReadError(t)
  PROVE  GInv'
<1> USE Tasks, ConstantsAssumption DEF Inv, GInv, TypeOK, pipes, ReadError, CapturedAtEnd,
        Goto, manager
<1>1. OneCall'
  BY DEF OneCall
<1>2. OneDecides'
  BY DEF OneDecides, Deciding
<1>3. DecidesAlone'
  BY LaterIsQuiet DEF Free, DecidesAlone, Deciding, Reports
<1>4. OneStart'
  BY DEF OneStart, Spawning
<1>5. StartsAlone'
  BY LaterIsQuiet DEF HolderAsks, Deciding, StartsAlone, Spawning, NoServer, Known, Alive
<1>6. DownIsDown'
  BY DEF DownIsDown, NoServer, Known, Alive
<1>7. RunningIsRead'
  BY DEF RunningIsRead
<1>8. StoppingIsAsked'
  BY DEF StoppingIsAsked
<1>9. DecidesRightly'
  BY DEF DecidesRightly, NoServer, NoStart, Spawning, Known, Alive
<1>10. ReaderKnows'
  BY LaterIsQuiet DEF HolderAsks, Deciding, GaveUpIsGone, StartsAlone, ReaderKnows,
      EveryServerIsWatched, Spawning, NoServer, Known, Alive, Reports, NoStart, StillCurrent
<1>11. WaitsAlone'
  BY DEF WaitsAlone, Waiting, StillCurrent
<1>12. KillsTheServer'
  BY DEF KillsTheServer, NoServer, NoStart, Spawning, Known, Alive
<1>13. HolderAsks'
  BY DEF HolderAsks, Free
<1> QED
  BY <1>1, <1>2, <1>3, <1>4, <1>5, <1>6, <1>7, <1>8, <1>9, <1>10, <1>11, <1>12, <1>13

\* The server listens.
LEMMA ReadDoneGuarded ==
  ASSUME Overlap = FALSE, Prompt = TRUE, Inv, Inv', GInv, NEW t \in Process, ReadDone(t)
  PROVE  GInv'
<1> USE Tasks, ConstantsAssumption DEF Inv, GInv, TypeOK, pipes, ReadDone, tasks
<1>0. \A p \in Process : process'[p] \in {"booting", "listening", "ready"}
                             <=> process[p] \in {"booting", "listening", "ready"}
  OBVIOUS
<1>1. OneCall'
  BY DEF OneCall
<1>2. OneDecides'
  BY DEF OneDecides, Deciding
<1>3. DecidesAlone'
  BY DEF DecidesAlone, Deciding, Reports
<1>4. OneStart'
  BY DEF OneStart, Spawning
<1>5. StartsAlone'
  BY <1>0 DEF StartsAlone, RegistersItsOwn, ReaderKnows, GaveUpIsGone, Spawning, NoServer, Known, Alive
<1>6. DownIsDown'
  BY DEF DownIsDown, NoServer, Known, Alive
<1>7. RunningIsRead'
  BY DEF RunningIsRead, ReaderKnows, GaveUpIsGone, Known, Alive
<1>8. StoppingIsAsked'
  BY DEF StoppingIsAsked
<1>9. DecidesRightly'
  BY DEF DecidesRightly, NoServer, NoStart, Spawning, Known, Alive
<1>10. ReaderKnows'
  BY DEF ReaderKnows, Reports, NoServer, NoStart, Spawning, Known, Alive, StillCurrent
<1>11. WaitsAlone'
  BY DEF WaitsAlone, Waiting, StillCurrent
<1>12. KillsTheServer'
  BY DEF KillsTheServer, NoServer, NoStart, Spawning, Known, Alive
<1>13. HolderAsks'
  BY DEF HolderAsks, Free
<1> QED
  BY <1>1, <1>2, <1>3, <1>4, <1>5, <1>6, <1>7, <1>8, <1>9, <1>10, <1>11, <1>12, <1>13

\* The process ends.
LEMMA ExitGuarded ==
  ASSUME Overlap = FALSE, Prompt = TRUE, Inv, Inv', GInv, NEW t \in Process, Exit(t)
  PROVE  GInv'
<1> USE Tasks, ConstantsAssumption DEF Inv, GInv, TypeOK, pipes, Exit, Later, Runnable,
        manager, tasks
<1>1. OneCall'
  BY DEF OneCall
<1>2. OneDecides'
  BY DEF OneDecides, Deciding
<1>3. DecidesAlone'
  BY DEF DecidesAlone, Deciding, Reports
<1>4. OneStart'
  BY DEF OneStart, Spawning
<1>5. StartsAlone'
  BY LaterIsQuiet DEF HolderAsks, Deciding, StartsAlone, Spawning, NoServer, Known, Alive
<1>6. DownIsDown'
  BY DEF DownIsDown, NoServer, Known, Alive
<1>7. RunningIsRead'
  BY DEF RunningIsRead
<1>8. StoppingIsAsked'
  BY DEF StoppingIsAsked
<1>9. DecidesRightly'
  BY DEF DecidesRightly, NoServer, NoStart, Spawning, Known, Alive
<1>10. ReaderKnows'
  BY LaterIsQuiet DEF HolderAsks, Deciding, GaveUpIsGone, StartsAlone, ReaderKnows, EveryServerIsWatched, Spawning, NoServer, Known, Alive,
      Reports, NoStart, StillCurrent
<1>11. WaitsAlone'
  BY DEF WaitsAlone, Waiting, StillCurrent
<1>12. KillsTheServer'
  BY DEF KillsTheServer, NoServer, NoStart, Spawning, Known, Alive
<1>13. HolderAsks'
  BY DEF HolderAsks, Free
<1> QED
  BY <1>1, <1>2, <1>3, <1>4, <1>5, <1>6, <1>7, <1>8, <1>9, <1>10, <1>11, <1>12, <1>13

\* A step that changes no more than who waits for a write, a call apart, or
\* nothing at all.
LEMMA StillGuarded ==
  ASSUME TypeOK, GInv,
         UNCHANGED <<status, pid, stopRequested, generation, pidFile, process, tasks, unread>>,
         holder' = holder \/ (holder \notin Task /\ holder' \notin Task)
  PROVE  GInv'
<1> USE Tasks DEF tasks
<1>0. NoServer' <=> NoServer
  BY DEF NoServer, Known, Alive
<1>1. OneCall' /\ OneDecides' /\ OneStart' /\ HolderAsks' /\ DecidesAlone'
  BY DEF GInv, OneCall, OneDecides, OneStart, HolderAsks, DecidesAlone, Reports
<1>2. StartsAlone' /\ KillsTheServer'
  BY DEF GInv, StartsAlone, KillsTheServer, NoServer, NoStart, Known, Alive
<1>3. DownIsDown' /\ RunningIsRead' /\ StoppingIsAsked' /\ DecidesRightly'
  BY <1>0 DEF GInv, DownIsDown, RunningIsRead, StoppingIsAsked, DecidesRightly, NoStart
<1>4. ReaderKnows' /\ WaitsAlone'
  BY <1>0 DEF GInv, ReaderKnows, WaitsAlone, Reports, NoStart, Known, Alive, StillCurrent
<1> QED
  BY <1>1, <1>2, <1>3, <1>4 DEF GInv

\* Every step keeps the invariant.
LEMMA NextGuarded ==
  ASSUME Overlap = FALSE, Prompt = TRUE, Inv, GInv, [Next]_vars
  PROVE  GInv'
<1>0. Inv'
  BY NextInv
<1>1. ASSUME NEW t \in Task, StartWork(t) PROVE GInv'
  BY <1>0, <1>1, CanStartGuarded, IsStoppedGuarded, MarkStartingGuarded, LaunchGuarded,
     SpawnGuarded, RegisterGuarded, StartFailedGuarded, RestartFailedGuarded DEF
         StartWork
<1>2. ASSUME NEW t \in Call, Begin(t) \/ StopWork(t) PROVE GInv'
  BY <1>0, <1>2, BeginGuarded, StopGuarded, RequestStopGuarded, RequestWaitsGuarded, WaitGuarded,
      KillGuarded,
     ResetGuarded, StartAgainGuarded DEF StopWork
<1>3. ASSUME NEW p \in Process, ReadWork(p) \/ ProcessWork(p) PROVE GInv'
  <2>1. CASE Hang(p)
    BY <2>1, StillGuarded DEF Inv, Hang, manager
  <2> QED
    BY <1>0, <1>3, <2>1, EndOfStreamGuarded, ClearGuarded, DecideGuarded, WakeGuarded,
       ListenGuarded, ReadDoneGuarded, ReadErrorGuarded, ExitGuarded DEF ReadWork, ProcessWork
<1>4. CASE Expire \/ UNCHANGED vars
  BY <1>4, StillGuarded DEF Inv, Expire, manager, vars, pipes
<1>5. CASE Command \/ CommandFails
  <2>1. holder \notin Task /\ holder' \notin Task
    BY <1>5, ConstantsAssumption DEF Command, CommandFails, Free, Task
  <2> QED
    BY <1>5, <2>1, StillGuarded DEF Inv, Command, CommandFails, manager
<1> QED
  BY <1>1, <1>2, <1>3, <1>4, <1>5 DEF Next

-----------------------------------------------------------------------------
\* A server that runs is the one the manager knows, or the one a start is about
\* to register; there is one of either, and not both.
LEMMA GuardedIsOne == Inv /\ GInv => OneServer
<1> SUFFICES ASSUME Inv, GInv, NEW p \in Process, NEW q \in Process, Known(p), Known(q)
             PROVE  p = q
  BY DEF OneServer
<1> USE Tasks DEF Inv, GInv
<1>1. CASE \E t \in Task : pc[t] = "register"
  <2>1. PICK t \in Task : pc[t] = "register"
    BY <1>1
  <2> QED
    BY <2>1 DEF StartsAlone
<1>2. CASE ~\E t \in Task : pc[t] = "register"
  <2>1. pc[p] = "read" /\ pc[q] = "read"
    BY <1>2 DEF EveryServerIsWatched
  <2> QED
    BY <2>1 DEF ReaderKnows
<1> QED
  BY <1>1, <1>2

LEMMA GuardedIsTrue == Inv /\ GInv => StatusIsTrue
<1> SUFFICES ASSUME Inv, GInv PROVE StatusIsTrue
  OBVIOUS
<1> USE Tasks DEF Inv, GInv, TypeOK
<1>1. StoppedMeansStopped
  BY DEF DownIsDown, NoServer, StoppedMeansStopped
<1>2. RunningHasProcess
  <2> SUFFICES ASSUME Settled, status = "Running"
               PROVE  pid # NoProcess /\ Known(pid) /\ pidFile = pid
    BY DEF RunningHasProcess
  <2>1. pid # NoProcess /\ pidFile = pid /\ pc[pid] \in {"read", "eof"}
    BY DEF RunningIsRead
  <2>2. Known(pid)
    BY <2>1 DEF Settled, GaveUpIsGone, Known
  <2> QED
    BY <2>1, <2>2
<1> QED
  BY <1>1, <1>2 DEF StatusIsTrue

\* The invariant of the guarded server.
LEMMA GuardedInvariance ==
  ASSUME Overlap = FALSE, Prompt = TRUE
  PROVE  Spec => [](Inv /\ GInv)
<1>1. Init => Inv /\ GInv
  BY InitInv, InitGuarded
<1>2. Inv /\ GInv /\ [Next]_vars => (Inv /\ GInv)'
  BY NextInv, NextGuarded
<1> QED
  BY <1>1, <1>2, PTL DEF Spec

\* When calls do not overlap, at most one game server runs: neither a start,
\* nor a restart, nor the automatic restart spawns a second one beside it.
THEOREM ServersAreOne ==
  ASSUME Overlap = FALSE, Prompt = TRUE
  PROVE  Spec => []OneServer
<1>1. Inv /\ GInv => OneServer
  BY GuardedIsOne
<1> QED
  BY <1>1, GuardedInvariance, PTL

\* When calls do not overlap, the status that every caller sees once nothing is
\* under way is that of the operating system's processes.
THEOREM StatusesAreTrue ==
  ASSUME Overlap = FALSE, Prompt = TRUE
  PROVE  Spec => []StatusIsTrue
<1>1. Inv /\ GInv => StatusIsTrue
  BY GuardedIsTrue
<1> QED
  BY <1>1, GuardedInvariance, PTL

-----------------------------------------------------------------------------
\* A process that the manager knows, or a stop watches, has had its reader.
WatchedWasRead ==
    /\ pid # NoProcess => pc[pid] # "idle"
    /\ \A t \in Call : pc[t] = "wait" /\ held[t] # NoProcess => pc[held[t]] # "idle"

\* The reader of p will not restart the server.
LeavesItDown(p) ==
    \/ pc[p] = "read" /\ stopRequested
    \/ pc[p] \in {"eof", "cleared"} /\ ~captured[p].unexpected
    \/ pc[p] = "done"

\* It stays so: no step of a process leads back to "idle", and the manager takes
\* a process from the step that gives it its reader.
LEMMA NextWatched ==
  ASSUME Inv, Inv', WatchedWasRead, [Next]_vars
  PROVE  WatchedWasRead'
<1> USE Tasks, ConstantsAssumption DEF Inv, TypeOK, WatchedWasRead
<1>1. ASSUME NEW p \in Process, pc[p] # "idle" PROVE pc'[p] # "idle"
  <2>1. ASSUME NEW t \in Task, StartWork(t) PROVE pc'[p] # "idle"
    BY <1>1, <2>1 DEF StartWork, CanStart, IsStopped, MarkStarting, Launch, Spawn, Register,
       WithReader, StartFailed, RestartFailed, GiveUp, Finish, Goto
  <2>2. ASSUME NEW t \in Call, Begin(t) \/ StopWork(t) PROVE pc'[p] # "idle"
    BY <1>1, <2>2 DEF StopWork, Begin, Stop, RequestStop, RequestWaits, Wait, Poll, Kill, Reset, StartAgain,
       StopReturnsTo, Finish, Goto, tasks
  <2>3. ASSUME NEW q \in Process, ReadWork(q) \/ ProcessWork(q)
        PROVE  pc'[p] # "idle"
    BY <1>1, <2>3 DEF ReadWork, EndOfStream, Clear, Decide, Wake, ReadError, ProcessWork,
       Listen, ReadDone, Exit, Hang, tasks, Goto
  <2>4. CASE Expire \/ Command \/ CommandFails \/ UNCHANGED vars
    BY <1>1, <2>4 DEF Expire, Command, CommandFails, vars, tasks
  <2> QED
    BY <2>1, <2>2, <2>3, <2>4 DEF Next
<1>2. ASSUME pid' # NoProcess PROVE pc'[pid'] # "idle"
  <2>1. ASSUME NEW t \in Task, StartWork(t)
        PROVE  pid' = pid \/ pid' = NoProcess \/ pc'[pid'] = "read"
    BY <2>1 DEF StartWork, CanStart, IsStopped, MarkStarting, Launch, Spawn, Register,
       RegistersItsOwn, WithReader, StartFailed, RestartFailed, manager
  <2>2. ASSUME NEW t \in Call, Begin(t) \/ StopWork(t) PROVE pid' = pid \/ pid' = NoProcess
    BY <2>2 DEF StopWork, Begin, Stop, RequestStop, RequestWaits, Wait, Kill, Reset, StartAgain, manager
  <2>3. ASSUME NEW q \in Process, ReadWork(q) \/ ProcessWork(q)
        PROVE  pid' = pid \/ pid' = NoProcess
    BY <2>3 DEF ReadWork, EndOfStream, Clear, Cleared, Decide, Wake, ReadError, ProcessWork,
       Listen, ReadDone, Exit, Hang, manager
  <2>4. ASSUME Expire \/ Command \/ CommandFails \/ UNCHANGED vars PROVE pid' = pid
    BY <2>4 DEF Expire, Command, CommandFails, vars, manager
  <2>5. pid' = pid \/ pc'[pid'] = "read"
    BY <1>2, <2>1, <2>2, <2>3, <2>4 DEF Next
  <2> QED
    BY <1>1, <1>2, <2>5
<1>3. ASSUME NEW t \in Call, pc'[t] = "wait", held'[t] # NoProcess
      PROVE  pc'[held'[t]] # "idle"
  <2>1. (pc[t] = "wait" /\ held'[t] = held[t]) \/ held'[t] = pid
    <3>1. ASSUME NEW u \in Task, StartWork(u) PROVE pc[t] = "wait" /\ held'[t] = held[t]
      BY <1>3, <3>1 DEF StartWork, CanStart, IsStopped, MarkStarting, Launch, Spawn, Register,
         WithReader, RegistersItsOwn, StartFailed, RestartFailed, GiveUp, Finish, Goto
    <3>2. ASSUME NEW u \in Call, Begin(u) \/ StopWork(u)
          PROVE  (pc[t] = "wait" /\ held'[t] = held[t]) \/ held'[t] = pid
      BY <1>3, <3>2 DEF StopWork, Begin, Stop, RequestStop, RequestWaits, Watched, Wait, Poll, Kill, Reset,
         StartAgain, StopReturnsTo, Finish, Goto, tasks
    <3>3. ASSUME NEW q \in Process, ReadWork(q) \/ ProcessWork(q)
          PROVE  pc[t] = "wait" /\ held'[t] = held[t]
      BY <1>3, <3>3 DEF ReadWork, EndOfStream, Clear, Decide, Wake, ReadError, ProcessWork,
       Listen, ReadDone, Exit, Hang, tasks, Goto
    <3>4. CASE Expire \/ Command \/ CommandFails \/ UNCHANGED vars
      BY <1>3, <3>4 DEF Expire, Command, CommandFails, vars, tasks
    <3> QED
      BY <3>1, <3>2, <3>3, <3>4 DEF Next
  <2> QED
    BY <1>1, <1>3, <2>1
<1> QED
  BY <1>2, <1>3

\* Only a start withdraws the request to stop, and none is marked while the
\* process runs or its end has not been reported.
LEMMA StaysDown ==
  ASSUME Inv, Inv', GInv, NEW p \in Process, LeavesItDown(p), [Next]_vars
  PROVE  LeavesItDown(p)'
<1> USE Tasks, ConstantsAssumption DEF Inv, TypeOK, GInv, LeavesItDown
<1>1. ASSUME NEW t \in Task, StartWork(t) PROVE LeavesItDown(p)'
  <2>1. CASE MarkStarting(t)
    <3>1. pc[p] # "read"
      BY <2>1 DEF MarkStarting, DecidesRightly, DownIsDown, NoServer, DecidesAlone, Deciding,
         Reports, Known, Alive, UnbornIsUnread, GaveUpIsGone, HolderAsks
    <3> QED
      BY <2>1, <3>1 DEF MarkStarting, Goto
  <2>2. CASE ~MarkStarting(t)
    BY <1>1, <2>2 DEF StartWork, CanStart, IsStopped, Launch, Spawn, Register, RegistersItsOwn,
       WithReader, StartFailed, RestartFailed, GiveUp, Finish, Goto, manager
  <2> QED
    BY <2>1, <2>2
<1>2. ASSUME NEW t \in Call, Begin(t) \/ StopWork(t) PROVE LeavesItDown(p)'
  BY <1>2 DEF StopWork, Begin, Stop, RequestStop, RequestWaits, Wait, Poll, Kill, Reset, StartAgain,
     StopReturnsTo, Finish, Goto, manager, tasks
<1>3. ASSUME NEW q \in Process, ReadWork(q) \/ ProcessWork(q) PROVE LeavesItDown(p)'
  BY <1>3 DEF ReadWork, EndOfStream, CapturedAtEnd, Clear, Decide, Wake, ReadError, ProcessWork,
     Listen, ReadDone, Exit, Hang, manager, tasks, Goto
<1>4. CASE Expire \/ Command \/ CommandFails \/ UNCHANGED vars
  BY <1>4 DEF Expire, Command, CommandFails, vars, manager, tasks
<1> QED
  BY <1>1, <1>2, <1>3, <1>4 DEF Next

\* A server that a stop waits for has been asked to stop and is being read.
LEMMA WaitedIsLeft ==
  ASSUME Inv, GInv, WatchedWasRead, NEW t \in Call, NEW p \in Process,
         pc[t] = "wait", held[t] = p, Known(p)
  PROVE  LeavesItDown(p)
<1> USE Tasks DEF Inv, GInv
<1>1. pc[p] = "read"
  BY DEF EveryServerIsWatched, RegistersItsOwn, WatchedWasRead
<1> QED
  BY <1>1 DEF WaitsAlone, Waiting, LeavesItDown

\* When calls do not overlap, a server that stop_server waits for is not taken
\* for a crash when it exits: its reader never gets to the automatic restart.
THEOREM StopsAreNoCrash ==
  ASSUME Overlap = FALSE, Prompt = TRUE
  PROVE  Spec => StopIsNotACrash
<1> SUFFICES ASSUME NEW t \in Call, NEW p \in Process
             PROVE  Spec => [](pc[t] = "wait" /\ held[t] = p /\ Known(p)
                                   => [](pc[p] # "sleep"))
  BY DEF StopIsNotACrash
<1>1. Init => WatchedWasRead
  BY Tasks DEF Init, WatchedWasRead
<1>2. Inv /\ Inv' /\ WatchedWasRead /\ [Next]_vars => WatchedWasRead'
  BY NextWatched
<1>3. Inv /\ GInv /\ WatchedWasRead /\ (pc[t] = "wait" /\ held[t] = p /\ Known(p))
        => LeavesItDown(p)
  BY WaitedIsLeft
<1>4. Inv /\ Inv' /\ GInv /\ LeavesItDown(p) /\ [Next]_vars => LeavesItDown(p)'
  BY StaysDown
<1>5. LeavesItDown(p) => pc[p] # "sleep"
  BY DEF LeavesItDown
<1> QED
  BY <1>1, <1>2, <1>3, <1>4, <1>5, GuardedInvariance, PTL DEF Spec
=============================================================================
