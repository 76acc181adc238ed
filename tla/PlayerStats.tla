----------------------------- MODULE PlayerStats -----------------------------
(***************************************************************************)
(* The play time of players in players.db (player_stats.rs): a row per     *)
(* player, with what was added up, and a row per session.  Each call opens *)
(* a connection of its own and runs its statements without a transaction,  *)
(* so that each is a step, and what was done before a failure stays.       *)
(*                                                                         *)
(* last_seen and kills go the way of deaths and are left out.              *)
(*                                                                         *)
(* Definitions marked FAULTY are variants, with a plausible bug, of the    *)
(* definition below them; no action uses them.                             *)
(***************************************************************************)
EXTENDS Naturals, FiniteSets, Functions

CONSTANTS
    Player,
    Caller,
    MaxTime,      \* bound: the clock of the callers
    MaxSessions,  \* bound: rows of sessions
    MaxFaults     \* bound: failing statements and crashes

Open == 0   \* end_time of a session that has not ended; times are positive
NoRow == [time |-> 0, deaths |-> 0, known |-> FALSE]
Idle == [step |-> "idle", at |-> 0, player |-> CHOOSE p \in Player : TRUE, deaths |-> 0, session |-> 0]
Step == {"row", "session", "find", "close", "total", "insert", "update", "ip"}

VARIABLES
    stats,      \* player_stats, with whether there is a row
    sessions,   \* sessions, by id
    died,       \* history: the deaths that callers told
    clock,
    call,
    faults

tables == <<stats, sessions>>
vars == <<stats, sessions, died, clock, call, faults>>

TypeOK ==
    /\ stats \in [Player -> [time : 0..(MaxTime * MaxSessions), deaths : Nat, known : BOOLEAN]]
    /\ \A i \in DOMAIN sessions :
          /\ sessions[i].player \in Player
          /\ sessions[i].start \in 1..MaxTime
          /\ sessions[i].end \in 0..MaxTime
    /\ DOMAIN sessions = 1..Cardinality(DOMAIN sessions)
    /\ \A c \in Caller : call[c].step \in Step \cup {"idle"}
    /\ clock \in 1..MaxTime
    /\ faults \in 0..MaxFaults

Init ==
    /\ stats = [p \in Player |-> NoRow]
    /\ sessions = [i \in {} |-> NoRow]
    /\ died = [p \in Player |-> 0]
    /\ clock = 1
    /\ call = [c \in Caller |-> Idle]
    /\ faults = 0

Works == UNCHANGED faults
Fails == faults < MaxFaults /\ faults' = faults + 1
Goto(c, step) == call' = [call EXCEPT ![c].step = step]
Return(c) == call' = [call EXCEPT ![c] = Idle]

Tick ==
    /\ clock < MaxTime
    /\ clock' = clock + 1
    /\ UNCHANGED <<tables, died, call, faults>>

Begin(c, step, p, deaths) ==
    /\ call[c] = Idle
    /\ call' = [call EXCEPT ![c] =
          [Idle EXCEPT !.step = step, !.at = clock, !.player = p, !.deaths = deaths]]
    /\ UNCHANGED <<tables, clock, faults>>

-----------------------------------------------------------------------------
\* record_session_start: the row, and a session that is open.
Start(c, p) ==
    /\ Cardinality(DOMAIN sessions) < MaxSessions
    /\ Begin(c, "row", p, 0)
    /\ UNCHANGED died

WithRow(p) == [stats EXCEPT ![p].known = TRUE]

Row(c) ==
    /\ call[c].step = "row"
    /\ \/ Works /\ stats' = WithRow(call[c].player) /\ Goto(c, "session")
       \/ Fails /\ stats' \in {stats, WithRow(call[c].player)} /\ Return(c)
    /\ UNCHANGED <<sessions, died, clock>>

Session(c) ==
    /\ call[c].step = "session"
    /\ \/ /\ Works
          /\ sessions' = [i \in 1..(Cardinality(DOMAIN sessions) + 1) |->
                 IF i \in DOMAIN sessions THEN sessions[i]
                 ELSE [player |-> call[c].player, start |-> call[c].at, end |-> Open]]
       \/ Fails /\ UNCHANGED sessions
    /\ Return(c)
    /\ UNCHANGED <<stats, died, clock>>

-----------------------------------------------------------------------------
\* record_session_end: the latest open session of the player is closed, and its
\* time added to the row ...
End(c, p, deaths) ==
    /\ Begin(c, "find", p, deaths)
    /\ died' = [died EXCEPT ![p] = @ + deaths]

LatestOf(p) == {i \in DOMAIN sessions : sessions[i].player = p} \* FAULTY
OpenOf(p) == {i \in DOMAIN sessions : sessions[i].player = p /\ sessions[i].end = Open}

Find(c) ==
    LET open == OpenOf(call[c].player)
    IN /\ call[c].step = "find"
       /\ \/ /\ Works
             /\ IF open = {} THEN Goto(c, "insert")
                ELSE \E i \in open :
                       /\ \A j \in open : sessions[j].start <= sessions[i].start
                       /\ call' = [call EXCEPT ![c].session = i, ![c].step = "close"]
          \/ Fails /\ Return(c)
       /\ UNCHANGED <<tables, died, clock>>

Close(c) ==
    /\ call[c].step = "close"
    /\ \/ /\ Works
          /\ sessions' = [sessions EXCEPT ![call[c].session].end = call[c].at]
          /\ Goto(c, "total")
       \/ Fails /\ UNCHANGED sessions /\ Return(c)
    /\ UNCHANGED <<stats, died, clock>>

\* A clock that went back counts as no time.
Duration(c) ==
    LET start == sessions[call[c].session].start
    IN IF call[c].at < start THEN 0 ELSE call[c].at - start

Total(c) ==
    /\ call[c].step = "total"
    /\ \/ /\ Works
          /\ stats' = [stats EXCEPT ![call[c].player].time = @ + Duration(c),
                                    ![call[c].player].deaths = @ + call[c].deaths]
       \/ Fails /\ UNCHANGED stats
    /\ Return(c)
    /\ UNCHANGED <<sessions, died, clock>>

\* ... or, with no session open, the row is made with the deaths, and then the
\* deaths are added to the row.
Insert(c) ==
    LET p == call[c].player
    IN /\ call[c].step = "insert"
       /\ \/ /\ Works
             /\ stats' = IF stats[p].known THEN stats
                         ELSE [stats EXCEPT ![p] = [NoRow EXCEPT !.known = TRUE, !.deaths = call[c].deaths]]
             /\ Goto(c, "update")
          \/ Fails /\ UNCHANGED stats /\ Return(c)
       /\ UNCHANGED <<sessions, died, clock>>

Update(c) ==
    /\ call[c].step = "update"
    /\ \/ Works /\ stats' = [stats EXCEPT ![call[c].player].deaths = @ + call[c].deaths]
       \/ Fails /\ UNCHANGED stats
    /\ Return(c)
    /\ UNCHANGED <<sessions, died, clock>>

\* record_player_ip makes the row, too.
RecordIp(c, p) == Begin(c, "ip", p, 0) /\ UNCHANGED died

Ip(c) ==
    /\ call[c].step = "ip"
    /\ \/ Works /\ stats' = WithRow(call[c].player)
       \/ Fails /\ stats' \in {stats, WithRow(call[c].player)}
    /\ Return(c)
    /\ UNCHANGED <<sessions, died, clock>>

\* The process ends between two statements.
Crash ==
    /\ Fails
    /\ \E c \in Caller : call[c] # Idle
    /\ call' = [c \in Caller |-> Idle]
    /\ UNCHANGED <<tables, died, clock>>

Next ==
    \/ Tick
    \/ \E c \in Caller :
          \/ \E p \in Player :
                \/ Start(c, p) \/ RecordIp(c, p)
                \/ died[p] < MaxSessions /\ End(c, p, 1)
          \/ Row(c) \/ Session(c) \/ Find(c) \/ Close(c) \/ Total(c)
          \/ Insert(c) \/ Update(c) \/ Ip(c)
    \/ Crash

Spec == Init /\ [][Next]_vars

-----------------------------------------------------------------------------
Ended(p) == {i \in DOMAIN sessions : sessions[i].player = p /\ sessions[i].end # Open}
Played(p) ==
    SumFunctionOnSet([i \in DOMAIN sessions |->
                          IF sessions[i].end < sessions[i].start THEN 0
                          ELSE sessions[i].end - sessions[i].start], Ended(p))
Settled == \A c \in Caller : call[c].step # "total"

\* The play time of a player is that of the sessions that ended, each counted
\* once: less only when a failure came between the two statements.
PlaytimeIsOfSessions ==
    \A p \in Player :
        /\ stats[p].time <= Played(p)
        /\ faults = 0 /\ Settled => stats[p].time = Played(p)

(***************************************************************************)
(* Properties that the code does not have.                                 *)
(***************************************************************************)

\* A death is counted once: today the row that an end makes has the deaths
\* already when they are added (player_stats.rs:141).
DeathsCountOnce == \A p \in Player : stats[p].deaths <= died[p]

\* A session that has ended does not end again: two ends at once both find it
\* open (player_stats.rs:117).
EndedStays ==
    [][\A i \in DOMAIN sessions : sessions[i].end # Open => sessions'[i] = sessions[i]]_vars
=============================================================================
