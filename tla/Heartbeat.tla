----------------------------- MODULE Heartbeat -----------------------------
(***************************************************************************)
(* The heartbeat to the dashboard and the licence it keeps up to date      *)
(* (heartbeat.rs, license.rs): every so often the state of the servers is  *)
(* posted, sooner while one runs and after a failure, and the answer may   *)
(* bring a new key or withdraw the licence.  The user activates keys and   *)
(* signs out meanwhile; nothing keeps the two apart.                       *)
(*                                                                         *)
(* A key is active until it expires, and honoured for a quarter of its     *)
(* life after that.  Time is in units of the request's timeout, 15 s.      *)
(*                                                                         *)
(* Definitions marked FAULTY are variants, with a plausible bug, of the    *)
(* definition below them; no action uses them.                             *)
(***************************************************************************)
EXTENDS Naturals, FiniteSets

CONSTANTS
    Key,            \* the keys that the licence server issues
    Life,           \* until when each is active, if it was issued at 0
    Interval,       \* the values of heartbeat_interval_secs that are used, with 0
    FLOOR,          \* and their least, 30 s
    ACTIVE, RETRY,  \* ACTIVE_INTERVAL_SECS and RETRY_SECS
    IDLE_CHECK,     \* how soon a heartbeat that is off looks again, 60 s
    MaxTime,        \* bound: times are told apart up to here
    MaxChanges,     \* bound: steps of the user, the server and the network
    MaxFaults,      \* bound: failed writes and crashes
    NoKey, Torn

Larger(a, b) == IF a < b THEN b ELSE a
Sleeps == {Larger(i, FLOOR) : i \in Interval} \cup {ACTIVE, RETRY, IDLE_CHECK}
Longest == CHOOSE n \in Sleeps : \A i \in Sleeps : i <= n
Slowest == Longest + 2      \* with the request before it and the one after

VARIABLES
    interval,   \* heartbeat_interval_secs in the configuration
    game,       \* the status of the active server
    locked,     \* does somebody hold the server's lock?
    reachable,  \* does the dashboard answer?
    stored,     \* license.jwt
    now,        \* the time
    pc,         \* where the loop is: "load", "post" or "sleep"
    snapshot,   \* the status in the request
    pause,      \* how long the loop sleeps if it is answered
    wait,       \* how long the request has taken, or how long the loop still sleeps
    shown,      \* the status that the dashboard has
    age, calm,  \* history: the time since the last report, and since the last change
    changes, faults

world == <<interval, game, locked, reachable>>
loop == <<pc, snapshot, pause, wait>>
history == <<age, calm>>
vars == <<world, stored, now, loop, shown, history, changes, faults>>

Status == {"stopped", "starting", "running"}

TypeOK ==
    /\ interval \in Interval /\ game \in Status /\ locked \in BOOLEAN /\ reachable \in BOOLEAN
    /\ stored \in Key \cup {NoKey, Torn}
    /\ now \in 0..MaxTime
    /\ pc \in {"load", "post", "sleep"} /\ snapshot \in Status
    /\ pause \in 0..Longest /\ wait \in 0..Longest
    /\ shown \in Status /\ age \in 0..(Slowest + 1) /\ calm \in 0..(Slowest + 1)
    /\ changes \in 0..MaxChanges /\ faults \in 0..MaxFaults

Init ==
    /\ interval \in Interval \ {0} /\ game = "stopped" /\ locked = FALSE /\ reachable = TRUE
    /\ stored = NoKey
    /\ now = 0
    /\ pc = "load" /\ snapshot = "stopped" /\ pause = 0 /\ wait = 0
    /\ shown = "stopped" /\ age = 0 /\ calm = 0
    /\ changes = 0 /\ faults = 0

UpTo(bound, n) == IF n < bound THEN n + 1 ELSE n
Changes == changes < MaxChanges /\ changes' = changes + 1

-----------------------------------------------------------------------------
(***************************************************************************)
(* The licence.                                                            *)
(***************************************************************************)

\* verify: a key is active, in its grace of a quarter of its life, or invalid.
VerdictWithoutGrace(key, time) == IF time <= Life[key] THEN "active" ELSE "invalid" \* FAULTY
Verdict(key, time) ==
    CASE time <= Life[key] -> "active"
      [] time > Life[key] /\ time <= Life[key] + (Life[key] * 25) \div 100 -> "grace"
      [] OTHER -> "invalid"

\* current: the licence that is in force.
Current ==
    IF stored \in Key /\ Verdict(stored, now) # "invalid" THEN Verdict(stored, now) ELSE "free"

\* activate: only a key that is active is stored, and a write that fails may have
\* emptied the file.  What the licence file is afterwards, and what failed.
Ends(file, failed) == [file |-> file, failed |-> failed]
Activated(file, key) ==
    IF Verdict(key, now) # "active" THEN {Ends(file, 0)}
    ELSE {Ends(key, 0), Ends(file, 1), Ends(Torn, 1)}

\* deactivate: the file goes, unless that fails.
Deactivated(file) == {Ends(NoKey, 0)} \cup IF file = NoKey THEN {} ELSE {Ends(file, 1)}

\* A request for one and then the other.
Apply(file, key, revoked) ==
    LET first == IF key = NoKey THEN {Ends(file, 0)} ELSE Activated(file, key)
    IN IF ~revoked THEN first
       ELSE UNION {{Ends(d.file, a.failed + d.failed) : d \in Deactivated(a.file)} : a \in first}

Becomes(ends) ==
    /\ faults + ends.failed <= MaxFaults
    /\ stored' = ends.file /\ faults' = faults + ends.failed

UserActivates(key) ==
    /\ Changes
    /\ \E ends \in Activated(stored, key) : Becomes(ends)
    /\ UNCHANGED <<world, now, loop, shown, history>>

SignOut ==
    /\ Changes
    /\ \E ends \in Deactivated(stored) : Becomes(ends)
    /\ UNCHANGED <<world, now, loop, shown, history>>

-----------------------------------------------------------------------------
(***************************************************************************)
(* The world.                                                              *)
(***************************************************************************)

\* Time passes while the loop sleeps or its request is under way.
Tick ==
    /\ \/ pc = "sleep" /\ wait > 0 /\ wait' = wait - 1
       \/ pc = "post" /\ wait = 0 /\ wait' = 1
    /\ now' = UpTo(MaxTime, now)
    /\ age' = UpTo(Slowest + 1, age)
    /\ calm' = UpTo(Slowest + 1, calm)
    /\ UNCHANGED <<world, stored, pc, snapshot, pause, shown, changes, faults>>

Change ==
    /\ Changes
    /\ \/ interval' \in Interval \ {interval} /\ UNCHANGED <<game, locked, reachable>>
       \/ game' \in Status \ {game} /\ UNCHANGED <<interval, locked, reachable>>
       \/ locked' = ~locked /\ UNCHANGED <<interval, game, reachable>>
       \/ reachable' = ~reachable /\ UNCHANGED <<interval, game, locked>>
    /\ calm' = 0
    /\ UNCHANGED <<stored, now, loop, shown, age, faults>>

\* The program ends and is started again.
Crash ==
    /\ faults < MaxFaults /\ faults' = faults + 1
    /\ pc' = "load" /\ snapshot' = "stopped" /\ pause' = 0 /\ wait' = 0
    /\ calm' = 0
    /\ UNCHANGED <<world, stored, now, shown, age, changes>>

-----------------------------------------------------------------------------
(***************************************************************************)
(* The loop.                                                               *)
(***************************************************************************)

\* build_snapshots: the status of the active server, and "stopped" when somebody
\* holds its lock.
Snapshot == IF locked THEN "stopped" ELSE game

AnyServerActive(status) == status \in {"running", "starting"}

\* The next beat comes soon while a server is active.
CadenceOfRunning(status) == IF status = "running" THEN ACTIVE ELSE Larger(interval, FLOOR) \* FAULTY
Cadence(status) == IF AnyServerActive(status) THEN ACTIVE ELSE Larger(interval, FLOOR)

Sleep(time) == pc' = "sleep" /\ wait' = time

Off ==
    /\ pc = "load" /\ interval = 0
    /\ Sleep(IDLE_CHECK)
    /\ UNCHANGED <<world, stored, now, snapshot, pause, shown, history, changes, faults>>

Post ==
    /\ pc = "load" /\ interval # 0
    /\ pc' = "post" /\ wait' = 0
    /\ snapshot' = Snapshot /\ pause' = Cadence(Snapshot)
    /\ UNCHANGED <<world, stored, now, shown, history, changes, faults>>

\* The dashboard takes the report and answers; its key is activated first.  What
\* it withdraws it does not name: the key that is stored goes, also one that was
\* activated since the request was made.
Answer(key, revoked) ==
    /\ pc = "post" /\ reachable
    /\ shown' = snapshot /\ age' = 0
    /\ \E ends \in Apply(stored, key, revoked) : Becomes(ends)
    /\ Sleep(pause)
    /\ UNCHANGED <<world, now, snapshot, pause, calm, changes>>

\* No answer, or none that can be read: the report may have arrived.
NoAnswer ==
    /\ pc = "post" /\ ~reachable
    /\ shown' \in {shown, snapshot}
    /\ Sleep(RETRY)
    /\ UNCHANGED <<world, stored, now, snapshot, pause, history, changes, faults>>

Wake ==
    /\ pc = "sleep" /\ wait = 0
    /\ pc' = "load"
    /\ UNCHANGED <<world, stored, now, snapshot, pause, wait, shown, history, changes, faults>>

Next ==
    \/ Tick \/ Change \/ Crash
    \/ Off \/ Post \/ NoAnswer \/ Wake \/ SignOut
    \/ \E key \in Key : UserActivates(key)
    \/ \E key \in Key \cup {NoKey}, revoked \in BOOLEAN : Answer(key, revoked)

Spec == Init /\ [][Next]_vars

-----------------------------------------------------------------------------
(***************************************************************************)
(* Properties.                                                             *)
(***************************************************************************)

\* When nothing has changed for the longest that the loop may sleep and ask, the
\* dashboard has the status of the server, of a moment ago if it is active:
\* whatever failed, slept or was switched off before.
DashboardIsCurrent ==
    calm > Slowest /\ interval # 0 /\ reachable /\ ~locked =>
        /\ shown = game
        /\ age <= IF AnyServerActive(game) THEN ACTIVE + 1 ELSE Slowest

\* A licence in force lapses only through its grace, and only time takes it
\* there: no answer of the dashboard puts a key that has run out in its place.
LicenceLapsesLate ==
    [][/\ Current = "active" /\ Current' = "free" => stored' # stored
       /\ Current # "free" /\ stored' \in Key \ {stored} => Current' = "active"]_vars

(***************************************************************************)
(* Properties that the code does not have.                                 *)
(***************************************************************************)

\* A running server is shown as running once it was reported: not while somebody
\* holds its lock when the snapshot is taken, which also makes the next beat late.
RunningIsShown ==
    calm > Slowest /\ interval # 0 /\ reachable => shown = game

\* The file of the licence holds a key or is not there: a write that fails half-way
\* leaves neither, and the licence is free until the next key.
LicenceIsWhole == stored # Torn
=============================================================================
