-------------------------- MODULE QuarantineRestore --------------------------
(***************************************************************************)
(* The quarantine of one server and its restore (recovery_actions.rs):     *)
(* a mod that a crash was blamed on is kept beside the server, with a      *)
(* record of it, and the user may bring it back into the live mods.        *)
(*                                                                         *)
(* Restores of a server take a lock; nothing else does.  The host keeps    *)
(* installs, and its calls of record_quarantine, away from a restore (its  *)
(* OperationGuard), but an install that waits for the user holds no guard, *)
(* mods are also deleted by hand, and the game server may start at any     *)
(* time (the automatic restart asks nobody).  One transaction's quarantine *)
(* stands for all: each has its own metadata file.                         *)
(*                                                                         *)
(* Definitions marked FAULTY are variants, with a plausible bug, of the    *)
(* definition below them; no action uses them.                             *)
(***************************************************************************)
EXTENDS Naturals, FiniteSets

CONSTANTS
    Call,           \* concurrent calls of restore_quarantined_mod
    Jar,            \* mod files
    Id,             \* mod ids
    Provides,       \* the mod id each file declares
    Pack,           \* the mods directory that an install brings
    MaxFailures,    \* bound: file-system operations that fail
    NoCall, NoJar

ASSUME ConstantsAssumption ==
    /\ Provides \in [Jar -> Id]
    /\ Pack \subseteq Jar
    /\ \A i, j \in Pack : Provides[i] = Provides[j] => i = j
    /\ MaxFailures \in Nat
    /\ NoCall \notin Call /\ NoJar \notin Jar

\* The directories that hold a .lbby-quarantine: the live server's parent, and
\* the staging root, which is the parent of a staging directory.
Root == {"liveParent", "stagingRoot"}
PreserveRoot == "stagingRoot"
ListRoot == "liveParent"

\* QuarantineStatus as it is stored, "none" without a record; the listing
\* also shows MissingArtifact and HashMismatch.
Status == {"none", "Quarantined", "Restored", "RestoreFailed"}

CallStep == {"idle", "lock", "state", "active", "load", "conflict", "copy",
             "recheck", "rename", "verify", "save", "saveFailure"}

VARIABLES
    shelf,      \* the artifacts under each .lbby-quarantine
    records,    \* quarantine_metadata.json under the one of the live parent
    mods,       \* the live mods directory
    temp,       \* the .lbby-restore-<id>.tmp files in it
    game,       \* does the game server run?
    txn,        \* the install transaction of this server
    lock,       \* the call that holds the server's restore lock
    pc,         \* where each call is
    jar,        \* the file each call restores
    meta,       \* the metadata each call has loaded
    left,       \* history: files whose removal, after a failure, did not work
    failures    \* operations that failed so far

disk == <<shelf, records, mods, temp>>
calls == <<lock, pc, jar, meta>>
vars == <<disk, game, txn, calls, left, failures>>

TypeOK ==
    /\ shelf \in [Root -> SUBSET Jar]
    /\ records \in [Jar -> Status]
    /\ mods \subseteq Jar
    /\ temp \subseteq Jar
    /\ game \in {"Stopped", "Running"}
    /\ txn \in {"none", "running", "paused"}
    /\ lock \in Call \cup {NoCall}
    /\ pc \in [Call -> CallStep]
    /\ jar \in [Call -> Jar \cup {NoJar}]
    /\ meta \in [Call -> [Jar -> Status]]
    /\ left \subseteq Jar
    /\ failures \in 0..MaxFailures

NoRecords == [j \in Jar |-> "none"]

Init ==
    /\ shelf = [r \in Root |-> {}]
    /\ records = NoRecords
    /\ mods = {}
    /\ temp = {}
    /\ game = "Stopped"
    /\ txn = "none"
    /\ lock = NoCall
    /\ pc = [c \in Call |-> "idle"]
    /\ jar = [c \in Call |-> NoJar]
    /\ meta = [c \in Call |-> NoRecords]
    /\ left = {}
    /\ failures = 0

-----------------------------------------------------------------------------
(***************************************************************************)
(* Helpers.                                                                *)
(***************************************************************************)

Works == UNCHANGED failures
Fails == failures < MaxFailures /\ failures' = failures + 1

Goto(c, step) == pc' = [pc EXCEPT ![c] = step]

\* The call returns, and the guard of the lock is dropped.
Return(c) ==
    /\ Goto(c, "idle")
    /\ lock' = NoCall
    /\ jar' = [jar EXCEPT ![c] = NoJar]
    /\ meta' = [meta EXCEPT ![c] = NoRecords]

\* A check that lets the call go on, or refuses it.
Check(c, ok, next) ==
    /\ IF ok
       THEN Goto(c, next) /\ UNCHANGED <<lock, jar, meta>>
       ELSE Return(c)
    /\ UNCHANGED <<disk, game, txn, left, failures>>

\* The clean-up after a failure, which may fail too: nobody looks at its result.
CleanUp(c) ==
    \/ temp' = temp \ {jar[c]} /\ UNCHANGED left
    \/ temp' = temp \cup {jar[c]} /\ left' = left \cup {jar[c]}

\* The host's guard around what else writes the mods directory.
NoRestoreRuns == \A c \in Call : pc[c] = "idle"

-----------------------------------------------------------------------------
(***************************************************************************)
(* restore_quarantined_mod.                                                *)
(***************************************************************************)

\* A call for the record of j arrives.
Begin(c, j) ==
    /\ pc[c] = "idle"
    /\ txn # "running"
    /\ jar' = [jar EXCEPT ![c] = j]
    /\ Goto(c, "lock")
    /\ UNCHANGED <<disk, game, txn, lock, meta, left, failures>>

\* get_server_lock_arc: one restore of the server at a time.
LockIgnored == TRUE \* FAULTY
LockIsFree == lock = NoCall

Lock(c) ==
    /\ pc[c] = "lock"
    /\ LockIsFree
    /\ lock' = c
    /\ left' = left \ {jar[c]}
    /\ Goto(c, "state")
    /\ UNCHANGED <<disk, game, txn, jar, meta, failures>>

\* The server must be stopped ...
CheckState(c) == pc[c] = "state" /\ Check(c, game = "Stopped", "active")

\* ... and without an active install transaction, a paused one included.
CheckActive(c) == pc[c] = "active" /\ Check(c, txn = "none", "load")

\* The metadata is loaded; there must be a record, not restored yet, and the
\* artifact it names.
Restorable(j) ==
    /\ records[j] \in {"Quarantined", "RestoreFailed"}
    /\ j \in shelf[ListRoot]

LoadMeta(c) ==
    /\ pc[c] = "load"
    /\ \/ /\ Restorable(jar[c])
          /\ meta' = [meta EXCEPT ![c] = records]
          /\ Goto(c, "conflict")
          /\ UNCHANGED <<lock, jar>>
       \/ ~Restorable(jar[c]) /\ Return(c)
    /\ UNCHANGED <<disk, game, txn, left, failures>>

\* Neither the file nor another provider of the mod may be live.
FileConflict(j) == j \notin mods \* FAULTY
NoConflict(j) == \A k \in mods : k # j /\ Provides[k] # Provides[j]

CheckConflict(c) == pc[c] = "conflict" /\ Check(c, NoConflict(jar[c]), "copy")

\* atomic_restore_copy: the artifact is copied to a temporary file ...
Copy(c) ==
    /\ pc[c] = "copy"
    /\ \/ Works /\ temp' = temp \cup {jar[c]} /\ UNCHANGED left /\ Goto(c, "recheck")
       \/ Fails /\ CleanUp(c) /\ Goto(c, "saveFailure")
    /\ UNCHANGED <<shelf, records, mods, game, txn, lock, jar, meta>>

\* ... the server must still be stopped ...
Recheck(c) ==
    /\ pc[c] = "recheck"
    /\ \/ game = "Stopped" /\ Goto(c, "rename") /\ UNCHANGED <<temp, left>>
       \/ game # "Stopped" /\ CleanUp(c) /\ Goto(c, "saveFailure")
    /\ UNCHANGED <<shelf, records, mods, game, txn, lock, jar, meta, failures>>

\* ... the temporary file becomes the mod ...
Rename(c) ==
    /\ pc[c] = "rename"
    /\ \/ /\ Works
          /\ temp' = temp \ {jar[c]}
          /\ mods' = mods \cup {jar[c]}
          /\ Goto(c, "verify")
          /\ UNCHANGED left
       \/ Fails /\ CleanUp(c) /\ UNCHANGED mods /\ Goto(c, "saveFailure")
    /\ UNCHANGED <<shelf, records, game, txn, lock, jar, meta>>

\* ... and is read once more, or removed when it cannot be, if that works.
KeepUnverified(c) == UNCHANGED <<mods, left>> \* FAULTY
RemoveUnverified(c) ==
    \/ mods' = mods \ {jar[c]} /\ UNCHANGED left
    \/ UNCHANGED mods /\ left' = left \cup {jar[c]}

Verify(c) ==
    /\ pc[c] = "verify"
    /\ \/ Works /\ jar[c] \in mods /\ UNCHANGED <<mods, left>> /\ Goto(c, "save")
       \/ Works /\ jar[c] \notin mods /\ UNCHANGED <<mods, left>> /\ Goto(c, "saveFailure")
       \/ Fails /\ RemoveUnverified(c) /\ Goto(c, "saveFailure")
    /\ UNCHANGED <<shelf, records, temp, game, txn, lock, jar, meta>>

\* The loaded metadata, with the new status, is saved as a whole.
Updated(c, status) == [meta[c] EXCEPT ![jar[c]] = status]

Save(c) ==
    /\ pc[c] = "save"
    /\ \/ Works /\ records' = Updated(c, "Restored")
       \/ Fails /\ UNCHANGED records
    /\ Return(c)
    /\ UNCHANGED <<shelf, mods, temp, game, txn, left>>

SaveFailure(c) ==
    /\ pc[c] = "saveFailure"
    /\ \/ Works /\ records' = Updated(c, "RestoreFailed")
       \/ Fails /\ UNCHANGED records
    /\ Return(c)
    /\ UNCHANGED <<shelf, mods, temp, game, txn, left>>

-----------------------------------------------------------------------------
(***************************************************************************)
(* What else happens to the server.                                        *)
(***************************************************************************)

\* An install begins, pauses to ask the user, and is resumed or rejected.
InstallRuns ==
    /\ txn \in {"none", "paused"}
    /\ NoRestoreRuns
    /\ txn' = "running"
    /\ UNCHANGED <<disk, game, calls, left, failures>>

InstallPauses ==
    /\ txn = "running"
    /\ txn' = "paused"
    /\ UNCHANGED <<disk, game, calls, left, failures>>

InstallRejected ==
    /\ txn = "paused"
    /\ NoRestoreRuns
    /\ txn' = "none"
    /\ UNCHANGED <<disk, game, calls, left, failures>>

\* It commits: preserve_quarantine_on_commit moves what it quarantined, and
\* its tree, without it, becomes the live one.
InstallCommits(quarantined) ==
    /\ txn = "running"
    /\ txn' = "none"
    /\ shelf' = [shelf EXCEPT ![PreserveRoot] = @ \cup quarantined]
    /\ mods' = Pack \ quarantined
    /\ temp' = {}
    /\ UNCHANGED <<records, game, calls, left, failures>>

\* The host puts an artifact beside the live server and calls
\* record_quarantine, which loads and saves the metadata without the lock.
Record(j) ==
    /\ NoRestoreRuns
    /\ records[j] = "none"
    /\ shelf' = [shelf EXCEPT ![ListRoot] = @ \cup {j}]
    /\ records' = [records EXCEPT ![j] = "Quarantined"]
    /\ UNCHANGED <<mods, temp, game, txn, calls, left, failures>>

\* The user removes a mod, by hand for instance.
RemoveMod(j) ==
    /\ j \in mods
    /\ mods' = mods \ {j}
    /\ UNCHANGED <<shelf, records, temp, game, txn, calls, left, failures>>

\* The game server starts or stops.
Play ==
    /\ game' \in {"Stopped", "Running"} \ {game}
    /\ UNCHANGED <<disk, txn, calls, left, failures>>

-----------------------------------------------------------------------------
Restore(c) ==
    \/ CheckState(c) \/ CheckActive(c) \/ LoadMeta(c) \/ CheckConflict(c)
    \/ Copy(c) \/ Recheck(c) \/ Rename(c) \/ Verify(c) \/ Save(c) \/ SaveFailure(c)

Next ==
    \/ \E c \in Call, j \in Jar : Begin(c, j)
    \/ \E c \in Call : Lock(c) \/ Restore(c)
    \/ InstallRuns \/ InstallPauses \/ InstallRejected
    \/ \E q \in SUBSET Pack : InstallCommits(q)
    \/ \E j \in Jar : Record(j) \/ RemoveMod(j)
    \/ Play

Spec == Init /\ [][Next]_vars

\* The threads that hold the lock run.
Fairness == \A c \in Call : WF_vars(Restore(c))
FairSpec == Spec /\ Fairness

-----------------------------------------------------------------------------
(***************************************************************************)
(* Properties.                                                             *)
(***************************************************************************)

\* No two live mods provide the same mod: two restores do not get past the
\* check for other providers together.
OneProvider == \A j, k \in mods : Provides[j] = Provides[k] => j = k

\* A record that says Restored keeps saying so: no restore saves metadata it
\* loaded before another one's.
RestoredStays == [][\A j \in Jar : records[j] = "Restored" => records'[j] = "Restored"]_vars

\* "On any failure: cleanup temp, return error": a restore that returns an
\* error leaves neither its temporary file nor the mod in the live directory, but
\* for one that it tried in vain to remove.
FailureLeavesNothing ==
    [][\A c \in Call : pc[c] = "saveFailure" /\ pc'[c] = "idle"
            => jar[c] \notin (mods \cup temp) \ left]_vars

\* Every restore gives the lock back, on each of its early returns: no later
\* restore of the server waits for ever.
LockIsDropped == \A c \in Call : lock = c ~> lock = NoCall

\* The mod that an install quarantined can be listed, and so restored:
\* preserve_quarantine_on_commit moves it to <live-parent>/.lbby-quarantine.
QuarantineIsListed ==
    \A j \in shelf[PreserveRoot] : j \in shelf[ListRoot]
=============================================================================
