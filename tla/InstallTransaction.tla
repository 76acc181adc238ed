------------------------- MODULE InstallTransaction -------------------------
(***************************************************************************)
(* The install transaction of install_transaction.rs: a modpack is built   *)
(* in a staging directory beside the live server, boot-validated there,    *)
(* and swapped in by two renames; the process may crash between any two    *)
(* file-system operations and each of them may fail.                       *)
(*                                                                         *)
(* A flow is a call of the modpack installer, of the resume command or of  *)
(* the reject command (mod_services.rs, recovery_actions.rs): it owns one  *)
(* InstallTransaction value, `meta', until it returns.  Everything else is *)
(* on disk and survives a crash.                                           *)
(*                                                                         *)
(* A definition marked FAULTY is a variant, with a plausible bug, of the   *)
(* definition below it; no action uses it.  It shows that the properties   *)
(* can fail.                                                               *)
(***************************************************************************)
EXTENDS Naturals

CONSTANTS
    Txn,                \* transaction ids (fresh uuids: each begins once)
    Flow,               \* concurrent calls into the core
    Orig,               \* the build that serves before the first install
    NoTree,             \* no directory at that path
    NoMeta,             \* no transaction.json, or no value in memory
    NoTxn,              \* a flow that works on no transaction
    MaxFailures,        \* bound: file-system operations that fail
    MaxWorld            \* bound: world saves the game server makes

ASSUME ConstantsAssumption ==
    /\ Orig \notin Txn
    /\ NoTxn \notin Txn
    /\ MaxFailures \in Nat
    /\ MaxWorld \in Nat

Phase == {"Building", "PendingUserAction", "Committing", "Committed"}

\* TransactionMeta: its phase, whether backup_path is Some, and whether the
\* pending_recovery.json beside it says that the user approved (applied).
Meta == [phase : Phase, backed : BOOLEAN, approved : BOOLEAN]

\* A server tree: which build, whether a boot validation passed on the tree
\* as it stands, and the version of the world in it.
Tree == [build : Txn \cup {Orig}, checked : BOOLEAN, world : 0..MaxWorld]

ASSUME SentinelsAssumption ==
    /\ NoTree \notin Tree
    /\ NoTree \notin Txn \cup {Orig}
    /\ NoMeta \notin Meta

Step == {"idle", "begin", "build", "copy", "validate", "pause", "commit",
         "moveOut", "record", "moveIn", "undo", "certify", "drop", "rollback"}

\* What the caller of the last operation on a transaction was told.
Result == {"new", "open", "ok", "error", "paused"}

VARIABLES
    live,       \* the live server directory
    staging,    \* .lbby-staging/<server>-<txn>
    backup,     \* .lbby-staging/<server>-<txn>-backup
    marker,     \* <staging>/transaction.json
    pc,         \* where each flow is
    txn,        \* the transaction each flow works on
    meta,       \* the flow's InstallTransaction value
    result,     \* what the last call on each transaction returned
    clock,      \* the newest world version the game server saved
    played,     \* history: it saved one since the last flow started
    failures    \* file-system operations that failed so far

disk == <<live, staging, backup, marker>>
memory == <<pc, txn, meta>>
vars == <<disk, memory, result, clock, played, failures>>

TypeOK ==
    /\ live \in Tree \cup {NoTree}
    /\ staging \in [Txn -> Tree \cup {NoTree}]
    /\ backup \in [Txn -> Tree \cup {NoTree}]
    /\ marker \in [Txn -> Meta \cup {NoMeta}]
    /\ pc \in [Flow -> Step]
    /\ txn \in [Flow -> Txn \cup {NoTxn}]
    /\ meta \in [Flow -> Meta \cup {NoMeta}]
    /\ result \in [Txn -> Result]
    /\ clock \in 0..MaxWorld
    /\ played \in BOOLEAN
    /\ failures \in 0..MaxFailures

Init ==
    /\ live \in {NoTree, [build |-> Orig, checked |-> TRUE, world |-> 0]}
    /\ staging = [t \in Txn |-> NoTree]
    /\ backup = [t \in Txn |-> NoTree]
    /\ marker = [t \in Txn |-> NoMeta]
    /\ pc = [f \in Flow |-> "idle"]
    /\ txn = [f \in Flow |-> NoTxn]
    /\ meta = [f \in Flow |-> NoMeta]
    /\ result = [t \in Txn |-> "new"]
    /\ clock = 0
    /\ played = FALSE
    /\ failures = 0

-----------------------------------------------------------------------------
(***************************************************************************)
(* Helpers.                                                                *)
(***************************************************************************)

\* A file-system operation succeeds, or uses up one of the failures.
Works == UNCHANGED failures
Fails == failures < MaxFailures /\ failures' = failures + 1
FailsTwice == failures + 1 < MaxFailures /\ failures' = failures + 2

\* OperationGuard::acquire: a flow starts only when no other one runs.
NoGuard == TRUE \* FAULTY
OperationGuard == \A f \in Flow : pc[f] = "idle"

\* The tree create_dir_all makes when it has to.
EmptyTree(t) == [build |-> t, checked |-> FALSE, world |-> 0]

\* TransactionMeta::save makes the staging directory if it is missing.
Save(t, m) ==
    /\ marker' = [marker EXCEPT ![t] = m]
    /\ staging' = [staging EXCEPT ![t] = IF @ = NoTree THEN EmptyTree(t) ELSE @]

Goto(f, step) == pc' = [pc EXCEPT ![f] = step]
InPhase(f, phase) == meta' = [meta EXCEPT ![f].phase = phase]

\* The call returns r and its transaction value is gone.
Return(f, r) ==
    /\ Goto(f, "idle")
    /\ txn' = [txn EXCEPT ![f] = NoTxn]
    /\ meta' = [meta EXCEPT ![f] = NoMeta]
    /\ result' = [result EXCEPT ![txn[f]] = r]

\* remove_dir_all on the staging directory: all of it ...
RemoveStaging(t) ==
    /\ Works
    /\ staging' = [staging EXCEPT ![t] = NoTree]
    /\ marker' = [marker EXCEPT ![t] = NoMeta]

\* ... or a part of it, which may hold the marker.
RemoveFails(t) ==
    /\ Fails
    /\ staging[t] # NoTree
    /\ staging' = [staging EXCEPT ![t].checked = FALSE]
    /\ marker' \in {marker, [marker EXCEPT ![t] = NoMeta]}

\* The old server can be put back: a backup is named, exists, and nothing is
\* in its way.
RestorableOverLive(f) == \* FAULTY
    meta[f].backed /\ backup[txn[f]] # NoTree /\ live # NoTree
Restorable(f) ==
    meta[f].backed /\ backup[txn[f]] # NoTree /\ live = NoTree

\* A transaction find_stale reports as resumable.
Paused(t) ==
    /\ staging[t] # NoTree
    /\ marker[t] # NoMeta
    /\ marker[t].phase = "PendingUserAction"

-----------------------------------------------------------------------------
(***************************************************************************)
(* begin, and building the staged server.                                  *)
(***************************************************************************)

\* begin: the directory first ...
Begin(f, t) ==
    /\ OperationGuard
    /\ result[t] = "new"
    /\ staging' = [staging EXCEPT ![t] = EmptyTree(t)]
    /\ result' = [result EXCEPT ![t] = "open"]
    /\ txn' = [txn EXCEPT ![f] = t]
    /\ played' = FALSE
    /\ Goto(f, "begin")
    /\ UNCHANGED <<live, backup, marker, meta, clock, failures>>

\* ... then the marker; without it no InstallTransaction exists, and nothing
\* removes the directory.
SaveNew(f) ==
    LET new == [phase |-> "Building", backed |-> FALSE, approved |-> FALSE] IN
    /\ pc[f] = "begin"
    /\ \/ /\ Works
          /\ Save(txn[f], new)
          /\ meta' = [meta EXCEPT ![f] = new]
          /\ Goto(f, "build")
          /\ UNCHANGED <<txn, result>>
       \/ /\ Fails
          /\ Return(f, "error")
          /\ UNCHANGED <<staging, marker>>
    /\ UNCHANGED <<live, backup, clock, played>>

\* The installer downloads the pack into staging, or gives up with `?'.
BuildPack(f) ==
    /\ pc[f] = "build"
    /\ Goto(f, "copy") \/ Goto(f, "drop")
    /\ UNCHANGED <<disk, txn, meta, result, clock, played, failures>>

\* copy_persistent_state: the world of the live server, if there is one.
CopyPersistentState(f) ==
    /\ pc[f] = "copy"
    /\ \/ /\ Works
          /\ staging' = IF live = NoTree \/ staging[txn[f]] = NoTree
                        THEN staging
                        ELSE [staging EXCEPT ![txn[f]].world = live.world]
          /\ Goto(f, "validate")
       \/ /\ Fails
          /\ Goto(f, "drop")
          /\ UNCHANGED staging
    /\ UNCHANGED <<live, backup, marker, txn, meta, result, clock, played>>

\* The verdict of the boot validation on the staged tree.
Validate(f) ==
    /\ pc[f] = "validate"
    /\ \/ /\ Goto(f, "commit")
          /\ staging' = IF staging[txn[f]] = NoTree THEN staging
                        ELSE [staging EXCEPT ![txn[f]].checked = TRUE]
       \/ /\ Goto(f, "rollback") \/ Goto(f, "pause") \/ Goto(f, "drop")
          /\ UNCHANGED staging
    /\ UNCHANGED <<live, backup, marker, txn, meta, result, clock, played, failures>>

-----------------------------------------------------------------------------
(***************************************************************************)
(* Pausing for the user, resuming, and giving up.                          *)
(***************************************************************************)

\* pause: on a failed save staging is removed here and now, and Drop finds
\* nothing left to do.
PauseFailsSilently(f) == \* FAULTY
    /\ Fails
    /\ staging' = [staging EXCEPT ![txn[f]] = NoTree]
    /\ marker' = [marker EXCEPT ![txn[f]] = NoMeta]
    /\ Return(f, "paused")
PauseFails(f) ==
    /\ Fails
    /\ staging' = [staging EXCEPT ![txn[f]] = NoTree]
    /\ marker' = [marker EXCEPT ![txn[f]] = NoMeta]
    /\ Return(f, "error")

Pause(f) ==
    /\ pc[f] = "pause"
    /\ \/ /\ Works
          /\ Save(txn[f], [meta[f] EXCEPT !.phase = "PendingUserAction",
                                         !.approved = FALSE])
          /\ Return(f, "paused")
       \/ PauseFails(f)
    /\ UNCHANGED <<live, backup, clock, played>>

\* find_live_path_for_server: approve and reject look the transaction up from
\* the live directory, which has to exist.
LivePathFound == live # NoTree

\* approve_crash_recovery, which takes no guard: the suspected mod is taken out
\* of staging.
Approve(t) ==
    /\ LivePathFound
    /\ Paused(t)
    /\ ~marker[t].approved
    /\ staging' = [staging EXCEPT ![t].checked = FALSE]
    /\ marker' = [marker EXCEPT ![t].approved = TRUE]
    /\ UNCHANGED <<live, backup, memory, result, clock, played, failures>>

\* resume: the transaction value is read back from the marker and keeps its
\* PendingUserAction phase while the staged tree is validated again.
Open(f, t, step) ==
    /\ OperationGuard
    /\ Paused(t)
    /\ txn' = [txn EXCEPT ![f] = t]
    /\ meta' = [meta EXCEPT ![f] = marker[t]]
    /\ result' = [result EXCEPT ![t] = "open"]
    /\ played' = FALSE
    /\ Goto(f, step)
    /\ UNCHANGED <<disk, clock, failures>>

\* resume_curseforge_install: an approved one is built and validated again.
ResumeWithoutCopy(f, t) == Open(f, t, "validate") /\ marker[t].approved \* FAULTY
Resume(f, t) == Open(f, t, "copy") /\ marker[t].approved

\* reject_crash_recovery: resume, then rollback.  It takes no guard either; that
\* it comes while a flow runs is in RecoveryFlow (RejectedIsRolledBack).
Reject(f, t) == Open(f, t, "rollback") /\ LivePathFound

\* rollback, called after a failed validation and by reject.  When staging
\* cannot be removed it stops there, and Drop has its turn.
Rollback(f) ==
    LET t == txn[f]
        restored == meta[f].phase = "Committing" /\ Restorable(f)
    IN
    /\ pc[f] = "rollback"
    /\ \/ /\ RemoveStaging(t)
          /\ live' = IF restored THEN backup[t] ELSE live
          /\ backup' = IF restored THEN [backup EXCEPT ![t] = NoTree] ELSE backup
          /\ Return(f, "error")
       \/ /\ RemoveFails(t)
          /\ Goto(f, "drop")
          /\ UNCHANGED <<live, backup, txn, meta, result>>
    /\ UNCHANGED <<clock, played>>

\* Drop of an InstallTransaction on an early return: only a Building one
\* rolls back.
Drop(f) ==
    /\ pc[f] = "drop"
    /\ \/ /\ meta[f].phase = "Building"
          /\ RemoveStaging(txn[f]) \/ RemoveFails(txn[f])
       \/ /\ meta[f].phase # "Building"
          /\ UNCHANGED <<staging, marker, failures>>
    /\ Return(f, "error")
    /\ UNCHANGED <<live, backup, clock, played>>

-----------------------------------------------------------------------------
(***************************************************************************)
(* commit, one file-system operation at a time.                            *)
(***************************************************************************)

\* Step 1: record that the swap has begun.  When the save fails the value
\* already says Committing, so Drop leaves staging where it is.
MarkCommitting(f) ==
    LET m == [meta[f] EXCEPT !.phase = "Committing"] IN
    /\ pc[f] = "commit"
    /\ \/ /\ Works
          /\ Save(txn[f], m)
          /\ meta' = [meta EXCEPT ![f] = m]
          /\ Goto(f, "moveOut")
          /\ UNCHANGED <<txn, result>>
       \/ /\ Fails
          /\ Return(f, "error")
          /\ UNCHANGED <<staging, marker>>
    /\ UNCHANGED <<live, backup, clock, played>>

\* The rename of the live directory to its backup.
SetAsideNowhere(t) == UNCHANGED backup \* FAULTY
SetAside(t) == backup' = [backup EXCEPT ![t] = live]

\* The error closures of steps 2 and 3: the phase is Building again.
CommitFailsSilently(f) == InPhase(f, "Committed") /\ Goto(f, "certify") \* FAULTY
CommitFails(f) == InPhase(f, "Building") /\ Goto(f, "undo")

\* Step 2: live -> backup, skipped when there is no live directory.
MoveLiveOut(f) ==
    /\ pc[f] = "moveOut"
    /\ \/ /\ live = NoTree
          /\ Works
          /\ Goto(f, "moveIn")
          /\ UNCHANGED <<live, backup, meta>>
       \/ /\ live # NoTree
          /\ Works
          /\ SetAside(txn[f])
          /\ live' = NoTree
          /\ meta' = [meta EXCEPT ![f].backed = TRUE]
          /\ Goto(f, "record")
       \/ /\ live # NoTree
          /\ Fails
          /\ CommitFails(f)
          /\ UNCHANGED <<live, backup>>
    /\ UNCHANGED <<staging, marker, txn, result, clock, played>>

\* Step 2, end: record where the backup is.  A failure returns with the live
\* path empty; the phase is Committing, so Drop does nothing about it.
RecordBackup(f) ==
    /\ pc[f] = "record"
    /\ \/ /\ Works
          /\ Save(txn[f], meta[f])
          /\ Goto(f, "moveIn")
          /\ UNCHANGED <<txn, meta, result>>
       \/ /\ Fails
          /\ Return(f, "error")
          /\ UNCHANGED <<staging, marker>>
    /\ UNCHANGED <<live, backup, clock, played>>

\* Step 3: staging -> live.  The marker inside staging moves along.  The
\* rename cannot replace a directory that holds files.
MoveStagingIn(f) ==
    LET t == txn[f] IN
    /\ pc[f] = "moveIn"
    /\ live = NoTree
    /\ staging[t] # NoTree
    /\ Works
    /\ live' = staging[t]
    /\ staging' = [staging EXCEPT ![t] = NoTree]
    /\ marker' = [marker EXCEPT ![t] = NoMeta]
    /\ InPhase(f, "Committed")
    /\ Goto(f, "certify")
    /\ UNCHANGED <<backup, txn, result, clock, played>>

\* Step 3 failed: put the backup back, if that works, and forget the commit.
MoveStagingInFails(f) ==
    LET t == txn[f] IN
    /\ pc[f] = "moveIn"
    /\ \/ /\ Restorable(f)
          /\ IF staging[t] = NoTree THEN Works ELSE Fails
          /\ live' = backup[t]
          /\ backup' = [backup EXCEPT ![t] = NoTree]
       \/ /\ IF Restorable(f) THEN FailsTwice
             ELSE IF live = NoTree /\ staging[t] # NoTree THEN Fails ELSE Works
          /\ UNCHANGED <<live, backup>>
    /\ CommitFails(f)
    /\ UNCHANGED <<staging, marker, txn, result, clock, played>>

\* The error closures of steps 2 and 3 end by saving the phase Building
\* (whether or not that works); the error then drops the value.
UndoCommit(f) ==
    /\ pc[f] = "undo"
    /\ \/ Works /\ Save(txn[f], meta[f])
       \/ Fails /\ UNCHANGED <<staging, marker>>
    /\ Goto(f, "drop")
    /\ UNCHANGED <<live, backup, txn, meta, result, clock, played>>

\* Step 4: write .lbby-transaction.json into what is now the live directory.
Certify(f) ==
    /\ pc[f] = "certify"
    /\ \/ Works /\ Return(f, "ok")
       \/ Fails /\ Return(f, "error")
    /\ UNCHANGED <<disk, clock, played>>

-----------------------------------------------------------------------------
(***************************************************************************)
(* The environment, and the specification.                                 *)
(***************************************************************************)

\* The process dies: what is in memory is gone.
Crash ==
    /\ \E f \in Flow : pc[f] # "idle"
    /\ pc' = [f \in Flow |-> "idle"]
    /\ txn' = [f \in Flow |-> NoTxn]
    /\ meta' = [f \in Flow |-> NoMeta]
    /\ UNCHANGED <<disk, result, clock, played, failures>>

\* The game server saves its world into the live directory.
Play ==
    /\ live # NoTree
    /\ clock < MaxWorld
    /\ clock' = clock + 1
    /\ played' = (played \/ ~OperationGuard)
    /\ live' = [live EXCEPT !.world = clock + 1]
    /\ UNCHANGED <<staging, backup, marker, memory, result, failures>>

Prepare(f) ==
    SaveNew(f) \/ BuildPack(f) \/ CopyPersistentState(f) \/ Validate(f)

Commit(f) ==
    \/ MarkCommitting(f) \/ MoveLiveOut(f) \/ RecordBackup(f)
    \/ MoveStagingIn(f) \/ MoveStagingInFails(f) \/ UndoCommit(f) \/ Certify(f)

End(f) == Pause(f) \/ Rollback(f) \/ Drop(f)

Start(f) == \E t \in Txn : Begin(f, t) \/ Resume(f, t) \/ Reject(f, t)

Next ==
    \/ \E f \in Flow : Start(f) \/ Prepare(f) \/ Commit(f) \/ End(f)
    \/ \E t \in Txn : Approve(t)
    \/ Crash
    \/ Play

Spec == Init /\ [][Next]_vars

-----------------------------------------------------------------------------
(***************************************************************************)
(* What reconcile_recovery_state reports at startup.  It visits every      *)
(* directory of .lbby-staging that holds a transaction.json: staging       *)
(* directories, and backups too.  A build that once was installed still    *)
(* holds the marker its staging directory had at the rename, which says    *)
(* Committing.                                                             *)
(***************************************************************************)

\* discover_transactions finds the marker in t's staging directory.
Seen(t) == staging[t] # NoTree /\ marker[t] # NoMeta

\* What may be reported in each phase: a question without its metadata needs the
\* user, as does a commit that cannot be cleaned up after.
ReconciliationAction == [Building |-> {"ReportedAbandoned"},
           PendingUserAction |-> {"PreservedPendingRecovery", "NeedsManualRecovery"},
           Committing |-> {"NeedsManualRecovery"},
           Committed |-> {"CleanedUp", "NeedsManualRecovery"}]

\* All that is reported about transaction t.
Reconcile(t) ==
    UNION {ReconciliationAction[marker[u].phase] : u \in {u \in {t} : Seen(u)}}
    \cup UNION {ReconciliationAction["Committing"] :
            u \in {u \in Txn : backup[u] # NoTree /\ backup[u].build = t}}

\* analyze_committing_state: a backup counts only if the marker names it.
BackupExists(t) == marker[t].backed /\ backup[t] # NoTree

-----------------------------------------------------------------------------
(***************************************************************************)
(* Safety.                                                                 *)
(***************************************************************************)

\* Only a tree that boot validation accepted, exactly as it stands, is ever
\* the live server: no half-built, half-removed or re-created staging
\* directory is renamed in (commit, rollback and resume together).
OnlyValidatedServes == live # NoTree => live.checked

\* The newest world the game server saved is on disk, in the live directory
\* or in a backup, whatever crashed and whatever failed.
NewestWorldIsKept ==
    clock > 0 =>
        \/ live # NoTree /\ live.world = clock
        \/ \E t \in Txn : backup[t] # NoTree /\ backup[t].world = clock

\* When the caller was told that an install succeeded, the build is the live
\* one or was set aside by a later install.
InstalledIsKept ==
    \A t \in Txn : result[t] = "ok" =>
        \/ live # NoTree /\ live.build = t
        \/ \E u \in Txn \ {t} : backup[u] # NoTree /\ backup[u].build = t

\* A transaction the user was asked about stays resumable, over crashes and
\* other installs, until a call on it is made.
PausedIsResumable == \A t \in Txn : result[t] = "paused" => Paused(t)

\* While no flow runs, no live directory is left, and a backup is.
LiveIsMissing ==
    /\ OperationGuard
    /\ live = NoTree
    /\ \E t \in Txn : backup[t] # NoTree

\* Startup reconciliation then reports a commit that was under way, so that
\* the user is told -- as long as no second operation failed: when both renames
\* of one commit fail, the one in and the one back, nothing says so.
LostLiveIsReported ==
    failures <= 1 /\ LiveIsMissing =>
        \E t \in Txn : Seen(t) /\ ReconciliationAction[marker[t].phase] = {"NeedsManualRecovery"}

\* Replacing a server that exists never brings back an older world than the one
\* it sets aside, however long the transaction was paused while people played --
\* provided the game server saves nothing while that flow runs.
SwapKeepsNewestWorld ==
    [][\A f \in Flow :
         pc[f] = "moveIn" /\ pc'[f] = "certify" /\ meta[f].backed /\ ~played
         => live'.world = backup[txn[f]].world]_vars

-----------------------------------------------------------------------------
(***************************************************************************)
(* The abstract specification this implements: builds, wherever they are.  *)
(***************************************************************************)

BuildIn(tree) == IF tree = NoTree THEN NoTree ELSE tree.build

Swap == INSTANCE DirectorySwap WITH
            Build <- Txn \cup {Orig},
            Slot <- Txn,
            Absent <- NoTree,
            path <- BuildIn(live),
            kept <- [t \in Txn |-> BuildIn(backup[t])]

\* Commit, rollback and crashes only ever take the serving build down into a
\* free slot, put a build up on an empty path, or bring a kept one back.
ImplementsSwap == Swap!Spec

-----------------------------------------------------------------------------
(***************************************************************************)
(* What the source's comments say and the code does not do.                *)
(***************************************************************************)

\* commit: "At every point, the server path refers to either the old complete
\* build or the new complete build".
PathAlwaysServes == [][live # NoTree => live' # NoTree]_vars

\* "On failure, staging is discarded and the live server remains untouched":
\* an install that returned an error is not what serves.
FailedInstallDoesNotServe ==
    \A t \in Txn : result[t] = "error" => ~(live # NoTree /\ live.build = t)

\* copy_persistent_state takes an absent live directory for a "Fresh install
\* - nothing to preserve": no backup holds a server then.
NothingToPreserve ==
    \A f \in Flow :
        pc[f] = "copy" /\ live = NoTree => \A t \in Txn : backup[t] = NoTree

\* "user explicitly Approves or Rejects": one of the two can be done to a
\* paused transaction.
PausedIsAnswerable ==
    \A t \in Txn : result[t] = "paused" => LivePathFound \/ marker[t].approved

\* CommittingFilesystemState is a "Filesystem snapshot for Committing phase
\* recovery analysis": its backup_exists tells whether the backup exists.
BackupIsNamed ==
    \A t \in Txn :
        OperationGuard /\ Seen(t) /\ marker[t].phase = "Committing"
        => (BackupExists(t) <=> backup[t] # NoTree)

\* commit: "staging dir is now live, so the old marker is gone" -- a
\* transaction that returned Ok is never reported as needing recovery.
CommittedNeedsNoRecovery ==
    \A t \in Txn : result[t] = "ok" => "NeedsManualRecovery" \notin Reconcile(t)

-----------------------------------------------------------------------------
(***************************************************************************)
(* The inductive invariant behind the safety properties.                   *)
(***************************************************************************)

OneFlow == \A f, g \in Flow : pc[f] # "idle" /\ pc[g] # "idle" => f = g

\* A running flow owns a transaction nobody was given an answer about.
FlowOwnsTxn ==
    \A f \in Flow : pc[f] # "idle" =>
        /\ txn[f] \in Txn
        /\ result[txn[f]] = "open"
        /\ pc[f] # "begin" => meta[f] \in Meta
        /\ pc[f] # "certify" => staging[txn[f]] # NoTree

Swapping == {"moveOut", "record", "moveIn"}

\* What commit relies on: a validated tree in staging, which no approval may
\* change any more, and a marker that says Committing, in memory as on disk.
CommitIsPrepared ==
    \A f \in Flow :
        /\ pc[f] \in Swapping \cup {"commit"} => staging[txn[f]].checked
        /\ pc[f] \in Swapping =>
              /\ meta[f].phase = "Committing"
              /\ marker[txn[f]] \in Meta
              /\ marker[txn[f]].phase = "Committing"
        /\ pc[f] = "undo" => meta[f].phase = "Building"
        /\ pc[f] \in {"build", "copy", "validate", "commit"} /\ marker[txn[f]] # NoMeta
           /\ marker[txn[f]].phase = "PendingUserAction" => marker[txn[f]].approved
        /\ pc[f] = "certify" => live # NoTree /\ live.build = txn[f]

TreesAreSound ==
    \A t \in Txn :
        /\ backup[t] # NoTree => backup[t].checked
        /\ staging[t] # NoTree => staging[t].build = t

\* Before a transaction swaps, its backup slot is free.
BeforeSwap == {"begin", "build", "copy", "validate", "pause", "commit",
               "moveOut", "rollback"}

SlotIsFree ==
    /\ \A t \in Txn :
          \/ result[t] = "new"
          \/ marker[t] # NoMeta /\ marker[t].phase = "PendingUserAction"
          => backup[t] = NoTree
    /\ \A f \in Flow : pc[f] \in BeforeSwap => backup[txn[f]] = NoTree

Inv ==
    /\ TypeOK
    /\ OneFlow
    /\ FlowOwnsTxn
    /\ CommitIsPrepared
    /\ TreesAreSound
    /\ SlotIsFree
    /\ OnlyValidatedServes
    /\ NewestWorldIsKept
    /\ InstalledIsKept
    /\ PausedIsResumable
=============================================================================
