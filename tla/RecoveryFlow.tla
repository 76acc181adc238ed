----------------------------- MODULE RecoveryFlow -----------------------------
(***************************************************************************)
(* The validation of a staged modpack and the user's part in it            *)
(* (validation_orchestrator.rs, recovery_actions.rs and the installers of  *)
(* mod_services.rs): the staged server is booted, repaired and booted      *)
(* again, within retry budgets; a crash that is blamed on one mod pauses   *)
(* the transaction until the user approves its quarantine, or rejects the  *)
(* install; a resume validates what is left.                               *)
(*                                                                         *)
(* The budgets outlive a pause in a file, .lbby-retry-state.json, which    *)
(* the installers write and read beside the server that cfg2 names: the    *)
(* staged tree in an install, the live server in a resume.  How a tree     *)
(* goes live is the subject of InstallTransaction; here a commit is one    *)
(* step.  Servers whose directories share a parent share .lbby-staging.    *)
(* A rejection may come while a resume is under way: nothing on the disk   *)
(* says that there is one.                                                 *)
(*                                                                         *)
(* Definitions marked FAULTY are variants, with a plausible bug, of the    *)
(* definition below them; no action uses them.                             *)
(***************************************************************************)
EXTENDS Naturals, FiniteSets

CONSTANTS
    Server,             \* the servers whose directories share a parent
    Txn,                \* transaction ids
    Owner,              \* the server each transaction installs
    Mod,                \* the mods that a crash may be blamed on
    Pack,               \* the mods of the pack that each transaction installs
    MaxBoots,           \* MAX_TOTAL_BOOT_ATTEMPTS
    MaxDepRounds,       \* MAX_BOOT_DEP_ROUNDS
    MaxRuntimeRounds,   \* MAX_RUNTIME_ROUNDS
    MaxActions,         \* MAX_USER_RECOVERY_ACTIONS
    MaxFaults,          \* bound: failing file-system operations and crashes
    NoTxn, NoServer, NoMod, NoRetry, NoRecovery

\* ValidationRetryState, as RetryStateSnapshot keeps it.
Retry == [boots : 0..MaxBoots, deps : 0..MaxDepRounds, runtime : 0..MaxRuntimeRounds]
Fresh == [boots |-> 0, deps |-> 0, runtime |-> 0]

\* PendingRecoveryMetadata: the blamed mod, whether its quarantine is applied.
Recovery == [target : Mod, applied : BOOLEAN]

ASSUME ConstantsAssumption ==
    /\ Owner \in [Txn -> Server]
    /\ Pack \in [Txn -> SUBSET Mod]
    /\ MaxBoots \in Nat /\ MaxDepRounds \in Nat /\ MaxRuntimeRounds \in Nat
    /\ MaxActions \in Nat \ {0} /\ MaxFaults \in Nat
    /\ NoTxn \notin Txn /\ NoServer \notin Server /\ NoMod \notin Mod
    /\ NoRetry \notin Retry /\ NoRecovery \notin Recovery

\* One validation cycle cannot use up the global ceiling.
ASSUME BudgetAssumption == 1 + MaxDepRounds + MaxRuntimeRounds < MaxBoots

Phase == {"new", "Building", "PendingUserAction", "Committed", "gone"}

\* Where the flow is in validate ...
ValidateStep == {"boot", "running", "failing", "repairDeps", "repairRuntime"}
\* ... and around it.
Step == ValidateStep \cup
    {"idle", "build", "load", "validated", "commit", "failed", "saveRecovery",
     "saveRetry", "pause", "clear"}

VARIABLES
    phase,      \* the phase in each transaction.json
    mods,       \* the mods in each staged mods directory
    recovery,   \* each pending_recovery.json
    staged,     \* the retry state in each staged tree
    live,       \* the retry state in each live server
    pc,         \* where the running flow is
    txn,        \* its transaction
    server,     \* the server of the active profile when a resume began
    resumed,    \* is it a resume?
    orch,       \* the orchestrator's retry state ...
    loaded,     \* ... and what it was when validation began
    target,     \* the mod the last failed boot is blamed on
    boots,      \* servers launched for each transaction, up to MaxBoots + 1
    approvals,  \* approvals of each transaction that returned Applied
    rejected,   \* the transactions whose rejection returned Ok
    faults      \* failing operations and crashes so far

disk == <<phase, mods, recovery, staged, live>>
budget == <<orch, loaded>>
flow == <<pc, txn, server, resumed, budget, target>>
history == <<boots, approvals, rejected>>
vars == <<disk, flow, history, faults>>

TypeOK ==
    /\ phase \in [Txn -> Phase]
    /\ mods \in [Txn -> SUBSET Mod]
    /\ recovery \in [Txn -> Recovery \cup {NoRecovery}]
    /\ staged \in [Txn -> Retry \cup {NoRetry}]
    /\ live \in [Server -> Retry \cup {NoRetry}]
    /\ pc \in Step
    /\ txn \in Txn \cup {NoTxn}
    /\ server \in Server \cup {NoServer}
    /\ resumed \in BOOLEAN
    /\ orch \in Retry
    /\ loaded \in Retry
    /\ target \in Mod \cup {NoMod}
    /\ boots \in [Txn -> 0..MaxBoots + 1]
    /\ approvals \in [Txn -> Nat]
    /\ rejected \subseteq Txn
    /\ faults \in 0..MaxFaults

Init ==
    /\ phase = [t \in Txn |-> "new"]
    /\ mods = [t \in Txn |-> {}]
    /\ recovery = [t \in Txn |-> NoRecovery]
    /\ staged = [t \in Txn |-> NoRetry]
    /\ live = [s \in Server |-> NoRetry]
    /\ pc = "idle"
    /\ txn = NoTxn
    /\ server = NoServer
    /\ resumed = FALSE
    /\ orch = Fresh
    /\ loaded = Fresh
    /\ target = NoMod
    /\ boots = [t \in Txn |-> 0]
    /\ approvals = [t \in Txn |-> 0]
    /\ rejected = {}
    /\ faults = 0

-----------------------------------------------------------------------------
(***************************************************************************)
(* Helpers.                                                                *)
(***************************************************************************)

\* A file-system operation works, or uses up one of the faults.
Works == UNCHANGED faults
Fails == faults < MaxFaults /\ faults' = faults + 1

Goto(step) == pc' = step

\* The flow returns, or dies: only the disk and the history stay.
Idle ==
    /\ pc' = "idle"
    /\ txn' = NoTxn
    /\ server' = NoServer
    /\ resumed' = FALSE
    /\ orch' = Fresh
    /\ loaded' = Fresh
    /\ target' = NoMod

\* remove_dir_all on the staging directory of t.
RemoveStaging(t) ==
    /\ phase' = [phase EXCEPT ![t] = "gone"]
    /\ mods' = [mods EXCEPT ![t] = {}]
    /\ recovery' = [recovery EXCEPT ![t] = NoRecovery]
    /\ staged' = [staged EXCEPT ![t] = NoRetry]
    /\ UNCHANGED live

\* The flow returns an error: Drop rolls back a transaction that is Building,
\* and leaves the one of a resume, which is PendingUserAction, as it is.
ReturnError ==
    /\ Idle
    /\ IF resumed THEN UNCHANGED disk ELSE RemoveStaging(txn)
    /\ UNCHANGED history

-----------------------------------------------------------------------------
(***************************************************************************)
(* The beginnings of a flow.                                               *)
(***************************************************************************)

\* An install begins and builds the pack in staging.
Begin(t) ==
    /\ pc = "idle"
    /\ phase[t] = "new"
    /\ phase' = [phase EXCEPT ![t] = "Building"]
    /\ txn' = t
    /\ Goto("build")
    /\ UNCHANGED <<mods, recovery, staged, live, server, resumed, budget, target, history, faults>>

Build ==
    /\ pc = "build"
    /\ \/ /\ Works
          /\ mods' = [mods EXCEPT ![txn] = Pack[txn]]
          /\ Goto("load")
          /\ UNCHANGED <<phase, recovery, staged, live, txn, server, resumed, budget, target, history>>
       \/ Fails /\ ReturnError

\* find_stale looks at every transaction under the shared staging root, and
\* the resume takes the first PendingUserAction one, whatever its server.
Found(s, t) == phase[t] = "PendingUserAction"

\* A resume of the transaction t while the active profile is that of s; the
\* user has approved, and the persistent state is copied again.
ApprovalNotNeeded(t) == TRUE \* FAULTY
Approved(t) == recovery[t] # NoRecovery /\ recovery[t].applied

Resume(s, t) ==
    /\ pc = "idle"
    /\ Found(s, t)
    /\ Approved(t)
    /\ Works
    /\ txn' = t
    /\ server' = s
    /\ resumed' = TRUE
    /\ Goto("load")
    /\ UNCHANGED <<disk, budget, target, history>>

\* load_retry_state: an install reads it in its own staged tree, a resume in
\* the live server of the active profile.
Load ==
    LET prior == IF resumed THEN live[server] ELSE staged[txn]
        state == IF prior = NoRetry THEN Fresh ELSE prior
    IN  /\ pc = "load"
        /\ orch' = state
        /\ loaded' = state
        /\ Goto("boot")
        /\ UNCHANGED <<disk, txn, server, resumed, target, history, faults>>

-----------------------------------------------------------------------------
(***************************************************************************)
(* validate.                                                               *)
(***************************************************************************)

\* consume_boot_attempt, and the launch.  In a tree that is gone nothing is
\* launched: there is no eula.txt.
BelowCeiling == orch.boots < MaxBoots

Boot ==
    /\ pc = "boot"
    /\ \/ /\ BelowCeiling
          /\ orch' = [orch EXCEPT !.boots = @ + 1]
          /\ IF phase[txn] = "gone"
             THEN Goto("failing") /\ UNCHANGED boots
             ELSE /\ Goto("running")
                  /\ boots' = [boots EXCEPT ![txn] = IF @ > MaxBoots THEN @ ELSE @ + 1]
       \/ /\ ~BelowCeiling
          /\ Goto("failed")
          /\ UNCHANGED <<orch, boots>>
    /\ UNCHANGED <<disk, txn, server, resumed, loaded, target, approvals, rejected, faults>>

\* The boot succeeds (and its overlay is cleaned up, or is gone with the
\* tree), times out, or fails.
BootResult ==
    /\ pc = "running"
    /\ \E next \in {"validated", "failed", "failing"} : Goto(next)
    /\ UNCHANGED <<disk, txn, server, resumed, budget, target, history, faults>>

\* classify_failure and, for a failure nothing repairs, the attribution of
\* the crash to a mod that the user may remove.
MayRepairDeps == orch.deps < MaxDepRounds
MayRepairRuntime == orch.runtime < MaxRuntimeRounds
Blamable == mods[txn]

Classify ==
    /\ pc = "failing"
    /\ \/ MayRepairDeps /\ Goto("repairDeps") /\ UNCHANGED target
       \/ MayRepairRuntime /\ Goto("repairRuntime") /\ UNCHANGED target
       \/ \E m \in Blamable : target' = m /\ Goto("saveRecovery")
       \/ Goto("failed") /\ UNCHANGED target
    /\ UNCHANGED <<disk, txn, server, resumed, budget, history, faults>>

\* The repair is recorded whether it worked or not; only then is there
\* another boot.
DepsUnrecorded == orch' = orch \* FAULTY
BudgetsForgotten == orch' = Fresh \* FAULTY
RecordDeps == orch' = [orch EXCEPT !.deps = @ + 1]
RecordRuntime == orch' = [orch EXCEPT !.runtime = @ + 1]

Repair ==
    /\ \/ pc = "repairDeps" /\ RecordDeps
       \/ pc = "repairRuntime" /\ RecordRuntime
    /\ \E next \in {"boot", "failed"} : Goto(next)
    /\ UNCHANGED <<disk, txn, server, resumed, loaded, target, history, faults>>

-----------------------------------------------------------------------------
(***************************************************************************)
(* What the installer makes of the outcome.                                *)
(***************************************************************************)

\* Validated: the quarantined mods are moved out of staging ...
Preserve ==
    /\ pc = "validated"
    /\ \/ Works /\ Goto("commit") /\ UNCHANGED <<disk, txn, server, resumed, budget, target, history>>
       \/ Fails /\ ReturnError

\* ... and staging, with the retry state in it, becomes the live server.  A
\* commit that fails leaves nothing to resume.  When the tree is gone, saving
\* the marker makes the directory again, and this is what goes live.
Commit ==
    /\ pc = "commit"
    /\ \/ /\ Works
          /\ phase' = [phase EXCEPT ![txn] = "Committed"]
          /\ live' = [live EXCEPT ![Owner[txn]] = staged[txn]]
          /\ staged' = [staged EXCEPT ![txn] = NoRetry]
          /\ recovery' = [recovery EXCEPT ![txn] = NoRecovery]
          /\ Goto("clear")
          /\ UNCHANGED <<mods, txn, server, resumed, budget, target, history>>
       \/ /\ Fails
          /\ RemoveStaging(txn)
          /\ Idle
          /\ UNCHANGED history

\* Failed: the transaction is rolled back.
Rollback ==
    /\ pc = "failed"
    /\ \/ /\ Works
          /\ RemoveStaging(txn)
          /\ Goto("clear")
          /\ UNCHANGED <<txn, server, resumed, budget, target, history>>
       \/ Fails /\ ReturnError

\* clear_retry_state, where this flow read it: the staging path is gone.
Clear ==
    /\ pc = "clear"
    /\ live' = IF resumed THEN [live EXCEPT ![server] = NoRetry] ELSE live
    /\ Idle
    /\ UNCHANGED <<phase, mods, recovery, staged, history, faults>>

\* UserActionRequired: the question is saved, which makes no directory ...
SaveRecoveryFailsSilently == \* FAULTY
    Fails /\ Goto("saveRetry")
        /\ UNCHANGED <<disk, txn, server, resumed, budget, target, history>>
SaveRecoveryFails == Fails /\ ReturnError

SaveRecovery ==
    /\ pc = "saveRecovery"
    /\ \/ /\ phase[txn] # "gone"
          /\ Works
          /\ recovery' = [recovery EXCEPT ![txn] = [target |-> target, applied |-> FALSE]]
          /\ Goto("saveRetry")
          /\ UNCHANGED <<phase, mods, staged, live, txn, server, resumed, budget, target, history>>
       \/ SaveRecoveryFails
       \/ phase[txn] = "gone" /\ Works /\ ReturnError

\* ... the retry state is saved, or is not ...
SaveRetry ==
    /\ pc = "saveRetry"
    /\ \/ /\ Works
          /\ IF resumed
             THEN live' = [live EXCEPT ![server] = orch] /\ UNCHANGED staged
             ELSE staged' = [staged EXCEPT ![txn] = orch] /\ UNCHANGED live
       \/ Fails /\ UNCHANGED <<staged, live>>
    /\ Goto("pause")
    /\ UNCHANGED <<phase, mods, recovery, txn, server, resumed, budget, target, history>>

\* ... and the transaction pauses, whose marker makes a directory that is
\* gone again; when that fails, staging is removed.
Pause ==
    /\ pc = "pause"
    /\ \/ /\ Works
          /\ phase' = [phase EXCEPT ![txn] = "PendingUserAction"]
          /\ UNCHANGED <<mods, recovery, staged, live>>
       \/ Fails /\ RemoveStaging(txn)
    /\ Idle
    /\ UNCHANGED history

-----------------------------------------------------------------------------
(***************************************************************************)
(* What the user does, and a crash.                                        *)
(***************************************************************************)

\* recovery_actions_used, in the metadata of every pause.
ActionsUsed(t) == 0

\* quarantine_jar moves the blamed mod out of the staged mods.
QuarantineCopy(t) == UNCHANGED mods \* FAULTY
Quarantine(t) == mods' = [mods EXCEPT ![t] = @ \ {recovery[t].target}]

\* approve_crash_recovery, whatever the phase of the transaction: the blamed
\* mod goes to the quarantine, the metadata says so unless that cannot be
\* saved, and the answer is Applied either way.
Approve(t) ==
    /\ phase[t] \in {"Building", "PendingUserAction"}
    /\ recovery[t] # NoRecovery
    /\ ~recovery[t].applied
    /\ ActionsUsed(t) < MaxActions
    /\ recovery[t].target \in mods[t]
    /\ Quarantine(t)
    /\ \/ Works /\ recovery' = [recovery EXCEPT ![t].applied = TRUE]
       \/ Fails /\ UNCHANGED recovery
    /\ approvals' = [approvals EXCEPT ![t] = @ + 1]
    /\ UNCHANGED <<phase, staged, live, flow, boots, rejected>>

\* reject_crash_recovery: the transaction that its marker calls paused, and
\* which a resume may be validating, is rolled back.
Reject(t) ==
    /\ phase[t] = "PendingUserAction"
    /\ \/ Works /\ RemoveStaging(t) /\ rejected' = rejected \cup {t}
       \/ Fails /\ UNCHANGED <<disk, rejected>>
    /\ UNCHANGED <<flow, boots, approvals>>

Crash ==
    /\ pc # "idle"
    /\ Fails
    /\ Idle
    /\ UNCHANGED <<disk, history>>

-----------------------------------------------------------------------------
Validate == Boot \/ BootResult \/ Classify \/ Repair

Finish ==
    \/ Preserve \/ Commit \/ Rollback \/ Clear
    \/ SaveRecovery \/ SaveRetry \/ Pause

Next ==
    \/ \E t \in Txn : Begin(t) \/ Approve(t) \/ Reject(t)
    \/ \E s \in Server, t \in Txn : Resume(s, t)
    \/ Build \/ Load \/ Validate \/ Finish
    \/ Crash

Spec == Init /\ [][Next]_vars

\* The installer is one task that the runtime runs, and every boot ends: the
\* BootValidator gives up on a server after a time.
Fairness == WF_vars(Build \/ Load \/ Validate \/ Finish)
FairSpec == Spec /\ Fairness

-----------------------------------------------------------------------------
(***************************************************************************)
(* Properties.                                                             *)
(***************************************************************************)

Repairs(r) == r.deps + r.runtime

\* Within one validation, every boot after the first one follows a repair that
\* was recorded (one that changes nothing is recorded too, so that a boot may
\* repeat the one before, but only as often as the budgets allow).
CycleIsBounded ==
    pc \in ValidateStep \cup {"validated", "saveRecovery"} =>
        orch.boots - loaded.boots <= 1 + (Repairs(orch) - Repairs(loaded))

\* The global ceiling only ever stops a validation that was charged for boots
\* of an earlier one: a first validation fails for a reason of its own.
CeilingNeedsHistory ==
    pc \in ValidateStep /\ loaded = Fresh => BelowCeiling \/ pc # "boot"

\* A paused transaction has the question it was paused for, so that
\* find_pending_recoveries shows it to the user; but for one that the user
\* rejected while a resume was saving its next question, whose pause writes
\* the marker of the removed tree again.
PausedHasRecovery ==
    \A t \in Txn : phase[t] = "PendingUserAction"
        => recovery[t] # NoRecovery \/ t \in rejected

\* "if Reject: transaction rollback, live server remains unchanged": what the
\* user rejected never goes live.
RejectedIsRolledBack == \A t \in rejected : phase[t] # "Committed"

\* The mod whose quarantine was applied is not in the tree that is validated
\* again, as quarantine_jar moves it ("move, not delete"): the same mod is not
\* blamed twice.  ARCHITECTURE_FREEZE_3O.md calls it copied; the next property
\* is what that would mean.
AppliedIsQuarantined ==
    \A t \in Txn : recovery[t] # NoRecovery /\ recovery[t].applied
        => recovery[t].target \notin mods[t]

\* What the document says and the code does not do, "target JAR quarantined
\* (copied, not deleted)": an approval leaves the staged mods as they are.
QuarantineIsACopy ==
    [][\A t \in Txn : approvals'[t] > approvals[t] => mods'[t] = mods[t]]_vars

\* As long as nothing fails, a question that the user has not answered is
\* about a mod that is there, so that the approval can act on it.
AskedModIsThere ==
    faults = 0 => \A t \in Txn : recovery[t] # NoRecovery /\ ~recovery[t].applied
        => recovery[t].target \in mods[t]

\* A resume validates only what the user has approved.
ResumeIsApproved ==
    [][\A t \in Txn :
        phase[t] = "PendingUserAction" /\ txn = t /\ pc = "boot" /\ pc' = "running"
            => recovery[t].applied]_vars

\* Every validation returns.
ValidationReturns == pc \in ValidateStep ~> pc \notin ValidateStep

\* "MAX_TOTAL_BOOT_ATTEMPTS is enforced across the full logical lifecycle" of
\* a transaction, its pauses and resumes included.
LifecycleCeiling == \A t \in Txn : boots[t] <= MaxBoots

\* "Maximum number of user-approved recovery actions per validation session".
ActionBudget == \A t \in Txn : approvals[t] <= MaxActions

\* An approval that returned Applied lets the user resume.
AppliedIsResumable ==
    [][\A t \in Txn : approvals'[t] > approvals[t] =>
            recovery'[t].applied /\ phase[t] = "PendingUserAction"]_vars
=============================================================================
