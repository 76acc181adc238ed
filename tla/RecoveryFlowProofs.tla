-------------------------- MODULE RecoveryFlowProofs --------------------------
(***************************************************************************)
(* Proofs about RecoveryFlow, for any servers, packs and budgets.          *)
(*                                                                         *)
(* The properties are invariants of what a step may count on: whose        *)
(* question and whose approval a flow runs with (Question), that a blamed  *)
(* mod is there until the question is saved (Blamed), and what each        *)
(* repair pays for (Account).                                              *)
(***************************************************************************)
EXTENDS RecoveryFlow, TLAPS

\* The steps before a flow saves a question of its own.
Asking == ValidateStep \cup {"build", "load", "validated", "commit", "failed", "saveRecovery"}

InFlow ==
    /\ IF pc = "idle" THEN ~resumed ELSE txn \in Txn
    /\ resumed => server \in Server
    /\ pc = "build" => ~resumed

\* An install has asked nothing yet; a resume runs with the user's approval,
\* unless the user has rejected the transaction since.
Question ==
    /\ pc \in Asking =>
        IF resumed
        THEN \/ phase[txn] = "PendingUserAction" /\ Approved(txn)
             \/ phase[txn] = "gone" /\ txn \in rejected
        ELSE phase[txn] = "Building" /\ recovery[txn] = NoRecovery
    /\ pc \in {"saveRetry", "pause"} => recovery[txn] # NoRecovery \/ txn \in rejected

NewIsBlank == \A t \in Txn : phase[t] = "new" => recovery[t] = NoRecovery

Blamed == pc = "saveRecovery" => target \in mods[txn] \/ phase[txn] = "gone"

\* At the top of the loop every boot but those of before is paid for by a
\* repair; after a launch there is one more.
Account ==
    /\ pc = "boot" => orch.boots - loaded.boots <= Repairs(orch) - Repairs(loaded)
    /\ pc \in {"running", "failing", "repairDeps", "repairRuntime", "validated", "saveRecovery"}
        => orch.boots - loaded.boots <= 1 + (Repairs(orch) - Repairs(loaded))
    /\ pc = "repairDeps" => MayRepairDeps
    /\ pc = "repairRuntime" => MayRepairRuntime

Inv ==
    /\ TypeOK
    /\ InFlow
    /\ Question
    /\ NewIsBlank
    /\ Blamed
    /\ Account
    /\ PausedHasRecovery
    /\ AppliedIsQuarantined
    /\ AskedModIsThere

-----------------------------------------------------------------------------
LEMMA FreshIsRetry == Fresh \in Retry
BY ConstantsAssumption DEF Fresh, Retry

\* The initial states satisfy the invariant.
LEMMA InitInv == Init => Inv
<1> SUFFICES ASSUME Init PROVE Inv
    OBVIOUS
<1>1. TypeOK
    <2>1. /\ phase \in [Txn -> Phase] /\ mods \in [Txn -> SUBSET Mod]
          /\ recovery \in [Txn -> Recovery \cup {NoRecovery}]
          /\ staged \in [Txn -> Retry \cup {NoRetry}] /\ live \in [Server -> Retry \cup {NoRetry}]
        BY DEF Init, Phase
    <2>2. boots \in [Txn -> 0..MaxBoots + 1] /\ approvals \in [Txn -> Nat] /\ faults \in 0..MaxFaults
        BY ConstantsAssumption DEF Init
    <2>. QED
        BY <2>1, <2>2, FreshIsRetry DEF Init, TypeOK, Step
<1>2. InFlow /\ Question /\ Blamed /\ Account
    BY DEF Init, InFlow, Question, Blamed, Account, Asking, ValidateStep
<1>3. NewIsBlank /\ PausedHasRecovery /\ AppliedIsQuarantined /\ AskedModIsThere
    BY DEF Init, NewIsBlank, PausedHasRecovery, AppliedIsQuarantined, AskedModIsThere
<1>. QED
    BY <1>1, <1>2, <1>3 DEF Inv

\* A flow that ends leaves the flow's own conjuncts true, whatever it leaves
\* on disk.
LEMMA IdleFlow ==
    ASSUME TypeOK, Idle
    PROVE  /\ (InFlow /\ Question /\ Blamed /\ Account)'
           /\ pc' \in Step /\ txn' \in Txn \cup {NoTxn} /\ server' \in Server \cup {NoServer}
           /\ resumed' \in BOOLEAN /\ orch' \in Retry /\ loaded' \in Retry
           /\ target' \in Mod \cup {NoMod}
<1>1. (InFlow /\ Question /\ Blamed /\ Account)'
    BY DEF Idle, InFlow, Question, Blamed, Account, Asking, ValidateStep
<1>. QED
    BY <1>1, FreshIsRetry DEF Idle, TypeOK, Step

\* Removing a staging directory keeps what the invariant says of the disk.
LEMMA RemoveDisk ==
    ASSUME Inv, NEW t \in Txn, RemoveStaging(t), rejected \subseteq rejected',
           faults' \in 0..MaxFaults, faults' = 0 => faults = 0
    PROVE  /\ (NewIsBlank /\ PausedHasRecovery /\ AppliedIsQuarantined /\ AskedModIsThere)'
           /\ phase' \in [Txn -> Phase] /\ mods' \in [Txn -> SUBSET Mod]
           /\ recovery' \in [Txn -> Recovery \cup {NoRecovery}]
           /\ staged' \in [Txn -> Retry \cup {NoRetry}] /\ live' \in [Server -> Retry \cup {NoRetry}]
<1>1. phase' \in [Txn -> Phase] /\ mods' \in [Txn -> SUBSET Mod]
    BY DEF Inv, TypeOK, RemoveStaging, Phase
<1>2. recovery' \in [Txn -> Recovery \cup {NoRecovery}]
    BY DEF Inv, TypeOK, RemoveStaging
<1>3. staged' \in [Txn -> Retry \cup {NoRetry}] /\ live' \in [Server -> Retry \cup {NoRetry}]
    BY DEF Inv, TypeOK, RemoveStaging
<1>4. \A u \in Txn \ {t} : phase'[u] = phase[u] /\ mods'[u] = mods[u] /\ recovery'[u] = recovery[u]
    BY DEF Inv, TypeOK, RemoveStaging
<1>5. phase'[t] = "gone" /\ recovery'[t] = NoRecovery
    BY DEF Inv, TypeOK, RemoveStaging
<1>6. (NewIsBlank /\ PausedHasRecovery /\ AppliedIsQuarantined /\ AskedModIsThere)'
    BY <1>4, <1>5 DEF Inv, NewIsBlank, PausedHasRecovery, AppliedIsQuarantined, AskedModIsThere
<1>. QED
    BY <1>1, <1>2, <1>3, <1>6

\* Leaving the disk alone keeps it too.
LEMMA SameDisk ==
    ASSUME Inv, UNCHANGED disk, rejected' = rejected, faults' \in 0..MaxFaults, faults' = 0 => faults = 0
    PROVE  /\ (NewIsBlank /\ PausedHasRecovery /\ AppliedIsQuarantined /\ AskedModIsThere)'
           /\ phase' \in [Txn -> Phase] /\ mods' \in [Txn -> SUBSET Mod]
           /\ recovery' \in [Txn -> Recovery \cup {NoRecovery}]
           /\ staged' \in [Txn -> Retry \cup {NoRetry}] /\ live' \in [Server -> Retry \cup {NoRetry}]
BY DEF Inv, TypeOK, disk, NewIsBlank, PausedHasRecovery, AppliedIsQuarantined, AskedModIsThere

\* An operation that works or fails keeps the count of the faults.
LEMMA FaultsCount ==
    ASSUME TypeOK, Works \/ Fails
    PROVE  faults' \in 0..MaxFaults /\ (faults' = 0 => faults = 0)
BY ConstantsAssumption DEF TypeOK, Works, Fails

\* A flow that returns an error.
LEMMA ErrorInv == ASSUME Inv, pc # "idle", ReturnError, Works \/ Fails PROVE Inv'
<1>1. txn \in Txn
    BY DEF Inv, InFlow
<1>2. faults' \in 0..MaxFaults /\ (faults' = 0 => faults = 0)
    BY FaultsCount DEF Inv
<1>3. boots' \in [Txn -> 0..MaxBoots + 1] /\ approvals' \in [Txn -> Nat] /\ rejected' = rejected
    BY DEF Inv, TypeOK, ReturnError, history
<1>4. CASE resumed
    <2>1. Idle /\ UNCHANGED disk
        BY <1>4 DEF ReturnError
    <2>. QED
        BY <2>1, <1>2, <1>3, IdleFlow, SameDisk DEF Inv, TypeOK
<1>5. CASE ~resumed
    <2>1. Idle /\ RemoveStaging(txn)
        BY <1>5 DEF ReturnError
    <2>. QED
        BY <2>1, <1>1, <1>2, <1>3, IdleFlow, RemoveDisk DEF Inv, TypeOK
<1>. QED
    BY <1>4, <1>5

-----------------------------------------------------------------------------
\* An install begins.
LEMMA BeginInv == ASSUME Inv, NEW t \in Txn, Begin(t) PROVE Inv'
<1>1. TypeOK'
    BY DEF Inv, TypeOK, Begin, Goto, Phase, Step, budget, history
<1>2. (InFlow /\ Blamed /\ Account)'
    BY DEF Begin, Goto, Inv, InFlow, Blamed, Account
<1>3. Question'
    BY DEF Begin, Goto, Inv, TypeOK, InFlow, Question, NewIsBlank, Asking
<1>4. (NewIsBlank /\ PausedHasRecovery /\ AppliedIsQuarantined /\ AskedModIsThere)'
    BY DEF Begin, history, Inv, TypeOK, NewIsBlank, PausedHasRecovery, AppliedIsQuarantined, AskedModIsThere
<1>. QED
    BY <1>1, <1>2, <1>3, <1>4 DEF Inv

\* The pack is built in staging, where nothing is asked yet.
LEMMA BuildInv == ASSUME Inv, Build PROVE Inv'
<1>1. pc = "build" /\ txn \in Txn /\ ~resumed /\ recovery[txn] = NoRecovery
    BY DEF Build, Inv, InFlow, Question, Asking
<1>2. CASE Fails /\ ReturnError
    BY <1>1, <1>2, ErrorInv
<1>3. CASE /\ Works /\ mods' = [mods EXCEPT ![txn] = Pack[txn]] /\ Goto("load")
           /\ UNCHANGED <<phase, recovery, staged, live, txn, server, resumed, budget, target, history>>
    <2>1. TypeOK'
        BY <1>1, <1>3, ConstantsAssumption DEF Inv, TypeOK, Works, Goto, Step, budget, history
    <2>2. (InFlow /\ Question /\ Blamed /\ Account)'
        BY <1>1, <1>3 DEF Inv, InFlow, Question, Blamed, Account, Goto, Asking
    <2>3. (NewIsBlank /\ PausedHasRecovery /\ AppliedIsQuarantined /\ AskedModIsThere)'
        BY <1>1, <1>3 DEF Inv, TypeOK, NewIsBlank, PausedHasRecovery, AppliedIsQuarantined,
                          AskedModIsThere, Works, history
    <2>. QED
        BY <2>1, <2>2, <2>3 DEF Inv
<1>. QED
    BY <1>2, <1>3 DEF Build

\* A resume begins, of a transaction whose question was answered.
LEMMA ResumeInv == ASSUME Inv, NEW s \in Server, NEW t \in Txn, Resume(s, t) PROVE Inv'
<1>1. UNCHANGED disk /\ faults' = faults /\ rejected' = rejected
    BY DEF Resume, Works, history
<1>2. TypeOK'
    BY <1>1, SameDisk DEF Inv, TypeOK, Resume, Goto, Step, budget, history
<1>3. (InFlow /\ Question /\ Blamed /\ Account)'
    BY DEF Resume, Goto, Inv, InFlow, Question, Blamed, Account, Asking, Found, Approved, disk
<1>. QED
    BY <1>1, <1>2, <1>3, SameDisk DEF Inv, TypeOK

\* The retry state is loaded.
LEMMA LoadInv == ASSUME Inv, Load PROVE Inv'
<1>1. UNCHANGED disk /\ faults' = faults /\ rejected' = rejected
    BY DEF Load, history
<1>2. txn \in Txn
    BY DEF Load, Inv, InFlow
<1>3. orch' \in Retry /\ loaded' = orch'
    BY <1>2, FreshIsRetry DEF Load, Inv, InFlow, TypeOK
<1>4. TypeOK'
    BY <1>1, <1>3, SameDisk DEF Inv, TypeOK, Load, Goto, Step, ValidateStep, history
<1>5. (InFlow /\ Question /\ Blamed)'
    BY DEF Load, Goto, Inv, InFlow, Question, Blamed, Asking, ValidateStep, Approved, disk, history
<1>6. Account'
    BY <1>3 DEF Load, Goto, Account, Repairs, Retry
<1>. QED
    BY <1>1, <1>4, <1>5, <1>6, SameDisk DEF Inv, TypeOK

-----------------------------------------------------------------------------
\* The launch of a boot, the only place where boots are counted.
LEMMA BootInv == ASSUME Inv, Boot PROVE Inv'
<1>1. UNCHANGED disk /\ faults' = faults /\ rejected' = rejected
    BY DEF Boot, history
<1>2. txn \in Txn
    BY DEF Boot, Inv, InFlow
<1>3. orch' \in Retry
    BY ConstantsAssumption DEF Boot, BelowCeiling, Inv, TypeOK, Retry
<1>4. boots' \in [Txn -> 0..MaxBoots + 1]
    BY <1>2, ConstantsAssumption DEF Boot, Inv, TypeOK
<1>5. TypeOK'
    BY <1>1, <1>3, <1>4, SameDisk DEF Inv, TypeOK, Boot, Goto, Step, ValidateStep
<1>6. (InFlow /\ Question /\ Blamed)'
    BY DEF Boot, Goto, Inv, InFlow, Question, Blamed, Asking, ValidateStep, Approved, disk, history
<1>7. Account'
    BY DEF Boot, Goto, Inv, Account, TypeOK, Retry, Repairs
<1>. QED
    BY <1>1, <1>5, <1>6, <1>7, SameDisk DEF Inv, TypeOK

\* A boot ends.
LEMMA BootResultInv == ASSUME Inv, BootResult PROVE Inv'
<1>1. UNCHANGED disk /\ faults' = faults /\ rejected' = rejected
    BY DEF BootResult, history
<1>2. TypeOK'
    BY <1>1, SameDisk DEF Inv, TypeOK, BootResult, Goto, Step, ValidateStep, budget, history
<1>3. (InFlow /\ Question /\ Blamed)'
    BY DEF BootResult, Goto, Inv, InFlow, Question, Blamed, Asking, ValidateStep, Approved, disk, history
<1>4. Account'
    BY DEF BootResult, Goto, Inv, Account, Repairs, budget
<1>. QED
    BY <1>1, <1>2, <1>3, <1>4, SameDisk DEF Inv, TypeOK

\* A failure is classified: a repair is chosen within its budget, and only a
\* mod that is there is blamed.
LEMMA ClassifyInv == ASSUME Inv, Classify PROVE Inv'
<1>1. UNCHANGED disk /\ faults' = faults /\ rejected' = rejected
    BY DEF Classify, history
<1>2. txn \in Txn
    BY DEF Classify, Inv, InFlow
<1>3. TypeOK'
    BY <1>1, <1>2, SameDisk
       DEF Inv, TypeOK, Classify, Blamable, Goto, Step, ValidateStep, budget, history
<1>4. (InFlow /\ Question /\ Blamed)'
    BY DEF Classify, Blamable, Goto, Inv, InFlow, Question, Blamed, Asking, ValidateStep, Approved, disk, history
<1>5. Account'
    BY DEF Classify, Goto, Inv, Account, Repairs, MayRepairDeps, MayRepairRuntime, budget
<1>. QED
    BY <1>1, <1>3, <1>4, <1>5, SameDisk DEF Inv, TypeOK

\* A repair is recorded.
LEMMA RepairInv == ASSUME Inv, Repair PROVE Inv'
<1>1. UNCHANGED disk /\ faults' = faults /\ rejected' = rejected
    BY DEF Repair, history
<1>2. orch' \in Retry
    BY ConstantsAssumption
       DEF Repair, RecordDeps, RecordRuntime, Inv, TypeOK, Account, MayRepairDeps,
           MayRepairRuntime, Retry
<1>3. TypeOK'
    BY <1>1, <1>2, SameDisk DEF Inv, TypeOK, Repair, Goto, Step, ValidateStep, history
<1>4. (InFlow /\ Question /\ Blamed)'
    BY DEF Repair, Goto, Inv, InFlow, Question, Blamed, Asking, ValidateStep, Approved, disk, history
<1>5. Account'
    BY DEF Repair, RecordDeps, RecordRuntime, Goto, Inv, Account, TypeOK, Retry, Repairs
<1>. QED
    BY <1>1, <1>3, <1>4, <1>5, SameDisk DEF Inv, TypeOK

-----------------------------------------------------------------------------
\* The quarantine is moved out of staging.
LEMMA PreserveInv == ASSUME Inv, Preserve PROVE Inv'
<1>1. CASE Fails /\ ReturnError
    BY <1>1, ErrorInv DEF Preserve
<1>2. CASE Works /\ Goto("commit") /\ UNCHANGED <<disk, txn, server, resumed, budget, target, history>>
    <2>1. faults' \in 0..MaxFaults /\ (faults' = 0 => faults = 0)
        BY <1>2, FaultsCount DEF Inv
    <2>2. TypeOK' /\ rejected' = rejected
        BY <1>2, <2>1, SameDisk DEF Inv, TypeOK, Goto, Step, budget, history
    <2>3. (InFlow /\ Question /\ Blamed /\ Account)'
        BY <1>2 DEF Preserve, Goto, Inv, InFlow, Question, Blamed, Account, Asking, Approved, disk, history
    <2>. QED
        BY <1>2, <2>1, <2>2, <2>3, SameDisk DEF Inv
<1>. QED
    BY <1>1, <1>2 DEF Preserve

\* The commit.
LEMMA CommitInv == ASSUME Inv, Commit PROVE Inv'
<1>1. txn \in Txn
    BY DEF Commit, Inv, InFlow
<1>2. CASE Fails /\ RemoveStaging(txn) /\ Idle /\ UNCHANGED history
    <2>1. faults' \in 0..MaxFaults /\ (faults' = 0 => faults = 0)
        BY <1>2, FaultsCount DEF Inv
    <2>. QED
        BY <1>1, <1>2, <2>1, IdleFlow, RemoveDisk DEF Inv, TypeOK, history
<1>3. CASE /\ Works
           /\ phase' = [phase EXCEPT ![txn] = "Committed"]
           /\ live' = [live EXCEPT ![Owner[txn]] = staged[txn]]
           /\ staged' = [staged EXCEPT ![txn] = NoRetry]
           /\ recovery' = [recovery EXCEPT ![txn] = NoRecovery]
           /\ Goto("clear")
           /\ UNCHANGED <<mods, txn, server, resumed, budget, target, history>>
    <2>1. phase' \in [Txn -> Phase] /\ recovery' \in [Txn -> Recovery \cup {NoRecovery}]
        BY <1>1, <1>3 DEF Inv, TypeOK, Phase
    <2>2. staged' \in [Txn -> Retry \cup {NoRetry}] /\ live' \in [Server -> Retry \cup {NoRetry}]
        BY <1>1, <1>3, ConstantsAssumption DEF Inv, TypeOK
    <2>3. TypeOK'
        BY <1>3, <2>1, <2>2 DEF Inv, TypeOK, Works, Goto, Step, budget, history
    <2>4. (InFlow /\ Question /\ Blamed /\ Account)'
        BY <1>1, <1>3 DEF Goto, Inv, InFlow, Question, Blamed, Account, Asking, ValidateStep
    <2>5. (NewIsBlank /\ PausedHasRecovery /\ AppliedIsQuarantined /\ AskedModIsThere)'
        BY <1>1, <1>3
           DEF Inv, TypeOK, Works, NewIsBlank, PausedHasRecovery, AppliedIsQuarantined,
               AskedModIsThere, history
    <2>. QED
        BY <2>3, <2>4, <2>5 DEF Inv
<1>. QED
    BY <1>2, <1>3 DEF Commit

\* The rollback of a validation that failed.
LEMMA RollbackInv == ASSUME Inv, Rollback PROVE Inv'
<1>1. txn \in Txn /\ pc # "idle"
    BY DEF Rollback, Inv, InFlow
<1>2. CASE Fails /\ ReturnError
    BY <1>1, <1>2, ErrorInv
<1>3. CASE Works /\ RemoveStaging(txn) /\ Goto("clear")
           /\ UNCHANGED <<txn, server, resumed, budget, target, history>>
    <2>1. faults' \in 0..MaxFaults /\ (faults' = 0 => faults = 0)
        BY <1>3, FaultsCount DEF Inv
    <2>2. (InFlow /\ Question /\ Blamed /\ Account)'
        BY <1>1, <1>3 DEF Goto, Inv, InFlow, Question, Blamed, Account, Asking, ValidateStep
    <2>. QED
        BY <1>1, <1>3, <2>1, <2>2, RemoveDisk DEF Inv, TypeOK, Goto, Step, budget, history
<1>. QED
    BY <1>2, <1>3 DEF Rollback

\* The retry state is cleared.
LEMMA ClearInv == ASSUME Inv, Clear PROVE Inv'
<1>1. Idle /\ faults' = faults /\ UNCHANGED <<phase, mods, recovery, staged, history>>
    BY DEF Clear
<1>2. live' \in [Server -> Retry \cup {NoRetry}]
    BY DEF Clear, Inv, TypeOK
<1>3. TypeOK'
    BY <1>1, <1>2, IdleFlow DEF Inv, TypeOK, history
<1>4. (NewIsBlank /\ PausedHasRecovery /\ AppliedIsQuarantined /\ AskedModIsThere)'
    BY <1>1 DEF Inv, history, NewIsBlank, PausedHasRecovery, AppliedIsQuarantined, AskedModIsThere
<1>. QED
    BY <1>1, <1>3, <1>4, IdleFlow DEF Inv

\* The question is saved: it is about a mod that is there.
LEMMA SaveRecoveryInv == ASSUME Inv, SaveRecovery PROVE Inv'
<1>1. txn \in Txn /\ pc = "saveRecovery"
    BY DEF SaveRecovery, Inv, InFlow
<1>2. phase[txn] # "new"
    BY <1>1 DEF Inv, Question, Asking
<1>3. CASE SaveRecoveryFails
    BY <1>1, <1>3, ErrorInv DEF SaveRecoveryFails
<1>4. CASE phase[txn] = "gone" /\ Works /\ ReturnError
    BY <1>1, <1>4, ErrorInv
<1>5. CASE /\ phase[txn] # "gone"
           /\ Works
           /\ recovery' = [recovery EXCEPT ![txn] = [target |-> target, applied |-> FALSE]]
           /\ Goto("saveRetry")
           /\ UNCHANGED <<phase, mods, staged, live, txn, server, resumed, budget, target, history>>
    <2>0. target \in mods[txn]
        BY <1>1, <1>5 DEF Inv, Blamed
    <2>1. [target |-> target, applied |-> FALSE] \in Recovery
        BY <1>1, <2>0 DEF Inv, TypeOK, Recovery
    <2>2. recovery' \in [Txn -> Recovery \cup {NoRecovery}]
        BY <1>5, <2>1 DEF Inv, TypeOK
    <2>3. TypeOK'
        BY <1>5, <2>2 DEF Inv, TypeOK, Works, Goto, Step, budget, history
    <2>4. recovery'[txn] # NoRecovery /\ recovery'[txn] = [target |-> target, applied |-> FALSE]
        BY <1>1, <1>5, <2>1, ConstantsAssumption DEF Inv, TypeOK
    <2>5. (InFlow /\ Question /\ Blamed /\ Account)'
        BY <1>1, <1>5, <2>4 DEF Goto, Inv, InFlow, Question, Blamed, Account, Asking, ValidateStep
    <2>6. \A u \in Txn \ {txn} : recovery'[u] = recovery[u]
        BY <1>5 DEF Inv, TypeOK
    <2>7. (NewIsBlank /\ PausedHasRecovery /\ AppliedIsQuarantined /\ AskedModIsThere)'
        BY <1>1, <1>2, <1>5, <2>0, <2>4, <2>6
           DEF Inv, history, Works, NewIsBlank, PausedHasRecovery, AppliedIsQuarantined, AskedModIsThere
    <2>. QED
        BY <2>3, <2>5, <2>7 DEF Inv
<1>. QED
    BY <1>3, <1>5, <1>4 DEF SaveRecovery

\* The retry state is saved, or is not.
LEMMA SaveRetryInv == ASSUME Inv, SaveRetry PROVE Inv'
<1>1. txn \in Txn /\ pc = "saveRetry"
    BY DEF SaveRetry, Inv, InFlow
<1>2. faults' \in 0..MaxFaults /\ (faults' = 0 => faults = 0)
    BY FaultsCount DEF Inv, SaveRetry
<1>3. staged' \in [Txn -> Retry \cup {NoRetry}] /\ live' \in [Server -> Retry \cup {NoRetry}]
    BY DEF Inv, TypeOK, SaveRetry
<1>4. TypeOK'
    BY <1>2, <1>3 DEF Inv, TypeOK, SaveRetry, Goto, Step, budget, history
<1>5. (InFlow /\ Question /\ Blamed /\ Account)'
    BY <1>1 DEF SaveRetry, Goto, Inv, InFlow, Question, Blamed, Account, Asking, ValidateStep, history
<1>6. (NewIsBlank /\ PausedHasRecovery /\ AppliedIsQuarantined /\ AskedModIsThere)'
    BY <1>2
       DEF SaveRetry, history, Inv, NewIsBlank, PausedHasRecovery, AppliedIsQuarantined, AskedModIsThere
<1>. QED
    BY <1>4, <1>5, <1>6 DEF Inv

\* The transaction pauses, with the question saved before.
LEMMA PauseInv == ASSUME Inv, Pause PROVE Inv'
<1>1. txn \in Txn /\ (recovery[txn] # NoRecovery \/ txn \in rejected)
    BY DEF Pause, Inv, InFlow, Question
<1>2. faults' \in 0..MaxFaults /\ (faults' = 0 => faults = 0)
    BY FaultsCount DEF Inv, Pause
<1>3. Idle /\ UNCHANGED history
    BY DEF Pause
<1>4. CASE RemoveStaging(txn)
    BY <1>1, <1>2, <1>3, <1>4, IdleFlow, RemoveDisk DEF Inv, TypeOK, history
<1>5. CASE /\ phase' = [phase EXCEPT ![txn] = "PendingUserAction"]
           /\ UNCHANGED <<mods, recovery, staged, live>>
    <2>1. phase' \in [Txn -> Phase]
        BY <1>5 DEF Inv, TypeOK, Phase
    <2>2. TypeOK'
        BY <1>2, <1>3, <1>5, <2>1, IdleFlow DEF Inv, TypeOK, history
    <2>3. (NewIsBlank /\ PausedHasRecovery /\ AppliedIsQuarantined /\ AskedModIsThere)'
        BY <1>1, <1>2, <1>3, <1>5
           DEF Inv, TypeOK, history, NewIsBlank, PausedHasRecovery, AppliedIsQuarantined, AskedModIsThere
    <2>. QED
        BY <1>3, <2>2, <2>3, IdleFlow DEF Inv
<1>. QED
    BY <1>4, <1>5 DEF Pause

-----------------------------------------------------------------------------
\* An approval acts on a question that is open, so not in a flow that has
\* none yet, nor in a resume before it asks again.
LEMMA ApproveInv == ASSUME Inv, NEW t \in Txn, Approve(t) PROVE Inv'
<1>1. faults' \in 0..MaxFaults /\ (faults' = 0 => faults = 0)
    BY FaultsCount DEF Inv, Approve
<1>2. recovery[t] \in Recovery /\ ~recovery[t].applied /\ recovery[t].target \in mods[t]
    BY DEF Approve, Inv, TypeOK
<1>3. \A u \in Txn \ {t} : mods'[u] = mods[u] /\ recovery'[u] = recovery[u]
    BY DEF Approve, Quarantine, Inv, TypeOK
<1>4. mods' \in [Txn -> SUBSET Mod] /\ mods'[t] = mods[t] \ {recovery[t].target}
    BY DEF Approve, Quarantine, Inv, TypeOK
<1>5. /\ recovery' \in [Txn -> Recovery \cup {NoRecovery}]
      /\ recovery'[t] \in Recovery /\ recovery'[t].target = recovery[t].target
      /\ faults' = 0 => recovery'[t].applied
    <2>1. CASE recovery' = [recovery EXCEPT ![t].applied = TRUE]
        <3>1. [recovery[t] EXCEPT !.applied = TRUE] \in Recovery
            BY <1>2 DEF Recovery
        <3>2. recovery'[t] = [recovery[t] EXCEPT !.applied = TRUE]
            BY <2>1 DEF Inv, TypeOK
        <3>. QED
            BY <2>1, <3>1, <3>2, <1>2 DEF Inv, TypeOK, Recovery
    <2>2. CASE Fails /\ recovery' = recovery
        BY <2>2, <1>2 DEF Inv, TypeOK, Fails
    <2>. QED
        BY <2>1, <2>2 DEF Approve
<1>6. TypeOK'
    <2>1. approvals' \in [Txn -> Nat]
        BY DEF Inv, TypeOK, Approve
    <2>. QED
        BY <1>1, <1>4, <1>5, <2>1 DEF Inv, TypeOK, Approve, flow, budget
<1>7. ~(pc \in Asking /\ txn = t)
    BY <1>2 DEF Inv, Question, Approve, Approved
<1>8. (InFlow /\ Question /\ Blamed /\ Account)'
    <2>1. UNCHANGED flow /\ phase' = phase /\ rejected' = rejected
        BY DEF Approve
    <2>2. pc \in Asking => txn \in Txn \ {t}
        BY <1>7 DEF Inv, InFlow, Asking, ValidateStep
    <2>3. (InFlow /\ Account)'
        BY <2>1 DEF flow, budget, Inv, InFlow, Account, MayRepairDeps, MayRepairRuntime, Repairs
    <2>4. Question'
        BY <1>3, <1>5, <2>1, <2>2, ConstantsAssumption
           DEF flow, budget, Inv, InFlow, Question, Approved
    <2>5. Blamed'
        BY <1>3, <2>1, <2>2 DEF flow, budget, Inv, Blamed, Asking
    <2>. QED
        BY <2>3, <2>4, <2>5
<1>9. (NewIsBlank /\ PausedHasRecovery /\ AppliedIsQuarantined /\ AskedModIsThere)'
    BY <1>1, <1>2, <1>3, <1>4, <1>5, ConstantsAssumption
       DEF Approve, Inv, NewIsBlank, PausedHasRecovery, AppliedIsQuarantined, AskedModIsThere
<1>. QED
    BY <1>6, <1>8, <1>9 DEF Inv

\* A rejection removes a transaction that is paused on disk: of a flow, only
\* that of a resume.
LEMMA RejectInv == ASSUME Inv, NEW t \in Txn, Reject(t) PROVE Inv'
<1>1. /\ UNCHANGED <<flow, boots, approvals>> /\ phase[t] = "PendingUserAction"
      /\ faults' \in 0..MaxFaults /\ (faults' = 0 => faults = 0)
    BY FaultsCount DEF Reject, Inv
<1>2. CASE RemoveStaging(t) /\ rejected' = rejected \cup {t}
    <2>1. rejected' \subseteq Txn
        BY <1>2 DEF Inv, TypeOK
    <2>2. TypeOK' /\ (NewIsBlank /\ PausedHasRecovery /\ AppliedIsQuarantined /\ AskedModIsThere)'
        BY <1>1, <1>2, <2>1, RemoveDisk DEF Inv, TypeOK, flow, budget
    <2>3. (InFlow /\ Account)'
        BY <1>1 DEF Inv, InFlow, Account, MayRepairDeps, MayRepairRuntime, Repairs, flow, budget
    <2>4. /\ \A u \in Txn \ {t} : phase'[u] = phase[u] /\ mods'[u] = mods[u] /\ recovery'[u] = recovery[u]
          /\ phase'[t] = "gone"
        BY <1>2 DEF Inv, TypeOK, RemoveStaging
    <2>5. pc # "idle" => txn \in Txn
        BY DEF Inv, InFlow
    <2>6. (Question /\ Blamed)'
        <3>1. CASE txn = t
            BY <1>1, <1>2, <2>4, <3>1 DEF Inv, Question, Blamed, Asking, ValidateStep, Approved, flow, budget
        <3>2. CASE txn # t
            BY <1>1, <1>2, <2>4, <2>5, <3>2
               DEF Inv, Question, Blamed, Asking, ValidateStep, Approved, flow, budget
        <3>. QED
            BY <3>1, <3>2
    <2>. QED
        BY <2>2, <2>3, <2>6 DEF Inv
<1>3. CASE UNCHANGED <<disk, rejected>>
    <2>1. TypeOK' /\ (NewIsBlank /\ PausedHasRecovery /\ AppliedIsQuarantined /\ AskedModIsThere)'
        BY <1>1, <1>3, SameDisk DEF Inv, TypeOK, flow, budget
    <2>2. (InFlow /\ Question /\ Blamed /\ Account)'
        BY <1>1, <1>3 DEF Inv, InFlow, Question, Blamed, Account, Approved, MayRepairDeps,
                          MayRepairRuntime, Repairs, disk, flow, budget
    <2>. QED
        BY <2>1, <2>2 DEF Inv
<1>. QED
    BY <1>2, <1>3 DEF Reject

\* A crash ends the flow.
LEMMA CrashInv == ASSUME Inv, Crash PROVE Inv'
<1>1. faults' \in 0..MaxFaults /\ (faults' = 0 => faults = 0)
    BY FaultsCount DEF Inv, Crash
<1>2. Idle /\ UNCHANGED <<disk, history>>
    BY DEF Crash
<1>. QED
    BY <1>1, <1>2, IdleFlow, SameDisk DEF Inv, TypeOK, history

\* A step that changes nothing.
LEMMA StutterInv == ASSUME Inv, UNCHANGED vars PROVE Inv'
BY DEF Inv, TypeOK, InFlow, Question, NewIsBlank, Blamed, Account, PausedHasRecovery,
       AppliedIsQuarantined, AskedModIsThere, Approved, MayRepairDeps, MayRepairRuntime, Repairs,
       vars, disk, flow, budget, history

-----------------------------------------------------------------------------
\* The inductive invariant: whose question and whose approval a flow runs
\* with, and what every boot was paid with.
THEOREM Invariance == Spec => []Inv
<1>1. Init => Inv
    BY InitInv
<1>2. Inv /\ [Next]_vars => Inv'
    BY BeginInv, BuildInv, ResumeInv, LoadInv, BootInv, BootResultInv, ClassifyInv, RepairInv,
       PreserveInv, CommitInv, RollbackInv, ClearInv, SaveRecoveryInv, SaveRetryInv, PauseInv,
       ApproveInv, RejectInv, CrashInv, StutterInv
       DEF Next, Validate, Finish
<1>. QED
    BY <1>1, <1>2, PTL DEF Spec

\* Every variable keeps its type; the retry state stays within its budgets.
THEOREM TypeCorrect == Spec => []TypeOK
<1>1. Inv => TypeOK
    BY DEF Inv
<1>. QED
    BY <1>1, Invariance, PTL

\* The loop of validate boots once, and once more after each repair.
THEOREM CyclesAreBounded == Spec => []CycleIsBounded
<1>1. Inv => CycleIsBounded
    BY DEF Inv, TypeOK, Account, CycleIsBounded, ValidateStep, Repairs, Retry
<1>. QED
    BY <1>1, Invariance, PTL

\* A validation that starts with no history does not reach the ceiling.
THEOREM CeilingsNeedHistory == Spec => []CeilingNeedsHistory
<1>1. Inv => CeilingNeedsHistory
    BY ConstantsAssumption, BudgetAssumption
       DEF Inv, TypeOK, Account, CeilingNeedsHistory, BelowCeiling, Repairs, Retry, Fresh
<1>. QED
    BY <1>1, Invariance, PTL

\* Every paused transaction has its question on disk, unless the user
\* rejected it while a resume went on with it.
THEOREM PausedIsAsked == Spec => []PausedHasRecovery
<1>1. Inv => PausedHasRecovery
    BY DEF Inv
<1>. QED
    BY <1>1, Invariance, PTL

\* What the user approved is out of the tree that is validated again.
THEOREM AppliedIsOut == Spec => []AppliedIsQuarantined
<1>1. Inv => AppliedIsQuarantined
    BY DEF Inv
<1>. QED
    BY <1>1, Invariance, PTL

\* Unless something failed, an open question names a mod that is there.
THEOREM AskedIsThere == Spec => []AskedModIsThere
<1>1. Inv => AskedModIsThere
    BY DEF Inv
<1>. QED
    BY <1>1, Invariance, PTL

\* A paused transaction is booted only with the user's approval.
THEOREM ResumesAreApproved == Spec => ResumeIsApproved
<1>1. Inv /\ [Next]_vars =>
        [\A t \in Txn :
            phase[t] = "PendingUserAction" /\ txn = t /\ pc = "boot" /\ pc' = "running"
                => recovery[t].applied]_vars
    BY DEF Inv, Question, Asking, ValidateStep, Approved
<1>. QED
    BY <1>1, Invariance, PTL DEF Spec, ResumeIsApproved
=============================================================================
