---------------------- MODULE InstallTransactionProofs ----------------------
(***************************************************************************)
(* Proofs about InstallTransaction, for any number of transactions, flows, *)
(* failures and world saves; the last two, about recovery and the world of *)
(* a swap, if at most one operation fails, and if nobody plays while a     *)
(* flow runs.                                                              *)
(***************************************************************************)
EXTENDS InstallTransaction, TLAPS

-----------------------------------------------------------------------------
(***************************************************************************)
(* Lemmas about trees and markers.                                         *)
(***************************************************************************)

\* The sentinels are no trees, no markers and no transactions.
LEMMA Sentinels ==
    /\ NoTree \notin Tree
    /\ NoMeta \notin Meta
    /\ NoTxn \notin Txn
    /\ Orig \notin Txn
  BY ConstantsAssumption, SentinelsAssumption

\* A new staging directory is a tree of its transaction.
LEMMA EmptyTreeFacts ==
  ASSUME NEW t \in Txn
  PROVE  EmptyTree(t) \in Tree /\ EmptyTree(t).build = t
  BY ConstantsAssumption DEF EmptyTree, Tree

\* Changing the verdict on a tree, or its world, leaves the rest of it alone.
LEMMA TreeVerdict ==
  ASSUME NEW x \in Tree, NEW b \in BOOLEAN
  PROVE  /\ [x EXCEPT !.checked = b] \in Tree
         /\ [x EXCEPT !.checked = b].checked = b
         /\ [x EXCEPT !.checked = b].build = x.build
  BY DEF Tree

LEMMA TreeWorld ==
  ASSUME NEW x \in Tree, NEW w \in 0..MaxWorld
  PROVE  /\ [x EXCEPT !.world = w] \in Tree
         /\ [x EXCEPT !.world = w].world = w
         /\ [x EXCEPT !.world = w].checked = x.checked
         /\ [x EXCEPT !.world = w].build = x.build
  BY DEF Tree

\* What the fields of a tree hold.
LEMMA TreeFields ==
  ASSUME NEW x \in Tree
  PROVE  x.build \in Txn \cup {Orig} /\ x.checked \in BOOLEAN /\ x.world \in 0..MaxWorld
  BY DEF Tree

\* Changing one field of a marker leaves the other alone.
LEMMA MetaPhase ==
  ASSUME NEW m \in Meta, NEW p \in Phase
  PROVE  /\ [m EXCEPT !.phase = p] \in Meta
         /\ [m EXCEPT !.phase = p].phase = p
         /\ [m EXCEPT !.phase = p].backed = m.backed
  BY DEF Meta

LEMMA MetaBacked ==
  ASSUME NEW m \in Meta, NEW b \in BOOLEAN
  PROVE  /\ [m EXCEPT !.backed = b] \in Meta
         /\ [m EXCEPT !.backed = b].phase = m.phase
  BY DEF Meta

LEMMA MetaApproved ==
  ASSUME NEW m \in Meta, NEW b \in BOOLEAN
  PROVE  /\ [m EXCEPT !.approved = b] \in Meta
         /\ [m EXCEPT !.approved = b].phase = m.phase
  BY DEF Meta

-----------------------------------------------------------------------------
(***************************************************************************)
(* Lemmas about the helpers of the actions.                                *)
(***************************************************************************)

\* A running flow is the only one, and works on an open transaction.
LEMMA Running ==
  ASSUME Inv, NEW f \in Flow, pc[f] # "idle"
  PROVE  /\ txn[f] \in Txn
         /\ result[txn[f]] = "open"
         /\ pc[f] # "begin" => meta[f] \in Meta
         /\ pc[f] # "certify" => staging[txn[f]] \in Tree
         /\ \A g \in Flow : g # f => pc[g] = "idle"
  BY DEF Inv, TypeOK, OneFlow, FlowOwnsTxn

\* Saving a marker makes sure there is a tree, and touches no other one.
LEMMA SaveFacts ==
  ASSUME TypeOK, NEW t \in Txn, NEW m \in Meta, Save(t, m)
  PROVE  /\ staging' \in [Txn -> Tree \cup {NoTree}]
         /\ marker' \in [Txn -> Meta \cup {NoMeta}]
         /\ marker'[t] = m
         /\ staging'[t] \in Tree
         /\ staging[t] \in Tree => staging' = staging
         /\ \A u \in Txn : u # t => marker'[u] = marker[u] /\ staging'[u] = staging[u]
  BY Sentinels, EmptyTreeFacts DEF TypeOK, Save

\* The verdict on a staged tree changes nothing else.
LEMMA VerdictFacts ==
  ASSUME TypeOK, NEW t \in Txn, staging[t] \in Tree, NEW b \in BOOLEAN,
         staging' = [staging EXCEPT ![t].checked = b]
  PROVE  /\ staging' \in [Txn -> Tree \cup {NoTree}]
         /\ staging'[t] \in Tree
         /\ staging'[t].checked = b
         /\ staging'[t].build = staging[t].build
         /\ \A u \in Txn : u # t => staging'[u] = staging[u]
  <1>1. staging' = [staging EXCEPT ![t] = [staging[t] EXCEPT !.checked = b]]
    BY DEF TypeOK
  <1> QED
    BY <1>1, TreeVerdict DEF TypeOK

\* The phase of the flow's transaction value changes, and nothing else.
LEMMA InPhaseFacts ==
  ASSUME TypeOK, NEW f \in Flow, meta[f] \in Meta, NEW p \in Phase, InPhase(f, p)
  PROVE  /\ meta' \in [Flow -> Meta \cup {NoMeta}]
         /\ meta'[f] \in Meta
         /\ meta'[f].phase = p
         /\ \A g \in Flow : g # f => meta'[g] = meta[g]
  <1>1. meta' = [meta EXCEPT ![f] = [meta[f] EXCEPT !.phase = p]]
    BY DEF TypeOK, InPhase
  <1> QED
    BY <1>1, MetaPhase DEF TypeOK

\* One more failure stays within the bound.
LEMMA FailureFacts ==
  ASSUME TypeOK, Works \/ Fails \/ FailsTwice
  PROVE  failures' \in 0..MaxFailures
  BY ConstantsAssumption DEF TypeOK, Works, Fails, FailsTwice

\* Removing staging leaves no tree, or an unchecked one of the same build.
LEMMA RemoveFacts ==
  ASSUME TypeOK, NEW t \in Txn, RemoveStaging(t) \/ RemoveFails(t)
  PROVE  /\ staging' \in [Txn -> Tree \cup {NoTree}]
         /\ marker' \in [Txn -> Meta \cup {NoMeta}]
         /\ failures' \in 0..MaxFailures
         /\ staging'[t] # NoTree => staging[t] # NoTree /\ staging'[t].build = staging[t].build
         /\ marker'[t] # NoMeta => marker'[t] = marker[t]
         /\ RemoveFails(t) => staging'[t] # NoTree
         /\ \A u \in Txn : u # t => staging'[u] = staging[u] /\ marker'[u] = marker[u]
<1>1. CASE RemoveStaging(t)
  <2>1. staging'[t] = NoTree /\ marker'[t] = NoMeta
    BY <1>1 DEF TypeOK, RemoveStaging
  <2>2. ~RemoveFails(t)
    BY <2>1, Sentinels, VerdictFacts DEF TypeOK, RemoveFails
  <2> QED
    BY <1>1, <2>1, <2>2, FailureFacts DEF TypeOK, RemoveStaging
<1>2. CASE RemoveFails(t)
  <2>1. staging[t] \in Tree
    BY <1>2 DEF TypeOK, RemoveFails
  <2>2. staging' = [staging EXCEPT ![t].checked = FALSE]
    BY <1>2 DEF RemoveFails
  <2>3. /\ staging' \in [Txn -> Tree \cup {NoTree}]
        /\ staging'[t] \in Tree
        /\ staging'[t].build = staging[t].build
        /\ \A u \in Txn : u # t => staging'[u] = staging[u]
    BY <2>1, <2>2, VerdictFacts
  <2>4. failures' \in 0..MaxFailures
    BY <1>2, FailureFacts DEF RemoveFails
  <2> QED
    BY <1>2, <2>1, <2>3, <2>4, Sentinels DEF TypeOK, RemoveFails
<1> QED
  BY <1>1, <1>2

-----------------------------------------------------------------------------
(***************************************************************************)
(* Flows that return an error.                                             *)
(***************************************************************************)

\* A flow that returns an error and leaves the disk alone.
LEMMA ErrorInv ==
  ASSUME Inv, NEW f \in Flow, pc[f] # "idle", Return(f, "error"),
         UNCHANGED <<disk, clock, played>>, failures' \in 0..MaxFailures
  PROVE  Inv'
<1> USE Sentinels DEF Inv, Return, Goto, disk
<1>1. /\ txn[f] \in Txn /\ result[txn[f]] = "open"
      /\ \A g \in Flow : g # f => pc[g] = "idle"
  BY Running
<1>2. TypeOK'
  BY <1>1 DEF TypeOK, Step, Result
<1>3. OneFlow' /\ FlowOwnsTxn' /\ CommitIsPrepared'
  BY <1>1 DEF OneFlow, FlowOwnsTxn, CommitIsPrepared, TypeOK, Swapping
<1>4. TreesAreSound' /\ SlotIsFree'
  BY <1>1 DEF TreesAreSound, SlotIsFree, TypeOK, BeforeSwap
<1>5. OnlyValidatedServes' /\ NewestWorldIsKept'
  BY DEF OnlyValidatedServes, NewestWorldIsKept
<1>6. InstalledIsKept' /\ PausedIsResumable'
  BY <1>1 DEF InstalledIsKept, PausedIsResumable, Paused, TypeOK
<1> QED
  BY <1>2, <1>3, <1>4, <1>5, <1>6

\* A flow that also removes its staging directory, or a part of it.
LEMMA RemovedInv ==
  ASSUME Inv, NEW f \in Flow, pc[f] # "idle", Return(f, "error"),
         RemoveStaging(txn[f]) \/ RemoveFails(txn[f]),
         UNCHANGED <<live, backup, clock, played>>
  PROVE  Inv'
<1> USE Sentinels DEF Inv, Return, Goto
<1>1. /\ txn[f] \in Txn /\ result[txn[f]] = "open"
      /\ \A g \in Flow : g # f => pc[g] = "idle"
  BY Running
<1>2. /\ staging' \in [Txn -> Tree \cup {NoTree}]
      /\ marker' \in [Txn -> Meta \cup {NoMeta}]
      /\ failures' \in 0..MaxFailures
      /\ staging'[txn[f]] # NoTree =>
            /\ staging[txn[f]] # NoTree
            /\ staging'[txn[f]].build = staging[txn[f]].build
      /\ marker'[txn[f]] # NoMeta => marker'[txn[f]] = marker[txn[f]]
      /\ \A u \in Txn : u # txn[f] => staging'[u] = staging[u] /\ marker'[u] = marker[u]
  BY <1>1, RemoveFacts
<1>3. TypeOK'
  BY <1>1, <1>2 DEF TypeOK, Step, Result
<1>4. OneFlow' /\ FlowOwnsTxn' /\ CommitIsPrepared'
  BY <1>1 DEF OneFlow, FlowOwnsTxn, CommitIsPrepared, TypeOK, Swapping
<1>5. TreesAreSound' /\ SlotIsFree'
  BY <1>1, <1>2 DEF TreesAreSound, SlotIsFree, TypeOK, BeforeSwap
<1>6. OnlyValidatedServes' /\ NewestWorldIsKept'
  BY DEF OnlyValidatedServes, NewestWorldIsKept
<1>7. InstalledIsKept' /\ PausedIsResumable'
  BY <1>1, <1>2 DEF InstalledIsKept, PausedIsResumable, Paused, TypeOK
<1> QED
  BY <1>3, <1>4, <1>5, <1>6, <1>7

-----------------------------------------------------------------------------
LEMMA InitInv == Init => Inv
<1> SUFFICES ASSUME Init PROVE Inv
  OBVIOUS
<1>1. TypeOK
  <2>1. live \in Tree \cup {NoTree}
    <3>1. [build |-> Orig, checked |-> TRUE, world |-> 0] \in Tree
      BY ConstantsAssumption DEF Tree
    <3> QED
      BY <3>1 DEF Init
  <2>2. /\ staging \in [Txn -> Tree \cup {NoTree}]
        /\ backup \in [Txn -> Tree \cup {NoTree}]
        /\ marker \in [Txn -> Meta \cup {NoMeta}]
        /\ meta \in [Flow -> Meta \cup {NoMeta}]
    BY DEF Init
  <2>3. /\ pc \in [Flow -> Step]
        /\ txn \in [Flow -> Txn \cup {NoTxn}]
        /\ result \in [Txn -> Result]
    BY DEF Init, Step, Result
  <2>4. clock \in 0..MaxWorld /\ failures \in 0..MaxFailures
    BY ConstantsAssumption DEF Init
  <2>5. played \in BOOLEAN
    BY DEF Init
  <2> QED
    BY <2>1, <2>2, <2>3, <2>4, <2>5 DEF TypeOK
<1>2. OneFlow /\ FlowOwnsTxn /\ CommitIsPrepared
  BY DEF Init, OneFlow, FlowOwnsTxn, CommitIsPrepared, Swapping
<1>3. TreesAreSound /\ SlotIsFree
  BY DEF Init, TreesAreSound, SlotIsFree, BeforeSwap
<1>4. OnlyValidatedServes /\ NewestWorldIsKept /\ InstalledIsKept /\ PausedIsResumable
  BY DEF Init, OnlyValidatedServes, NewestWorldIsKept, InstalledIsKept, PausedIsResumable
<1> QED
  BY <1>1, <1>2, <1>3, <1>4 DEF Inv

(***************************************************************************)
(* One lemma per action.                                                   *)
(***************************************************************************)

LEMMA BeginInv ==
  ASSUME Inv, NEW f \in Flow, NEW t \in Txn, Begin(f, t)
  PROVE  Inv'
<1> USE Sentinels, EmptyTreeFacts DEF Inv, Begin, OperationGuard, Goto
<1>1. TypeOK'
  BY DEF TypeOK, Step, Result
<1>2. OneFlow' /\ FlowOwnsTxn' /\ CommitIsPrepared'
  BY DEF OneFlow, FlowOwnsTxn, CommitIsPrepared, TypeOK, Swapping
<1>3. TreesAreSound' /\ SlotIsFree'
  BY DEF TreesAreSound, SlotIsFree, TypeOK, BeforeSwap
<1>4. OnlyValidatedServes' /\ NewestWorldIsKept' /\ InstalledIsKept'
  BY DEF OnlyValidatedServes, NewestWorldIsKept, InstalledIsKept, TypeOK
<1>5. PausedIsResumable'
  BY DEF PausedIsResumable, Paused, TypeOK
<1> QED
  BY <1>1, <1>2, <1>3, <1>4, <1>5

LEMMA OpenInv ==
  ASSUME Inv, NEW f \in Flow, NEW t \in Txn, Resume(f, t) \/ Reject(f, t)
  PROVE  Inv'
<1> USE Sentinels DEF Inv, OperationGuard, Goto, Paused, disk
<1>1. PICK step \in {"copy", "rollback"} : Open(f, t, step)
  BY DEF Resume, Reject
<1>0. step = "copy" => marker[t].approved
  BY <1>1 DEF Resume, Reject, Open, TypeOK
<1> USE <1>1 DEF Open
<1>2. TypeOK'
  BY DEF TypeOK, Step, Result
<1>3. OneFlow' /\ FlowOwnsTxn'
  BY DEF OneFlow, FlowOwnsTxn, TypeOK
<1>4. CommitIsPrepared' /\ TreesAreSound'
  <2>1. pc'[f] = step /\ txn'[f] = t /\ marker' = marker /\ \A g \in Flow \ {f} : pc'[g] = "idle"
    BY DEF TypeOK
  <2>2. CommitIsPrepared'
    BY <1>0, <2>1 DEF CommitIsPrepared, Swapping
  <2> QED
    BY <2>2 DEF TreesAreSound
<1>5. SlotIsFree'
  BY DEF SlotIsFree, TypeOK, BeforeSwap
<1>6. OnlyValidatedServes' /\ NewestWorldIsKept' /\ InstalledIsKept' /\ PausedIsResumable'
  BY DEF OnlyValidatedServes, NewestWorldIsKept, InstalledIsKept, PausedIsResumable, TypeOK
<1> QED
  BY <1>2, <1>3, <1>4, <1>5, <1>6

LEMMA SaveNewInv ==
  ASSUME Inv, NEW f \in Flow, SaveNew(f)
  PROVE  Inv'
<1> DEFINE new == [phase |-> "Building", backed |-> FALSE, approved |-> FALSE]
<1>1. /\ txn[f] \in Txn /\ result[txn[f]] = "open" /\ staging[txn[f]] \in Tree
      /\ \A g \in Flow : g # f => pc[g] = "idle"
  BY Running DEF SaveNew
<1>2. CASE Works /\ Save(txn[f], new) /\ meta' = [meta EXCEPT ![f] = new]
           /\ Goto(f, "build") /\ UNCHANGED <<live, backup, txn, result, clock, played>>
  <2>1. new \in Meta /\ new.phase = "Building"
    BY DEF Meta, Phase
  <2> HIDE DEF new
  <2>2. /\ marker' \in [Txn -> Meta \cup {NoMeta}] /\ marker'[txn[f]] = new
        /\ staging' = staging
        /\ \A u \in Txn : u # txn[f] => marker'[u] = marker[u]
    BY <1>1, <1>2, <2>1, SaveFacts DEF Inv
  <2> USE <1>1, <1>2, <2>1, <2>2, Sentinels DEF Inv, Goto, Works, SaveNew
  <2>3. TypeOK'
    BY DEF TypeOK, Step
  <2>4. OneFlow' /\ FlowOwnsTxn' /\ CommitIsPrepared'
    BY DEF OneFlow, FlowOwnsTxn, CommitIsPrepared, TypeOK, Swapping
  <2>5. TreesAreSound' /\ SlotIsFree'
    BY DEF TreesAreSound, SlotIsFree, TypeOK, BeforeSwap
  <2>6. OnlyValidatedServes' /\ NewestWorldIsKept' /\ InstalledIsKept' /\ PausedIsResumable'
    BY DEF OnlyValidatedServes, NewestWorldIsKept, InstalledIsKept, PausedIsResumable, Paused
  <2> QED
    BY <2>3, <2>4, <2>5, <2>6
<1>3. CASE Fails /\ Return(f, "error") /\ UNCHANGED <<disk, clock, played>>
  BY <1>3, ErrorInv, FailureFacts DEF Inv, SaveNew
<1> QED
  BY <1>2, <1>3 DEF SaveNew, disk

LEMMA BuildPackInv ==
  ASSUME Inv, NEW f \in Flow, BuildPack(f)
  PROVE  Inv'
<1> USE DEF Inv, BuildPack, Goto, disk
<1>1. /\ txn[f] \in Txn /\ \A g \in Flow : g # f => pc[g] = "idle"
  BY Running
<1>2. TypeOK'
  BY DEF TypeOK, Step
<1>3. OneFlow' /\ FlowOwnsTxn' /\ CommitIsPrepared'
  BY <1>1 DEF OneFlow, FlowOwnsTxn, CommitIsPrepared, TypeOK, Swapping
<1>4. TreesAreSound' /\ SlotIsFree'
  BY <1>1 DEF TreesAreSound, SlotIsFree, TypeOK, BeforeSwap
<1>5. OnlyValidatedServes' /\ NewestWorldIsKept' /\ InstalledIsKept' /\ PausedIsResumable'
  BY DEF OnlyValidatedServes, NewestWorldIsKept, InstalledIsKept, PausedIsResumable, Paused
<1> QED
  BY <1>2, <1>3, <1>4, <1>5

LEMMA CopyPersistentStateInv ==
  ASSUME Inv, NEW f \in Flow, CopyPersistentState(f)
  PROVE  Inv'
<1> USE Sentinels DEF Inv, CopyPersistentState, Goto
<1>1. /\ txn[f] \in Txn /\ result[txn[f]] = "open" /\ staging[txn[f]] \in Tree
      /\ \A g \in Flow : g # f => pc[g] = "idle"
  BY Running
<1>2. /\ staging' \in [Txn -> Tree \cup {NoTree}]
      /\ staging'[txn[f]] \in Tree
      /\ staging'[txn[f]].build = staging[txn[f]].build
      /\ \A u \in Txn : u # txn[f] => staging'[u] = staging[u]
  <2>1. CASE UNCHANGED staging
    BY <1>1, <2>1 DEF TypeOK
  <2>2. CASE live # NoTree /\ staging' = [staging EXCEPT ![txn[f]].world = live.world]
    <3>1. live.world \in 0..MaxWorld
      BY <2>2, TreeFields DEF TypeOK
    <3>2. staging' = [staging EXCEPT ![txn[f]] = [staging[txn[f]] EXCEPT !.world = live.world]]
      BY <2>2 DEF TypeOK
    <3> QED
      BY <1>1, <3>1, <3>2, TreeWorld DEF TypeOK
  <2> QED
    BY <1>1, <2>1, <2>2
<1>3. failures' \in 0..MaxFailures
  BY FailureFacts
<1>4. TypeOK'
  BY <1>2, <1>3 DEF TypeOK, Step
<1>5. OneFlow' /\ FlowOwnsTxn' /\ CommitIsPrepared'
  BY <1>1, <1>2 DEF OneFlow, FlowOwnsTxn, CommitIsPrepared, TypeOK, Swapping
<1>6. TreesAreSound' /\ SlotIsFree'
  BY <1>1, <1>2 DEF TreesAreSound, SlotIsFree, TypeOK, BeforeSwap
<1>7. OnlyValidatedServes' /\ NewestWorldIsKept' /\ InstalledIsKept'
  BY DEF OnlyValidatedServes, NewestWorldIsKept, InstalledIsKept
<1>8. PausedIsResumable'
  BY <1>1, <1>2 DEF PausedIsResumable, Paused, TypeOK
<1> QED
  BY <1>4, <1>5, <1>6, <1>7, <1>8

LEMMA ValidateInv ==
  ASSUME Inv, NEW f \in Flow, Validate(f)
  PROVE  Inv'
<1> USE Sentinels DEF Inv, Validate, Goto
<1>1. /\ txn[f] \in Txn /\ result[txn[f]] = "open" /\ staging[txn[f]] \in Tree
      /\ \A g \in Flow : g # f => pc[g] = "idle"
  BY Running
<1>2. /\ staging' \in [Txn -> Tree \cup {NoTree}]
      /\ staging'[txn[f]] \in Tree
      /\ staging'[txn[f]].build = staging[txn[f]].build
      /\ pc'[f] = "commit" => staging'[txn[f]].checked
      /\ \A u \in Txn : u # txn[f] => staging'[u] = staging[u]
  <2>1. CASE staging' = [staging EXCEPT ![txn[f]].checked = TRUE]
    BY <1>1, <2>1, VerdictFacts
  <2>2. CASE UNCHANGED staging /\ pc'[f] # "commit"
    BY <1>1, <2>2 DEF TypeOK
  <2> QED
    BY <1>1, <2>1, <2>2 DEF TypeOK
<1>3. TypeOK'
  BY <1>2 DEF TypeOK, Step
<1>4. OneFlow' /\ FlowOwnsTxn' /\ CommitIsPrepared'
  BY <1>1, <1>2 DEF OneFlow, FlowOwnsTxn, CommitIsPrepared, TypeOK, Swapping
<1>5. TreesAreSound' /\ SlotIsFree'
  BY <1>1, <1>2 DEF TreesAreSound, SlotIsFree, TypeOK, BeforeSwap
<1>6. OnlyValidatedServes' /\ NewestWorldIsKept' /\ InstalledIsKept'
  BY DEF OnlyValidatedServes, NewestWorldIsKept, InstalledIsKept
<1>7. PausedIsResumable'
  BY <1>1, <1>2 DEF PausedIsResumable, Paused, TypeOK
<1> QED
  BY <1>3, <1>4, <1>5, <1>6, <1>7

LEMMA PauseInv ==
  ASSUME Inv, NEW f \in Flow, Pause(f)
  PROVE  Inv'
<1> USE Sentinels DEF Inv, Pause, PauseFails, Return, Goto
<1> DEFINE m == [meta[f] EXCEPT !.phase = "PendingUserAction", !.approved = FALSE]
<1>1. /\ txn[f] \in Txn /\ result[txn[f]] = "open" /\ staging[txn[f]] \in Tree
      /\ meta[f] \in Meta
      /\ \A g \in Flow : g # f => pc[g] = "idle"
  BY Running
<1>2. m \in Meta /\ m.phase = "PendingUserAction"
  BY <1>1 DEF Meta, Phase
<1> HIDE DEF m
<1>3. /\ staging' \in [Txn -> Tree \cup {NoTree}]
      /\ marker' \in [Txn -> Meta \cup {NoMeta}]
      /\ marker'[txn[f]] \in {m, NoMeta}
      /\ result'[txn[f]] = "paused" => marker'[txn[f]] = m
      /\ result'[txn[f]] = "paused" => staging'[txn[f]] \in Tree
      /\ staging'[txn[f]] \in {staging[txn[f]], NoTree}
      /\ \A u \in Txn : u # txn[f] => staging'[u] = staging[u] /\ marker'[u] = marker[u]
  <2>1. CASE Save(txn[f], m)
    BY <1>1, <1>2, <2>1, SaveFacts DEF TypeOK
  <2>2. CASE /\ staging' = [staging EXCEPT ![txn[f]] = NoTree]
             /\ marker' = [marker EXCEPT ![txn[f]] = NoMeta]
             /\ Return(f, "error")
    BY <1>1, <2>2 DEF TypeOK
  <2> QED
    BY <2>1, <2>2 DEF m
<1>4. failures' \in 0..MaxFailures
  BY FailureFacts
<1>5. TypeOK'
  BY <1>1, <1>3, <1>4 DEF TypeOK, Step, Result
<1>6. OneFlow' /\ FlowOwnsTxn' /\ CommitIsPrepared'
  BY <1>1 DEF OneFlow, FlowOwnsTxn, CommitIsPrepared, TypeOK, Swapping
<1>7. TreesAreSound' /\ SlotIsFree'
  BY <1>1, <1>3 DEF TreesAreSound, SlotIsFree, TypeOK, BeforeSwap
<1>8. OnlyValidatedServes' /\ NewestWorldIsKept'
  BY DEF OnlyValidatedServes, NewestWorldIsKept
<1>9. InstalledIsKept'
  BY <1>1 DEF InstalledIsKept, TypeOK
<1>10. PausedIsResumable'
  BY <1>1, <1>2, <1>3 DEF PausedIsResumable, Paused, TypeOK
<1> QED
  BY <1>5, <1>6, <1>7, <1>8, <1>9, <1>10

\* rollback finds nothing to bring back: the slot of a transaction that has
\* not begun to swap is free.
LEMMA RollbackInv ==
  ASSUME Inv, NEW f \in Flow, Rollback(f)
  PROVE  Inv'
<1> USE Sentinels DEF Inv, Goto
<1>1. /\ txn[f] \in Txn /\ result[txn[f]] = "open" /\ staging[txn[f]] \in Tree
      /\ meta[f] \in Meta /\ pc[f] = "rollback"
      /\ \A g \in Flow : g # f => pc[g] = "idle"
  BY Running DEF Rollback
<1>2. backup[txn[f]] = NoTree
  BY <1>1 DEF SlotIsFree, BeforeSwap
<1>3. CASE RemoveStaging(txn[f]) /\ UNCHANGED <<live, backup, clock, played>> /\ Return(f, "error")
  BY <1>1, <1>3, RemovedInv
<1>4. CASE RemoveFails(txn[f]) /\ Goto(f, "drop")
           /\ UNCHANGED <<live, backup, txn, meta, result, clock, played>>
  <2>1. /\ staging' \in [Txn -> Tree \cup {NoTree}]
        /\ marker' \in [Txn -> Meta \cup {NoMeta}]
        /\ failures' \in 0..MaxFailures
        /\ staging'[txn[f]] # NoTree
        /\ staging'[txn[f]].build = staging[txn[f]].build
        /\ marker'[txn[f]] # NoMeta => marker'[txn[f]] = marker[txn[f]]
        /\ \A u \in Txn : u # txn[f] => staging'[u] = staging[u] /\ marker'[u] = marker[u]
    BY <1>1, <1>4, RemoveFacts
  <2>2. TypeOK'
    BY <1>4, <2>1 DEF TypeOK, Step
  <2>3. OneFlow' /\ FlowOwnsTxn' /\ CommitIsPrepared'
    BY <1>1, <1>4, <2>1 DEF OneFlow, FlowOwnsTxn, CommitIsPrepared, TypeOK, Swapping
  <2>4. TreesAreSound' /\ SlotIsFree'
    BY <1>1, <1>4, <2>1 DEF TreesAreSound, SlotIsFree, TypeOK, BeforeSwap
  <2>5. OnlyValidatedServes' /\ NewestWorldIsKept' /\ InstalledIsKept'
    BY <1>4 DEF OnlyValidatedServes, NewestWorldIsKept, InstalledIsKept
  <2>6. PausedIsResumable'
    BY <1>1, <1>4, <2>1 DEF PausedIsResumable, Paused, TypeOK
  <2> QED
    BY <2>2, <2>3, <2>4, <2>5, <2>6
<1> QED
  BY <1>2, <1>3, <1>4 DEF Rollback, Restorable

LEMMA DropInv ==
  ASSUME Inv, NEW f \in Flow, Drop(f)
  PROVE  Inv'
<1>1. CASE RemoveStaging(txn[f]) \/ RemoveFails(txn[f])
  BY <1>1, RemovedInv DEF Drop
<1>2. CASE UNCHANGED <<staging, marker, failures>>
  BY <1>2, ErrorInv DEF Drop, disk, Inv, TypeOK
<1> QED
  BY <1>1, <1>2 DEF Drop

LEMMA MarkCommittingInv ==
  ASSUME Inv, NEW f \in Flow, MarkCommitting(f)
  PROVE  Inv'
<1> DEFINE m == [meta[f] EXCEPT !.phase = "Committing"]
<1>1. /\ txn[f] \in Txn /\ result[txn[f]] = "open" /\ staging[txn[f]] \in Tree
      /\ meta[f] \in Meta /\ pc[f] = "commit"
      /\ \A g \in Flow : g # f => pc[g] = "idle"
  BY Running DEF MarkCommitting
<1>2. m \in Meta /\ m.phase = "Committing"
  BY <1>1, MetaPhase DEF Phase
<1>3. CASE Works /\ Save(txn[f], m) /\ meta' = [meta EXCEPT ![f] = m]
           /\ Goto(f, "moveOut") /\ UNCHANGED <<live, backup, txn, result, clock, played>>
  <2> HIDE DEF m
  <2>1. /\ marker' \in [Txn -> Meta \cup {NoMeta}] /\ marker'[txn[f]] = m
        /\ staging' = staging
        /\ \A u \in Txn : u # txn[f] => marker'[u] = marker[u]
    BY <1>1, <1>2, <1>3, SaveFacts DEF Inv
  <2> USE <1>1, <1>2, <1>3, <2>1, Sentinels DEF Inv, Goto, Works
  <2>2. TypeOK'
    BY DEF TypeOK, Step
  <2>3. OneFlow' /\ FlowOwnsTxn'
    BY DEF OneFlow, FlowOwnsTxn, TypeOK
  <2>4. CommitIsPrepared'
    BY DEF CommitIsPrepared, TypeOK, Swapping
  <2>5. TreesAreSound' /\ SlotIsFree'
    BY DEF TreesAreSound, SlotIsFree, TypeOK, BeforeSwap
  <2>6. OnlyValidatedServes' /\ NewestWorldIsKept' /\ InstalledIsKept' /\ PausedIsResumable'
    BY DEF OnlyValidatedServes, NewestWorldIsKept, InstalledIsKept, PausedIsResumable, Paused
  <2> QED
    BY <2>2, <2>3, <2>4, <2>5, <2>6
<1>4. CASE Fails /\ Return(f, "error") /\ UNCHANGED <<disk, clock, played>>
  BY <1>1, <1>4, ErrorInv, FailureFacts DEF Inv
<1> QED
  BY <1>3, <1>4 DEF MarkCommitting, disk

LEMMA MoveLiveOutInv ==
  ASSUME Inv, NEW f \in Flow, MoveLiveOut(f)
  PROVE  Inv'
<1> USE Sentinels DEF Inv, Goto
<1>1. /\ txn[f] \in Txn /\ result[txn[f]] = "open" /\ staging[txn[f]] \in Tree
      /\ meta[f] \in Meta /\ pc[f] = "moveOut" /\ backup[txn[f]] = NoTree
      /\ meta[f].phase = "Committing"
      /\ marker[txn[f]] \in Meta /\ marker[txn[f]].phase = "Committing"
      /\ staging[txn[f]].checked
      /\ UNCHANGED <<staging, marker, txn, result, clock, played>>
      /\ \A g \in Flow : g # f => pc[g] = "idle"
  BY Running DEF MoveLiveOut, SlotIsFree, BeforeSwap, CommitIsPrepared, Swapping
<1>2. failures' \in 0..MaxFailures
  BY FailureFacts DEF MoveLiveOut
<1>3. CASE UNCHANGED <<live, backup, meta>> /\ Goto(f, "moveIn")
  <2> USE <1>1, <1>2, <1>3
  <2>1. TypeOK'
    BY DEF TypeOK, Step
  <2>2. OneFlow' /\ FlowOwnsTxn' /\ CommitIsPrepared'
    BY DEF OneFlow, FlowOwnsTxn, CommitIsPrepared, TypeOK, Swapping
  <2>3. TreesAreSound' /\ SlotIsFree'
    BY DEF TreesAreSound, SlotIsFree, TypeOK, BeforeSwap
  <2>4. OnlyValidatedServes' /\ NewestWorldIsKept' /\ InstalledIsKept' /\ PausedIsResumable'
    BY DEF OnlyValidatedServes, NewestWorldIsKept, InstalledIsKept, PausedIsResumable, Paused
  <2> QED
    BY <2>1, <2>2, <2>3, <2>4
<1>4. CASE /\ live # NoTree
           /\ backup' = [backup EXCEPT ![txn[f]] = live]
           /\ live' = NoTree
           /\ meta' = [meta EXCEPT ![f].backed = TRUE]
           /\ Goto(f, "record")
  <2>1. meta' = [meta EXCEPT ![f] = [meta[f] EXCEPT !.backed = TRUE]]
    BY <1>4 DEF TypeOK
  <2>2. /\ meta' \in [Flow -> Meta \cup {NoMeta}]
        /\ meta'[f] \in Meta /\ meta'[f].phase = "Committing"
    BY <1>1, <2>1, MetaBacked DEF TypeOK
  <2>3. TypeOK'
    BY <1>1, <1>2, <1>4, <2>2 DEF TypeOK, Step
  <2>4. OneFlow' /\ FlowOwnsTxn' /\ CommitIsPrepared'
    BY <1>1, <1>4, <2>2 DEF OneFlow, FlowOwnsTxn, CommitIsPrepared, TypeOK, Swapping
  <2>5. TreesAreSound'
    BY <1>1, <1>4 DEF TreesAreSound, OnlyValidatedServes, TypeOK
  <2>6. SlotIsFree'
    BY <1>1, <1>4 DEF SlotIsFree, BeforeSwap, TypeOK
  <2>7. OnlyValidatedServes' /\ PausedIsResumable'
    BY <1>1, <1>4 DEF OnlyValidatedServes, PausedIsResumable, Paused
  <2>8. NewestWorldIsKept'
    BY <1>1, <1>4 DEF NewestWorldIsKept, TypeOK
  <2>9. InstalledIsKept'
    BY <1>1, <1>4 DEF InstalledIsKept, TypeOK
  <2> QED
    BY <2>3, <2>4, <2>5, <2>6, <2>7, <2>8, <2>9
<1>5. CASE InPhase(f, "Building") /\ Goto(f, "undo") /\ UNCHANGED <<live, backup>>
  <2>1. /\ meta' \in [Flow -> Meta \cup {NoMeta}]
        /\ meta'[f] \in Meta /\ meta'[f].phase = "Building"
    BY <1>1, <1>5, InPhaseFacts DEF Phase
  <2> USE <1>1, <1>2, <1>5
  <2>2. TypeOK'
    BY <2>1 DEF TypeOK, Step
  <2>3. OneFlow' /\ FlowOwnsTxn' /\ CommitIsPrepared'
    BY <2>1 DEF OneFlow, FlowOwnsTxn, CommitIsPrepared, TypeOK, Swapping
  <2>4. TreesAreSound' /\ SlotIsFree'
    BY DEF TreesAreSound, SlotIsFree, TypeOK, BeforeSwap
  <2>5. OnlyValidatedServes' /\ NewestWorldIsKept' /\ InstalledIsKept' /\ PausedIsResumable'
    BY DEF OnlyValidatedServes, NewestWorldIsKept, InstalledIsKept, PausedIsResumable, Paused
  <2> QED
    BY <2>2, <2>3, <2>4, <2>5
<1> QED
  BY <1>3, <1>4, <1>5 DEF MoveLiveOut, SetAside, CommitFails

LEMMA RecordBackupInv ==
  ASSUME Inv, NEW f \in Flow, RecordBackup(f)
  PROVE  Inv'
<1>1. /\ txn[f] \in Txn /\ result[txn[f]] = "open" /\ staging[txn[f]] \in Tree
      /\ meta[f] \in Meta /\ pc[f] = "record" /\ meta[f].phase = "Committing"
      /\ staging[txn[f]].checked
      /\ \A g \in Flow : g # f => pc[g] = "idle"
  BY Running DEF RecordBackup, Inv, CommitIsPrepared, Swapping
<1>2. CASE Works /\ Save(txn[f], meta[f]) /\ Goto(f, "moveIn")
           /\ UNCHANGED <<live, backup, txn, meta, result, clock, played>>
  <2>1. /\ marker' \in [Txn -> Meta \cup {NoMeta}] /\ marker'[txn[f]] = meta[f]
        /\ staging' = staging
        /\ \A u \in Txn : u # txn[f] => marker'[u] = marker[u]
    BY <1>1, <1>2, SaveFacts DEF Inv
  <2> USE <1>1, <1>2, <2>1, Sentinels DEF Inv, Goto, Works
  <2>2. TypeOK'
    BY DEF TypeOK, Step
  <2>3. OneFlow' /\ FlowOwnsTxn' /\ CommitIsPrepared'
    BY DEF OneFlow, FlowOwnsTxn, CommitIsPrepared, TypeOK, Swapping
  <2>4. TreesAreSound' /\ SlotIsFree'
    BY DEF TreesAreSound, SlotIsFree, TypeOK, BeforeSwap
  <2>5. OnlyValidatedServes' /\ NewestWorldIsKept' /\ InstalledIsKept' /\ PausedIsResumable'
    BY DEF OnlyValidatedServes, NewestWorldIsKept, InstalledIsKept, PausedIsResumable, Paused
  <2> QED
    BY <2>2, <2>3, <2>4, <2>5
<1>3. CASE Fails /\ Return(f, "error") /\ UNCHANGED <<disk, clock, played>>
  BY <1>1, <1>3, ErrorInv, FailureFacts DEF Inv
<1> QED
  BY <1>2, <1>3 DEF RecordBackup, disk

LEMMA MoveStagingInInv ==
  ASSUME Inv, NEW f \in Flow, MoveStagingIn(f)
  PROVE  Inv'
<1> USE Sentinels DEF Inv, MoveStagingIn, Goto, Works
<1>1. /\ txn[f] \in Txn /\ result[txn[f]] = "open" /\ staging[txn[f]] \in Tree
      /\ meta[f] \in Meta /\ staging[txn[f]].checked /\ staging[txn[f]].build = txn[f]
      /\ \A g \in Flow : g # f => pc[g] = "idle"
  BY Running DEF CommitIsPrepared, TreesAreSound, Swapping
<1>2. /\ meta' \in [Flow -> Meta \cup {NoMeta}]
      /\ meta'[f] \in Meta /\ meta'[f].phase = "Committed"
  BY <1>1, InPhaseFacts DEF Phase
<1>3. TypeOK'
  BY <1>1, <1>2 DEF TypeOK, Step
<1>4. OneFlow' /\ FlowOwnsTxn'
  BY <1>1, <1>2 DEF OneFlow, FlowOwnsTxn, TypeOK
<1>5. CommitIsPrepared'
  BY <1>1, <1>2 DEF CommitIsPrepared, TypeOK, Swapping
<1>6. TreesAreSound' /\ SlotIsFree'
  BY <1>1 DEF TreesAreSound, SlotIsFree, TypeOK, BeforeSwap
<1>7. OnlyValidatedServes' /\ NewestWorldIsKept' /\ InstalledIsKept'
  BY <1>1 DEF OnlyValidatedServes, NewestWorldIsKept, InstalledIsKept
<1>8. PausedIsResumable'
  BY <1>1 DEF PausedIsResumable, Paused, TypeOK
<1> QED
  BY <1>3, <1>4, <1>5, <1>6, <1>7, <1>8

LEMMA MoveStagingInFailsInv ==
  ASSUME Inv, NEW f \in Flow, MoveStagingInFails(f)
  PROVE  Inv'
<1> USE Sentinels DEF Inv, Goto
<1>1. /\ txn[f] \in Txn /\ result[txn[f]] = "open" /\ staging[txn[f]] \in Tree
      /\ meta[f] \in Meta /\ pc[f] = "moveIn" /\ marker[txn[f]].phase = "Committing"
      /\ \A g \in Flow : g # f => pc[g] = "idle"
  BY Running DEF CommitIsPrepared, Swapping, MoveStagingInFails
<1>2. /\ pc' = [pc EXCEPT ![f] = "undo"]
      /\ InPhase(f, "Building")
      /\ UNCHANGED <<staging, marker, txn, result, clock, played>>
  BY DEF MoveStagingInFails, CommitFails
<1>3. /\ meta' \in [Flow -> Meta \cup {NoMeta}]
      /\ meta'[f] \in Meta /\ meta'[f].phase = "Building"
  BY <1>1, <1>2, InPhaseFacts DEF Phase
<1>4. failures' \in 0..MaxFailures
  BY FailureFacts DEF MoveStagingInFails
<1>5. \/ /\ live = NoTree /\ backup[txn[f]] # NoTree
         /\ live' = backup[txn[f]]
         /\ backup' = [backup EXCEPT ![txn[f]] = NoTree]
      \/ UNCHANGED <<live, backup>>
  BY DEF MoveStagingInFails, Restorable
<1>6. TypeOK'
  <2>1. live' \in Tree \cup {NoTree} /\ backup' \in [Txn -> Tree \cup {NoTree}]
    BY <1>1, <1>5 DEF TypeOK
  <2> QED
    BY <1>2, <1>3, <1>4, <2>1 DEF TypeOK, Step
<1>7. OneFlow' /\ FlowOwnsTxn' /\ CommitIsPrepared'
  BY <1>1, <1>2, <1>3 DEF OneFlow, FlowOwnsTxn, CommitIsPrepared, TypeOK, Swapping
<1>8. TreesAreSound' /\ SlotIsFree'
  BY <1>1, <1>2, <1>5 DEF TreesAreSound, SlotIsFree, TypeOK, BeforeSwap
<1>9. OnlyValidatedServes'
  BY <1>1, <1>5 DEF OnlyValidatedServes, TreesAreSound
<1>10. NewestWorldIsKept'
  BY <1>1, <1>2, <1>5 DEF NewestWorldIsKept, TypeOK
<1>11. InstalledIsKept'
  BY <1>1, <1>2, <1>5 DEF InstalledIsKept, TypeOK
<1>12. PausedIsResumable'
  BY <1>2 DEF PausedIsResumable, Paused
<1> QED
  BY <1>6, <1>7, <1>8, <1>9, <1>10, <1>11, <1>12

LEMMA UndoCommitInv ==
  ASSUME Inv, NEW f \in Flow, UndoCommit(f)
  PROVE  Inv'
<1> USE Sentinels DEF Inv, Goto, UndoCommit
<1>1. /\ txn[f] \in Txn /\ result[txn[f]] = "open" /\ staging[txn[f]] \in Tree
      /\ meta[f] \in Meta /\ meta[f].phase = "Building"
      /\ \A g \in Flow : g # f => pc[g] = "idle"
  BY Running DEF CommitIsPrepared
<1>2. /\ marker' \in [Txn -> Meta \cup {NoMeta}]
      /\ marker'[txn[f]] \in {meta[f], marker[txn[f]]}
      /\ staging' = staging
      /\ \A u \in Txn : u # txn[f] => marker'[u] = marker[u]
  BY <1>1, SaveFacts DEF TypeOK
<1>3. failures' \in 0..MaxFailures
  BY FailureFacts
<1>4. TypeOK'
  BY <1>2, <1>3 DEF TypeOK, Step
<1>5. OneFlow' /\ FlowOwnsTxn' /\ CommitIsPrepared'
  BY <1>1, <1>2 DEF OneFlow, FlowOwnsTxn, CommitIsPrepared, TypeOK, Swapping
<1>6. TreesAreSound' /\ SlotIsFree'
  BY <1>1, <1>2 DEF TreesAreSound, SlotIsFree, TypeOK, BeforeSwap
<1>7. OnlyValidatedServes' /\ NewestWorldIsKept' /\ InstalledIsKept'
  BY DEF OnlyValidatedServes, NewestWorldIsKept, InstalledIsKept
<1>8. PausedIsResumable'
  BY <1>1, <1>2 DEF PausedIsResumable, Paused
<1> QED
  BY <1>4, <1>5, <1>6, <1>7, <1>8

LEMMA CertifyInv ==
  ASSUME Inv, NEW f \in Flow, Certify(f)
  PROVE  Inv'
<1>1. CASE Works /\ Return(f, "ok") /\ UNCHANGED <<disk, clock, played>>
  <2> USE <1>1, Sentinels DEF Inv, Return, Goto, Works, disk
  <2>1. /\ txn[f] \in Txn /\ result[txn[f]] = "open"
        /\ live # NoTree /\ live.build = txn[f]
        /\ \A g \in Flow : g # f => pc[g] = "idle"
    BY Running DEF Certify, CommitIsPrepared
  <2>2. TypeOK'
    BY <2>1 DEF TypeOK, Step, Result
  <2>3. OneFlow' /\ FlowOwnsTxn' /\ CommitIsPrepared'
    BY <2>1 DEF OneFlow, FlowOwnsTxn, CommitIsPrepared, TypeOK, Swapping
  <2>4. TreesAreSound' /\ SlotIsFree'
    BY <2>1 DEF TreesAreSound, SlotIsFree, TypeOK, BeforeSwap
  <2>5. OnlyValidatedServes' /\ NewestWorldIsKept' /\ InstalledIsKept' /\ PausedIsResumable'
    BY <2>1 DEF OnlyValidatedServes, NewestWorldIsKept, InstalledIsKept,
                PausedIsResumable, Paused, TypeOK
  <2> QED
    BY <2>2, <2>3, <2>4, <2>5
<1>2. CASE Fails /\ Return(f, "error") /\ UNCHANGED <<disk, clock, played>>
  BY <1>2, ErrorInv, FailureFacts DEF Certify, Inv
<1> QED
  BY <1>1, <1>2 DEF Certify

LEMMA ApproveInv ==
  ASSUME Inv, NEW t \in Txn, Approve(t)
  PROVE  Inv'
<1> USE Sentinels DEF Inv, Approve, memory
<1>1. staging[t] \in Tree /\ marker[t] \in Meta /\ marker[t].phase = "PendingUserAction"
  BY DEF Paused, TypeOK
<1>2. /\ staging' \in [Txn -> Tree \cup {NoTree}]
      /\ staging'[t] \in Tree /\ staging'[t].build = staging[t].build
      /\ \A u \in Txn : u # t => staging'[u] = staging[u]
  BY <1>1, VerdictFacts
<1>3. /\ marker' \in [Txn -> Meta \cup {NoMeta}]
      /\ marker'[t] \in Meta /\ marker'[t].phase = marker[t].phase
      /\ \A u \in Txn : u # t => marker'[u] = marker[u]
  <2> DEFINE approved == [marker[t] EXCEPT !.approved = TRUE]
  <2>1. marker' = [marker EXCEPT ![t] = approved]
    BY DEF TypeOK
  <2>2. approved \in Meta /\ approved.phase = marker[t].phase
    BY <1>1, MetaApproved
  <2>3. marker \in [Txn -> Meta \cup {NoMeta}]
    BY DEF TypeOK
  <2> HIDE DEF approved
  <2> QED
    BY ONLY <2>1, <2>2, <2>3
<1>4. TypeOK'
  BY <1>2, <1>3 DEF TypeOK
<1>5. OneFlow' /\ FlowOwnsTxn' /\ CommitIsPrepared'
  <2>1. OneFlow' /\ FlowOwnsTxn'
    <3>1. OneFlow'
      BY DEF OneFlow
    <3>2. UNCHANGED <<pc, txn, meta, result>>
      OBVIOUS
    <3>3. \A u \in Txn : staging[u] # NoTree => staging'[u] # NoTree
      BY <1>2
    <3> QED
      BY <3>1, <3>2, <3>3 DEF FlowOwnsTxn
  <2>2. ASSUME NEW f \in Flow, pc[f] \in Swapping \cup {"build", "copy", "validate", "commit"}
        PROVE  txn[f] # t
    BY <1>1, <2>2 DEF CommitIsPrepared, Swapping
  <2>3. CommitIsPrepared'
    BY <1>2, <1>3, <2>2 DEF FlowOwnsTxn, CommitIsPrepared, Swapping
  <2> QED
    BY <2>1, <2>3
<1>6. TreesAreSound'
  BY <1>1, <1>2, <1>3 DEF TreesAreSound, TypeOK, BeforeSwap
<1>7. SlotIsFree'
  BY <1>1, <1>2, <1>3 DEF SlotIsFree, TypeOK, BeforeSwap
<1>8. OnlyValidatedServes' /\ NewestWorldIsKept' /\ InstalledIsKept'
  BY DEF OnlyValidatedServes, NewestWorldIsKept, InstalledIsKept
<1>9. PausedIsResumable'
  BY <1>1, <1>2, <1>3 DEF PausedIsResumable, Paused, TypeOK
<1> QED
  BY <1>4, <1>5, <1>6, <1>7, <1>8, <1>9

\* A crash forgets the flows; every conjunct about one becomes vacuous.
LEMMA CrashInv ==
  ASSUME Inv, Crash
  PROVE  Inv'
<1> USE Sentinels DEF Inv, Crash, disk
<1>1. TypeOK'
  BY DEF TypeOK, Step
<1>2. OneFlow' /\ FlowOwnsTxn' /\ CommitIsPrepared'
  BY DEF OneFlow, FlowOwnsTxn, CommitIsPrepared, Swapping
<1>3. TreesAreSound' /\ SlotIsFree'
  BY DEF TreesAreSound, SlotIsFree, BeforeSwap
<1>4. OnlyValidatedServes' /\ NewestWorldIsKept' /\ InstalledIsKept' /\ PausedIsResumable'
  BY DEF OnlyValidatedServes, NewestWorldIsKept, InstalledIsKept, PausedIsResumable, Paused
<1> QED
  BY <1>1, <1>2, <1>3, <1>4

LEMMA PlayInv ==
  ASSUME Inv, Play
  PROVE  Inv'
<1> USE Sentinels DEF Inv, Play, memory
<1>1. clock + 1 \in 0..MaxWorld
  BY ConstantsAssumption DEF TypeOK
<1>2. /\ live' \in Tree /\ live'.world = clock' /\ clock' = clock + 1
      /\ live'.checked = live.checked /\ live'.build = live.build
  BY <1>1, TreeWorld DEF TypeOK
<1>3. TypeOK'
  BY <1>1, <1>2 DEF TypeOK
<1>4. OneFlow' /\ FlowOwnsTxn' /\ CommitIsPrepared'
  BY <1>2 DEF OneFlow, FlowOwnsTxn, CommitIsPrepared
<1>5. TreesAreSound' /\ SlotIsFree'
  BY DEF TreesAreSound, SlotIsFree
<1>6. OnlyValidatedServes' /\ NewestWorldIsKept' /\ InstalledIsKept' /\ PausedIsResumable'
  BY <1>2 DEF OnlyValidatedServes, NewestWorldIsKept, InstalledIsKept, PausedIsResumable, Paused
<1> QED
  BY <1>3, <1>4, <1>5, <1>6

-----------------------------------------------------------------------------
(***************************************************************************)
(* The theorems.                                                           *)
(***************************************************************************)

LEMMA NextInv == Inv /\ [Next]_vars => Inv'
<1> SUFFICES ASSUME Inv, [Next]_vars PROVE Inv'
    OBVIOUS
<1>1. CASE UNCHANGED vars
  BY <1>1 DEF vars, disk, memory, Inv, TypeOK, OneFlow, FlowOwnsTxn, CommitIsPrepared,
              TreesAreSound, SlotIsFree, OnlyValidatedServes, NewestWorldIsKept,
              InstalledIsKept, PausedIsResumable, Paused
<1>2. ASSUME NEW f \in Flow, Start(f) PROVE Inv'
  BY <1>2, BeginInv, OpenInv DEF Start
<1>3. ASSUME NEW f \in Flow, Prepare(f) PROVE Inv'
  BY <1>3, SaveNewInv, BuildPackInv, CopyPersistentStateInv, ValidateInv DEF Prepare
<1>4. ASSUME NEW f \in Flow, Commit(f) PROVE Inv'
  BY <1>4, MarkCommittingInv, MoveLiveOutInv, RecordBackupInv, MoveStagingInInv,
     MoveStagingInFailsInv, UndoCommitInv, CertifyInv DEF Commit
<1>5. ASSUME NEW f \in Flow, End(f) PROVE Inv'
  BY <1>5, PauseInv, RollbackInv, DropInv DEF End
<1> QED
  BY <1>1, <1>2, <1>3, <1>4, <1>5, ApproveInv, CrashInv, PlayInv DEF Next

\* The inductive invariant: whatever crashes and fails, a running flow is
\* alone, commits only a validated tree, and has a free backup slot for it.
THEOREM Invariance == Spec => []Inv
  BY InitInv, NextInv, PTL DEF Spec

\* Every variable keeps its type.
THEOREM TypeCorrect == Spec => []TypeOK
  BY Invariance, PTL DEF Inv

\* commit, rollback and resume only ever put a tree on the live path that
\* boot validation accepted as it stands.
THEOREM ValidatedServes == Spec => []OnlyValidatedServes
  BY Invariance, PTL DEF Inv

\* No crash and no failing file-system operation of commit or rollback loses
\* the newest world the game server saved.
THEOREM WorldIsSafe == Spec => []NewestWorldIsKept
  BY Invariance, PTL DEF Inv

\* A build whose commit returned Ok is live or in a later install's backup.
THEOREM InstalledIsSafe == Spec => []InstalledIsKept
  BY Invariance, PTL DEF Inv

\* A transaction that pause returned Ok for stays resumable until it is
\* resumed or rejected.
THEOREM PausedIsSafe == Spec => []PausedIsResumable
  BY Invariance, PTL DEF Inv

-----------------------------------------------------------------------------
(***************************************************************************)
(* InstallTransaction implements DirectorySwap.                            *)
(***************************************************************************)

keptBuild == [t \in Txn |-> BuildIn(backup[t])]

\* The builds of trees are builds, never the sentinel.
LEMMA BuildInTree ==
  ASSUME NEW x \in Tree
  PROVE  BuildIn(x) \in Txn \cup {Orig} /\ BuildIn(x) # NoTree
  BY Sentinels, SentinelsAssumption, TreeFields DEF BuildIn

LEMMA InitSwap == Init => Swap!Init
<1> SUFFICES ASSUME Init PROVE Swap!Init
    OBVIOUS
<1>1. BuildIn(live) \in Txn \cup {Orig, NoTree}
  BY InitInv, BuildInTree DEF Inv, TypeOK, BuildIn
<1>2. keptBuild = [s \in Txn |-> NoTree]
  BY DEF Init, BuildIn, keptBuild
<1> QED
  BY <1>1, <1>2 DEF Swap!Init, keptBuild

\* A step that moves no directory leaves the abstract state alone.
LEMMA SwapStutters ==
  ASSUME BuildIn(live') = BuildIn(live), UNCHANGED backup
  PROVE  UNCHANGED Swap!vars
  BY DEF Swap!vars

\* A backup that is brought back: MoveStagingInFails, or rollback.
LEMMA SwapBringsBack ==
  ASSUME Inv, NEW t \in Txn, live = NoTree, backup[t] # NoTree,
         live' = backup[t], backup' = [backup EXCEPT ![t] = NoTree]
  PROVE  Swap!BringBack(t)
<1>1. backup[t] \in Tree /\ BuildIn(live) = NoTree
  BY DEF Inv, TypeOK, BuildIn
<1>2. keptBuild' = [keptBuild EXCEPT ![t] = NoTree]
  BY DEF keptBuild, Inv, TypeOK, BuildIn
<1> QED
  BY <1>1, <1>2, BuildInTree DEF Swap!BringBack, keptBuild

LEMMA SwapTakesDown ==
  ASSUME Inv, NEW f \in Flow, MoveLiveOut(f), live # NoTree, backup' # backup
  PROVE  Swap!TakeDown(txn[f])
<1>1. /\ txn[f] \in Txn /\ backup[txn[f]] = NoTree /\ live \in Tree
      /\ live' = NoTree /\ backup' = [backup EXCEPT ![txn[f]] = live]
  BY Running DEF MoveLiveOut, SetAside, Inv, SlotIsFree, BeforeSwap, TypeOK
<1>2. keptBuild' = [keptBuild EXCEPT ![txn[f]] = BuildIn(live)]
  BY <1>1 DEF keptBuild, Inv, TypeOK, BuildIn
<1> QED
  BY <1>1, <1>2, BuildInTree DEF Swap!TakeDown, keptBuild, BuildIn

LEMMA SwapPutsUp ==
  ASSUME Inv, NEW f \in Flow, MoveStagingIn(f)
  PROVE  \E b \in Txn \cup {Orig} : Swap!PutUp(b)
<1>1. live' \in Tree /\ live = NoTree /\ UNCHANGED backup
  BY Running DEF MoveStagingIn
<1> QED
  BY <1>1, BuildInTree DEF Swap!PutUp, BuildIn

LEMMA NextSwap == Inv /\ [Next]_vars => [Swap!Next]_(Swap!vars)
<1> SUFFICES ASSUME Inv, [Next]_vars PROVE Swap!Next \/ UNCHANGED Swap!vars
    OBVIOUS
<1>1. CASE UNCHANGED vars
  BY <1>1, SwapStutters DEF vars, disk
<1>2. ASSUME NEW f \in Flow, Start(f) PROVE UNCHANGED Swap!vars
  BY <1>2, SwapStutters DEF Start, Begin, Resume, Reject, Open, disk
<1>3. ASSUME NEW f \in Flow, Prepare(f) PROVE UNCHANGED Swap!vars
  BY <1>3, SwapStutters DEF Prepare, SaveNew, BuildPack, CopyPersistentState, Validate, disk
<1>4. ASSUME NEW f \in Flow, Commit(f) PROVE Swap!Next \/ UNCHANGED Swap!vars
  <2>1. CASE MarkCommitting(f) \/ RecordBackup(f) \/ UndoCommit(f) \/ Certify(f)
    BY <2>1, SwapStutters DEF MarkCommitting, RecordBackup, UndoCommit, Certify, disk
  <2>2. CASE MoveLiveOut(f)
    <3>1. txn[f] \in Txn
      BY <2>2, Running DEF MoveLiveOut
    <3>2. UNCHANGED <<live, backup>> \/ (live # NoTree /\ backup' # backup)
      <4>1. backup[txn[f]] = NoTree /\ backup \in [Txn -> Tree \cup {NoTree}]
        BY <2>2 DEF Inv, SlotIsFree, BeforeSwap, MoveLiveOut, TypeOK
      <4> QED
        BY <2>2, <3>1, <4>1 DEF MoveLiveOut, SetAside
    <3> QED
      BY <2>2, <3>1, <3>2, SwapTakesDown, SwapStutters DEF Swap!Next
  <2>3. CASE MoveStagingIn(f)
    BY <2>3, SwapPutsUp DEF Swap!Next
  <2>4. CASE MoveStagingInFails(f)
    <3>1. txn[f] \in Txn
      BY <2>4, Running DEF MoveStagingInFails
    <3> QED
      BY <2>4, <3>1, SwapBringsBack, SwapStutters DEF MoveStagingInFails, Restorable, Swap!Next
  <2> QED
    BY <1>4, <2>1, <2>2, <2>3, <2>4 DEF Commit
<1>5. ASSUME NEW f \in Flow, End(f) PROVE UNCHANGED Swap!vars
  <2>1. CASE Rollback(f)
    <3>1. txn[f] \in Txn /\ backup[txn[f]] = NoTree
      BY <2>1, Running DEF Rollback, Inv, SlotIsFree, BeforeSwap
    <3> QED
      BY <2>1, <3>1, SwapStutters DEF Rollback, Restorable
  <2>2. CASE Pause(f) \/ Drop(f)
    BY <2>2, SwapStutters DEF Pause, PauseFails, Drop
  <2> QED
    BY <1>5, <2>1, <2>2 DEF End
<1>6. CASE Crash \/ \E t \in Txn : Approve(t)
  BY <1>6, SwapStutters DEF Crash, Approve, disk
<1>7. CASE Play
  <2>1. live \in Tree /\ clock + 1 \in 0..MaxWorld
    BY <1>7, ConstantsAssumption DEF Play, Inv, TypeOK
  <2>2. live' \in Tree /\ live'.build = live.build /\ UNCHANGED backup
    BY <1>7, <2>1, TreeWorld DEF Play
  <2> QED
    BY <2>1, <2>2, Sentinels, SwapStutters DEF BuildIn
<1> QED
  BY <1>1, <1>2, <1>3, <1>4, <1>5, <1>6, <1>7 DEF Next

\* Seen as builds on a path and in slots, every step of an install takes the
\* serving build down into a free slot, puts one up on an empty path, brings
\* one back, or moves nothing.
THEOREM Refinement == Spec => ImplementsSwap
  BY InitSwap, NextSwap, Invariance, PTL DEF Spec, ImplementsSwap, Swap!Spec

-----------------------------------------------------------------------------
(***************************************************************************)
(* A server that a commit has taken down is reported at startup, and a     *)
(* swap brings no older world.                                             *)
(***************************************************************************)

\* A transaction whose two renames were cut short, as it stands on disk.
Lost(u) ==
    /\ backup[u] # NoTree
    /\ staging[u] # NoTree
    /\ marker[u] # NoMeta
    /\ marker[u].phase = "Committing"

SomeBackup == \E t \in Txn : backup[t] # NoTree
LostIsMarked == live = NoTree /\ SomeBackup => \E u \in Txn : Lost(u)

\* A flow knows of the backup that it has made, and gives up its marker only when
\* the live directory is back or was never moved.
FlowKnows(f) ==
    /\ pc[f] \in {"record", "moveIn"} /\ backup[txn[f]] # NoTree => meta[f].backed
    /\ pc[f] \in {"undo", "drop"} /\ live = NoTree => backup[txn[f]] = NoTree
FlowsKnow == \A f \in Flow : FlowKnows(f)

-----------------------------------------------------------------------------
(***************************************************************************)
(* What the helpers keep.                                                  *)
(***************************************************************************)

\* Only the flow that moves is not idle afterwards.
LEMMA Alone ==
  ASSUME Inv, NEW f \in Flow, pc[f] # "idle", NEW s \in Step, Goto(f, s)
  PROVE  pc'[f] = s /\ \A g \in Flow \ {f} : pc'[g] = "idle"
  BY Running DEF Goto, Inv, TypeOK

LEMMA AloneAfterReturn ==
  ASSUME Inv, NEW f \in Flow, pc[f] # "idle", NEW r, Return(f, r)
  PROVE  \A g \in Flow : pc'[g] = "idle"
<1>1. "idle" \in Step /\ Goto(f, "idle")
  BY DEF Step, Return
<1> QED
  BY <1>1, Alone

\* The flow that moves is the only one there is anything to know about.
LEMMA OthersKnow ==
  ASSUME NEW f \in Flow, \A g \in Flow \ {f} : pc'[g] = "idle", FlowKnows(f)'
  PROVE  FlowsKnow'
  BY DEF FlowsKnow, FlowKnows

LEMMA IdleKnow ==
  ASSUME \A g \in Flow : pc'[g] = "idle"
  PROVE  FlowsKnow'
  BY DEF FlowsKnow, FlowKnows

\* A transaction without a backup is no lost one: what happens to its staging and
\* its marker changes no report.
LEMMA OthersAreMarked ==
  ASSUME LostIsMarked, UNCHANGED <<live, backup>>, NEW t \in Txn,
         live = NoTree => backup[t] = NoTree,
         \A u \in Txn : u # t => staging'[u] = staging[u] /\ marker'[u] = marker[u]
  PROVE  LostIsMarked'
<1>1. ASSUME NEW u \in Txn, Lost(u), live = NoTree PROVE Lost(u)'
  BY <1>1 DEF Lost
<1> QED
  BY <1>1 DEF LostIsMarked, SomeBackup

LEMMA DiskIsMarked ==
  ASSUME LostIsMarked, UNCHANGED disk
  PROVE  LostIsMarked'
  BY DEF LostIsMarked, SomeBackup, Lost, disk

LEMMA LiveIsMarked ==
  ASSUME live' # NoTree
  PROVE  LostIsMarked'
  BY DEF LostIsMarked

\* Before the swap there is no backup.
LEMMA NoBackupYet ==
  ASSUME Inv, NEW f \in Flow, pc[f] \in BeforeSwap
  PROVE  txn[f] \in Txn /\ backup[txn[f]] = NoTree
  BY Running DEF Inv, SlotIsFree, BeforeSwap

\* What is saved or removed for a flow's transaction touches no other one.
LEMMA OwnSave ==
  ASSUME Inv, NEW t \in Txn, NEW m, Save(t, m)
  PROVE  \A u \in Txn : u # t => staging'[u] = staging[u] /\ marker'[u] = marker[u]
  BY DEF Save, Inv, TypeOK

-----------------------------------------------------------------------------
(***************************************************************************)
(* Building, pausing and giving up.                                        *)
(***************************************************************************)
LEMMA StartMarks ==
  ASSUME Inv, LostIsMarked, FlowsKnow, NEW f \in Flow, Start(f)
  PROVE  LostIsMarked' /\ FlowsKnow'
<1>1. ASSUME NEW t \in Txn, Begin(f, t) PROVE LostIsMarked' /\ FlowsKnow'
  <2>1. LostIsMarked'
    <3>1. backup[t] = NoTree
      BY <1>1 DEF Begin, Inv, SlotIsFree
    <3> QED
      BY <1>1, <3>1, OthersAreMarked DEF Begin, Inv, TypeOK
  <2>2. FlowsKnow'
    BY <1>1 DEF Begin, OperationGuard, Goto, FlowsKnow, FlowKnows, Inv, TypeOK
  <2> QED
    BY <2>1, <2>2
<1>2. ASSUME NEW t \in Txn, Resume(f, t) \/ Reject(f, t) PROVE LostIsMarked' /\ FlowsKnow'
  <2>1. Open(f, t, "copy") \/ Open(f, t, "rollback")
    BY <1>2 DEF Resume, Reject
  <2>2. FlowsKnow'
    BY <2>1 DEF Open, OperationGuard, Goto, FlowsKnow, FlowKnows, Inv, TypeOK
  <2> QED
    BY <2>1, <2>2, DiskIsMarked DEF Open
<1> QED
  BY <1>1, <1>2 DEF Start

LEMMA PrepareMarks ==
  ASSUME Inv, LostIsMarked, FlowsKnow, NEW f \in Flow, Prepare(f)
  PROVE  LostIsMarked' /\ FlowsKnow'
<1>1. pc[f] \in {"begin", "build", "copy", "validate"}
  BY DEF Prepare, SaveNew, BuildPack, CopyPersistentState, Validate
<1>2. txn[f] \in Txn /\ backup[txn[f]] = NoTree /\ UNCHANGED <<live, backup>>
  BY <1>1, NoBackupYet
  DEF Prepare, SaveNew, BuildPack, CopyPersistentState, Validate, BeforeSwap, disk
<1>3. \A u \in Txn : u # txn[f] => staging'[u] = staging[u] /\ marker'[u] = marker[u]
  <2>1. CASE SaveNew(f)
    BY <2>1, <1>2, OwnSave DEF SaveNew
  <2>2. CASE ~SaveNew(f)
    BY <2>2, <1>2 DEF Prepare, BuildPack, CopyPersistentState, Validate, disk, Inv, TypeOK
  <2> QED
    BY <2>1, <2>2
<1>4. LostIsMarked'
  BY <1>2, <1>3, OthersAreMarked
<1>5. FlowsKnow'
  <2>1. CASE Return(f, "error")
    BY <1>1, <2>1, AloneAfterReturn, IdleKnow
  <2>2. CASE UNCHANGED txn /\ \E s \in {"build", "copy", "drop", "validate", "commit", "rollback", "pause"} : Goto(f, s)
    <3>1. PICK s \in {"build", "copy", "drop", "validate", "commit", "rollback", "pause"} : Goto(f, s)
      BY <2>2
    <3>2. s \in Step
      BY DEF Step
    <3>3. pc'[f] = s /\ \A g \in Flow \ {f} : pc'[g] = "idle"
      BY <1>1, <3>1, <3>2, Alone
    <3>4. FlowKnows(f)'
      BY <1>2, <2>2, <3>3 DEF FlowKnows
    <3> QED
      BY <3>3, <3>4, OthersKnow
  <2> QED
    BY <2>1, <2>2 DEF Prepare, SaveNew, BuildPack, CopyPersistentState, Validate
<1> QED
  BY <1>4, <1>5

LEMMA EndMarks ==
  ASSUME Inv, LostIsMarked, FlowsKnow, NEW f \in Flow, End(f)
  PROVE  LostIsMarked' /\ FlowsKnow'
<1>1. pc[f] \in {"pause", "rollback", "drop"} /\ txn[f] \in Txn
  BY Running DEF End, Pause, Rollback, Drop
<1>2. live = NoTree => backup[txn[f]] = NoTree
  BY <1>1, NoBackupYet DEF BeforeSwap, FlowsKnow, FlowKnows
<1>3. UNCHANGED <<live, backup>>
  BY <1>1, NoBackupYet DEF End, Pause, PauseFails, Rollback, Drop, Restorable, BeforeSwap
<1>4. \A u \in Txn : u # txn[f] => staging'[u] = staging[u] /\ marker'[u] = marker[u]
  <2>1. CASE Pause(f)
    BY <1>1, <2>1, OwnSave DEF Pause, PauseFails, Inv, TypeOK
  <2>2. CASE Rollback(f) \/ Drop(f)
    BY <1>1, <2>2, RemoveFacts DEF Rollback, Drop, Inv
  <2> QED
    BY <2>1, <2>2 DEF End
<1>5. LostIsMarked'
  BY <1>1, <1>2, <1>3, <1>4, OthersAreMarked
<1>6. FlowsKnow'
  <2>1. CASE \E r \in Result : Return(f, r)
    BY <1>1, <2>1, AloneAfterReturn, IdleKnow
  <2>2. CASE Rollback(f) /\ Goto(f, "drop") /\ UNCHANGED txn
    <3>1. pc'[f] = "drop" /\ \A g \in Flow \ {f} : pc'[g] = "idle"
      BY <1>1, <2>2, Alone DEF Step
    <3>2. FlowKnows(f)'
      BY <1>2, <1>3, <2>2, <3>1 DEF FlowKnows
    <3> QED
      BY <3>1, <3>2, OthersKnow
  <2> QED
    BY <2>1, <2>2 DEF End, Pause, PauseFails, Rollback, Drop, Result
<1> QED
  BY <1>5, <1>6

-----------------------------------------------------------------------------
(***************************************************************************)
(* The commit.                                                             *)
(***************************************************************************)
LEMMA MarkCommittingMarks ==
  ASSUME Inv, LostIsMarked, FlowsKnow, NEW f \in Flow, MarkCommitting(f)
  PROVE  LostIsMarked' /\ FlowsKnow'
<1>1. pc[f] = "commit" /\ txn[f] \in Txn /\ backup[txn[f]] = NoTree /\ UNCHANGED <<live, backup>>
  BY NoBackupYet DEF MarkCommitting, BeforeSwap
<1>2. \A u \in Txn : u # txn[f] => staging'[u] = staging[u] /\ marker'[u] = marker[u]
  BY <1>1, OwnSave DEF MarkCommitting
<1>3. LostIsMarked'
  BY <1>1, <1>2, OthersAreMarked
<1>4. CASE Return(f, "error")
  BY <1>1, <1>3, <1>4, AloneAfterReturn, IdleKnow
<1>5. CASE Goto(f, "moveOut")
  <2>1. pc'[f] = "moveOut" /\ \A g \in Flow \ {f} : pc'[g] = "idle"
    BY <1>1, <1>5, Alone DEF Step
  <2> QED
    BY <1>3, <2>1, OthersKnow DEF FlowKnows
<1> QED
  BY <1>4, <1>5 DEF MarkCommitting

LEMMA MoveLiveOutMarks ==
  ASSUME Inv, LostIsMarked, FlowsKnow, NEW f \in Flow, MoveLiveOut(f)
  PROVE  LostIsMarked' /\ FlowsKnow'
<1>1. /\ pc[f] = "moveOut" /\ txn[f] \in Txn /\ backup[txn[f]] = NoTree /\ staging[txn[f]] # NoTree
      /\ meta[f] \in Meta /\ marker[txn[f]] \in Meta /\ marker[txn[f]].phase = "Committing"
  BY NoBackupYet, Running, Sentinels
  DEF MoveLiveOut, BeforeSwap, Inv, CommitIsPrepared, Swapping
<1>2. UNCHANGED <<staging, marker, txn>>
  BY DEF MoveLiveOut
<1>3. CASE live = NoTree /\ Goto(f, "moveIn") /\ UNCHANGED <<live, backup, meta>>
  <2>1. pc'[f] = "moveIn" /\ \A g \in Flow \ {f} : pc'[g] = "idle"
    BY <1>1, <1>3, Alone DEF Step
  <2>2. FlowKnows(f)'
    BY <1>1, <1>2, <1>3, <2>1 DEF FlowKnows
  <2> QED
    BY <1>2, <1>3, <2>1, <2>2, OthersKnow, DiskIsMarked DEF disk
<1>4. CASE live # NoTree /\ SetAside(txn[f]) /\ Goto(f, "record")
           /\ meta' = [meta EXCEPT ![f].backed = TRUE]
  <2>1. pc'[f] = "record" /\ \A g \in Flow \ {f} : pc'[g] = "idle"
    BY <1>1, <1>4, Alone DEF Step
  <2>2. meta'[f].backed
    BY <1>1, <1>4 DEF Inv, TypeOK, Meta
  <2>3. backup'[txn[f]] # NoTree
    BY <1>1, <1>4 DEF SetAside, Inv, TypeOK
  <2>4. Lost(txn[f])'
    BY <1>1, <1>2, <2>3, Sentinels DEF Lost
  <2>5. FlowKnows(f)'
    BY <2>1, <2>2 DEF FlowKnows
  <2> QED
    BY <1>1, <2>1, <2>4, <2>5, OthersKnow, <1>2 DEF LostIsMarked
<1>5. CASE live # NoTree /\ CommitFails(f) /\ UNCHANGED <<live, backup>>
  <2>1. pc'[f] = "undo" /\ \A g \in Flow \ {f} : pc'[g] = "idle"
    BY <1>1, <1>5, Alone DEF Step, CommitFails
  <2>2. FlowKnows(f)'
    BY <1>5, <2>1 DEF FlowKnows
  <2> QED
    BY <1>5, <2>1, <2>2, OthersKnow, LiveIsMarked
<1> QED
  BY <1>3, <1>4, <1>5 DEF MoveLiveOut

LEMMA RecordBackupMarks ==
  ASSUME Inv, LostIsMarked, FlowsKnow, NEW f \in Flow, RecordBackup(f)
  PROVE  LostIsMarked' /\ FlowsKnow'
<1>1. pc[f] = "record" /\ txn[f] \in Txn /\ UNCHANGED <<live, backup>>
  BY Running DEF RecordBackup
<1>2. CASE Save(txn[f], meta[f]) /\ Goto(f, "moveIn") /\ UNCHANGED <<txn, meta>>
  <2>1. pc'[f] = "moveIn" /\ \A g \in Flow \ {f} : pc'[g] = "idle"
    BY <1>1, <1>2, Alone DEF Step
  <2>2. FlowKnows(f)'
    BY <1>1, <1>2, <2>1 DEF FlowsKnow, FlowKnows
  <2>3. meta[f] \in Meta /\ meta[f].phase = "Committing"
    BY <1>1, Running DEF Inv, CommitIsPrepared, Swapping
  <2>4. /\ marker'[txn[f]] = meta[f] /\ staging'[txn[f]] \in Tree
        /\ \A u \in Txn : u # txn[f] => staging'[u] = staging[u] /\ marker'[u] = marker[u]
    BY <1>1, <1>2, <2>3, SaveFacts DEF Inv
  <2>5. ASSUME NEW u \in Txn, Lost(u) PROVE Lost(u)'
    BY <1>1, <2>3, <2>4, <2>5, Sentinels DEF Lost
  <2>6. LostIsMarked'
    BY <1>1, <2>5 DEF LostIsMarked, SomeBackup
  <2> QED
    BY <2>1, <2>2, <2>6, OthersKnow
<1>3. CASE Return(f, "error") /\ UNCHANGED <<staging, marker>>
  BY <1>1, <1>3, AloneAfterReturn, IdleKnow, DiskIsMarked DEF disk
<1> QED
  BY <1>2, <1>3 DEF RecordBackup

LEMMA MoveStagingInMarks ==
  ASSUME Inv, LostIsMarked, FlowsKnow, NEW f \in Flow, MoveStagingIn(f)
  PROVE  LostIsMarked' /\ FlowsKnow'
<1>1. pc[f] = "moveIn" /\ live' # NoTree /\ Goto(f, "certify")
  BY DEF MoveStagingIn
<1>2. pc'[f] = "certify" /\ \A g \in Flow \ {f} : pc'[g] = "idle"
  BY <1>1, Alone DEF Step
<1> QED
  BY <1>1, <1>2, LiveIsMarked, OthersKnow DEF FlowKnows

\* With one failure at most, a rename that fails is undone, unless there was
\* nothing to undo: then another transaction is the lost one.
LEMMA MoveStagingInFailsMarks ==
  ASSUME failures' <= 1, Inv, LostIsMarked, FlowsKnow,
         NEW f \in Flow, MoveStagingInFails(f)
  PROVE  LostIsMarked' /\ FlowsKnow'
<1>1. pc[f] = "moveIn" /\ Goto(f, "undo") /\ UNCHANGED <<staging, marker, txn>> /\ txn[f] \in Txn
  BY Running DEF MoveStagingInFails, CommitFails
<1>2. pc'[f] = "undo" /\ \A g \in Flow \ {f} : pc'[g] = "idle"
  BY <1>1, Alone DEF Step
<1>3. CASE Restorable(f) /\ live' = backup[txn[f]]
  <2>1. live' # NoTree
    BY <1>3 DEF Restorable
  <2> QED
    BY <1>2, <2>1, LiveIsMarked, OthersKnow DEF FlowKnows
<1>4. CASE ~Restorable(f) /\ UNCHANGED <<live, backup>>
  <2>1. live = NoTree => backup[txn[f]] = NoTree
    BY <1>1, <1>4 DEF Restorable, FlowsKnow, FlowKnows
  <2>2. FlowKnows(f)'
    BY <1>1, <1>2, <1>4, <2>1 DEF FlowKnows
  <2> QED
    BY <1>1, <1>2, <1>4, <2>2, OthersKnow, DiskIsMarked DEF disk
<1>5. ~FailsTwice
  BY DEF FailsTwice, Inv, TypeOK
<1> QED
  BY <1>3, <1>4, <1>5 DEF MoveStagingInFails

LEMMA UndoCommitMarks ==
  ASSUME Inv, LostIsMarked, FlowsKnow, NEW f \in Flow, UndoCommit(f)
  PROVE  LostIsMarked' /\ FlowsKnow'
<1>1. /\ pc[f] = "undo" /\ Goto(f, "drop") /\ txn[f] \in Txn
      /\ UNCHANGED <<live, backup, txn>>
  BY Running DEF UndoCommit
<1>2. pc'[f] = "drop" /\ \A g \in Flow \ {f} : pc'[g] = "idle"
  BY <1>1, Alone DEF Step
<1>3. live = NoTree => backup[txn[f]] = NoTree
  BY <1>1 DEF FlowsKnow, FlowKnows
<1>4. \A u \in Txn : u # txn[f] => staging'[u] = staging[u] /\ marker'[u] = marker[u]
  BY <1>1, OwnSave DEF UndoCommit
<1>5. LostIsMarked'
  BY <1>1, <1>3, <1>4, OthersAreMarked
<1>6. FlowKnows(f)'
  BY <1>1, <1>2, <1>3 DEF FlowKnows
<1> QED
  BY <1>2, <1>5, <1>6, OthersKnow

LEMMA CertifyMarks ==
  ASSUME Inv, LostIsMarked, FlowsKnow, NEW f \in Flow, Certify(f)
  PROVE  LostIsMarked' /\ FlowsKnow'
  BY AloneAfterReturn, IdleKnow, DiskIsMarked DEF Certify

\* What is neither a start nor a step of a flow.
LEMMA OutsideMarks ==
  ASSUME Inv, LostIsMarked, FlowsKnow, Crash \/ Play \/ \E t \in Txn : Approve(t)
  PROVE  LostIsMarked' /\ FlowsKnow'
<1>1. CASE Crash
  <2>1. \A g \in Flow : pc'[g] = "idle"
    BY <1>1 DEF Crash
  <2> QED
    BY <1>1, <2>1, IdleKnow, DiskIsMarked DEF Crash
<1>2. CASE Play
  <2>1. live \in Tree /\ clock + 1 \in 0..MaxWorld
    BY <1>2, ConstantsAssumption DEF Play, Inv, TypeOK
  <2>2. live' # NoTree /\ live # NoTree /\ UNCHANGED <<backup, pc, txn, meta>>
    BY <1>2, <2>1, TreeWorld, Sentinels DEF Play, memory
  <2> QED
    BY <2>2, LiveIsMarked DEF FlowsKnow, FlowKnows
<1>3. ASSUME NEW t \in Txn, Approve(t) PROVE LostIsMarked' /\ FlowsKnow'
  <2>1. live # NoTree /\ UNCHANGED <<live, backup, pc, txn, meta>>
    BY <1>3 DEF Approve, LivePathFound, memory
  <2> QED
    BY <2>1, LiveIsMarked DEF FlowsKnow, FlowKnows
<1> QED
  BY <1>1, <1>2, <1>3

\* What failed stays counted.
LEMMA FailuresGrow ==
  ASSUME Inv, [Next]_vars
  PROVE  failures \in Nat /\ failures' \in Nat /\ failures <= failures'
<1>1. failures \in Nat
  BY ConstantsAssumption DEF Inv, TypeOK
<1>2. ASSUME Works \/ Fails \/ FailsTwice
      PROVE  failures' \in Nat /\ failures <= failures'
  BY <1>1, <1>2 DEF Works, Fails, FailsTwice
<1>3. CASE UNCHANGED vars
  BY <1>1, <1>3 DEF vars
<1>4. ASSUME NEW f \in Flow, Start(f) \/ Prepare(f) \/ End(f)
      PROVE  failures' \in Nat /\ failures <= failures'
  <2>1. UNCHANGED failures \/ Works \/ Fails
    BY <1>4
    DEF Start, Begin, Resume, Reject, Open, Prepare, SaveNew, BuildPack, CopyPersistentState,
        Validate, End, Pause, PauseFails, Rollback, Drop, RemoveStaging, RemoveFails
  <2> QED
    BY <1>1, <1>2, <2>1
<1>5. ASSUME NEW f \in Flow, Commit(f)
      PROVE  failures' \in Nat /\ failures <= failures'
  <2>1. Works \/ Fails \/ FailsTwice
    BY <1>5
    DEF Commit, MarkCommitting, MoveLiveOut, RecordBackup, MoveStagingIn, MoveStagingInFails,
        UndoCommit, Certify
  <2> QED
    BY <1>2, <2>1
<1>6. CASE Crash \/ Play \/ \E t \in Txn : Approve(t)
  BY <1>1, <1>6 DEF Crash, Play, Approve
<1> QED
  BY <1>1, <1>3, <1>4, <1>5, <1>6 DEF Next

LEMMA NextMarks ==
  ASSUME failures' <= 1, Inv, LostIsMarked, FlowsKnow, [Next]_vars
  PROVE  LostIsMarked' /\ FlowsKnow'
<1>1. CASE UNCHANGED vars
  BY <1>1, DiskIsMarked DEF vars, memory, disk, FlowsKnow, FlowKnows
<1>2. ASSUME NEW f \in Flow, Commit(f) PROVE LostIsMarked' /\ FlowsKnow'
  BY <1>2, MarkCommittingMarks, MoveLiveOutMarks, RecordBackupMarks, MoveStagingInMarks,
     MoveStagingInFailsMarks, UndoCommitMarks, CertifyMarks DEF Commit
<1> QED
  BY <1>1, <1>2, StartMarks, PrepareMarks, EndMarks, OutsideMarks DEF Next

Marks == failures <= 1 => LostIsMarked /\ FlowsKnow

\* Whatever crashes, and as long as no second operation failed, a server that a
\* commit has set aside and not replaced is reported for manual recovery at
\* startup.
THEOREM LostLiveIsFound == Spec => []LostLiveIsReported
<1>1. Init => Marks
  BY DEF Init, Marks, LostIsMarked, SomeBackup, FlowsKnow, FlowKnows
<1>2. Inv /\ Marks /\ [Next]_vars => Marks'
  <2>1. SUFFICES ASSUME Inv, Marks, [Next]_vars, failures' <= 1
                 PROVE  LostIsMarked' /\ FlowsKnow'
    BY DEF Marks
  <2>2. failures <= 1
    BY <2>1, FailuresGrow
  <2>3. LostIsMarked /\ FlowsKnow
    BY <2>1, <2>2 DEF Marks
  <2> QED
    BY <2>1, <2>3, NextMarks
<1>3. Marks => LostLiveIsReported
  BY DEF Marks, LostIsMarked, SomeBackup, Lost, LostLiveIsReported, LiveIsMissing, Seen,
         ReconciliationAction
<1> QED
  BY <1>1, <1>2, <1>3, Invariance, PTL DEF Spec

-----------------------------------------------------------------------------
(***************************************************************************)
(* The world that a swap brings.                                           *)
(***************************************************************************)

BeforeBackup == {"build", "copy", "validate", "pause", "commit", "moveOut", "rollback"}

\* A transaction that is paused has set no server aside.
PausedIsUnbacked ==
    \A t \in Txn :
        marker[t] # NoMeta /\ marker[t].phase = "PendingUserAction" => ~marker[t].backed

\* While nobody plays, the staged world is the live one's from the copy on, and
\* then the backup's.
FlowCarries(f) ==
    /\ pc[f] \in BeforeBackup => ~meta[f].backed
    /\ pc[f] \in {"validate", "commit", "moveOut"} /\ live # NoTree /\ ~played
          => staging[txn[f]].world = live.world
    /\ pc[f] \in {"record", "moveIn"} /\ meta[f].backed /\ ~played
          => staging[txn[f]].world = backup[txn[f]].world
FlowsCarry == \A f \in Flow : FlowCarries(f)
Carried == PausedIsUnbacked /\ FlowsCarry

LEMMA OthersCarry ==
  ASSUME NEW f \in Flow, \A g \in Flow \ {f} : pc'[g] = "idle", FlowCarries(f)'
  PROVE  FlowsCarry'
  BY DEF FlowsCarry, FlowCarries, BeforeBackup

LEMMA IdleCarry ==
  ASSUME \A g \in Flow : pc'[g] = "idle"
  PROVE  FlowsCarry'
  BY DEF FlowsCarry, FlowCarries, BeforeBackup

\* A marker that changes is gone, of another phase, or not backed.
LEMMA MarkerChanges ==
  ASSUME PausedIsUnbacked, NEW t \in Txn,
         \A u \in Txn : u # t => marker'[u] = marker[u],
         \/ marker'[t] = NoMeta
         \/ marker'[t] = marker[t]
         \/ marker'[t].phase # "PendingUserAction"
         \/ ~marker'[t].backed
  PROVE  PausedIsUnbacked'
  BY DEF PausedIsUnbacked

LEMMA StartCarries ==
  ASSUME Inv, Carried, NEW f \in Flow, Start(f)
  PROVE  Carried'
<1>1. ASSUME NEW t \in Txn, Begin(f, t) PROVE Carried'
  <2>1. PausedIsUnbacked'
    BY <1>1 DEF Begin, Carried, PausedIsUnbacked
  <2>2. FlowsCarry'
    BY <1>1 DEF Begin, OperationGuard, Goto, FlowsCarry, FlowCarries, BeforeBackup, Inv, TypeOK
  <2> QED
    BY <2>1, <2>2 DEF Carried
<1>2. ASSUME NEW t \in Txn, Resume(f, t) \/ Reject(f, t) PROVE Carried'
  <2>1. PICK step \in {"copy", "rollback"} : Open(f, t, step)
    BY <1>2 DEF Resume, Reject
  <2>2. PausedIsUnbacked'
    BY <2>1 DEF Open, disk, Carried, PausedIsUnbacked
  <2>3. ~meta'[f].backed /\ pc'[f] = step /\ \A g \in Flow \ {f} : pc'[g] = "idle"
    BY <2>1 DEF Open, Paused, OperationGuard, Goto, Carried, PausedIsUnbacked, Inv, TypeOK
  <2>4. FlowCarries(f)'
    BY <2>3 DEF FlowCarries
  <2> QED
    BY <2>2, <2>3, <2>4, OthersCarry DEF Carried
<1> QED
  BY <1>1, <1>2 DEF Start

LEMMA PrepareCarries ==
  ASSUME Inv, Carried, NEW f \in Flow, Prepare(f)
  PROVE  Carried'
<1>1. CASE SaveNew(f)
  <2> DEFINE new == [phase |-> "Building", backed |-> FALSE, approved |-> FALSE]
  <2>1. pc[f] = "begin" /\ txn[f] \in Txn /\ new \in Meta
    BY <1>1, Running DEF SaveNew, Meta, Phase
  <2>2. CASE Save(txn[f], new) /\ Goto(f, "build") /\ meta' = [meta EXCEPT ![f] = new]
    <3>1. pc'[f] = "build" /\ \A g \in Flow \ {f} : pc'[g] = "idle"
      BY <2>1, <2>2, Alone DEF Step
    <3>2. PausedIsUnbacked'
      BY <2>1, <2>2, MarkerChanges, SaveFacts DEF Carried, Inv
    <3>3. FlowCarries(f)'
      BY <2>2, <3>1 DEF FlowCarries, Inv, TypeOK
    <3> QED
      BY <3>1, <3>2, <3>3, OthersCarry DEF Carried
  <2>3. CASE Return(f, "error") /\ UNCHANGED marker
    BY <2>1, <2>3, AloneAfterReturn, IdleCarry DEF Carried, PausedIsUnbacked
  <2> QED
    BY <1>1, <2>2, <2>3 DEF SaveNew
<1>2. CASE BuildPack(f)
  <2>1. pc[f] = "build" /\ UNCHANGED <<disk, txn, meta>> /\ (Goto(f, "copy") \/ Goto(f, "drop"))
    BY <1>2 DEF BuildPack
  <2>2. pc'[f] \in {"copy", "drop"} /\ \A g \in Flow \ {f} : pc'[g] = "idle"
    BY <2>1, Alone DEF Step
  <2>3. FlowCarries(f)'
    BY <2>1, <2>2 DEF FlowCarries, Carried, FlowsCarry, BeforeBackup
  <2> QED
    BY <2>1, <2>2, <2>3, OthersCarry DEF Carried, PausedIsUnbacked, disk
<1>3. CASE CopyPersistentState(f)
  <2>1. /\ pc[f] = "copy" /\ UNCHANGED <<live, backup, marker, txn, meta>>
        /\ txn[f] \in Txn /\ staging[txn[f]] \in Tree
    BY <1>3, Running DEF CopyPersistentState
  <2>2. CASE Goto(f, "validate")
             /\ staging' = IF live = NoTree \/ staging[txn[f]] = NoTree THEN staging
                           ELSE [staging EXCEPT ![txn[f]].world = live.world]
    <3>1. pc'[f] = "validate" /\ \A g \in Flow \ {f} : pc'[g] = "idle"
      BY <2>1, <2>2, Alone DEF Step
    <3>2. live # NoTree => staging'[txn[f]].world = live.world
      BY <2>1, <2>2, Sentinels DEF Inv, TypeOK, Tree
    <3>3. FlowCarries(f)'
      BY <2>1, <3>1, <3>2 DEF FlowCarries, Carried, FlowsCarry, BeforeBackup
    <3> QED
      BY <2>1, <3>1, <3>3, OthersCarry DEF Carried, PausedIsUnbacked
  <2>3. CASE Goto(f, "drop")
    <3>1. pc'[f] = "drop" /\ \A g \in Flow \ {f} : pc'[g] = "idle"
      BY <2>1, <2>3, Alone DEF Step
    <3> QED
      BY <2>1, <3>1, OthersCarry DEF FlowCarries, BeforeBackup, Carried, PausedIsUnbacked
  <2> QED
    BY <1>3, <2>2, <2>3 DEF CopyPersistentState
<1>4. CASE Validate(f)
  <2>1. /\ pc[f] = "validate" /\ UNCHANGED <<live, backup, marker, txn, meta, played>>
        /\ txn[f] \in Txn /\ staging[txn[f]] \in Tree
    BY <1>4, Running DEF Validate
  <2>2. PICK s \in {"commit", "rollback", "pause", "drop"} : Goto(f, s)
    BY <1>4 DEF Validate
  <2>3. pc'[f] = s /\ \A g \in Flow \ {f} : pc'[g] = "idle"
    BY <2>1, <2>2, Alone DEF Step
  <2>4. staging'[txn[f]].world = staging[txn[f]].world
    BY <1>4, <2>1 DEF Validate, Inv, TypeOK, Tree
  <2>5. FlowCarries(f)'
    BY <2>1, <2>3, <2>4 DEF FlowCarries, Carried, FlowsCarry, BeforeBackup
  <2> QED
    BY <2>1, <2>3, <2>5, OthersCarry DEF Carried, PausedIsUnbacked
<1> QED
  BY <1>1, <1>2, <1>3, <1>4 DEF Prepare

LEMMA EndCarries ==
  ASSUME Inv, Carried, NEW f \in Flow, End(f)
  PROVE  Carried'
<1>1. pc[f] \in {"pause", "rollback", "drop"} /\ txn[f] \in Txn
  BY Running DEF End, Pause, Rollback, Drop
<1>2. PausedIsUnbacked'
  <2>1. CASE Pause(f) /\ Save(txn[f], [meta[f] EXCEPT !.phase = "PendingUserAction", !.approved = FALSE])
    <3> DEFINE m == [meta[f] EXCEPT !.phase = "PendingUserAction", !.approved = FALSE]
    <3>1. meta[f] \in Meta /\ ~meta[f].backed
      BY <2>1, Running DEF Pause, Carried, FlowsCarry, FlowCarries, BeforeBackup
    <3>2. m \in Meta /\ ~m.backed
      BY <3>1 DEF Meta, Phase
    <3> QED
      BY <1>1, <2>1, <3>2, SaveFacts, MarkerChanges DEF Carried, Inv
  <2>2. CASE PauseFails(f)
    BY <1>1, <2>2, MarkerChanges DEF PauseFails, Carried, Inv, TypeOK
  <2>3. CASE Rollback(f) \/ Drop(f)
    BY <1>1, <2>3, RemoveFacts, MarkerChanges DEF Rollback, Drop, Carried, Inv
  <2> QED
    BY <2>1, <2>2, <2>3 DEF End, Pause
<1>3. FlowsCarry'
  <2>1. CASE \E r \in Result : Return(f, r)
    BY <1>1, <2>1, AloneAfterReturn, IdleCarry
  <2>2. CASE Goto(f, "drop")
    <3>1. pc'[f] = "drop" /\ \A g \in Flow \ {f} : pc'[g] = "idle"
      BY <1>1, <2>2, Alone DEF Step
    <3> QED
      BY <3>1, OthersCarry DEF FlowCarries, BeforeBackup
  <2> QED
    BY <2>1, <2>2 DEF End, Pause, PauseFails, Rollback, Drop, Result
<1> QED
  BY <1>2, <1>3 DEF Carried

LEMMA CommitCarries ==
  ASSUME Inv, Carried, NEW f \in Flow, Commit(f)
  PROVE  Carried'
<1>1. pc[f] # "idle" /\ txn[f] \in Txn
  BY Running
  DEF Commit, MarkCommitting, MoveLiveOut, RecordBackup, MoveStagingIn, MoveStagingInFails,
      UndoCommit, Certify
<1>2. CASE MarkCommitting(f)
  <2> DEFINE m == [meta[f] EXCEPT !.phase = "Committing"]
  <2>1. pc[f] = "commit" /\ meta[f] \in Meta /\ staging[txn[f]] \in Tree
    BY <1>2, Running DEF MarkCommitting
  <2>2. m \in Meta /\ m.phase = "Committing" /\ m.backed = meta[f].backed
    BY <2>1, MetaPhase DEF Phase
  <2>3. CASE Save(txn[f], m) /\ meta' = [meta EXCEPT ![f] = m] /\ Goto(f, "moveOut")
             /\ UNCHANGED <<live, txn, played>>
    <3>1. pc'[f] = "moveOut" /\ \A g \in Flow \ {f} : pc'[g] = "idle"
      BY <1>1, <2>3, Alone DEF Step
    <3>2. /\ marker'[txn[f]] = m /\ staging' = staging
          /\ \A u \in Txn : u # txn[f] => marker'[u] = marker[u]
      BY <1>1, <2>1, <2>2, <2>3, SaveFacts DEF Inv
    <3>3. FlowCarries(f)'
      BY <2>1, <2>2, <2>3, <3>1, <3>2 DEF FlowCarries, Carried, FlowsCarry, BeforeBackup, Inv, TypeOK
    <3>4. PausedIsUnbacked'
      BY <1>1, <2>2, <3>2, MarkerChanges DEF Carried
    <3> QED
      BY <3>1, <3>3, <3>4, OthersCarry DEF Carried
  <2>4. CASE Return(f, "error") /\ UNCHANGED marker
    BY <1>1, <2>4, AloneAfterReturn, IdleCarry DEF Carried, PausedIsUnbacked
  <2> QED
    BY <1>2, <2>3, <2>4 DEF MarkCommitting
<1>3. CASE MoveLiveOut(f)
  <2>1. /\ pc[f] = "moveOut" /\ meta[f] \in Meta /\ ~meta[f].backed
        /\ live # NoTree /\ ~played => staging[txn[f]].world = live.world
    BY <1>3, Running DEF MoveLiveOut, Carried, FlowsCarry, FlowCarries, BeforeBackup
  <2>2. PausedIsUnbacked' /\ UNCHANGED <<staging, txn, played>>
    BY <1>3 DEF MoveLiveOut, Carried, PausedIsUnbacked
  <2>3. PICK s \in {"moveIn", "record", "undo"} : Goto(f, s)
    BY <1>3 DEF MoveLiveOut, CommitFails
  <2>4. pc'[f] = s /\ \A g \in Flow \ {f} : pc'[g] = "idle"
    BY <1>1, <2>3, Alone DEF Step
  <2>5. FlowCarries(f)'
    <3>1. CASE s = "undo"
      BY <2>4, <3>1 DEF FlowCarries, BeforeBackup
    <3>2. CASE UNCHANGED meta /\ s # "undo"
      BY <2>1, <2>4, <3>2 DEF FlowCarries, BeforeBackup
    <3>3. CASE live # NoTree /\ SetAside(txn[f]) /\ s # "undo"
      <4>1. backup'[txn[f]] = live
        BY <1>1, <3>3 DEF SetAside, Inv, TypeOK
      <4> QED
        BY <2>1, <2>2, <2>3, <2>4, <3>3, <4>1 DEF FlowCarries, BeforeBackup
    <3> QED
      BY <1>3, <2>4, <3>1, <3>2, <3>3, Alone, <1>1 DEF MoveLiveOut, CommitFails, Step
  <2> QED
    BY <2>2, <2>4, <2>5, OthersCarry DEF Carried
<1>4. CASE RecordBackup(f)
  <2>1. /\ pc[f] = "record" /\ meta[f] \in Meta /\ meta[f].phase = "Committing"
        /\ staging[txn[f]] \in Tree
    BY <1>4, Running DEF RecordBackup, Inv, CommitIsPrepared, Swapping
  <2>2. CASE Save(txn[f], meta[f]) /\ Goto(f, "moveIn")
             /\ UNCHANGED <<txn, meta, backup, played>>
    <3>1. pc'[f] = "moveIn" /\ \A g \in Flow \ {f} : pc'[g] = "idle"
      BY <1>1, <2>2, Alone DEF Step
    <3>2. /\ marker'[txn[f]] = meta[f] /\ staging' = staging
          /\ \A u \in Txn : u # txn[f] => marker'[u] = marker[u]
      BY <1>1, <2>1, <2>2, SaveFacts DEF Inv
    <3>3. FlowCarries(f)'
      BY <2>1, <2>2, <3>1, <3>2 DEF FlowCarries, Carried, FlowsCarry, BeforeBackup
    <3>4. PausedIsUnbacked'
      BY <1>1, <2>1, <3>2, MarkerChanges DEF Carried
    <3> QED
      BY <3>1, <3>3, <3>4, OthersCarry DEF Carried
  <2>3. CASE Return(f, "error") /\ UNCHANGED marker
    BY <1>1, <2>3, AloneAfterReturn, IdleCarry DEF Carried, PausedIsUnbacked
  <2> QED
    BY <1>4, <2>2, <2>3 DEF RecordBackup
<1>5. CASE MoveStagingIn(f) \/ MoveStagingInFails(f)
  <2>1. PICK s \in {"certify", "undo"} : Goto(f, s)
    BY <1>5 DEF MoveStagingIn, MoveStagingInFails, CommitFails
  <2>2. pc'[f] = s /\ \A g \in Flow \ {f} : pc'[g] = "idle"
    BY <1>1, <2>1, Alone DEF Step
  <2>3. PausedIsUnbacked'
    BY <1>1, <1>5, MarkerChanges DEF MoveStagingIn, MoveStagingInFails, Carried, Inv, TypeOK
  <2> QED
    BY <2>2, <2>3, OthersCarry DEF FlowCarries, BeforeBackup, Carried
<1>6. CASE UndoCommit(f)
  <2>1. pc[f] = "undo" /\ Goto(f, "drop") /\ meta[f] \in Meta /\ meta[f].phase = "Building"
    BY <1>6, Running DEF UndoCommit, Inv, CommitIsPrepared
  <2>2. pc'[f] = "drop" /\ \A g \in Flow \ {f} : pc'[g] = "idle"
    BY <1>1, <2>1, Alone DEF Step
  <2>3. PausedIsUnbacked'
    BY <1>1, <1>6, <2>1, SaveFacts, MarkerChanges DEF UndoCommit, Carried, Inv
  <2> QED
    BY <2>2, <2>3, OthersCarry DEF FlowCarries, BeforeBackup, Carried
<1>7. CASE Certify(f)
  BY <1>1, <1>7, AloneAfterReturn, IdleCarry DEF Certify, disk, Carried, PausedIsUnbacked
<1> QED
  BY <1>2, <1>3, <1>4, <1>5, <1>6, <1>7 DEF Commit

\* To play while a flow runs is remembered, and an approval changes no world.
LEMMA OutsideCarries ==
  ASSUME Inv, Carried, Crash \/ Play \/ \E t \in Txn : Approve(t)
  PROVE  Carried'
<1>1. FlowsCarry'
  <2>1. CASE Crash
    <3>1. \A g \in Flow : pc'[g] = "idle"
      BY <2>1 DEF Crash
    <3> QED
      BY <3>1, IdleCarry
  <2>4. CASE Play
    <3>1. UNCHANGED <<pc, meta>>
      BY <2>4 DEF Play, memory
    <3>2. CASE OperationGuard
      BY <3>1, <3>2, IdleCarry DEF OperationGuard
    <3>3. CASE ~OperationGuard
      BY <2>4, <3>1, <3>3 DEF Play, FlowsCarry, FlowCarries, Carried
    <3> QED
      BY <3>2, <3>3
  <2>2. ASSUME NEW t \in Txn, Approve(t), NEW f \in Flow, pc[f] # "idle" PROVE FlowCarries(f)'
    <3>1. txn[f] \in Txn
      BY <2>2 DEF Inv, FlowOwnsTxn
    <3>2. staging[t] \in Tree
      BY <2>2 DEF Approve, Paused, Inv, TypeOK
    <3>3. staging'[txn[f]].world = staging[txn[f]].world
      BY <2>2, <3>1, <3>2 DEF Approve, Inv, TypeOK, Tree
    <3> QED
      BY <2>2, <3>3 DEF Approve, memory, Carried, FlowsCarry, FlowCarries
  <2>3. ASSUME NEW t \in Txn, Approve(t), NEW f \in Flow, pc[f] = "idle" PROVE FlowCarries(f)'
    BY <2>3 DEF Approve, memory, FlowCarries, BeforeBackup
  <2> QED
    BY <2>1, <2>2, <2>3, <2>4 DEF FlowsCarry
<1>2. PausedIsUnbacked'
  <2>1. CASE Crash \/ Play
    BY <2>1 DEF Crash, Play, disk, Carried, PausedIsUnbacked
  <2>2. ASSUME NEW t \in Txn, Approve(t) PROVE PausedIsUnbacked'
    <3>1. marker[t] \in Meta /\ ~marker[t].backed
      BY <2>2 DEF Approve, Paused, Carried, PausedIsUnbacked, Inv, TypeOK
    <3>2. marker'[t] = [marker[t] EXCEPT !.approved = TRUE]
          /\ \A u \in Txn : u # t => marker'[u] = marker[u]
      BY <2>2 DEF Approve, Inv, TypeOK
    <3>3. ~marker'[t].backed
      BY <3>1, <3>2 DEF Meta
    <3> QED
      BY <3>2, <3>3, MarkerChanges DEF Carried
  <2> QED
    BY <2>1, <2>2
<1> QED
  BY <1>1, <1>2 DEF Carried

LEMMA NextCarries ==
  ASSUME Inv, Carried, [Next]_vars
  PROVE  Carried'
<1>1. CASE UNCHANGED vars
  BY <1>1 DEF vars, memory, disk, Carried, PausedIsUnbacked, FlowsCarry, FlowCarries
<1> QED
  BY <1>1, StartCarries, PrepareCarries, EndCarries, CommitCarries, OutsideCarries DEF Next

\* The step that puts a new server up: only the flow's own second rename.
LEMMA SwapStep ==
  ASSUME Inv, Carried, [Next]_vars, NEW f \in Flow,
         pc[f] = "moveIn", pc'[f] = "certify", meta[f].backed, ~played
  PROVE  live'.world = backup[txn[f]].world
<1>1. MoveStagingIn(f)
  <2>1. \A g \in Flow \ {f} : pc[g] = "idle"
    BY Running
  <2>2. \A g \in Flow \ {f} : ~Start(g) /\ ~Prepare(g) /\ ~Commit(g) /\ ~End(g)
    BY <2>1
    DEF Start, Begin, Resume, Reject, Open, OperationGuard, Prepare, SaveNew, BuildPack,
        CopyPersistentState, Validate, Commit, MarkCommitting, MoveLiveOut, RecordBackup,
        MoveStagingIn, MoveStagingInFails, UndoCommit, Certify, End, Pause, Rollback, Drop
  <2>3. ~Start(f) /\ ~Prepare(f) /\ ~End(f)
    BY DEF Start, Begin, Resume, Reject, Open, OperationGuard, Prepare, SaveNew, BuildPack,
           CopyPersistentState, Validate, End, Pause, Rollback, Drop
  <2>4. ~Crash /\ ~Play /\ (\A t \in Txn : ~Approve(t)) /\ ~UNCHANGED vars
    BY DEF Crash, Play, Approve, memory, vars
  <2>5. Commit(f)
    BY <2>2, <2>3, <2>4 DEF Next
  <2>6. ~MoveStagingInFails(f)
    BY Alone DEF MoveStagingInFails, CommitFails, Step
  <2> QED
    BY <2>5, <2>6 DEF Commit, MarkCommitting, MoveLiveOut, RecordBackup, UndoCommit, Certify
<1> QED
  BY <1>1 DEF MoveStagingIn, Carried, FlowsCarry, FlowCarries

\* copy_persistent_state is called again on a resume: however long a transaction
\* was paused, a commit replaces no server by one with an older world, if the
\* server saves nothing while the commit's flow runs.
THEOREM SwapsKeepTheWorld == Spec => SwapKeepsNewestWorld
<1>1. Init => Carried
  BY DEF Init, Carried, PausedIsUnbacked, FlowsCarry, FlowCarries, BeforeBackup
<1>2. Inv /\ Carried /\ [Next]_vars => Carried'
  BY NextCarries
<1>3. Inv /\ Carried /\ [Next]_vars
      => [\A f \in Flow :
            pc[f] = "moveIn" /\ pc'[f] = "certify" /\ meta[f].backed /\ ~played
            => live'.world = backup[txn[f]].world]_vars
  BY SwapStep
<1> QED
  BY <1>1, <1>2, <1>3, Invariance, PTL DEF Spec, SwapKeepsNewestWorld
=============================================================================
