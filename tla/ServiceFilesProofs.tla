------------------------- MODULE ServiceFilesProofs -------------------------
(***************************************************************************)
(* Proofs about what the services leave on the disk: the machines of       *)
(* MCServices that write files, and QuarantineRestore, for all values of   *)
(* their constants, any number of calls, files and failures. Each machine  *)
(* has an inductive invariant of its own, from which its properties        *)
(* follow; as none of the machines of MCServices calls another, they hold  *)
(* of all of them together (Parts, and the theorems at the end).           *)
(***************************************************************************)
EXTENDS MCServices, QuarantineRestore, Integers, Sequences, FiniteSetTheorems,
        FunctionTheorems, WellFoundedInduction, TLAPS

\* A set of naturals has a least one.
LEMMA NaturalsHaveALeast ==
  ASSUME NEW T \in SUBSET Nat, T # {}
  PROVE  \E x \in T : \A y \in T : x <= y
<1>1. PICK R : R = {ss \in Nat \X Nat : ss[1] < ss[2]}
  OBVIOUS
<1>2. IsWellFoundedOn(R, Nat)
  BY <1>1, NatLessThanWellFounded DEF OpToRel
<1>3. PICK x \in T : \A y \in T : <<y, x>> \notin R
  BY <1>2, WFMin
<1>4. \A y \in T : ~(y < x)
  BY <1>1, <1>3
<1> QED
  BY <1>4

-----------------------------------------------------------------------------
(***************************************************************************)
(* The restore of a quarantined mod (QuarantineRestore), for any calls,    *)
(* files and failures.                                                     *)
(***************************************************************************)

\* Where a call holds the lock, where it has loaded the metadata, and where
\* the mod it restores must have no live provider.
Free == {"idle", "lock"}
Before == Free \cup {"state", "active", "load"}
Clear == {"copy", "recheck", "rename"}
Placed == {"verify", "save", "saveFailure"}

\* A call restores a file from its first step to its last.
HasJar == \A c \in Call : pc[c] # "idle" => jar[c] \in Jar

\* Who works holds the lock.
Holds == \A c \in Call : pc[c] \notin Free => lock = c

\* No install runs meanwhile.
NoInstall == txn = "running" => \A c \in Call : pc[c] = "idle"

\* The metadata it loaded is still what is on disk, and not yet restored.
Loaded == \A c \in Call : pc[c] \notin Before =>
    /\ meta[c] = records
    /\ records[jar[c]] # "Restored"

\* The check for other providers still holds when the file is renamed.
StillClear == \A c \in Call : pc[c] \in Clear => NoConflict(jar[c])

\* The temporary file is gone after the rename, and a failure took the mod too,
\* but for what could not be removed.
Tidy == \A c \in Call :
    /\ pc[c] \in Placed => jar[c] \notin temp \ left
    /\ pc[c] = "saveFailure" => jar[c] \notin mods \ left

\* The inductive invariant.
RestoreInv == TypeOK /\ HasJar /\ Holds /\ NoInstall /\ Loaded /\ StillClear /\ Tidy /\ OneProvider

USE ConstantsAssumption

-----------------------------------------------------------------------------
\* Initially nothing runs and nothing is quarantined.
LEMMA RestoreInitially == Init => RestoreInv
  BY DEF Init, RestoreInv, TypeOK, NoRecords, HasJar, Holds, NoInstall, Loaded, StillClear, Tidy,
         OneProvider, Free, Before, Clear, Placed, Root, Status, CallStep, NoConflict

\* What a refused call leaves: its own variables are reset, nothing else moves.
LEMMA ReturnKeeps ==
  ASSUME RestoreInv, NEW c \in Call, pc[c] \notin Free, Return(c),
         UNCHANGED <<disk, game, txn, left, failures>>
  PROVE  RestoreInv'
  <1> USE DEF RestoreInv, Return, Goto, disk
  <1>1. TypeOK'
    BY DEF TypeOK, CallStep, NoRecords, Status
  <1>2. /\ pc' = [pc EXCEPT ![c] = "idle"] /\ pc \in [Call -> CallStep]
        /\ \A d \in Call : d # c => pc[d] \in Free
    BY DEF TypeOK, Holds
  <1>3. \A d \in Call : pc'[d] \in Free
    BY <1>2 DEF Free
  <1>4. HasJar' /\ Holds' /\ NoInstall'
    BY <1>2, <1>3 DEF TypeOK, HasJar, Holds, NoInstall
  <1>5. Loaded' /\ StillClear' /\ Tidy'
    BY <1>3 DEF Loaded, StillClear, Tidy, Free, Before, Clear, Placed
  <1>6. OneProvider'
    BY DEF OneProvider
  <1> QED BY <1>1, <1>4, <1>5, <1>6

\* A step of the call c that holds the lock, and only moves it on.
LEMMA RestoreOthers ==
  ASSUME RestoreInv, NEW c \in Call, pc[c] \notin Free
  PROVE  /\ \A d \in Call : d # c => pc[d] \in Free
         /\ lock = c
         /\ jar[c] \in Jar
         /\ txn # "running"
  BY DEF RestoreInv, Holds, HasJar, NoInstall, Free

\* Every step keeps the invariant.
LEMMA RestoreStep == RestoreInv /\ [Next]_vars => RestoreInv'
  <1> SUFFICES ASSUME RestoreInv, [Next]_vars PROVE RestoreInv'
    OBVIOUS
  <1> USE DEF RestoreInv
  <1>1. ASSUME NEW c \in Call, NEW j \in Jar, Begin(c, j) PROVE RestoreInv'
    <2> USE <1>1 DEF Begin, Goto, disk
    <2>1. TypeOK'
      BY DEF TypeOK, CallStep
    <2>2. HasJar' /\ Holds' /\ NoInstall'
      BY DEF TypeOK, HasJar, Holds, NoInstall, Free
    <2>3. \A d \in Call : pc'[d] \notin Free => d # c /\ pc'[d] = pc[d] /\ jar'[d] = jar[d]
      BY DEF TypeOK, Free
    <2>4. Loaded' /\ StillClear' /\ Tidy' /\ OneProvider'
      BY <2>3 DEF Loaded, StillClear, Tidy, OneProvider, Free, Before, Clear, Placed, NoConflict
    <2> QED BY <2>1, <2>2, <2>4
  <1>2. ASSUME NEW c \in Call, Lock(c) PROVE RestoreInv'
    <2> USE <1>2 DEF Lock, LockIsFree, Goto, disk
    <2>1. TypeOK'
      BY DEF TypeOK, CallStep
    <2>2. \A d \in Call : pc[d] \in Free
      BY DEF Holds
    <2>3. HasJar' /\ Holds' /\ NoInstall'
      BY <2>2 DEF TypeOK, HasJar, Holds, NoInstall, Free
    <2>4. Loaded' /\ StillClear' /\ Tidy' /\ OneProvider'
      BY <2>2 DEF TypeOK, Loaded, StillClear, Tidy, OneProvider, Free, Before, Clear, Placed
    <2> QED BY <2>1, <2>3, <2>4
  <1>3. ASSUME NEW c \in Call, CheckState(c) PROVE RestoreInv'
    <2>0. pc[c] = "state" /\ pc[c] \notin Free
      BY <1>3 DEF CheckState, Free
    <2>1. CASE game # "Stopped"
      BY <1>3, <2>0, <2>1, ReturnKeeps DEF CheckState, Check, disk
    <2>2. CASE game = "Stopped"
      <3> USE <1>3, <2>0, <2>2, RestoreOthers DEF CheckState, Check, Goto, disk
      <3>1. TypeOK'
        BY DEF TypeOK, CallStep
      <3>2. HasJar' /\ Holds' /\ NoInstall' /\ OneProvider'
        BY DEF TypeOK, HasJar, Holds, NoInstall, OneProvider, Free
      <3>3. Loaded'
        BY DEF TypeOK, Loaded, Free, Before
      <3>4. StillClear'
        BY DEF TypeOK, StillClear, Free, Clear
      <3>5. Tidy'
        BY DEF TypeOK, Tidy, Free, Placed
      <3> QED BY <3>1, <3>2, <3>3, <3>4, <3>5
    <2> QED BY <2>1, <2>2
  <1>4. ASSUME NEW c \in Call, CheckActive(c) PROVE RestoreInv'
    <2>0. pc[c] = "active" /\ pc[c] \notin Free
      BY <1>4 DEF CheckActive, Free
    <2>1. CASE txn # "none"
      BY <1>4, <2>0, <2>1, ReturnKeeps DEF CheckActive, Check, disk
    <2>2. CASE txn = "none"
      <3> USE <1>4, <2>0, <2>2, RestoreOthers DEF CheckActive, Check, Goto, disk
      <3>1. TypeOK'
        BY DEF TypeOK, CallStep
      <3>2. HasJar' /\ Holds' /\ NoInstall' /\ OneProvider'
        BY DEF TypeOK, HasJar, Holds, NoInstall, OneProvider, Free
      <3>3. Loaded'
        BY DEF TypeOK, Loaded, Free, Before
      <3>4. StillClear'
        BY DEF TypeOK, StillClear, Free, Clear
      <3>5. Tidy'
        BY DEF TypeOK, Tidy, Free, Placed
      <3> QED BY <3>1, <3>2, <3>3, <3>4, <3>5
    <2> QED BY <2>1, <2>2
  <1>5. ASSUME NEW c \in Call, LoadMeta(c) PROVE RestoreInv'
    <2>0. pc[c] = "load" /\ pc[c] \notin Free
      BY <1>5 DEF LoadMeta, Free
    <2>1. CASE ~Restorable(jar[c])
      BY <1>5, <2>0, <2>1, ReturnKeeps DEF LoadMeta, disk
    <2>2. CASE Restorable(jar[c])
      <3> USE <1>5, <2>0, <2>2, RestoreOthers DEF LoadMeta, Goto, disk
      <3>1. TypeOK'
        <4>1. /\ meta' = [meta EXCEPT ![c] = records] /\ pc' = [pc EXCEPT ![c] = "conflict"]
              /\ UNCHANGED <<shelf, records, mods, temp, game, txn, left, failures, lock, jar>>
          OBVIOUS
        <4> QED BY <4>1 DEF TypeOK, CallStep
      <3>2. HasJar' /\ Holds' /\ NoInstall' /\ OneProvider'
        BY DEF TypeOK, HasJar, Holds, NoInstall, OneProvider, Free
      <3>3. Loaded'
        BY DEF TypeOK, Loaded, Free, Before, Restorable
      <3>4. StillClear'
        BY DEF TypeOK, StillClear, Free, Clear
      <3>5. Tidy'
        BY DEF TypeOK, Tidy, Free, Placed
      <3> QED BY <3>1, <3>2, <3>3, <3>4, <3>5
    <2> QED BY <2>1, <2>2
  <1>6. ASSUME NEW c \in Call, CheckConflict(c) PROVE RestoreInv'
    <2>0. pc[c] = "conflict" /\ pc[c] \notin Free /\ pc[c] \notin Before
      BY <1>6 DEF CheckConflict, Free, Before
    <2>1. CASE ~NoConflict(jar[c])
      BY <1>6, <2>0, <2>1, ReturnKeeps DEF CheckConflict, Check, disk
    <2>2. CASE NoConflict(jar[c])
      <3> USE <1>6, <2>0, <2>2, RestoreOthers DEF CheckConflict, Check, Goto, disk
      <3>1. TypeOK'
        BY DEF TypeOK, CallStep
      <3>2. HasJar' /\ Holds' /\ NoInstall' /\ OneProvider'
        BY DEF TypeOK, HasJar, Holds, NoInstall, OneProvider, Free
      <3>3. Loaded'
        BY DEF TypeOK, Loaded, Free, Before
      <3>4. StillClear'
        BY DEF TypeOK, StillClear, NoConflict, Free, Clear
      <3>5. Tidy'
        BY DEF TypeOK, Tidy, Free, Placed
      <3> QED BY <3>1, <3>2, <3>3, <3>4, <3>5
    <2> QED BY <2>1, <2>2
  <1>7. ASSUME NEW c \in Call, Copy(c) PROVE RestoreInv'
    <2>0. pc[c] = "copy" /\ pc[c] \notin Free /\ pc[c] \notin Before
      BY <1>7 DEF Copy, Free, Before
    <2> USE <1>7, <2>0, RestoreOthers DEF Copy, Goto, CleanUp
    <2>1. TypeOK'
      <3>1. mods' \subseteq Jar /\ temp' \subseteq Jar /\ left' \subseteq Jar
        BY DEF TypeOK
      <3>2. failures' \in 0..MaxFailures
        BY DEF TypeOK, Works, Fails
      <3>3. pc' \in [Call -> CallStep]
        BY DEF TypeOK, CallStep
      <3> QED BY <3>1, <3>2, <3>3 DEF TypeOK
    <2>2. HasJar' /\ Holds' /\ NoInstall'
      BY DEF TypeOK, HasJar, Holds, NoInstall, Free
    <2>3. Loaded'
      BY DEF TypeOK, Loaded, Free, Before
    <2>4. OneProvider' /\ StillClear'
      BY DEF TypeOK, OneProvider, StillClear, NoConflict, Free, Clear
    <2>5. Tidy'
      BY DEF TypeOK, Tidy, StillClear, NoConflict, Free, Clear, Placed
    <2> QED BY <2>1, <2>2, <2>3, <2>4, <2>5
  <1>8. ASSUME NEW c \in Call, Recheck(c) PROVE RestoreInv'
    <2>0. pc[c] = "recheck" /\ pc[c] \notin Free /\ pc[c] \notin Before
      BY <1>8 DEF Recheck, Free, Before
    <2> USE <1>8, <2>0, RestoreOthers DEF Recheck, Goto, CleanUp
    <2>1. TypeOK'
      <3>1. mods' \subseteq Jar /\ temp' \subseteq Jar /\ left' \subseteq Jar
        BY DEF TypeOK
      <3>2. failures' \in 0..MaxFailures
        BY DEF TypeOK, Works, Fails
      <3>3. pc' \in [Call -> CallStep]
        BY DEF TypeOK, CallStep
      <3> QED BY <3>1, <3>2, <3>3 DEF TypeOK
    <2>2. HasJar' /\ Holds' /\ NoInstall'
      BY DEF TypeOK, HasJar, Holds, NoInstall, Free
    <2>3. Loaded'
      BY DEF TypeOK, Loaded, Free, Before
    <2>4. OneProvider' /\ StillClear'
      BY DEF TypeOK, OneProvider, StillClear, NoConflict, Free, Clear
    <2>5. Tidy'
      BY DEF TypeOK, Tidy, StillClear, NoConflict, Free, Clear, Placed
    <2> QED BY <2>1, <2>2, <2>3, <2>4, <2>5
  <1>9. ASSUME NEW c \in Call, Rename(c) PROVE RestoreInv'
    <2>0. pc[c] = "rename" /\ pc[c] \notin Free /\ pc[c] \notin Before
      BY <1>9 DEF Rename, Free, Before
    <2> USE <1>9, <2>0, RestoreOthers DEF Rename, Goto, CleanUp
    <2>1. TypeOK'
      <3>1. mods' \subseteq Jar /\ temp' \subseteq Jar /\ left' \subseteq Jar
        BY DEF TypeOK
      <3>2. failures' \in 0..MaxFailures
        BY DEF TypeOK, Works, Fails
      <3>3. pc' \in [Call -> CallStep]
        BY DEF TypeOK, CallStep
      <3> QED BY <3>1, <3>2, <3>3 DEF TypeOK
    <2>2. HasJar' /\ Holds' /\ NoInstall'
      BY DEF TypeOK, HasJar, Holds, NoInstall, Free
    <2>3. Loaded'
      BY DEF TypeOK, Loaded, Free, Before
    <2>4. OneProvider' /\ StillClear'
      <3>1. NoConflict(jar[c])
        BY DEF StillClear, Clear
      <3>2. mods' = mods \/ mods' = mods \cup {jar[c]}
        OBVIOUS
      <3>3. OneProvider'
        BY <3>1, <3>2 DEF OneProvider, NoConflict
      <3>4. pc'[c] \notin Clear /\ \A d \in Call : d # c => pc'[d] = pc[d] /\ pc[d] \in Free
        BY DEF TypeOK, Clear
      <3>5. \A d \in Call : pc'[d] \notin Clear
        BY <3>4 DEF Free, Clear
      <3> QED BY <3>3, <3>5 DEF StillClear
    <2>5. Tidy'
      BY DEF TypeOK, Tidy, StillClear, NoConflict, Free, Clear, Placed
    <2> QED BY <2>1, <2>2, <2>3, <2>4, <2>5
  <1>10. ASSUME NEW c \in Call, Verify(c) PROVE RestoreInv'
    <2>0. pc[c] = "verify" /\ pc[c] \notin Free /\ pc[c] \notin Before
      BY <1>10 DEF Verify, Free, Before
    <2> USE <1>10, <2>0, RestoreOthers DEF Verify, Goto, RemoveUnverified
    <2>1. TypeOK'
      <3>1. mods' \subseteq Jar /\ temp' \subseteq Jar /\ left' \subseteq Jar
        BY DEF TypeOK
      <3>2. failures' \in 0..MaxFailures
        BY DEF TypeOK, Works, Fails
      <3>3. pc' \in [Call -> CallStep]
        BY DEF TypeOK, CallStep
      <3> QED BY <3>1, <3>2, <3>3 DEF TypeOK
    <2>2. HasJar' /\ Holds' /\ NoInstall'
      BY DEF TypeOK, HasJar, Holds, NoInstall, Free
    <2>3. Loaded'
      BY DEF TypeOK, Loaded, Free, Before
    <2>4. OneProvider'
      BY DEF TypeOK, OneProvider
    <2>5. StillClear'
      BY DEF TypeOK, StillClear, NoConflict, Free, Clear
    <2>6. Tidy'
      BY DEF TypeOK, Tidy, Free, Clear, Placed
    <2> QED BY <2>1, <2>2, <2>3, <2>4, <2>5, <2>6
  <1>11. ASSUME NEW c \in Call, Save(c) PROVE RestoreInv'
    <2>0. pc[c] = "save" /\ pc[c] \notin Free /\ pc[c] \notin Before
      BY <1>11 DEF Save, Free, Before
    <2> USE <1>11, <2>0, RestoreOthers DEF Save, Return, Goto
    <2>1. TypeOK'
      BY DEF TypeOK, CallStep, Works, Fails, Updated, Status, NoRecords
    <2>2. \A d \in Call : pc'[d] \in Free
      BY DEF TypeOK, Free
    <2>3. HasJar' /\ Holds' /\ NoInstall'
      BY <2>2 DEF TypeOK, HasJar, Holds, NoInstall, Free
    <2>4. Loaded' /\ StillClear' /\ Tidy' /\ OneProvider'
      BY <2>2 DEF Loaded, StillClear, Tidy, OneProvider, Free, Before, Clear, Placed
    <2> QED BY <2>1, <2>3, <2>4
  <1>12. ASSUME NEW c \in Call, SaveFailure(c) PROVE RestoreInv'
    <2>0. pc[c] = "saveFailure" /\ pc[c] \notin Free /\ pc[c] \notin Before
      BY <1>12 DEF SaveFailure, Free, Before
    <2> USE <1>12, <2>0, RestoreOthers DEF SaveFailure, Return, Goto
    <2>1. TypeOK'
      BY DEF TypeOK, CallStep, Works, Fails, Updated, Status, NoRecords
    <2>2. \A d \in Call : pc'[d] \in Free
      BY DEF TypeOK, Free
    <2>3. HasJar' /\ Holds' /\ NoInstall'
      BY <2>2 DEF TypeOK, HasJar, Holds, NoInstall, Free
    <2>4. Loaded' /\ StillClear' /\ Tidy' /\ OneProvider'
      BY <2>2 DEF Loaded, StillClear, Tidy, OneProvider, Free, Before, Clear, Placed
    <2> QED BY <2>1, <2>3, <2>4
  <1>13. ASSUME InstallRuns PROVE RestoreInv'
    <2> USE <1>13 DEF InstallRuns, NoRestoreRuns, disk, calls
    <2>1. TypeOK'
      BY DEF TypeOK, Status, Root, PreserveRoot, ListRoot
    <2>2. \A d \in Call : pc'[d] \in Free
      BY DEF NoRestoreRuns, Free
    <2>3. HasJar' /\ Holds' /\ NoInstall'
      BY <2>2 DEF TypeOK, HasJar, Holds, NoInstall, Free
    <2>4. Loaded' /\ StillClear' /\ Tidy'
      BY <2>2 DEF Loaded, StillClear, Tidy, Free, Before, Clear, Placed
    <2>5. OneProvider'
      BY DEF OneProvider
    <2> QED BY <2>1, <2>3, <2>4, <2>5
  <1>14. ASSUME InstallPauses PROVE RestoreInv'
    <2> USE <1>14 DEF InstallPauses, disk, calls
    <2>1. TypeOK'
      BY DEF TypeOK, Status, Root, PreserveRoot, ListRoot
    <2>3. HasJar' /\ Holds' /\ NoInstall'
      BY DEF TypeOK, HasJar, Holds, NoInstall
    <2>4. Loaded' /\ StillClear' /\ Tidy'
      BY DEF Loaded, StillClear, Tidy, NoConflict
    <2>5. OneProvider'
      BY DEF OneProvider
    <2> QED BY <2>1, <2>3, <2>4, <2>5
  <1>15. ASSUME InstallRejected PROVE RestoreInv'
    <2> USE <1>15 DEF InstallRejected, disk, calls
    <2>1. TypeOK'
      BY DEF TypeOK, Status, Root, PreserveRoot, ListRoot
    <2>3. HasJar' /\ Holds' /\ NoInstall'
      BY DEF TypeOK, HasJar, Holds, NoInstall
    <2>4. Loaded' /\ StillClear' /\ Tidy'
      BY DEF Loaded, StillClear, Tidy, NoConflict
    <2>5. OneProvider'
      BY DEF OneProvider
    <2> QED BY <2>1, <2>3, <2>4, <2>5
  <1>16. ASSUME NEW q \in SUBSET Pack, InstallCommits(q) PROVE RestoreInv'
    <2> USE <1>16 DEF InstallCommits, disk, calls
    <2>1. TypeOK'
      BY DEF TypeOK, Status, Root, PreserveRoot, ListRoot
    <2>2. \A d \in Call : pc'[d] \in Free
      BY DEF NoInstall, Free
    <2>3. HasJar' /\ Holds' /\ NoInstall'
      BY <2>2 DEF TypeOK, HasJar, Holds, NoInstall, Free
    <2>4. Loaded' /\ StillClear' /\ Tidy'
      BY <2>2 DEF Loaded, StillClear, Tidy, Free, Before, Clear, Placed
    <2>5. OneProvider'
      BY DEF OneProvider
    <2> QED BY <2>1, <2>3, <2>4, <2>5
  <1>17. ASSUME NEW j \in Jar, Record(j) PROVE RestoreInv'
    <2> USE <1>17 DEF Record, NoRestoreRuns, disk, calls
    <2>1. TypeOK'
      BY DEF TypeOK, Status, Root, PreserveRoot, ListRoot
    <2>2. \A d \in Call : pc'[d] \in Free
      BY DEF NoRestoreRuns, Free
    <2>3. HasJar' /\ Holds' /\ NoInstall'
      BY <2>2 DEF TypeOK, HasJar, Holds, NoInstall, Free
    <2>4. Loaded' /\ StillClear' /\ Tidy'
      BY <2>2 DEF Loaded, StillClear, Tidy, Free, Before, Clear, Placed
    <2>5. OneProvider'
      BY DEF OneProvider
    <2> QED BY <2>1, <2>3, <2>4, <2>5
  <1>18. ASSUME NEW j \in Jar, RemoveMod(j) PROVE RestoreInv'
    <2> USE <1>18 DEF RemoveMod, disk, calls
    <2>1. TypeOK'
      BY DEF TypeOK, Status, Root, PreserveRoot, ListRoot
    <2>3. HasJar' /\ Holds' /\ NoInstall'
      BY DEF TypeOK, HasJar, Holds, NoInstall
    <2>4. Loaded' /\ StillClear' /\ Tidy'
      BY DEF Loaded, StillClear, Tidy, NoConflict
    <2>5. OneProvider'
      BY DEF OneProvider
    <2> QED BY <2>1, <2>3, <2>4, <2>5
  <1>19. ASSUME Play PROVE RestoreInv'
    <2> USE <1>19 DEF Play, disk, calls
    <2>1. TypeOK'
      BY DEF TypeOK, Status, Root, PreserveRoot, ListRoot
    <2>3. HasJar' /\ Holds' /\ NoInstall'
      BY DEF TypeOK, HasJar, Holds, NoInstall
    <2>4. Loaded' /\ StillClear' /\ Tidy'
      BY DEF Loaded, StillClear, Tidy, NoConflict
    <2>5. OneProvider'
      BY DEF OneProvider
    <2> QED BY <2>1, <2>3, <2>4, <2>5
  <1>20. ASSUME UNCHANGED vars PROVE RestoreInv'
    <2> USE <1>20 DEF vars, disk, calls
    <2>1. TypeOK'
      BY DEF TypeOK, Status, Root, PreserveRoot, ListRoot
    <2>3. HasJar' /\ Holds' /\ NoInstall'
      BY DEF TypeOK, HasJar, Holds, NoInstall
    <2>4. Loaded' /\ StillClear' /\ Tidy'
      BY DEF Loaded, StillClear, Tidy, NoConflict
    <2>5. OneProvider'
      BY DEF OneProvider
    <2> QED BY <2>1, <2>3, <2>4, <2>5
  <1> QED
    BY <1>1, <1>2, <1>3, <1>4, <1>5, <1>6, <1>7, <1>8, <1>9, <1>10, <1>11, <1>12, <1>13,
       <1>14, <1>15, <1>16, <1>17, <1>18, <1>19, <1>20 DEF Next, Restore

-----------------------------------------------------------------------------
\* The invariant: the holder of the lock alone works, on metadata that is
\* still what is on disk and with a check that still holds.
THEOREM RestoreInvariance == Spec => []RestoreInv
  BY RestoreInitially, RestoreStep, PTL DEF Spec

\* Every variable keeps its type: only a stored status is ever stored.
THEOREM RestoreTypeCorrect == Spec => []TypeOK
  <1>1. RestoreInv => TypeOK
    BY DEF RestoreInv
  <1> QED BY <1>1, RestoreInvariance, PTL

\* No two live mods ever provide the same mod, for any number of concurrent
\* restores, installs and mods deleted by hand.
THEOREM ProvidersAreUnique == Spec => []OneProvider
  <1>1. RestoreInv => OneProvider
    BY DEF RestoreInv
  <1> QED BY <1>1, RestoreInvariance, PTL

\* No restore overwrites what another one recorded.
THEOREM RestoredStaysRestored == Spec => RestoredStays
  <1> DEFINE Kept == \A j \in Jar : records[j] = "Restored" => records'[j] = "Restored"
  <1>1. RestoreInv /\ [Next]_vars => [Kept]_vars
    <2> SUFFICES ASSUME RestoreInv, Next PROVE Kept
      BY DEF vars
    <2>1. ASSUME NEW c \in Call, Save(c) \/ SaveFailure(c) PROVE Kept
      BY <2>1 DEF RestoreInv, TypeOK, Loaded, Before, Free, Save, SaveFailure, Works, Fails, Updated
    <2>2. ASSUME NEW j \in Jar, Record(j) PROVE Kept
      BY <2>2 DEF RestoreInv, TypeOK, Record
    <2>3. CASE UNCHANGED records
      BY <2>3
    <2> QED
      BY <2>1, <2>2, <2>3 DEF Next, Restore, Begin, Lock, CheckState, CheckActive, LoadMeta,
        CheckConflict, Check, Copy, Recheck, Rename, Verify, InstallRuns, InstallPauses,
        InstallRejected, InstallCommits, RemoveMod, Play, disk
  <1> QED BY <1>1, RestoreInvariance, PTL DEF Spec, RestoredStays

\* A failed restore leaves neither its temporary file nor the mod behind.
THEOREM FailuresAreTidy == Spec => FailureLeavesNothing
  <1> DEFINE Left == \A c \in Call : pc[c] = "saveFailure" /\ pc'[c] = "idle"
                        => jar[c] \notin (mods \cup temp) \ left
  <1>1. RestoreInv => Left
    BY DEF RestoreInv, Tidy, Placed
  <1> QED BY <1>1, RestoreInvariance, PTL DEF Spec, FailureLeavesNothing

-----------------------------------------------------------------------------
(***************************************************************************)
(* A save is atomic (AtomicPersistence). The name of its sibling is        *)
(* shared, so saves of one file must not overlap, and a failed sync is     *)
(* ignored, so that either syncs succeed or the power stays.               *)
(***************************************************************************)

\* What cannot be parsed is no value, and no file is no file.
SavingDistinct == NoThing \notin Stored!File /\ DamagedFile \notin SavedValue

\* One save at a time, and the disk has what was synced before a loss of power.
SavingAlone == SavingDistinct /\ Overlap = FALSE /\ ~(SyncFails = TRUE /\ PowerFails = TRUE)

\* A handle points to a file that is there, and an idle call has nothing.
SavingHasFiles ==
    \A w \in Writer : /\ storedCall[w].at = "tmp" => storedTmp # NoThing
                      /\ storedCall[w].at = "target" => storedTarget # NoThing
SavingCarries ==
    \A w \in Writer : /\ storedCall[w].step = "idle" => storedCall[w] = Stored!Idle
                      /\ storedCall[w].step # "idle" => storedCall[w].value \in SavedValue
SavingInv == Stored!TypeOK /\ SavingHasFiles /\ SavingCarries

\* One save at a time; what it has written is in the sibling file, and on the disk before it
\* is renamed; what a reader may find, now or after a loss of power, is whole.
SavingOnce == \A w, u \in Writer : storedCall[w].step # "idle" /\ storedCall[u].step # "idle" => w = u
SavingKept(f) == PowerFails = TRUE => f.durable
SavingKnows ==
    \A w \in Writer :
        /\ storedCall[w].step # "idle" => storedCall[w].at = "tmp"
        /\ storedCall[w].step = "start" => storedTmp.by = {}
        /\ storedCall[w].step = "finish" => storedTmp.by = {w}
        /\ storedCall[w].step \in {"sync", "rename"} => storedTmp.value = storedCall[w].value
        /\ storedCall[w].step = "rename" => SavingKept(storedTmp)
SavingWhole == \A f \in storedOlder \cup {storedTarget} : Stored!Whole(f) /\ (f = NoThing \/ SavingKept(f))
SavingSInv == SavingOnce /\ SavingKnows /\ SavingWhole

-----------------------------------------------------------------------------
(***************************************************************************)
(* Files and handles, also of saves that overlap.                          *)
(***************************************************************************)

LEMMA EmptyIsFile == Stored!Empty \in Stored!File
  BY DEF Stored!Empty, Stored!File

LEMMA IdleIsCall == Stored!Idle \in [step : Stored!Step, value : SavedValue \cup {DamagedFile}, at : Stored!Place]
  BY DEF Stored!Idle, Stored!Step, Stored!Place

LEMMA HeldIsFile ==
  ASSUME SavingInv, NEW w \in Writer
  PROVE  Stored!Held(w) \in Stored!File
  BY EmptyIsFile DEF SavingInv, Stored!TypeOK, SavingHasFiles, Stored!Held

\* Handles that move keep what their calls are doing.
SavingCalls == [Writer -> [step : Stored!Step, value : SavedValue \cup {DamagedFile}, at : Stored!Place]]

LEMMA MovedIsTyped ==
  ASSUME NEW c \in SavingCalls, NEW from \in Stored!Place, NEW to \in Stored!Place
  PROVE  /\ Stored!Moved(c, from, to) \in SavingCalls
         /\ \A w \in Writer : /\ Stored!Moved(c, from, to)[w].step = c[w].step
                              /\ Stored!Moved(c, from, to)[w].value = c[w].value
                              /\ Stored!Moved(c, from, to)[w].at =
                                     IF c[w].at = from THEN to ELSE c[w].at
<1>1. \A w \in Writer : c[w] \in [step : Stored!Step, value : SavedValue \cup {DamagedFile}, at : Stored!Place]
  BY DEF SavingCalls
<1>2. \A w \in Writer :
          Stored!Moved(c, from, to)[w] = IF c[w].at = from THEN [c[w] EXCEPT !.at = to] ELSE c[w]
  BY DEF Stored!Moved
<1>3. \A w \in Writer :
          /\ Stored!Moved(c, from, to)[w] \in [step : Stored!Step, value : SavedValue \cup {DamagedFile}, at : Stored!Place]
          /\ Stored!Moved(c, from, to)[w].step = c[w].step
          /\ Stored!Moved(c, from, to)[w].value = c[w].value
          /\ Stored!Moved(c, from, to)[w].at = IF c[w].at = from THEN to ELSE c[w].at
  BY <1>1, <1>2
<1>4. Stored!Moved(c, from, to) \in SavingCalls
  BY <1>3 DEF Stored!Moved, SavingCalls
<1> QED
  BY <1>3, <1>4

LEMMA SavingPlaces == "target" \in Stored!Place /\ "gone" \in Stored!Place /\ "tmp" \in Stored!Place
  BY DEF Stored!Place

LEMMA CallIsTyped == SavingInv => storedCall \in SavingCalls
  BY DEF SavingInv, Stored!TypeOK, SavingCalls

\* A storedCall that is idle has no handle to move.
LEMMA MovedIdle ==
  ASSUME NEW c \in SavingCalls, NEW u \in Writer, c[u] = Stored!Idle
  PROVE  /\ Stored!Moved(c, "tmp", "gone")[u] = Stored!Idle
         /\ Stored!Moved(c, "target", "gone")[u] = Stored!Idle
         /\ Stored!Moved(Stored!Moved(c, "target", "gone"), "tmp", "target")[u] = Stored!Idle
  BY DEF Stored!Moved, Stored!Idle, SavingCalls

\* What goes into the file of a handle is a file, and no file is lost by it.
LEMMA IntoIsTyped ==
  ASSUME SavingDistinct, SavingInv, NEW w \in Writer, NEW f \in Stored!File, Stored!Into(w, f)
  PROVE  /\ storedTarget' \in Stored!File \cup {NoThing} /\ storedTmp' \in Stored!File \cup {NoThing}
         /\ storedOlder' \subseteq Stored!File \cup {NoThing}
         /\ storedTmp # NoThing => storedTmp' # NoThing
         /\ storedTarget # NoThing => storedTarget' # NoThing
  BY DEF SavingDistinct, SavingInv, Stored!TypeOK, Stored!Into

\* Each part of the writing puts a file into that of the handle.
LEMMA WritesInto ==
  ASSUME SavingInv, NEW w \in Writer, Stored!StartWriting(w) \/ Stored!FinishWriting(w) \/ Stored!Sync(w)
  PROVE  \E f \in Stored!File, s \in Stored!Step \ {"idle"} :
            /\ storedCall[w].step # "idle"
            /\ Stored!Into(w, f) /\ storedCall' = [storedCall EXCEPT ![w].step = s]
<1>1. Stored!Held(w) \in Stored!File
  BY HeldIsFile
<1>2. CASE Stored!StartWriting(w)
  BY <1>1, <1>2 DEF Stored!StartWriting, Stored!File, Stored!Step
<1>3. CASE Stored!FinishWriting(w)
  <2>1. storedCall[w].value \in SavedValue \cup {DamagedFile}
    BY DEF SavingInv, Stored!TypeOK
  <2> QED
    BY <1>1, <1>3, <2>1 DEF Stored!FinishWriting, Stored!File, Stored!Step
<1>4. CASE Stored!Sync(w)
  BY <1>1, <1>4 DEF Stored!Sync, Stored!File, Stored!Step
<1> QED
  BY <1>2, <1>3, <1>4

LEMMA WritingInv ==
  ASSUME SavingDistinct, SavingInv, NEW w \in Writer,
         Stored!StartWriting(w) \/ Stored!FinishWriting(w) \/ Stored!Sync(w)
  PROVE  SavingInv'
<1>1. PICK f \in Stored!File, s \in Stored!Step \ {"idle"} :
          /\ storedCall[w].step # "idle"
          /\ Stored!Into(w, f) /\ storedCall' = [storedCall EXCEPT ![w].step = s]
  BY WritesInto
<1>2. /\ storedTarget' \in Stored!File \cup {NoThing} /\ storedTmp' \in Stored!File \cup {NoThing}
      /\ storedOlder' \subseteq Stored!File \cup {NoThing}
      /\ storedTmp # NoThing => storedTmp' # NoThing
      /\ storedTarget # NoThing => storedTarget' # NoThing
  BY <1>1, IntoIsTyped
<1>3. storedCall' \in [Writer -> [step : Stored!Step, value : SavedValue \cup {DamagedFile}, at : Stored!Place]]
  BY <1>1 DEF SavingInv, Stored!TypeOK
<1>4. \A u \in Writer : /\ storedCall'[u].at = storedCall[u].at /\ storedCall'[u].value = storedCall[u].value
                        /\ u # w => storedCall'[u] = storedCall[u]
                        /\ storedCall'[w].step # "idle"
  BY <1>1 DEF SavingInv, Stored!TypeOK
<1>5. Stored!TypeOK'
  BY <1>2, <1>3 DEF Stored!TypeOK
<1>6. SavingHasFiles'
  BY <1>2, <1>4 DEF SavingInv, SavingHasFiles
<1>7. SavingCarries'
  BY <1>1, <1>4 DEF SavingInv, SavingCarries
<1> QED
  BY <1>5, <1>6, <1>7 DEF SavingInv

LEMMA CreateInv ==
  ASSUME SavingDistinct, SavingInv, NEW w \in Writer, NEW v \in SavedValue, Stored!Create(w, v)
  PROVE  SavingInv'
<1> DEFINE new == [step |-> "start", value |-> v, at |-> "tmp"]
<1>1. /\ storedTmp' = Stored!Empty /\ storedCall' = [storedCall EXCEPT ![w] = new]
      /\ UNCHANGED <<storedTarget, storedOlder>>
  BY DEF Stored!Create
<1>2. storedTmp' # NoThing /\ storedTmp' \in Stored!File
  BY <1>1, EmptyIsFile DEF SavingDistinct
<1>3. new \in [step : Stored!Step, value : SavedValue \cup {DamagedFile}, at : Stored!Place]
  BY DEF Stored!Step, Stored!Place
<1>4. Stored!TypeOK'
  BY <1>1, <1>2, <1>3 DEF SavingInv, Stored!TypeOK
<1>5. \A u \in Writer : storedCall'[u] = IF u = w THEN new ELSE storedCall[u]
  BY <1>1 DEF SavingInv, Stored!TypeOK
<1>6. SavingHasFiles'
  BY <1>1, <1>2, <1>5 DEF SavingInv, SavingHasFiles
<1>7. SavingCarries'
  BY <1>5 DEF SavingInv, SavingCarries
<1> QED
  BY <1>4, <1>6, <1>7 DEF SavingInv

LEMMA RenameInv ==
  ASSUME SavingDistinct, SavingInv, NEW w \in Writer, Stored!Rename(w)
  PROVE  SavingInv'
<1> DEFINE gone == Stored!Moved(storedCall, "target", "gone")
           moved == Stored!Moved(gone, "tmp", "target")
<1>1. /\ storedTmp # NoThing /\ storedTarget' = storedTmp /\ storedTmp' = NoThing
      /\ storedOlder' = storedOlder \cup {storedTarget} /\ storedCall' = [moved EXCEPT ![w] = Stored!Idle]
  BY DEF Stored!Rename
<1>2. storedCall \in SavingCalls
  BY CallIsTyped
<1>3. /\ gone \in SavingCalls
      /\ \A u \in Writer : gone[u].step = storedCall[u].step /\ gone[u].value = storedCall[u].value
  BY <1>2, SavingPlaces, MovedIsTyped
<1>4. /\ moved \in SavingCalls
      /\ \A u \in Writer : /\ moved[u].step = gone[u].step
                           /\ moved[u].value = gone[u].value
                           /\ moved[u].at = IF gone[u].at = "tmp" THEN "target" ELSE gone[u].at
  <2> HIDE DEF gone
  <2> QED
    BY <1>3, SavingPlaces, MovedIsTyped
<1>5. \A u \in Writer : /\ moved[u].step = storedCall[u].step
                        /\ moved[u].value = storedCall[u].value
                        /\ moved[u].at # "tmp"
  BY <1>3, <1>4
<1> HIDE DEF gone, moved
<1>6. storedCall' \in SavingCalls
  BY <1>1, <1>4, IdleIsCall DEF SavingCalls
<1>7. \A u \in Writer : storedCall'[u] = IF u = w THEN Stored!Idle ELSE moved[u]
  BY <1>1, <1>4 DEF SavingCalls
<1>8. Stored!TypeOK'
  BY <1>1, <1>6 DEF SavingInv, Stored!TypeOK, SavingCalls
<1>9. SavingHasFiles'
  BY <1>1, <1>5, <1>7 DEF SavingHasFiles, Stored!Idle
<1>10. SavingCarries'
  <2> SUFFICES ASSUME NEW u \in Writer
               PROVE  /\ storedCall'[u].step = "idle" => storedCall'[u] = Stored!Idle
                      /\ storedCall'[u].step # "idle" => storedCall'[u].value \in SavedValue
    BY DEF SavingCarries
  <2>1. CASE u = w
    BY <2>1, <1>7 DEF Stored!Idle
  <2>2. CASE u # w /\ storedCall[u].step = "idle"
    <3>1. storedCall[u] = Stored!Idle
      BY <2>2 DEF SavingInv, SavingCarries
    <3>2. moved[u] = Stored!Idle
      BY <1>2, <3>1, MovedIdle DEF gone, moved
    <3> QED
      BY <2>2, <3>2, <1>7 DEF Stored!Idle
  <2>3. CASE u # w /\ storedCall[u].step # "idle"
    BY <2>3, <1>5, <1>7 DEF SavingInv, SavingCarries
  <2> QED
    BY <2>1, <2>2, <2>3
<1> QED
  BY <1>8, <1>9, <1>10 DEF SavingInv

LEMMA FailInv ==
  ASSUME SavingDistinct, SavingInv, NEW w \in Writer, Stored!Fail(w)
  PROVE  SavingInv'
<1> DEFINE moved == Stored!Moved(storedCall, "tmp", "gone")
<1>1. /\ storedTmp' = NoThing /\ storedCall' = [moved EXCEPT ![w] = Stored!Idle]
      /\ UNCHANGED <<storedTarget, storedOlder>>
  BY DEF Stored!Fail
<1>2. /\ moved \in SavingCalls
      /\ \A u \in Writer : /\ moved[u].step = storedCall[u].step
                           /\ moved[u].value = storedCall[u].value
                           /\ moved[u].at # "tmp"
                           /\ moved[u].at = "target" => storedCall[u].at = "target"
  <2>1. /\ moved \in SavingCalls
        /\ \A u \in Writer : /\ moved[u].step = storedCall[u].step
                            /\ moved[u].value = storedCall[u].value
                             /\ moved[u].at = IF storedCall[u].at = "tmp" THEN "gone" ELSE storedCall[u].at
    BY CallIsTyped, SavingPlaces, MovedIsTyped
  <2> HIDE DEF moved
  <2> QED
    BY <2>1
<1> HIDE DEF moved
<1>3. storedCall' \in SavingCalls
  BY <1>1, <1>2, IdleIsCall DEF SavingCalls
<1>4. \A u \in Writer : storedCall'[u] = IF u = w THEN Stored!Idle ELSE moved[u]
  BY <1>1, <1>2 DEF SavingCalls
<1>5. Stored!TypeOK'
  BY <1>1, <1>3 DEF SavingInv, Stored!TypeOK, SavingCalls
<1>6. SavingHasFiles'
  BY <1>1, <1>2, <1>4 DEF SavingInv, SavingHasFiles, Stored!Idle
<1>7. SavingCarries'
  <2> SUFFICES ASSUME NEW u \in Writer
               PROVE  /\ storedCall'[u].step = "idle" => storedCall'[u] = Stored!Idle
                      /\ storedCall'[u].step # "idle" => storedCall'[u].value \in SavedValue
    BY DEF SavingCarries
  <2>1. CASE u = w
    BY <2>1, <1>4 DEF Stored!Idle
  <2>2. CASE u # w /\ storedCall[u].step = "idle"
    <3>1. storedCall[u] = Stored!Idle
      BY <2>2 DEF SavingInv, SavingCarries
    <3>2. moved[u] = Stored!Idle
      BY <3>1, CallIsTyped, MovedIdle DEF moved
    <3> QED
      BY <2>2, <3>2, <1>4 DEF Stored!Idle
  <2>3. CASE u # w /\ storedCall[u].step # "idle"
    BY <2>3, <1>2, <1>4 DEF SavingInv, SavingCarries
  <2> QED
    BY <2>1, <2>2, <2>3
<1> QED
  BY <1>5, <1>6, <1>7 DEF SavingInv

\* The program ends, or the power does.
LEMMA EndInv ==
  ASSUME SavingDistinct, SavingInv, Stored!Settle \/ Stored!Crash \/ Stored!LosePower
  PROVE  SavingInv'
<1>1. CASE Stored!Settle
  BY <1>1 DEF Stored!Settle, SavingInv, Stored!TypeOK, SavingHasFiles, SavingCarries
<1>2. CASE Stored!Crash \/ Stored!LosePower
  <2>1. storedCall' = [w \in Writer |-> Stored!Idle]
    BY <1>2 DEF Stored!Crash, Stored!LosePower
  <2>2. /\ storedTarget' \in Stored!File \cup {NoThing} /\ storedTmp' \in Stored!File \cup {NoThing}
        /\ storedOlder' \subseteq Stored!File \cup {NoThing}
    <3>1. CASE Stored!Crash
      BY <3>1 DEF Stored!Crash, SavingInv, Stored!TypeOK
    <3>2. CASE Stored!LosePower
      <4>1. PICK f \in storedOlder \cup {storedTarget} : storedTarget' \in Stored!AfterLoss(f)
        BY <3>2 DEF Stored!LosePower
      <4>2. f \in Stored!File \cup {NoThing}
        BY DEF SavingInv, Stored!TypeOK
      <4>3. storedTarget' \in Stored!File \cup {NoThing}
        BY <4>1, <4>2 DEF Stored!AfterLoss, Stored!File
      <4> QED
        BY <4>3, <3>2, EmptyIsFile DEF Stored!LosePower
    <3> QED
      BY <1>2, <3>1, <3>2
  <2> QED
    BY <2>1, <2>2, IdleIsCall DEF SavingInv, Stored!TypeOK, SavingHasFiles, SavingCarries, Stored!Idle
<1> QED
  BY <1>1, <1>2

LEMMA SavingInitInv == ASSUME SavingDistinct PROVE Stored!Init => SavingInv
<1> SUFFICES ASSUME Stored!Init PROVE SavingInv
  OBVIOUS
<1>1. storedTarget \in Stored!File \cup {NoThing}
  <2>1. CASE storedTarget = NoThing
    BY <2>1
  <2>2. ASSUME NEW v \in SavedValue, storedTarget = [value |-> v, by |-> {}, durable |-> TRUE]
        PROVE  storedTarget \in Stored!File
    BY <2>2 DEF Stored!File
  <2> QED
    BY <2>1, <2>2 DEF Stored!Init
<1> QED
  BY <1>1, EmptyIsFile, IdleIsCall DEF Stored!Init, SavingInv, Stored!TypeOK, SavingHasFiles, SavingCarries, Stored!Idle

LEMMA SavingNextInv == ASSUME SavingDistinct PROVE SavingInv /\ [Stored!Next]_Stored!vars => SavingInv'
<1> SUFFICES ASSUME SavingInv, [Stored!Next]_Stored!vars PROVE SavingInv'
  OBVIOUS
<1>1. ASSUME NEW w \in Writer, Stored!Work(w) PROVE SavingInv'
  BY <1>1, CreateInv, WritingInv, RenameInv, FailInv DEF Stored!Work
<1>2. CASE UNCHANGED Stored!vars
  BY <1>2 DEF Stored!vars, SavingInv, Stored!TypeOK, SavingHasFiles, SavingCarries
<1>3. CASE Stored!Settle \/ Stored!Crash \/ Stored!LosePower
  BY <1>3, EndInv
<1> QED
  BY <1>1, <1>2, <1>3 DEF Stored!Next

\* Every file keeps its type, and every handle its file, whatever overlaps and fails.
THEOREM SavingTypeCorrect == ASSUME SavingDistinct PROVE Stored!Spec => []Stored!TypeOK
<1>1. SavingInv => Stored!TypeOK
  BY DEF SavingInv
<1> QED
  BY <1>1, SavingInitInv, SavingNextInv, PTL DEF Stored!Spec

-----------------------------------------------------------------------------
(***************************************************************************)
(* One save at a time.                                                     *)
(***************************************************************************)

LEMMA CreateAlone ==
  ASSUME SavingAlone, SavingInv, SavingSInv, NEW w \in Writer, NEW v \in SavedValue, Stored!Create(w, v)
  PROVE  SavingSInv'
<1>1. /\ storedTmp' = Stored!Empty /\ UNCHANGED <<storedTarget, storedOlder>>
      /\ storedCall' = [storedCall EXCEPT ![w] = [step |-> "start", value |-> v, at |-> "tmp"]]
      /\ \A u \in Writer : storedCall[u] = Stored!Idle
  BY DEF Stored!Create, SavingAlone
<1>2. \A u \in Writer \ {w} : storedCall'[u] = Stored!Idle
  BY <1>1 DEF SavingInv, Stored!TypeOK
<1>3. storedCall'[w] = [step |-> "start", value |-> v, at |-> "tmp"]
  BY <1>1 DEF SavingInv, Stored!TypeOK
<1> QED
  BY <1>1, <1>2, <1>3 DEF SavingSInv, SavingOnce, SavingKnows, SavingWhole, SavingKept, Stored!Whole, Stored!Idle, Stored!Empty

\* A save that is being written goes on alone: only its own step and the sibling change.
LEMMA WritingAlone ==
  ASSUME SavingAlone, SavingInv, SavingSInv, NEW w \in Writer,
         Stored!StartWriting(w) \/ Stored!FinishWriting(w) \/ Stored!Sync(w)
  PROVE  SavingSInv'
<1>1. storedCall[w].step # "idle" /\ storedCall[w].at = "tmp" /\ Stored!Held(w) = storedTmp
  BY DEF Stored!StartWriting, Stored!FinishWriting, Stored!Sync, SavingSInv, SavingKnows, Stored!Held
<1>2. \A u \in Writer \ {w} : storedCall[u].step = "idle"
  BY <1>1 DEF SavingSInv, SavingOnce
<1>3. storedTmp \in Stored!File
  BY <1>1 DEF SavingInv, Stored!TypeOK, SavingHasFiles
<1>4. /\ UNCHANGED <<storedTarget, storedOlder>>
      /\ \A u \in Writer \ {w} : storedCall'[u] = storedCall[u]
      /\ storedCall'[w].at = "tmp" /\ storedCall'[w].value = storedCall[w].value
  <2>1. PICK f \in Stored!File, s \in Stored!Step \ {"idle"} :
            Stored!Into(w, f) /\ storedCall' = [storedCall EXCEPT ![w].step = s]
    BY WritesInto
  <2>2. UNCHANGED <<storedTarget, storedOlder>>
    BY <1>1, <2>1 DEF Stored!Into
  <2>3. /\ \A u \in Writer \ {w} : storedCall'[u] = storedCall[u]
        /\ storedCall'[w].at = storedCall[w].at /\ storedCall'[w].value = storedCall[w].value
    BY <2>1 DEF SavingInv, Stored!TypeOK
  <2> QED
    BY <1>1, <2>2, <2>3
<1>5. /\ storedCall'[w].step = "finish" => storedTmp'.by = {w}
      /\ storedCall'[w].step \in {"sync", "rename"} => storedTmp'.value = storedCall[w].value
      /\ storedCall'[w].step = "rename" => SavingKept(storedTmp')
      /\ storedCall'[w].step \in {"finish", "sync", "rename"}
  <2>1. CASE Stored!StartWriting(w)
    <3>1. storedTmp' = [value |-> DamagedFile, by |-> storedTmp.by \cup {w}, durable |-> FALSE]
      BY <1>1, <2>1 DEF Stored!StartWriting, Stored!Into
    <3>2. storedCall'[w].step = "finish" /\ storedTmp.by = {}
      BY <2>1 DEF Stored!StartWriting, SavingInv, Stored!TypeOK, SavingSInv, SavingKnows
    <3> QED
      BY <3>1, <3>2
  <2>2. CASE Stored!FinishWriting(w)
    <3>1. storedCall'[w].step = "sync" /\ storedTmp.by = {w}
      BY <2>2 DEF Stored!FinishWriting, SavingInv, Stored!TypeOK, SavingSInv, SavingKnows
    <3>2. storedTmp'.value = storedCall[w].value
      BY <1>1, <2>2, <3>1 DEF Stored!FinishWriting, Stored!Into
    <3> QED
      BY <3>1, <3>2
  <2>3. CASE Stored!Sync(w)
    <3>1. storedCall'[w].step = "rename" /\ storedTmp.value = storedCall[w].value
      BY <2>3 DEF Stored!Sync, SavingInv, Stored!TypeOK, SavingSInv, SavingKnows
    <3>2. PICK d \in IF SyncFails THEN BOOLEAN ELSE {TRUE} :
             storedTmp' = IF d THEN [storedTmp EXCEPT !.durable = TRUE] ELSE storedTmp
      BY <1>1, <2>3 DEF Stored!Sync, Stored!Into
    <3>3. storedTmp'.value = storedTmp.value
      BY <1>3, <3>2 DEF Stored!File
    <3>4. SavingKept(storedTmp')
      <4>1. CASE PowerFails = TRUE
        <5>1. d = TRUE
          BY <4>1, <3>2 DEF SavingAlone
        <5> QED
          BY <5>1, <3>2, <1>3 DEF SavingKept, Stored!File
      <4> QED
        BY <4>1 DEF SavingKept
    <3> QED
      BY <3>1, <3>3, <3>4
  <2> QED
    BY <2>1, <2>2, <2>3
<1>6. SavingOnce'
  BY <1>2, <1>4 DEF SavingOnce
<1>7. SavingKnows'
  BY <1>2, <1>4, <1>5 DEF SavingKnows, SavingKept
<1>8. SavingWhole'
  BY <1>4 DEF SavingSInv, SavingWhole, SavingKept, Stored!Whole
<1> QED
  BY <1>6, <1>7, <1>8 DEF SavingSInv

\* A save that ends was the only one.
LEMMA EndsIdle ==
  ASSUME SavingInv, SavingSInv, NEW w \in Writer, Stored!Rename(w) \/ Stored!Fail(w)
  PROVE  \A u \in Writer : storedCall'[u] = Stored!Idle
<1>1. storedCall[w].step # "idle"
  BY DEF Stored!Rename, Stored!Fail, SavingInv, SavingCarries
<1>2. \A u \in Writer \ {w} : storedCall[u] = Stored!Idle
  BY <1>1 DEF SavingSInv, SavingOnce, SavingInv, SavingCarries
<1>3. storedCall'[w] = Stored!Idle
  BY DEF Stored!Rename, Stored!Fail, Stored!Moved
<1>4. \A u \in Writer \ {w} : storedCall'[u] = Stored!Idle
  <2> SUFFICES ASSUME NEW u \in Writer \ {w}
               PROVE  storedCall'[u] = Stored!Idle
    OBVIOUS
  <2>1. CASE Stored!Rename(w)
    <3>1. storedCall'[u] = Stored!Moved(Stored!Moved(storedCall, "target", "gone"), "tmp", "target")[u]
      BY <2>1 DEF Stored!Rename, Stored!Moved
    <3> QED
      BY <3>1, <1>2, CallIsTyped, MovedIdle
  <2>2. CASE Stored!Fail(w)
    <3>1. storedCall'[u] = Stored!Moved(storedCall, "tmp", "gone")[u]
      BY <2>2 DEF Stored!Fail, Stored!Moved
    <3> QED
      BY <3>1, <1>2, CallIsTyped, MovedIdle
  <2> QED
    BY <2>1, <2>2
<1> QED
  BY <1>3, <1>4

\* What is renamed is what the save was given, and on the disk if the power may fail.
LEMMA RenamesWhole ==
  ASSUME SavingInv, SavingSInv, NEW w \in Writer, Stored!Rename(w)
  PROVE  storedTmp \in Stored!File /\ storedTmp.value = storedCall[w].value /\ storedCall[w].value \in SavedValue /\ SavingKept(storedTmp)
<1>1. storedCall[w].step = "rename" /\ storedTmp \in Stored!File
  BY DEF Stored!Rename, SavingInv, Stored!TypeOK
<1> QED
  BY <1>1 DEF SavingSInv, SavingKnows, SavingInv, SavingCarries

LEMMA EndAlone ==
  ASSUME SavingAlone, SavingInv, SavingSInv, NEW w \in Writer, Stored!Rename(w) \/ Stored!Fail(w)
  PROVE  SavingSInv'
<1>1. \A u \in Writer : storedCall'[u] = Stored!Idle
  BY EndsIdle
<1>2. SavingOnce' /\ SavingKnows'
  BY <1>1 DEF SavingOnce, SavingKnows, Stored!Idle
<1>3. SavingWhole'
  <2>1. CASE Stored!Rename(w)
    BY <2>1, RenamesWhole DEF Stored!Rename, SavingSInv, SavingWhole, Stored!Whole, SavingKept
  <2>2. CASE Stored!Fail(w)
    BY <2>2 DEF Stored!Fail, SavingSInv, SavingWhole, Stored!Whole, SavingKept
  <2> QED
    BY <2>1, <2>2
<1> QED
  BY <1>2, <1>3 DEF SavingSInv

\* What the power takes is not what was kept.
LEMMA LossKeeps ==
  ASSUME SavingAlone, SavingInv, SavingSInv, Stored!LosePower
  PROVE  storedTarget' \in storedOlder \cup {storedTarget}
<1>1. PICK f \in storedOlder \cup {storedTarget} : storedTarget' \in Stored!AfterLoss(f)
  BY DEF Stored!LosePower
<1>2. f = NoThing \/ f.durable
  BY DEF Stored!LosePower, SavingAlone, SavingSInv, SavingWhole, SavingKept
<1> QED
  BY <1>1, <1>2 DEF Stored!AfterLoss

LEMMA OutsideAlone ==
  ASSUME SavingAlone, SavingInv, SavingSInv, Stored!Settle \/ Stored!Crash \/ Stored!LosePower
  PROVE  SavingSInv'
<1>1. CASE Stored!Settle
  BY <1>1 DEF Stored!Settle, SavingSInv, SavingOnce, SavingKnows, SavingWhole, SavingKept, Stored!Whole
<1>2. CASE Stored!Crash
  BY <1>2 DEF Stored!Crash, SavingSInv, SavingOnce, SavingKnows, SavingWhole, SavingKept, Stored!Whole, Stored!Idle
<1>3. CASE Stored!LosePower
  <2>1. SavingOnce' /\ SavingKnows'
    BY <1>3 DEF Stored!LosePower, SavingOnce, SavingKnows, Stored!Idle
  <2>2. SavingWhole'
    BY <1>3, LossKeeps DEF Stored!LosePower, SavingSInv, SavingWhole, SavingKept, Stored!Whole
  <2> QED
    BY <2>1, <2>2 DEF SavingSInv
<1> QED
  BY <1>1, <1>2, <1>3

LEMMA InitAlone == ASSUME SavingAlone PROVE Stored!Init => SavingSInv
  BY DEF SavingAlone, Stored!Init, SavingSInv, SavingOnce, SavingKnows, SavingWhole, Stored!Whole, SavingKept, Stored!Idle

LEMMA NextAlone == ASSUME SavingAlone PROVE SavingInv /\ SavingSInv /\ [Stored!Next]_Stored!vars => SavingSInv'
<1> SUFFICES ASSUME SavingInv, SavingSInv, [Stored!Next]_Stored!vars PROVE SavingSInv'
  OBVIOUS
<1>1. ASSUME NEW w \in Writer, Stored!Work(w) PROVE SavingSInv'
  BY <1>1, CreateAlone, WritingAlone, EndAlone DEF Stored!Work
<1>2. CASE Stored!Settle \/ Stored!Crash \/ Stored!LosePower
  BY <1>2, OutsideAlone
<1>3. CASE UNCHANGED Stored!vars
  BY <1>3 DEF Stored!vars, SavingSInv, SavingOnce, SavingKnows, SavingWhole, SavingKept, Stored!Whole
<1> QED
  BY <1>1, <1>2, <1>3 DEF Stored!Next

LEMMA SavingInvariance == ASSUME SavingAlone PROVE Stored!Spec => [](SavingInv /\ SavingSInv)
<1>1. SavingDistinct
  BY DEF SavingAlone
<1> QED
  BY <1>1, SavingInitInv, SavingNextInv, InitAlone, NextAlone, PTL DEF Stored!Spec

\* What read_versioned_json finds is no file or a whole one, wherever a save of the
\* file was interrupted, when no other save of it overlaps.
THEOREM SavesAreWhole == ASSUME SavingAlone PROVE Stored!Spec => []Stored!TargetIsWhole
<1>1. SavingSInv => Stored!TargetIsWhole
  BY DEF SavingSInv, SavingWhole, Stored!TargetIsWhole
<1> QED
  BY <1>1, SavingInvariance, PTL

-----------------------------------------------------------------------------
(***************************************************************************)
(* AtomicPersistence implements DurableRegister.                           *)
(***************************************************************************)

LEMMA FoundTyped ==
  ASSUME SavingInv, SavingSInv, NEW f \in storedOlder \cup {storedTarget}
  PROVE  Stored!Found(f) \in SavedValue \cup {NoThing}
  BY DEF SavingSInv, SavingWhole, Stored!Whole, Stored!Found

LEMMA InitRegister == ASSUME SavingAlone PROVE Stored!Init => Stored!Register!Init
<1> SUFFICES ASSUME Stored!Init PROVE Stored!Register!Init
  OBVIOUS
<1>1. Stored!found \in SavedValue \cup {NoThing}
  BY DEF Stored!Init, Stored!found, Stored!Found
<1>2. Stored!foundBefore = {}
  BY DEF Stored!Init, Stored!foundBefore
<1> QED
  BY <1>1, <1>2 DEF Stored!Register!Init

LEMMA RegisterStutters ==
  ASSUME UNCHANGED <<storedTarget, storedOlder>>
  PROVE  UNCHANGED Stored!Register!vars
  BY DEF Stored!Register!vars, Stored!found, Stored!foundBefore

LEMMA RegisterSaves ==
  ASSUME SavingDistinct, SavingInv, SavingSInv, NEW w \in Writer, Stored!Rename(w)
  PROVE  Stored!Register!Save(storedCall[w].value) /\ storedCall[w].value \in SavedValue
<1>1. storedTmp \in Stored!File /\ storedTmp.value = storedCall[w].value /\ storedCall[w].value \in SavedValue
  BY RenamesWhole
<1>2. Stored!found' = storedCall[w].value
  BY <1>1 DEF Stored!Rename, Stored!found, Stored!Found, SavingDistinct
<1>3. Stored!foundBefore' = Stored!foundBefore \cup {Stored!found}
  BY DEF Stored!Rename, Stored!foundBefore, Stored!found
<1> QED
  BY <1>1, <1>2, <1>3 DEF Stored!Register!Save

LEMMA NextRegister ==
  ASSUME SavingAlone, SavingInv, SavingSInv, [Stored!Next]_Stored!vars
  PROVE  [Stored!Register!Next]_Stored!Register!vars
<1>1. ASSUME NEW w \in Writer, Stored!Work(w) PROVE [Stored!Register!Next]_Stored!Register!vars
  <2>1. CASE \E v \in SavedValue : Stored!Create(w, v)
    BY <2>1, RegisterStutters DEF Stored!Create
  <2>2. CASE Stored!StartWriting(w) \/ Stored!FinishWriting(w) \/ Stored!Sync(w)
    <3>1. storedCall[w].at = "tmp"
      BY <2>2 DEF Stored!StartWriting, Stored!FinishWriting, Stored!Sync, SavingSInv, SavingKnows
    <3>2. UNCHANGED <<storedTarget, storedOlder>>
      BY <2>2, <3>1 DEF Stored!StartWriting, Stored!FinishWriting, Stored!Sync, Stored!Into
    <3> QED
      BY <3>2, RegisterStutters
  <2>3. CASE Stored!Rename(w)
    BY <2>3, RegisterSaves DEF Stored!Register!Next, SavingAlone
  <2>4. CASE Stored!Fail(w)
    BY <2>4, RegisterStutters DEF Stored!Fail
  <2> QED
    BY <1>1, <2>1, <2>2, <2>3, <2>4 DEF Stored!Work
<1>2. CASE Stored!Settle
  <2>1. Stored!found' = Stored!found /\ Stored!foundBefore' = {}
    BY <1>2 DEF Stored!Settle, Stored!found, Stored!foundBefore
  <2> QED
    BY <2>1 DEF Stored!Register!Next, Stored!Register!Settle
<1>3. CASE Stored!Crash
  BY <1>3, RegisterStutters DEF Stored!Crash
<1>4. CASE Stored!LosePower
  <2>1. Stored!found' \in Stored!foundBefore \cup {Stored!found} /\ Stored!foundBefore' = {}
    BY <1>4, LossKeeps DEF Stored!LosePower, Stored!found, Stored!foundBefore
  <2> QED
    BY <2>1 DEF Stored!Register!Next, Stored!Register!LosePower
<1>5. CASE UNCHANGED Stored!vars
  BY <1>5, RegisterStutters DEF Stored!vars
<1> QED
  BY <1>1, <1>2, <1>3, <1>4, <1>5 DEF Stored!Next

\* Readers of a file see a register that changes by whole saves only, and that a
\* loss of power takes back to a value that was saved before.
THEOREM SavingRefinement == ASSUME SavingAlone PROVE Stored!Spec => Stored!ImplementsRegister
<1>1. SavingInv /\ SavingSInv /\ [Stored!Next]_Stored!vars => [Stored!Register!Next]_Stored!Register!vars
  BY NextRegister
<1> QED
  BY <1>1, InitRegister, SavingInvariance, PTL DEF Stored!Spec, Stored!ImplementsRegister, Stored!Register!Spec

-----------------------------------------------------------------------------
(***************************************************************************)
(* A bundled Java that is downloaded (JavaRuntime).                        *)
(***************************************************************************)

\* Until a call has moved an unpacked Java into its place nothing is there, and
\* what it moves is whole.
JavaInv ==
    /\ javaPc \in [Caller -> Java!Step]
    /\ javaBundled \in {"none", "whole"}
    /\ \A c \in Caller :
          /\ javaPc[c] \in {"download", "check", "clear", "unpack", "move"} => javaBundled = "none"
          /\ javaPc[c] = "move" => javaStaging = "whole"

LEMMA JavaInitially == Java!Init => JavaInv
  BY DEF Java!Init, JavaInv, Java!Step

LEMMA JavaStep == JavaInv /\ [Java!Next]_Java!vars => JavaInv'
<1> SUFFICES ASSUME JavaInv, [Java!Next]_Java!vars PROVE JavaInv'
  OBVIOUS
<1> PICK c \in Caller : Caller = {c}
  BY OneCallAtATime
<1> USE DEF JavaInv, Java!Step
<1>1. CASE Java!Find(c)
  BY <1>1 DEF Java!Find, Java!Goto
<1>2. CASE Java!Download(c)
  BY <1>2 DEF Java!Download, Java!Goto
<1>3. CASE Java!Check(c)
  BY <1>3 DEF Java!Check, Java!Goto
<1>4. CASE Java!Clear(c)
  BY <1>4 DEF Java!Clear, Java!Goto
<1>5. CASE Java!Unpack(c)
  BY <1>5 DEF Java!Unpack, Java!Goto
<1>6. CASE Java!Move(c)
  BY <1>6 DEF Java!Move, Java!Goto
<1>7. CASE Java!Verify(c)
  BY <1>7 DEF Java!Verify, Java!Goto
<1>8. CASE Java!Done(c)
  BY <1>8 DEF Java!Done, Java!Goto
<1>9. CASE Java!Crash
  BY <1>9 DEF Java!Crash
<1>10. CASE UNCHANGED Java!vars
  BY <1>10 DEF Java!vars
<1> QED
  BY <1>1, <1>2, <1>3, <1>4, <1>5, <1>6, <1>7, <1>8, <1>9, <1>10 DEF Java!Next

\* With one call at a time no half of a Java is found where the bundled one is looked for,
\* however its downloads, renames and cleanups fail or crash (java_manager.rs).
THEOREM BundledJavaIsWhole == Java!Spec => []Java!BundledIsWhole
<1>1. JavaInv => Java!BundledIsWhole
  BY DEF JavaInv, Java!BundledIsWhole
<1> QED
  BY <1>1, JavaInitially, JavaStep, PTL DEF Java!Spec

-----------------------------------------------------------------------------
(***************************************************************************)
(* The backup of a server's directory and its restore (DirectoryBackup).   *)
(***************************************************************************)

\* Once the server's directory is moved away, all that the archive holds waits for
\* its place and the old tree is here or in what an earlier restore left.
BackupInv ==
    /\ backupServer \in {"none"} \cup Backup!Readable
    /\ backupRollback \in {"none"} \cup Backup!Readable
    /\ backupServer = "none" => Backup!Readable \cap ({backupRollback} \cup backupLeft) # {}
    /\ backupPc \in {"away", "into", "back"} => backupStaging \in Backup!Readable
    /\ backupPc = "away" => backupServer # "none"
    /\ backupPc = "back" => backupRollback # "none"
    /\ backupPc \notin {"into", "back", "discard"} => backupRollback = "none"
    /\ backupPc = "discard" => backupServer # "none"

LEMMA BackupInitially == Backup!Init => BackupInv
  BY DEF Backup!Init, BackupInv, Backup!Readable, Backup!Whole

LEMMA BackupStep == BackupInv /\ [Backup!Next]_Backup!vars => BackupInv'
<1> SUFFICES ASSUME BackupInv, [Backup!Next]_Backup!vars PROVE BackupInv'
  OBVIOUS
<1> USE DEF BackupInv, Backup!Readable, Backup!Whole
<1>1. CASE Backup!Play
  BY <1>1 DEF Backup!Play
<1>2. CASE Backup!Backup
  BY <1>2 DEF Backup!Backup
<1>3. CASE Backup!Walk
  BY <1>3 DEF Backup!Walk
<1>4. CASE Backup!Restore
  BY <1>4 DEF Backup!Restore
<1>5. CASE Backup!Unpack
  BY <1>5 DEF Backup!Unpack
<1>6. CASE Backup!Clean
  BY <1>6 DEF Backup!Clean
<1>7. CASE Backup!MoveAway
  BY <1>7 DEF Backup!MoveAway
<1>8. CASE Backup!MoveInto
  BY <1>8 DEF Backup!MoveInto
<1>9. CASE Backup!MoveBack
  BY <1>9 DEF Backup!MoveBack
<1>10. CASE Backup!Discard
  BY <1>10 DEF Backup!Discard
<1>11. CASE Backup!Crash
  BY <1>11 DEF Backup!Crash
<1>12. CASE UNCHANGED Backup!vars
  BY <1>12 DEF Backup!vars
<1> QED
  BY <1>1, <1>2, <1>3, <1>4, <1>5, <1>6, <1>7, <1>8, <1>9, <1>10, <1>11, <1>12 DEF Backup!Next

\* After any failures and crashes of restores and of their undoing, the server's directory
\* is a tree that was there or in an archive, or absent with such a one beside it; it is
\* never half unpacked (restore_server_backup).
THEOREM RestoredServerIsOneTree == Backup!Spec => []Backup!ServerIsOneTree
<1>1. BackupInv => Backup!ServerIsOneTree
  BY DEF BackupInv, Backup!ServerIsOneTree, Backup!Readable, Backup!Whole
<1> QED
  BY <1>1, BackupInitially, BackupStep, PTL DEF Backup!Spec

-----------------------------------------------------------------------------
(***************************************************************************)
(* The install of a modpack over a server with mods (ModpackInstall).      *)
(***************************************************************************)

\* What the server had is live or saved; once the backup was made, it is saved or kept.
PackInv ==
    /\ packHad \subseteq Modpack!Copies(packLive) \cup packSaved \cup packKept
    /\ packStep = "backup" => packHad \subseteq Modpack!Copies(packLive)
    /\ packStep \notin {"idle", "backup"} => packHad \subseteq packSaved \cup packKept

LEMMA PackInitially == Modpack!Init => PackInv
  BY DEF Modpack!Init, PackInv

LEMMA PackStep == PackInv /\ [Modpack!Next]_Modpack!vars => PackInv'
<1> SUFFICES ASSUME PackInv, [Modpack!Next]_Modpack!vars PROVE PackInv'
  OBVIOUS
<1> USE DEF PackInv, Modpack!server, Modpack!staging, Modpack!Goto, Modpack!Return
<1>1. ASSUME NEW kind, NEW l, NEW M, Modpack!Begin(kind, l, M) PROVE PackInv'
  BY <1>1 DEF Modpack!Begin, Modpack!Copies, Modpack!In
<1>2. CASE Modpack!Backup
  BY <1>2 DEF Modpack!Backup, Modpack!Targets, Modpack!Copies, Modpack!In
<1>3. CASE Modpack!Prepare
  BY <1>3 DEF Modpack!Prepare
<1>4. ASSUME NEW m \in PackMod, Modpack!DownloadFile(m) PROVE PackInv'
  BY <1>4 DEF Modpack!DownloadFile
<1>5. CASE Modpack!FilesDone \/ Modpack!DownloadAll \/ Modpack!Overrides
  BY <1>5 DEF Modpack!FilesDone, Modpack!DownloadAll, Modpack!Overrides
<1>6. CASE Modpack!QuarantineLive
  BY <1>6 DEF Modpack!QuarantineLive
<1>7. CASE Modpack!QuarantineStaged \/ Modpack!Exclude \/ Modpack!Repair
  BY <1>7 DEF Modpack!QuarantineStaged, Modpack!Exclude, Modpack!Repair
<1>8. CASE Modpack!State \/ Modpack!Validate \/ Modpack!Resume
  BY <1>8 DEF Modpack!State, Modpack!Validate, Modpack!Resume
<1>9. CASE Modpack!Commit
  BY <1>9 DEF Modpack!Commit
<1>10. CASE Modpack!Save
  BY <1>10 DEF Modpack!Save
<1>11. CASE Modpack!Crash
  BY <1>11 DEF Modpack!Crash, Modpack!Copies, Modpack!In
<1>12. CASE UNCHANGED Modpack!vars
  BY <1>12 DEF Modpack!vars, Modpack!Copies, Modpack!In
<1> QED
  BY <1>1, <1>2, <1>3, <1>4, <1>5, <1>6, <1>7, <1>8, <1>9, <1>10, <1>11, <1>12 DEF Modpack!Next

\* Every mod that the live server had when a modpack install began is live, aside, or in a
\* backup that was made or kept, wherever the install stops (modpack install).
THEOREM OldModsStay == Modpack!Spec => []Modpack!OldModsAreKept
<1>1. PackInv => Modpack!OldModsAreKept
  BY DEF PackInv, Modpack!OldModsAreKept
<1> QED
  BY <1>1, PackInitially, PackStep, PTL DEF Modpack!Spec

-----------------------------------------------------------------------------
(***************************************************************************)
(* The scan for client-only mods (ModSide).                                *)
(***************************************************************************)

\* No file is cached as safe, or left by a whole scan, that metadata or Modrinth call
\* client-only.
SideUnwanted == DeclaredJar \cup RemoteJar

SideInv ==
    /\ sideClock \in Nat \ {0}
    /\ sideMods \in [JarName -> [jar : JarContent \cup {NoContent}, time : 0..sideClock]]
    /\ sideCache \in [JarName -> 0..sideClock]
    /\ \A n \in Side!Files : Side!Cached(n) => sideMods[n].jar \notin SideUnwanted
    /\ sideScanned => \A n \in Side!Files : sideMods[n].jar \notin SideUnwanted

LEMMA SideInitially == Side!Init => SideInv
  BY DEF Side!Init, SideInv, Side!NoFile, Side!Files

LEMMA SideChanges ==
  ASSUME SideInv, NEW n \in JarName, NEW j \in JarContent \cup {NoContent}, Side!Change(n, j)
  PROVE  SideInv'
<1>1. sideClock' = sideClock + 1 /\ sideClock' \in Nat \ {0} /\ 0..sideClock \subseteq 0..sideClock'
  BY DEF SideInv, Side!Change
<1>2. sideMods' \in [JarName -> [jar : JarContent \cup {NoContent}, time : 0..sideClock']]
  BY <1>1 DEF SideInv, Side!Change, Side!NoFile
<1>3. sideCache' \in [JarName -> 0..sideClock'] /\ sideCache' = sideCache
  BY <1>1 DEF SideInv, Side!Change
<1>4. ASSUME NEW m \in Side!Files', Side!Cached(m)' PROVE sideMods'[m].jar \notin SideUnwanted
  <2>0. m \in JarName /\ sideMods'[m] # Side!NoFile
    BY <1>4 DEF Side!Files, Side!NoFile
  <2>1. m # n
    <3> SUFFICES ASSUME m = n PROVE FALSE
      OBVIOUS
    <3>1. sideMods'[n].time = sideClock + 1
      BY <2>0 DEF Side!Change, SideInv, Side!NoFile
    <3>2. sideCache[n] \in 0..sideClock
      BY DEF SideInv
    <3> QED
      BY <1>3, <1>4, <3>1, <3>2 DEF SideInv, Side!Cached
  <2>2. sideMods'[m] = sideMods[m]
    BY <2>0, <2>1 DEF Side!Change, SideInv
  <2> QED
    BY <1>3, <1>4, <2>0, <2>2 DEF SideInv, Side!Cached, Side!Files
<1> QED
  BY <1>1, <1>2, <1>3, <1>4 DEF SideInv, Side!Change

LEMMA SideScans == ASSUME SideInv, Side!Scan PROVE SideInv'
<1> PICK unsupported \in SUBSET {n \in Side!Asked : Side!JarOf(n) \in RemoteJar} :
      LET whole == unsupported = {n \in Side!Asked : Side!JarOf(n) \in RemoteJar}
          gone == Side!Moved(unsupported)
          safe == IF whole THEN Side!Files \ gone ELSE (Side!Files \ gone) \ Side!Asked
      IN /\ sideMods' = [n \in JarName |-> IF n \in gone THEN Side!NoFile ELSE sideMods[n]]
         /\ sideCache' = [n \in JarName |-> IF n \in safe THEN sideMods[n].time ELSE 0]
         /\ sideScanned' = whole
  BY DEF Side!Scan
<1> DEFINE whole == unsupported = {n \in Side!Asked : Side!JarOf(n) \in RemoteJar}
           gone == Side!Moved(unsupported)
           safe == IF whole THEN Side!Files \ gone ELSE (Side!Files \ gone) \ Side!Asked
<1>0. UNCHANGED sideClock
  BY DEF Side!Scan
<1>1. sideMods' \in [JarName -> [jar : JarContent \cup {NoContent}, time : 0..sideClock]]
  BY DEF SideInv, Side!NoFile
<1>2. sideCache' \in [JarName -> 0..sideClock]
  BY DEF SideInv
<1>3. ASSUME NEW n \in safe PROVE Side!JarOf(n) \notin SideUnwanted
  <2>1. n \in Side!Files /\ n \notin gone
    OBVIOUS
  <2>2. CASE Side!Cached(n)
    BY <2>1, <2>2 DEF SideInv, Side!JarOf
  <2>3. CASE ~Side!Cached(n)
    <3>1. n \notin Side!DeclaredFiles /\ n \notin unsupported
      BY <2>1, <2>3 DEF Side!Moved
    <3>2. n \in Side!Asked
      BY <2>1, <2>3, <3>1 DEF Side!Asked
    <3>3. whole
      BY <3>2
    <3> QED
      BY <2>1, <3>1, <3>2, <3>3 DEF SideUnwanted, Side!DeclaredFiles
  <2> QED
    BY <2>2, <2>3
<1>4. ASSUME NEW n \in Side!Files'
      PROVE  n \in JarName /\ n \in Side!Files /\ n \notin gone /\ sideMods'[n] = sideMods[n]
  BY <1>4 DEF Side!Files, Side!NoFile, SideInv
<1>5. ASSUME NEW n \in Side!Files', Side!Cached(n)' PROVE sideMods'[n].jar \notin SideUnwanted
  <2>1. n \in safe
    BY <1>4, <1>5 DEF Side!Cached
  <2> QED
    BY <1>3, <1>4, <2>1 DEF Side!JarOf
<1>6. ASSUME sideScanned', NEW n \in Side!Files' PROVE sideMods'[n].jar \notin SideUnwanted
  BY <1>3, <1>4, <1>6 DEF Side!JarOf
<1> QED
  BY <1>0, <1>1, <1>2, <1>5, <1>6 DEF SideInv

LEMMA SideScanFails == ASSUME SideInv, Side!ScanFails PROVE SideInv'
<1> PICK gone \in SUBSET Side!Moved({n \in Side!Asked : Side!JarOf(n) \in RemoteJar}) :
      sideMods' = [n \in JarName |-> IF n \in gone THEN Side!NoFile ELSE sideMods[n]]
  BY DEF Side!ScanFails
<1>0. UNCHANGED <<sideClock, sideCache>> /\ ~sideScanned'
  BY DEF Side!ScanFails
<1>1. sideMods' \in [JarName -> [jar : JarContent \cup {NoContent}, time : 0..sideClock]]
  BY DEF SideInv, Side!NoFile
<1>2. ASSUME NEW n \in Side!Files' PROVE n \in Side!Files /\ sideMods'[n] = sideMods[n]
  BY <1>2 DEF Side!Files, Side!NoFile, SideInv
<1> QED
  BY <1>0, <1>1, <1>2 DEF SideInv, Side!Cached

LEMMA SideStep == SideInv /\ [Side!Next]_Side!vars => SideInv'
<1> SUFFICES ASSUME SideInv, [Side!Next]_Side!vars PROVE SideInv'
  OBVIOUS
<1>1. CASE UNCHANGED Side!vars
  BY <1>1 DEF Side!vars, SideInv, Side!Files, Side!Cached
<1> QED
  BY <1>1, SideChanges, SideScans, SideScanFails DEF Side!Next

\* A scan that looked at every JAR has left none that its metadata or Modrinth calls
\* client-only: no verdict that was cached for an earlier file hides one.
THEOREM ScanLeavesNoUnwanted == Side!Spec => []Side!ScanIsComplete
<1>1. SideInv => Side!ScanIsComplete
  BY DEF SideInv, Side!ScanIsComplete, SideUnwanted, Side!JarOf
<1> QED
  BY <1>1, SideInitially, SideStep, PTL DEF Side!Spec

-----------------------------------------------------------------------------
(***************************************************************************)
(* A node's instance (NodeInstance).                                       *)
(***************************************************************************)

\* What a prepare has checked holds as long as it goes on.
NodeInv ==
    /\ nodeFaults \in Nat
    /\ nodeJar = Node!None \/ (nodeJar # Node!None /\ nodeJar.size \in {"small", "whole"})
    /\ nodeCall \in [step : Node!Step \cup {"idle"}, spec : Node!Spec_ \cup {Node!None}]
    /\ nodeCall.step \in {"java", "runtime", "eula", "properties"} => nodeCall.spec \in Node!Spec_
    /\ Node!PreparedIsWhole

LEMMA NodeInitially == Node!Init => NodeInv
  BY DEF Node!Init, NodeInv, Node!PreparedIsWhole, Node!Idle, Node!Step

LEMMA NodeRuntime ==
  ASSUME NEW spec \in Node!Spec_, NEW size
  PROVE  Node!Runtime(spec, size) # Node!None /\ Node!Runtime(spec, size).size = size
  BY DEF Node!Runtime, Node!None, Node!Spec_, Node!Distribution

LEMMA NodeStep == NodeInv /\ [Node!Next]_Node!vars => NodeInv'
<1> SUFFICES ASSUME NodeInv, [Node!Next]_Node!vars PROVE NodeInv'
  OBVIOUS
<1> USE DEF Node!files, Node!Goto, Node!Return, Node!Idle, Node!Step, Node!Works, Node!Fails
<1>1. ASSUME NEW spec \in Node!Spec_, Node!Prepare(spec) PROVE NodeInv'
  BY <1>1 DEF NodeInv, Node!PreparedIsWhole, Node!Prepare
<1>2. CASE Node!Java
  BY <1>2 DEF NodeInv, Node!PreparedIsWhole, Node!Java
<1>3. CASE Node!Install
  <2>1. nodeCall.spec \in Node!Spec_
    BY <1>3 DEF NodeInv, Node!Install
  <2>2. CASE nodeCall.spec.distribution \in Node!Loader
    BY <1>3, <2>1, <2>2 DEF NodeInv, Node!PreparedIsWhole, Node!Install
  <2>3. CASE nodeCall.spec.distribution \notin Node!Loader
    BY <1>3, <2>1, <2>3, NodeRuntime DEF NodeInv, Node!PreparedIsWhole, Node!Install, Node!Torn
  <2> QED
    BY <2>2, <2>3
<1>4. CASE Node!Reuse
  <2>1. nodeCall.step = "runtime"
    BY <1>4 DEF NodeInv, Node!Reuse
  <2> QED
    BY <1>4, <2>1 DEF NodeInv, Node!PreparedIsWhole, Node!Reuse, Node!Reusable
<1>5. CASE Node!Eula
  <2>1. /\ nodeCall.step = "eula" /\ UNCHANGED <<nodeJar, nodeLoader>>
        /\ nodeCall' = [nodeCall EXCEPT !.step = "properties"] \/ nodeCall' = Node!Idle
    BY <1>5 DEF Node!Eula
  <2>2. UNCHANGED nodeFaults \/ nodeFaults' = nodeFaults + 1
    BY <1>5 DEF Node!Eula, Node!Works, Node!Fails
  <2> QED
    BY <2>1, <2>2 DEF NodeInv, Node!PreparedIsWhole
<1>6. CASE Node!Properties
  BY <1>6 DEF NodeInv, Node!PreparedIsWhole, Node!Properties
<1>7. CASE Node!Edit \/ Node!Start \/ Node!Exit
  BY <1>7 DEF NodeInv, Node!PreparedIsWhole, Node!Edit, Node!Start, Node!Exit
<1>8. CASE Node!CallStop \/ Node!CallDelete
  BY <1>8 DEF NodeInv, Node!PreparedIsWhole, Node!CallStop, Node!CallDelete
<1>9. CASE Node!Stop
  BY <1>9 DEF NodeInv, Node!PreparedIsWhole, Node!Stop
<1>10. CASE Node!Delete
  BY <1>10 DEF NodeInv, Node!PreparedIsWhole, Node!Delete
<1>11. CASE Node!Crash
  BY <1>11 DEF NodeInv, Node!PreparedIsWhole, Node!Crash, Node!Torn
<1>12. CASE UNCHANGED Node!vars
  BY <1>12 DEF NodeInv, Node!PreparedIsWhole, Node!vars
<1> QED
  BY <1>1, <1>2, <1>3, <1>4, <1>5, <1>6, <1>7, <1>8, <1>9, <1>10, <1>11, <1>12 DEF Node!Next

\* A prepare that goes on to the licence and the properties has a whole JAR, or the
\* runtime of the loader and version that it was asked for.
THEOREM PreparedNodeIsWhole == Node!Spec => []Node!PreparedIsWhole
<1>1. NodeInv => Node!PreparedIsWhole
  BY DEF NodeInv
<1> QED
  BY <1>1, NodeInitially, NodeStep, PTL DEF Node!Spec

\* A stop that succeeds has ended the node's process, and only a delete takes away the
\* server.properties that the user has edited.
THEOREM StoppedNodeIsEnded == Node!Spec => Node!StoppedIsEnded
<1> DEFINE A == /\ nodeCall.step = "stop" /\ nodeCall'.step = "idle" /\ nodeFaults' = nodeFaults => ~nodeRunning'
                /\ nodeProperties = "edited" /\ nodeProperties' # "edited" => nodeCall.step = "delete"
<1>1. NodeInv /\ [Node!Next]_Node!vars => [A]_Node!vars
  <2> SUFFICES ASSUME nodeFaults \in Nat, Node!Next PROVE A
    BY DEF NodeInv
  <2> USE DEF Node!files, Node!Goto, Node!Return, Node!Idle, Node!Works, Node!Fails
  <2>1. CASE \E spec \in Node!Spec_ : Node!Prepare(spec)
    BY <2>1 DEF Node!Prepare
  <2>2. CASE Node!Java \/ Node!Install \/ Node!Reuse \/ Node!Eula
    BY <2>2 DEF Node!Java, Node!Install, Node!Reuse, Node!Eula
  <2>3. CASE Node!Properties
    BY <2>3 DEF Node!Properties, Node!EnsuredProperties
  <2>4. CASE Node!Edit \/ Node!Start \/ Node!Exit
    BY <2>4 DEF Node!Edit, Node!Start, Node!Exit
  <2>5. CASE Node!CallStop \/ Node!CallDelete
    BY <2>5 DEF Node!CallStop, Node!CallDelete
  <2>6. CASE Node!Stop
    BY <2>6 DEF Node!Stop, Node!Kill
  <2>7. CASE Node!Delete
    BY <2>7 DEF Node!Delete
  <2>8. CASE Node!Crash
    BY <2>8 DEF Node!Crash
  <2> QED
    BY <2>1, <2>2, <2>3, <2>4, <2>5, <2>6, <2>7, <2>8 DEF Node!Next
<1> QED
  BY <1>1, NodeInitially, NodeStep, PTL DEF Node!Spec, Node!StoppedIsEnded

-----------------------------------------------------------------------------
(***************************************************************************)
(* The configuration profiles of a server (Profiles).                      *)
(***************************************************************************)

ProfilesWork ==
    [step : {"load", "read", "stamp", "copy", "write", "rename"},
     op : Saved!Op, profile : Profile, activate : BOOLEAN,
     work : Saved!Content \cup {Saved!None}, then : {"stamp", "idle"}]

\* A call that draws an identifier and has not listed it yet.
ProfilesDraws(k) ==
    /\ k.op \in {"create", "duplicate"}
    /\ k.step \in {"load", "read", "stamp"} \/ k.then = "stamp"

\* What a call is about to save lists what the file lists, but for the profile it deletes.
ProfilesKnows(k) ==
    /\ profilesFile.kind \in {"none", "whole"}
    /\ k.work.kind = "whole"
    /\ profilesFile.listed \ k.work.listed \subseteq (IF k.op = "delete" THEN {k.profile} ELSE {})
    /\ k.then = "stamp" => profilesFile.listed \subseteq k.work.listed

ProfilesUnlisted(p) == p \notin profilesFile.listed \cup profilesCache.listed

\* A call at work: its list names the active profile and has no half of a directory, its
\* temporary file is its list, and the directory it makes is no listed one.
ProfilesCallOK(k) ==
    /\ k \in ProfilesWork
    /\ k.work.kind = "whole" => k.work.active \in k.work.listed
    /\ k.step \in {"load", "read"} => k.work = Saved!None
    /\ k.step = "stamp" => k.then = "stamp"
    /\ k.step \in {"stamp", "copy", "write", "rename"} => ProfilesKnows(k)
    /\ k.step = "rename" => profilesTmp = k.work
    /\ \A q \in k.work.listed : profilesDir[q] # "partial"
    /\ ProfilesDraws(k) =>
          profilesDir[k.profile] = "none" /\ ProfilesUnlisted(k.profile) /\ k.profile \notin k.work.listed
    /\ k.step = "copy" =>
          /\ k.op = "duplicate" /\ k.then = "idle"
          /\ profilesDir[k.profile] = "none" /\ ProfilesUnlisted(k.profile)

ProfilesTypes ==
    /\ profilesFile \in Saved!Content \cup {Saved!Useless(k) : k \in {"none", "corrupt", "future"}}
    /\ profilesTmp \in Saved!Content \cup {Saved!None, Saved!Useless("corrupt")}
    /\ profilesCache \in Saved!Content \cup {Saved!None}
    /\ profilesCurrent \in BOOLEAN
    /\ profilesDir \in [Profile -> {"none", "partial", "whole"}]
    /\ profilesCall \in [Caller -> {Saved!Idle} \cup ProfilesWork]

\* The file, the cache as long as it is current, and the calls agree about what is listed.
ProfilesInv ==
    /\ ProfilesTypes
    /\ profilesCache # Saved!None => profilesCache.active \in profilesCache.listed
    /\ profilesCurrent /\ profilesFile # Saved!None =>
          profilesFile.kind = "whole" /\ profilesFile.listed \subseteq profilesCache.listed
    /\ \A q \in profilesFile.listed \cup profilesCache.listed : profilesDir[q] # "partial"
    /\ \A c \in Caller : profilesCall[c] = Saved!Idle \/ ProfilesCallOK(profilesCall[c])

LEMMA ProfilesInitially == Saved!Init => ProfilesInv
<1> SUFFICES ASSUME Saved!Init PROVE ProfilesInv
  OBVIOUS
<1>1. Saved!None.listed = {} /\ Saved!None = Saved!Useless("none")
  BY DEF Saved!None, Saved!Useless
<1>2. ProfilesTypes
  BY <1>1 DEF Saved!Init, ProfilesTypes
<1> QED
  BY <1>1, <1>2 DEF Saved!Init, ProfilesInv

LEMMA SavedCardinality == ASSUME NEW S PROVE Saved!Cardinality(S) = Cardinality(S)
  BY DEF Saved!Cardinality, Cardinality

LEMMA ProfilesChanged ==
  ASSUME NEW f \in Saved!Content, f.active \in f.listed,
         NEW op \in Saved!Op, NEW p \in Profile, NEW a \in BOOLEAN,
         Saved!Changed(f, op, p, a) # Saved!None
  PROVE  LET new == Saved!Changed(f, op, p, a) IN
         /\ new \in Saved!Content /\ new.active \in new.listed
         /\ f.listed \ new.listed \subseteq (IF op = "delete" THEN {p} ELSE {})
         /\ new.listed \ f.listed \subseteq (IF op \in {"create", "duplicate"} THEN {p} ELSE {})
<1> USE DEF Saved!Content, Saved!Op
<1>1. CASE op \in {"create", "duplicate"}
  <2>1. Saved!Changed(f, op, p, a) = [kind |-> f.kind, listed |-> f.listed \cup {p},
                                     active |-> IF a THEN p ELSE f.active]
    BY <1>1 DEF Saved!Changed
  <2> QED
    BY <1>1, <2>1
<1>2. CASE op = "delete" /\ p \in f.listed
  <2>1. Saved!Cardinality(f.listed) > 1
    BY <1>2 DEF Saved!Changed
  <2>2. f.listed # {p}
    <3>1. Saved!Cardinality({p}) = 1
      BY SavedCardinality, FS_Singleton
    <3> QED
      BY <2>1, <3>1
  <2>3. PICK q \in f.listed \ {p} : TRUE
    BY <1>2, <2>2
  <2>4. (CHOOSE r \in f.listed \ {p} : TRUE) \in f.listed \ {p}
    BY <2>3
  <2>5. Saved!ActiveWithout(f, p) \in f.listed \ {p}
    BY <2>4 DEF Saved!ActiveWithout
  <2>6. Saved!Changed(f, op, p, a) = [kind |-> f.kind, listed |-> f.listed \ {p},
                                     active |-> Saved!ActiveWithout(f, p)]
    BY <1>2, <2>1 DEF Saved!Changed
  <2> QED
    BY <1>2, <2>5, <2>6
<1>3. CASE op = "activate" /\ p \in f.listed
  <2>1. Saved!Changed(f, op, p, a) = [kind |-> f.kind, listed |-> f.listed, active |-> p]
    BY <1>3 DEF Saved!Changed
  <2> QED
    BY <1>3, <2>1
<1>4. CASE op = "edit" /\ p \in f.listed
  BY <1>4 DEF Saved!Changed
<1>5. op \in {"create", "duplicate"} \/ p \in f.listed
  BY DEF Saved!Changed
<1> QED
  BY <1>1, <1>2, <1>3, <1>4, <1>5

LEMMA ProfilesProceed ==
  ASSUME NEW c, Caller = {c}, ProfilesTypes, profilesCall[c] \in ProfilesWork,
         NEW f \in Saved!Content, f.active \in f.listed, Saved!Proceed(c, f),
         UNCHANGED <<profilesFile, profilesTmp, profilesDir>>,
         profilesFile.kind \in {"none", "whole"}, profilesFile.listed \subseteq f.listed,
         \A q \in f.listed : profilesDir[q] # "partial",
         profilesCall[c].op \in {"create", "duplicate"} =>
            profilesDir[profilesCall[c].profile] = "none" /\ profilesCall[c].profile \notin profilesFile'.listed \cup profilesCache'.listed
  PROVE  (profilesCall[c] = Saved!Idle \/ ProfilesCallOK(profilesCall[c]))'
<1> DEFINE k == profilesCall[c]
           new == Saved!Changed(f, k.op, k.profile, k.activate)
<1>1. CASE new = Saved!None
  BY <1>1 DEF Saved!Proceed, Saved!Return, ProfilesTypes
<1>2. CASE new # Saved!None
  <2>0. k.op \in Saved!Op /\ k.profile \in Profile /\ k.activate \in BOOLEAN
    BY DEF ProfilesWork
  <2>1. /\ new \in Saved!Content /\ new.active \in new.listed
        /\ f.listed \ new.listed \subseteq (IF k.op = "delete" THEN {k.profile} ELSE {})
        /\ new.listed \ f.listed \subseteq (IF k.op \in {"create", "duplicate"} THEN {k.profile} ELSE {})
    BY <1>2, <2>0, ProfilesChanged
  <2> HIDE DEF new
  <2>2. /\ profilesCall'[c] \in ProfilesWork
        /\ profilesCall'[c].op = k.op /\ profilesCall'[c].profile = k.profile
        /\ profilesCall'[c].work = new /\ profilesCall'[c].then = "idle"
        /\ profilesCall'[c].step = IF k.op = "duplicate" THEN "copy" ELSE "write"
    BY <1>2, <2>1 DEF Saved!Proceed, ProfilesTypes, ProfilesWork, new
  <2>3. \A q \in new.listed : profilesDir'[q] # "partial"
    BY <2>1
  <2>4. new.kind = "whole"
    BY <2>1 DEF Saved!Content
  <2> QED
    BY <2>1, <2>2, <2>3, <2>4 DEF ProfilesCallOK, ProfilesKnows, ProfilesDraws, ProfilesUnlisted
<1> QED
  BY <1>1, <1>2

LEMMA ProfilesBegin ==
  ASSUME NEW c, Caller = {c}, ProfilesInv, NEW op \in Saved!Op, NEW p \in Profile, NEW a \in BOOLEAN,
         Saved!Begin(c, op, p, a)
  PROVE  ProfilesInv'
<1> DEFINE k == [step |-> "load", op |-> op, profile |-> p, activate |-> a,
                 work |-> Saved!None, then |-> "idle"]
<1>1. k \in ProfilesWork
  BY DEF ProfilesWork
<1>2. profilesCall' = [profilesCall EXCEPT ![c] = k]
      /\ UNCHANGED <<profilesFile, profilesTmp, profilesCache, profilesCurrent, profilesDir>>
  BY DEF Saved!Begin
<1>3. profilesCall'[c] = k
  BY <1>2 DEF ProfilesInv, ProfilesTypes
<1>4. ProfilesTypes'
  BY <1>1, <1>2 DEF ProfilesInv, ProfilesTypes
<1>5. op \in {"create", "duplicate"} =>
        profilesDir[p] = "none" /\ p \notin profilesFile.listed \cup profilesCache.listed
  BY DEF Saved!Begin, Saved!Fresh
<1>6. Saved!None.kind = "none" /\ Saved!None.listed = {}
  BY DEF Saved!None, Saved!Useless
<1>7. ProfilesCallOK(profilesCall[c])'
  BY <1>1, <1>2, <1>3, <1>5, <1>6 DEF ProfilesCallOK, ProfilesDraws, ProfilesUnlisted
<1> QED
  BY <1>2, <1>4, <1>7 DEF ProfilesInv

LEMMA ProfilesLoad ==
  ASSUME NEW c, Caller = {c}, ProfilesInv, Saved!Load(c)
  PROVE  ProfilesInv'
<1>1. profilesCall[c].step = "load" /\ UNCHANGED <<profilesFile, profilesTmp, profilesCache, profilesCurrent, profilesDir>>
  BY DEF Saved!Load
<1>2. profilesCall[c] \in ProfilesWork /\ ProfilesCallOK(profilesCall[c])
  BY <1>1 DEF ProfilesInv, ProfilesCallOK, Saved!Idle
<1>3. (profilesCall[c] = Saved!Idle \/ ProfilesCallOK(profilesCall[c]))' /\ ProfilesTypes'
  <2>1. CASE profilesFile # Saved!None /\ profilesCache # Saved!None /\ profilesCurrent
    <3>1. profilesCache \in Saved!Content /\ profilesCache.active \in profilesCache.listed
          /\ profilesFile.kind = "whole" /\ profilesFile.listed \subseteq profilesCache.listed
      BY <2>1 DEF ProfilesInv, ProfilesTypes
    <3>2. profilesCall[c].op \in {"create", "duplicate"} =>
            profilesDir[profilesCall[c].profile] = "none" /\ profilesCall[c].profile \notin profilesFile'.listed \cup profilesCache'.listed
      BY <1>1, <1>2 DEF ProfilesCallOK, ProfilesDraws, ProfilesUnlisted
    <3>3. Saved!Proceed(c, profilesCache)
      BY <2>1 DEF Saved!Load
    <3>4. (profilesCall[c] = Saved!Idle \/ ProfilesCallOK(profilesCall[c]))'
      BY <1>1, <1>2, <3>1, <3>2, <3>3, ProfilesProceed DEF ProfilesInv
    <3>5. \E x : profilesCall' = [profilesCall EXCEPT ![c] = x]
      BY <3>3 DEF Saved!Proceed, Saved!Return
    <3> QED
      BY <1>1, <3>4, <3>5 DEF ProfilesInv, ProfilesTypes, ProfilesCallOK
  <2>2. CASE ~(profilesFile # Saved!None /\ profilesCache # Saved!None /\ profilesCurrent)
    <3>1. profilesCall' = [profilesCall EXCEPT ![c].step = "read"]
      BY <2>2 DEF Saved!Load, Saved!Goto
    <3>2. profilesCall'[c] = [profilesCall[c] EXCEPT !.step = "read"]
      BY <3>1 DEF ProfilesInv, ProfilesTypes
    <3>3. profilesCall'[c] \in ProfilesWork
      BY <1>2, <3>2 DEF ProfilesWork
    <3>4. /\ profilesCall'[c].op = profilesCall[c].op /\ profilesCall'[c].profile = profilesCall[c].profile
          /\ profilesCall'[c].work = profilesCall[c].work /\ profilesCall'[c].then = profilesCall[c].then
          /\ profilesCall'[c].step = "read"
      BY <1>2, <3>2 DEF ProfilesWork
    <3> QED
      BY <1>1, <1>2, <3>1, <3>3, <3>4 DEF ProfilesInv, ProfilesTypes, ProfilesCallOK, ProfilesDraws, ProfilesUnlisted
  <2> QED
    BY <2>1, <2>2
<1> QED
  BY <1>1, <1>3 DEF ProfilesInv

\* A step that the call takes to `step', with work `w' and then `t'.
ProfilesGoes(c, step, w, t) ==
    profilesCall' = [profilesCall EXCEPT ![c] =
        [step |-> step, op |-> profilesCall[c].op, profile |-> profilesCall[c].profile,
         activate |-> profilesCall[c].activate, work |-> w, then |-> t]]

LEMMA ProfilesGoto ==
  ASSUME NEW c \in Caller, ProfilesTypes, profilesCall[c] \in ProfilesWork, NEW step, Saved!Goto(c, step)
  PROVE  ProfilesGoes(c, step, profilesCall[c].work, profilesCall[c].then)
<1>1. [profilesCall[c] EXCEPT !.step = step] =
        [step |-> step, op |-> profilesCall[c].op, profile |-> profilesCall[c].profile,
         activate |-> profilesCall[c].activate, work |-> profilesCall[c].work,
         then |-> profilesCall[c].then]
  BY DEF ProfilesWork
<1> QED
  BY <1>1 DEF Saved!Goto, ProfilesGoes, ProfilesTypes

LEMMA ProfilesGone ==
  ASSUME NEW c \in Caller, ProfilesTypes, profilesCall[c] \in ProfilesWork,
         NEW step \in {"load", "read", "stamp", "copy", "write", "rename"},
         NEW w \in Saved!Content \cup {Saved!None}, NEW t \in {"stamp", "idle"}, ProfilesGoes(c, step, w, t)
  PROVE  /\ profilesCall' \in [Caller -> {Saved!Idle} \cup ProfilesWork]
         /\ profilesCall'[c] \in ProfilesWork
         /\ profilesCall'[c].step = step /\ profilesCall'[c].op = profilesCall[c].op
         /\ profilesCall'[c].profile = profilesCall[c].profile
         /\ profilesCall'[c].work = w /\ profilesCall'[c].then = t
  BY DEF ProfilesTypes, ProfilesWork, ProfilesGoes

LEMMA ProfilesReturns ==
  ASSUME NEW c, Caller = {c}, ProfilesTypes, Saved!Return(c)
  PROVE  /\ profilesCall' \in [Caller -> {Saved!Idle} \cup ProfilesWork]
         /\ profilesCall'[c] = Saved!Idle
  BY DEF Saved!Return, ProfilesTypes

LEMMA ProfilesBusy ==
  ASSUME NEW c, Caller = {c}, ProfilesInv, profilesCall[c].step # "idle"
  PROVE  profilesCall[c] \in ProfilesWork /\ ProfilesCallOK(profilesCall[c])
  BY DEF ProfilesInv, ProfilesCallOK, Saved!Idle

LEMMA ProfilesNone == Saved!None.kind = "none" /\ Saved!None.listed = {} /\ Saved!None \notin Saved!Content
  BY DEF Saved!None, Saved!Useless, Saved!Content

LEMMA ProfilesSanitised ==
  ASSUME NEW c, Caller = {c}, ProfilesInv, profilesCall[c].step = "read", profilesFile.kind \in {"none", "whole"},
         NEW f \in Saved!Sanitised(profilesFile)
  PROVE  /\ f \in Saved!Content /\ f.active \in f.listed /\ profilesFile.listed \subseteq f.listed
         /\ \A q \in f.listed : profilesDir[q] # "partial"
         /\ ProfilesDraws(profilesCall[c]) => profilesCall[c].profile \notin f.listed
<1>0. ProfilesCallOK(profilesCall[c]) /\ profilesCall[c] # Saved!Idle
  BY ProfilesBusy DEF Saved!Idle
<1>1. CASE profilesFile.listed = {}
  <2>1. PICK p \in Saved!Fresh : f = [kind |-> "whole", listed |-> {p}, active |-> p]
    BY <1>1 DEF Saved!Sanitised, Saved!Default
  <2>2. p \in Profile /\ profilesDir[p] = "none" /\ p # profilesCall[c].profile
    BY <1>0 DEF Saved!Fresh, Saved!Busy
  <2> QED
    BY <1>1, <2>1, <2>2 DEF Saved!Content
<1>2. CASE profilesFile.listed # {}
  <2>1. profilesFile \in Saved!Content
    BY <1>2 DEF ProfilesInv, ProfilesTypes, Saved!Useless
  <2>2. (CHOOSE p \in profilesFile.listed : TRUE) \in profilesFile.listed
    BY <1>2
  <2>3. f \in Saved!Content /\ f.listed = profilesFile.listed /\ f.active \in f.listed
    BY <1>2, <2>1, <2>2 DEF Saved!Sanitised, Saved!Content
  <2> QED
    BY <1>0, <2>3 DEF ProfilesInv, ProfilesCallOK, ProfilesUnlisted
<1> QED
  BY <1>1, <1>2

LEMMA ProfilesRead ==
  ASSUME NEW c, Caller = {c}, ProfilesInv, Saved!Read(c)
  PROVE  ProfilesInv'
<1>1. profilesCall[c].step = "read" /\ UNCHANGED <<profilesTmp, profilesCache, profilesDir>>
  BY DEF Saved!Read
<1>2. profilesCall[c] \in ProfilesWork /\ ProfilesCallOK(profilesCall[c])
  BY <1>1, ProfilesBusy
<1>3. CASE profilesFile.kind \in {"none", "whole"}
  <2>1. PICK f \in Saved!Sanitised(profilesFile) :
          /\ profilesCall' = [profilesCall EXCEPT ![c].work = f, ![c].step = "write", ![c].then = "stamp"]
          /\ UNCHANGED <<profilesFile, profilesCurrent>>
    BY <1>3 DEF Saved!Read
  <2>2. /\ f \in Saved!Content /\ f.active \in f.listed /\ profilesFile.listed \subseteq f.listed
        /\ \A q \in f.listed : profilesDir[q] # "partial"
        /\ ProfilesDraws(profilesCall[c]) => profilesCall[c].profile \notin f.listed
    BY <1>1, <1>3, ProfilesSanitised
  <2>3. profilesCall'[c] = [profilesCall[c] EXCEPT !.work = f, !.step = "write", !.then = "stamp"]
        /\ profilesCall' = [profilesCall EXCEPT ![c] = profilesCall'[c]]
    BY <2>1 DEF ProfilesInv, ProfilesTypes
  <2>4. /\ profilesCall' \in [Caller -> {Saved!Idle} \cup ProfilesWork]
        /\ profilesCall'[c] \in ProfilesWork
        /\ profilesCall'[c].step = "write" /\ profilesCall'[c].op = profilesCall[c].op
        /\ profilesCall'[c].profile = profilesCall[c].profile
        /\ profilesCall'[c].work = f /\ profilesCall'[c].then = "stamp"
    <3>1. ASSUME NEW k \in ProfilesWork, NEW r, r = [k EXCEPT !.work = f, !.step = "write", !.then = "stamp"]
          PROVE  /\ r \in ProfilesWork /\ r.step = "write" /\ r.op = k.op /\ r.profile = k.profile
                 /\ r.work = f /\ r.then = "stamp"
      BY <2>2, <3>1 DEF ProfilesWork
    <3>2. /\ profilesCall'[c] \in ProfilesWork
          /\ profilesCall'[c].step = "write" /\ profilesCall'[c].op = profilesCall[c].op
          /\ profilesCall'[c].profile = profilesCall[c].profile
          /\ profilesCall'[c].work = f /\ profilesCall'[c].then = "stamp"
      <4>1. PICK k \in ProfilesWork : k = profilesCall[c]
        BY <1>2
      <4>2. PICK r : r = profilesCall'[c]
        OBVIOUS
      <4>3. r = [k EXCEPT !.work = f, !.step = "write", !.then = "stamp"]
        BY <2>3, <4>1, <4>2
      <4>4. /\ r \in ProfilesWork /\ r.step = "write" /\ r.op = k.op /\ r.profile = k.profile
            /\ r.work = f /\ r.then = "stamp"
        BY <3>1, <4>3
      <4> QED
        BY <4>1, <4>2, <4>4
    <3> QED
      BY <2>3, <3>2 DEF ProfilesInv, ProfilesTypes
  <2>5. f.kind = "whole"
    BY <2>2 DEF Saved!Content
  <2>6. ProfilesCallOK(profilesCall[c])'
    BY <1>1, <1>2, <1>3, <2>1, <2>2, <2>4, <2>5 DEF ProfilesCallOK, ProfilesKnows, ProfilesDraws, ProfilesUnlisted
  <2> QED
    BY <1>1, <2>1, <2>4, <2>6 DEF ProfilesInv, ProfilesTypes
<1>4. CASE profilesFile.kind \notin {"none", "whole"}
  <2>1. /\ Saved!Return(c)
        /\ \/ profilesFile' = Saved!None /\ profilesCurrent' = FALSE
           \/ UNCHANGED <<profilesFile, profilesCurrent>>
    BY <1>4 DEF Saved!Read
  <2>2. /\ profilesCall' \in [Caller -> {Saved!Idle} \cup ProfilesWork]
        /\ profilesCall'[c] = Saved!Idle
    BY <2>1, ProfilesReturns DEF ProfilesInv
  <2>3. ProfilesTypes'
    BY <1>1, <2>1, <2>2 DEF ProfilesInv, ProfilesTypes, Saved!None
  <2> QED
    BY <1>1, <2>1, <2>2, <2>3, ProfilesNone DEF ProfilesInv
<1> QED
  BY <1>3, <1>4

LEMMA ProfilesStamp ==
  ASSUME NEW c, Caller = {c}, ProfilesInv, Saved!Stamp(c)
  PROVE  ProfilesInv'
<1>1. profilesCall[c].step = "stamp" /\ UNCHANGED <<profilesFile, profilesTmp, profilesDir>>
      /\ Saved!Proceed(c, profilesCall[c].work)
  BY DEF Saved!Stamp
<1>2. profilesCall[c] \in ProfilesWork /\ ProfilesCallOK(profilesCall[c])
  BY <1>1, ProfilesBusy
<1> DEFINE f == profilesCall[c].work
<1>3. f \in Saved!Content /\ f.active \in f.listed /\ profilesFile.kind \in {"none", "whole"}
      /\ profilesFile.listed \subseteq f.listed /\ \A q \in f.listed : profilesDir[q] # "partial"
  BY <1>1, <1>2, ProfilesNone DEF ProfilesCallOK, ProfilesKnows, ProfilesWork
<1>4. \/ UNCHANGED <<profilesCache, profilesCurrent>> /\ profilesFile = Saved!None
      \/ profilesCache' = f /\ profilesCurrent' = TRUE /\ profilesFile # Saved!None
  BY DEF Saved!Stamp
<1>5. profilesCall[c].op \in {"create", "duplicate"} =>
        /\ profilesDir[profilesCall[c].profile] = "none"
        /\ profilesCall[c].profile \notin profilesFile'.listed \cup profilesCache'.listed
  BY <1>1, <1>2, <1>4 DEF ProfilesCallOK, ProfilesDraws, ProfilesUnlisted
<1>6. (profilesCall[c] = Saved!Idle \/ ProfilesCallOK(profilesCall[c]))'
  BY <1>1, <1>2, <1>3, <1>5, ProfilesProceed DEF ProfilesInv
<1>7. \E x : profilesCall' = [profilesCall EXCEPT ![c] = x]
  BY <1>1 DEF Saved!Proceed, Saved!Return
<1>8. ProfilesTypes'
  BY <1>1, <1>3, <1>4, <1>6, <1>7 DEF ProfilesInv, ProfilesTypes, ProfilesCallOK
<1>9. profilesFile # Saved!None => profilesFile.kind = "whole"
  BY <1>3 DEF ProfilesInv, ProfilesTypes, Saved!Content, Saved!None, Saved!Useless
<1> QED
  BY <1>1, <1>3, <1>4, <1>6, <1>8, <1>9 DEF ProfilesInv

LEMMA ProfilesCopy ==
  ASSUME NEW c, Caller = {c}, ProfilesInv, Saved!CopyServer(c)
  PROVE  ProfilesInv'
<1>1. profilesCall[c].step = "copy" /\ UNCHANGED <<profilesFile, profilesTmp, profilesCache, profilesCurrent>>
  BY DEF Saved!CopyServer
<1>2. profilesCall[c] \in ProfilesWork /\ ProfilesCallOK(profilesCall[c])
  BY <1>1, ProfilesBusy
<1> DEFINE p == profilesCall[c].profile
<1>3. p \in Profile /\ ProfilesUnlisted(p) /\ profilesCall[c].op = "duplicate" /\ profilesCall[c].then = "idle"
  BY <1>1, <1>2 DEF ProfilesCallOK, ProfilesWork
<1>4. CASE profilesDir' = [profilesDir EXCEPT ![p] = "whole"] /\ Saved!Goto(c, "write")
  <2>1. ProfilesGoes(c, "write", profilesCall[c].work, "idle")
    BY <1>2, <1>3, <1>4, ProfilesGoto DEF ProfilesInv
  <2>2. profilesCall[c].work \in Saved!Content \cup {Saved!None}
    BY <1>2 DEF ProfilesWork
  <2>3. /\ profilesCall' \in [Caller -> {Saved!Idle} \cup ProfilesWork]
        /\ profilesCall'[c] \in ProfilesWork
        /\ profilesCall'[c].step = "write" /\ profilesCall'[c].op = profilesCall[c].op
        /\ profilesCall'[c].profile = profilesCall[c].profile
        /\ profilesCall'[c].work = profilesCall[c].work /\ profilesCall'[c].then = "idle"
    BY <1>2, <2>1, <2>2, ProfilesGone DEF ProfilesInv
  <2>4. profilesDir' \in [Profile -> {"none", "partial", "whole"}] /\ \A q \in Profile : profilesDir[q] # "partial" => profilesDir'[q] # "partial"
    BY <1>4 DEF ProfilesInv, ProfilesTypes
  <2>5. profilesCall[c].work.listed \subseteq Profile /\ profilesFile.listed \subseteq Profile /\ profilesCache.listed \subseteq Profile
    BY <1>2, ProfilesNone DEF ProfilesInv, ProfilesTypes, ProfilesWork, Saved!Content, Saved!Useless
  <2>6. ProfilesCallOK(profilesCall[c])'
    BY <1>1, <1>2, <2>3, <2>4, <2>5 DEF ProfilesCallOK, ProfilesKnows, ProfilesDraws
  <2> QED
    BY <1>1, <2>3, <2>4, <2>5, <2>6 DEF ProfilesInv, ProfilesTypes
<1>5. CASE profilesDir' = [profilesDir EXCEPT ![p] = "partial"] /\ Saved!Return(c)
  <2>1. /\ profilesCall' \in [Caller -> {Saved!Idle} \cup ProfilesWork]
        /\ profilesCall'[c] = Saved!Idle
    BY <1>5, ProfilesReturns DEF ProfilesInv
  <2>2. profilesDir' \in [Profile -> {"none", "partial", "whole"}] /\ \A q \in Profile \ {p} : profilesDir'[q] = profilesDir[q]
    BY <1>5 DEF ProfilesInv, ProfilesTypes
  <2>3. profilesFile.listed \subseteq Profile /\ profilesCache.listed \subseteq Profile
    BY ProfilesNone DEF ProfilesInv, ProfilesTypes, Saved!Content, Saved!Useless
  <2>4. \A q \in profilesFile'.listed \cup profilesCache'.listed : profilesDir'[q] # "partial"
    BY <1>1, <1>3, <2>2, <2>3 DEF ProfilesInv, ProfilesUnlisted
  <2> QED
    BY <1>1, <2>1, <2>2, <2>4 DEF ProfilesInv, ProfilesTypes
<1> QED
  BY <1>4, <1>5 DEF Saved!CopyServer

\* A save that fails: a load goes on with what it would have saved.
LEMMA ProfilesUnsaved ==
  ASSUME NEW c, Caller = {c}, ProfilesInv, profilesCall[c].step \in {"write", "rename"}, Saved!Unsaved(c),
         UNCHANGED <<profilesFile, profilesDir>>,
         profilesCache' \in {profilesCache, Saved!None}, 
         profilesTmp' \in Saved!Content \cup {Saved!None, Saved!Useless("corrupt")},
         profilesCurrent' \in BOOLEAN, profilesCurrent' => profilesCurrent /\ profilesCache' = profilesCache
  PROVE  ProfilesInv'
<1>1. profilesCall[c] \in ProfilesWork /\ ProfilesCallOK(profilesCall[c])
  BY ProfilesBusy
<1>2. /\ profilesCall' \in [Caller -> {Saved!Idle} \cup ProfilesWork]
      /\ profilesCall'[c] = Saved!Idle \/ ProfilesCallOK(profilesCall[c])'
  <2>1. CASE profilesCall[c].then = "stamp" /\ profilesFile # Saved!None
    <3>1. ProfilesGoes(c, "stamp", profilesCall[c].work, "stamp")
      BY <1>1, <2>1, ProfilesGoto DEF ProfilesInv, Saved!Unsaved
    <3>2. profilesCall[c].work \in Saved!Content \cup {Saved!None}
      BY <1>1 DEF ProfilesWork
    <3>3. /\ profilesCall' \in [Caller -> {Saved!Idle} \cup ProfilesWork]
          /\ profilesCall'[c] \in ProfilesWork
          /\ profilesCall'[c].step = "stamp" /\ profilesCall'[c].op = profilesCall[c].op
          /\ profilesCall'[c].profile = profilesCall[c].profile
          /\ profilesCall'[c].work = profilesCall[c].work /\ profilesCall'[c].then = "stamp"
      BY <1>1, <3>1, <3>2, ProfilesGone DEF ProfilesInv
    <3> QED
      BY <1>1, <2>1, <3>3, ProfilesNone DEF ProfilesCallOK, ProfilesKnows, ProfilesDraws, ProfilesUnlisted
  <2>2. CASE ~(profilesCall[c].then = "stamp" /\ profilesFile # Saved!None)
    BY <2>2, ProfilesReturns DEF ProfilesInv, Saved!Unsaved
  <2> QED
    BY <2>1, <2>2
<1>3. ProfilesTypes'
  BY <1>2 DEF ProfilesInv, ProfilesTypes
<1>4. \A q \in profilesFile'.listed \cup profilesCache'.listed : profilesDir'[q] # "partial"
  BY ProfilesNone DEF ProfilesInv
<1> QED
  BY <1>2, <1>3, <1>4 DEF ProfilesInv

LEMMA ProfilesWrite ==
  ASSUME NEW c, Caller = {c}, ProfilesInv, Saved!Write(c)
  PROVE  ProfilesInv'
<1>1. profilesCall[c].step = "write" /\ UNCHANGED <<profilesFile, profilesCache, profilesCurrent, profilesDir>>
  BY DEF Saved!Write
<1>2. profilesCall[c] \in ProfilesWork /\ ProfilesCallOK(profilesCall[c])
  BY <1>1, ProfilesBusy
<1>3. CASE profilesTmp' = profilesCall[c].work /\ Saved!Goto(c, "rename")
  <2>1. ProfilesGoes(c, "rename", profilesCall[c].work, profilesCall[c].then)
    BY <1>2, <1>3, ProfilesGoto DEF ProfilesInv
  <2>2. profilesCall[c].work \in Saved!Content \cup {Saved!None} /\ profilesCall[c].then \in {"stamp", "idle"}
    BY <1>2 DEF ProfilesWork
  <2>3. /\ profilesCall' \in [Caller -> {Saved!Idle} \cup ProfilesWork]
        /\ profilesCall'[c] \in ProfilesWork
        /\ profilesCall'[c].step = "rename" /\ profilesCall'[c].op = profilesCall[c].op
        /\ profilesCall'[c].profile = profilesCall[c].profile
        /\ profilesCall'[c].work = profilesCall[c].work /\ profilesCall'[c].then = profilesCall[c].then
    BY <1>2, <2>1, <2>2, ProfilesGone DEF ProfilesInv
  <2>4. ProfilesCallOK(profilesCall[c])'
    BY <1>1, <1>2, <1>3, <2>3 DEF ProfilesCallOK, ProfilesKnows, ProfilesDraws, ProfilesUnlisted
  <2>5. ProfilesTypes'
    BY <1>1, <1>3, <2>2, <2>3 DEF ProfilesInv, ProfilesTypes
  <2> QED
    BY <1>1, <2>4, <2>5 DEF ProfilesInv
<1>4. CASE profilesTmp' = Saved!Useless("corrupt") /\ Saved!Unsaved(c)
  BY <1>1, <1>4, ProfilesUnsaved DEF ProfilesInv, ProfilesTypes
<1> QED
  BY <1>3, <1>4 DEF Saved!Write

LEMMA ProfilesRename ==
  ASSUME NEW c, Caller = {c}, ProfilesInv, Saved!Rename(c)
  PROVE  ProfilesInv'
<1>1. profilesCall[c].step = "rename" /\ UNCHANGED profilesDir /\ profilesCache' = Saved!None /\ profilesCurrent' = FALSE
  BY DEF Saved!Rename
<1>2. profilesCall[c] \in ProfilesWork /\ ProfilesCallOK(profilesCall[c])
  BY <1>1, ProfilesBusy
<1>3. CASE /\ profilesFile' = profilesTmp /\ profilesTmp' = Saved!None
           /\ IF profilesCall[c].then = "idle" THEN Saved!Return(c) ELSE Saved!Goto(c, profilesCall[c].then)
  <2>1. profilesFile' = profilesCall[c].work /\ profilesCall[c].work \in Saved!Content
    BY <1>1, <1>2, <1>3, ProfilesNone DEF ProfilesCallOK, ProfilesKnows, ProfilesWork
  <2>2. profilesFile'.kind = "whole"
    BY <2>1 DEF Saved!Content
  <2>3. \A q \in profilesFile'.listed : profilesDir'[q] # "partial"
    BY <1>1, <1>2, <2>1 DEF ProfilesCallOK
  <2>4. /\ profilesCall' \in [Caller -> {Saved!Idle} \cup ProfilesWork]
        /\ profilesCall'[c] = Saved!Idle \/ ProfilesCallOK(profilesCall[c])'
    <3>1. CASE profilesCall[c].then = "idle"
      BY <1>3, <3>1, ProfilesReturns DEF ProfilesInv
    <3>2. CASE profilesCall[c].then = "stamp"
      <4>1. ProfilesGoes(c, "stamp", profilesCall[c].work, "stamp")
        BY <1>2, <1>3, <3>2, ProfilesGoto DEF ProfilesInv
      <4>2. /\ profilesCall' \in [Caller -> {Saved!Idle} \cup ProfilesWork]
            /\ profilesCall'[c] \in ProfilesWork
            /\ profilesCall'[c].step = "stamp" /\ profilesCall'[c].op = profilesCall[c].op
            /\ profilesCall'[c].profile = profilesCall[c].profile
            /\ profilesCall'[c].work = profilesCall[c].work /\ profilesCall'[c].then = "stamp"
        BY <1>2, <2>1, <4>1, ProfilesGone DEF ProfilesInv
      <4> QED
        BY <1>1, <1>2, <2>1, <2>2, <3>2, <4>2, ProfilesNone DEF ProfilesCallOK, ProfilesKnows, ProfilesDraws, ProfilesUnlisted
    <3> QED
      BY <1>2, <3>1, <3>2 DEF ProfilesWork
  <2>5. ProfilesTypes'
    BY <1>1, <1>3, <2>1, <2>4 DEF ProfilesInv, ProfilesTypes
  <2> QED
    BY <1>1, <2>3, <2>4, <2>5, ProfilesNone DEF ProfilesInv
<1>4. CASE UNCHANGED <<profilesFile, profilesTmp>> /\ Saved!Unsaved(c)
  BY <1>1, <1>4, ProfilesUnsaved DEF ProfilesInv, ProfilesTypes
<1> QED
  BY <1>3, <1>4 DEF Saved!Rename

LEMMA ProfilesDamage ==
  ASSUME ProfilesInv, Saved!Damage
  PROVE  ProfilesInv'
<1>1. UNCHANGED <<profilesTmp, profilesCache, profilesDir, profilesCall>> /\ profilesCurrent' = FALSE
      /\ \A c \in Caller : profilesCall[c] = Saved!Idle
  BY DEF Saved!Damage, Saved!Busy
<1>2. /\ profilesFile' \in Saved!Content \cup {Saved!Useless(k) : k \in {"none", "corrupt", "future"}}
      /\ profilesFile'.listed \subseteq profilesFile.listed
  <2>1. CASE \E k \in {"none", "corrupt", "future"} : profilesFile' = Saved!Useless(k)
    BY <2>1 DEF Saved!Useless
  <2>2. CASE \E p \in Profile : profilesFile.kind = "whole" /\ profilesFile' = [profilesFile EXCEPT !.active = p]
    <3>1. profilesFile \in Saved!Content
      BY <2>2 DEF ProfilesInv, ProfilesTypes, Saved!Useless
    <3> QED
      BY <2>2, <3>1 DEF Saved!Content
  <2> QED
    BY <2>1, <2>2 DEF Saved!Damage
<1> QED
  BY <1>1, <1>2 DEF ProfilesInv, ProfilesTypes

LEMMA ProfilesCrash ==
  ASSUME NEW c, Caller = {c}, ProfilesInv, Saved!Crash
  PROVE  ProfilesInv'
<1>1. UNCHANGED profilesFile /\ profilesCurrent' = FALSE /\ profilesCache' = Saved!None
      /\ profilesCall' = [d \in Caller |-> Saved!Idle]
      /\ profilesTmp' \in {profilesTmp, Saved!Useless("corrupt")}
  BY DEF Saved!Crash
<1>2. profilesDir' \in [Profile -> {"none", "partial", "whole"}]
  BY DEF Saved!Crash, ProfilesInv, ProfilesTypes
<1>3. ASSUME NEW q \in profilesFile.listed PROVE profilesDir'[q] # "partial"
  <2>1. q \in Profile
    BY DEF ProfilesInv, ProfilesTypes, Saved!Content, Saved!Useless
  <2>2. ~(profilesCall[c].step = "copy" /\ profilesCall[c].profile = q)
    BY ProfilesBusy DEF ProfilesCallOK, ProfilesUnlisted
  <2>3. profilesDir[q] # "partial"
    BY DEF ProfilesInv
  <2> QED
    BY <2>1, <2>2, <2>3 DEF Saved!Crash, Saved!Busy
<1> QED
  BY <1>1, <1>2, <1>3, ProfilesNone DEF ProfilesInv, ProfilesTypes

LEMMA ProfilesStep == ProfilesInv /\ [Saved!Next]_Saved!vars => ProfilesInv'
<1> SUFFICES ASSUME ProfilesInv, [Saved!Next]_Saved!vars PROVE ProfilesInv'
  OBVIOUS
<1> PICK c : Caller = {c}
  BY OneCallAtATime
<1>1. ASSUME NEW op \in Saved!Op, NEW p \in Profile, NEW a \in BOOLEAN, Saved!Begin(c, op, p, a) PROVE ProfilesInv'
  BY <1>1, ProfilesBegin
<1>2. CASE Saved!Load(c) \/ Saved!Read(c) \/ Saved!Stamp(c)
  BY <1>2, ProfilesLoad, ProfilesRead, ProfilesStamp
<1>3. CASE Saved!CopyServer(c) \/ Saved!Write(c) \/ Saved!Rename(c)
  BY <1>3, ProfilesCopy, ProfilesWrite, ProfilesRename
<1>4. CASE Saved!Damage \/ Saved!Crash
  BY <1>4, ProfilesDamage, ProfilesCrash
<1>5. CASE UNCHANGED Saved!vars
  BY <1>5 DEF Saved!vars, ProfilesInv, ProfilesTypes, ProfilesCallOK, ProfilesKnows, ProfilesDraws, ProfilesUnlisted
<1> QED
  BY <1>1, <1>2, <1>3, <1>4, <1>5 DEF Saved!Next

\* What a call is about to save names a listed profile as the active one, and no listed
\* profile has half of a copied directory.
THEOREM SavedProfilesAreWhole == Saved!Spec => []Saved!ProfilesAreWhole
<1>1. ProfilesInv => Saved!ProfilesAreWhole
  BY DEF ProfilesInv, ProfilesCallOK, Saved!ProfilesAreWhole, Saved!Busy
<1> QED
  BY <1>1, ProfilesInitially, ProfilesStep, PTL DEF Saved!Spec

\* No call, failure or crash makes the file of the profiles unreadable, takes a profile out
\* of it that is not deleted, or writes over the file of a later build.
THEOREM SavedProfilesStay == Saved!Spec => Saved!ProfilesStay
<1> DEFINE A == Saved!Damage \/ Saved!Keeps
<1>1. ProfilesInv /\ [Saved!Next]_Saved!vars => [A]_Saved!vars
  <2> SUFFICES ASSUME ProfilesInv, Saved!Next PROVE A
    OBVIOUS
  <2> PICK c : Caller = {c}
    BY OneCallAtATime
  <2>1. CASE UNCHANGED profilesFile
    BY <2>1 DEF Saved!Keeps
  <2>2. CASE Saved!Read(c)
    BY <2>1, <2>2, ProfilesNone DEF Saved!Read, Saved!Keeps
  <2>3. CASE Saved!Rename(c) /\ profilesFile' = profilesTmp
    <3>1. /\ profilesTmp = profilesCall[c].work /\ profilesTmp.kind = "whole"
          /\ profilesFile.kind \in {"none", "whole"}
          /\ profilesFile.listed \ profilesTmp.listed
                \subseteq (IF profilesCall[c].op = "delete" THEN {profilesCall[c].profile} ELSE {})
          /\ profilesCall[c] # Saved!Idle
      BY <2>3, ProfilesBusy DEF Saved!Rename, Saved!Idle, ProfilesCallOK, ProfilesKnows
    <3> QED
      BY <2>3, <3>1 DEF Saved!Keeps, Saved!Deleted, Saved!Busy
  <2>4. CASE Saved!Damage
    BY <2>4
  <2>5. CASE \/ \E op \in Saved!Op, p \in Profile, a \in BOOLEAN : Saved!Begin(c, op, p, a)
             \/ Saved!Load(c) \/ Saved!Stamp(c) \/ Saved!CopyServer(c) \/ Saved!Write(c) \/ Saved!Crash
             \/ Saved!Rename(c) /\ profilesFile' # profilesTmp
    BY <2>1, <2>5 DEF Saved!Begin, Saved!Load, Saved!Stamp, Saved!CopyServer, Saved!Write, Saved!Crash, Saved!Rename
  <2> HIDE DEF A
  <2> QED
    BY <2>1, <2>2, <2>3, <2>4, <2>5 DEF Saved!Next
<1> QED
  BY <1>1, ProfilesInitially, ProfilesStep, PTL DEF Saved!Spec, Saved!ProfilesStay

-----------------------------------------------------------------------------
(***************************************************************************)
(* The file server.properties (ServerProperties).                          *)
(***************************************************************************)

PropertiesText == Seq((PropertyKey \cup {NoKey}) \X (PropertyValue \cup {NoValue}))

\* The positions of a key; the last of them counts.
PropertiesOf(text, key) == {i \in DOMAIN text : text[i][1] = key}
PropertiesLast(of) == CHOOSE i \in of : \A j \in of : j <= i

LEMMA PropertiesValue ==
  ASSUME NEW text, NEW key
  PROVE  Properties!ValueOf(text, key) =
            IF PropertiesOf(text, key) = {} THEN NoValue ELSE text[PropertiesLast(PropertiesOf(text, key))][2]
  BY DEF Properties!ValueOf, PropertiesOf, PropertiesLast

LEMMA PropertiesHaveALast ==
  ASSUME NEW n \in Nat, NEW of \in SUBSET (1..n), of # {}
  PROVE  PropertiesLast(of) \in of
<1> DEFINE Left == {k \in 0..n : n - k \in of}
<1>1. Left \in SUBSET Nat /\ Left # {}
  <2>1. PICK i \in of : i \in 1..n
    OBVIOUS
  <2>2. n - i \in 0..n /\ n - (n - i) = i
    BY <2>1
  <2>3. n - i \in Left
    BY <2>1, <2>2
  <2>4. Left \in SUBSET Nat
    OBVIOUS
  <2> HIDE DEF Left
  <2> QED
    BY <2>3, <2>4
<1>2. PICK l \in Left : \A k \in Left : l <= k
  BY <1>1, NaturalsHaveALeast
<1>3. n - l \in of /\ l \in 0..n
  BY <1>2
<1>4. ASSUME NEW j \in of PROVE j <= n - l
  <2>1. j \in 1..n /\ n - j \in 0..n /\ n - (n - j) = j
    OBVIOUS
  <2>2. n - j \in Left
    BY <1>4, <2>1
  <2>3. l <= n - j
    BY <1>2, <2>2
  <2> QED
    BY <1>3, <2>1, <2>3
<1> QED
  BY <1>3, <1>4 DEF PropertiesLast

LEMMA PropertiesSeq ==
  ASSUME NEW D, NEW n \in Nat, NEW f \in [1..n -> D]
  PROVE  f \in Seq(D) /\ Len(f) = n
  OBVIOUS

LEMMA PropertiesConcat ==
  ASSUME NEW D, NEW f \in Seq(D), NEW g \in Seq(D), NEW h, h = f \o g
  PROVE  /\ h \in Seq(D) /\ Len(h) = Len(f) + Len(g)
         /\ \A i \in 1..Len(f) : h[i] = f[i]
         /\ \A i \in 1..(Len(f) + Len(g)) : i \notin 1..Len(f) => i - Len(f) \in 1..Len(g) /\ h[i] = g[i - Len(f)]
         /\ \A i \in 1..Len(g) : Len(f) + i \in 1..(Len(f) + Len(g)) /\ h[Len(f) + i] = g[i]
<1>1. Len(f) \in Nat /\ Len(g) \in Nat
  OBVIOUS
<1>2. h \in Seq(D) /\ Len(h) = Len(f) + Len(g)
  OBVIOUS
<1>3. \A i \in 1..Len(f) : h[i] = f[i]
  OBVIOUS
<1>4. \A i \in 1..(Len(f) + Len(g)) : i \notin 1..Len(f) => i - Len(f) \in 1..Len(g) /\ h[i] = g[i - Len(f)]
  OBVIOUS
<1>5. \A i \in 1..Len(g) : Len(f) + i \in 1..(Len(f) + Len(g)) /\ h[Len(f) + i] = g[i]
  <2> TAKE i \in 1..Len(g)
  <2>1. Len(f) + i \in 1..(Len(f) + Len(g)) /\ Len(f) + i \notin 1..Len(f) /\ (Len(f) + i) - Len(f) = i
    BY <1>1
  <2> QED
    BY <1>4, <2>1
<1> QED
  BY <1>2, <1>3, <1>4, <1>5

\* What a merge makes of a text: every entry of a patched key has the value, the rest is
\* as it was, and each key that had no entry has one behind.
PropertiesNew(text, patch) == {k \in DOMAIN patch : Properties!ValueOf(text, k) = NoValue}
PropertiesOrder(new) == CHOOSE s \in [1..Properties!Cardinality(new) -> new] : \A k \in new : \E i \in DOMAIN s : s[i] = k

LEMMA PropertiesOrders ==
  ASSUME NEW new, IsFiniteSet(new)
  PROVE  /\ Cardinality(new) \in Nat
         /\ PropertiesOrder(new) \in [1..Cardinality(new) -> new]
         /\ \A k \in new : \E i \in 1..Cardinality(new) : PropertiesOrder(new)[i] = k
<1>1. PICK n \in Nat : ExistsBijection(1..n, new)
  BY FS_NatBijection
<1>2. Cardinality(new) = n /\ Properties!Cardinality(new) = Cardinality(new)
  BY <1>1, FS_CountingElements DEF Properties!Cardinality, Cardinality
<1>3. PICK s \in Bijection(1..n, new) : TRUE
  BY <1>1 DEF ExistsBijection
<1>4. s \in [1..n -> new] /\ \A k \in new : \E i \in 1..n : s[i] = k
  BY <1>3 DEF Bijection, Injection, Surjection
<1>5. \E z \in [1..Properties!Cardinality(new) -> new] : \A k \in new : \E i \in DOMAIN z : z[i] = k
  BY <1>2, <1>4
<1>6. /\ PropertiesOrder(new) \in [1..Properties!Cardinality(new) -> new]
      /\ \A k \in new : \E i \in DOMAIN PropertiesOrder(new) : PropertiesOrder(new)[i] = k
  BY <1>5 DEF PropertiesOrder
<1> QED
  BY <1>2, <1>6

PropertiesMergeOf(merged, text, S, patch) ==
    /\ merged \in PropertiesText /\ Len(text) <= Len(merged)
    /\ \A i \in 1..Len(text) :
          /\ text[i][1] \in S => merged[i] = <<text[i][1], patch[text[i][1]]>>
          /\ text[i][1] \notin S => merged[i] = text[i]
    /\ \A i \in 1..Len(merged) : i \notin 1..Len(text) => \E k \in S : merged[i] = <<k, patch[k]>>
    /\ \A k \in S : Properties!ValueOf(text, k) = NoValue =>
          \E i \in 1..Len(merged) : merged[i] = <<k, patch[k]>>

LEMMA PropertiesMerge ==
  ASSUME NEW text \in PropertiesText, NEW S \in SUBSET PropertyKey, NEW patch \in [S -> PropertyValue],
         NEW merged, merged = Properties!Merge(text, patch)
  PROVE  PropertiesMergeOf(merged, text, S, patch)
<1> DEFINE new == PropertiesNew(text, patch)
           order == PropertiesOrder(new)
           m == Cardinality(new)
           n == Len(text)
           head == [i \in DOMAIN text |-> IF text[i][1] \in DOMAIN patch THEN Properties!Entry(text[i][1], patch[text[i][1]])
                                          ELSE text[i]]
           rest == [i \in DOMAIN order |-> Properties!Entry(order[i], patch[order[i]])]
           Pair == (PropertyKey \cup {NoKey}) \X (PropertyValue \cup {NoValue})
<1>1. new \subseteq S /\ IsFiniteSet(new)
  BY PropertiesAreSome, FS_Subset DEF PropertiesNew
<1>2. m \in Nat /\ order \in [1..m -> new] /\ \A k \in new : \E i \in 1..m : order[i] = k
  BY <1>1, PropertiesOrders
<1>3. merged = head \o rest
  BY DEF Properties!Merge, PropertiesNew, PropertiesOrder
<1> HIDE DEF order, new
<1>4. n \in Nat /\ text \in [1..n -> Pair] /\ DOMAIN text = 1..n
  BY DEF PropertiesText
<1>5. \A i \in 1..n : text[i][1] \in S => <<text[i][1], patch[text[i][1]]>> \in Pair
  OBVIOUS
<1>6. head \in [1..n -> Pair]
  BY <1>4, <1>5 DEF Properties!Entry
<1>7. rest \in [1..m -> Pair] /\ \A i \in 1..m : order[i] \in S /\ rest[i] = <<order[i], patch[order[i]]>>
  BY <1>1, <1>2 DEF Properties!Entry
<1>8. \A i \in 1..n : head[i] = IF text[i][1] \in S THEN <<text[i][1], patch[text[i][1]]>> ELSE text[i]
  BY <1>4 DEF Properties!Entry
<1> HIDE DEF head, rest, Pair
<1>9. head \in Seq(Pair) /\ rest \in Seq(Pair) /\ Len(head) = n /\ Len(rest) = m
  BY <1>2, <1>4, <1>6, <1>7, PropertiesSeq
<1> HIDE DEF n, m
<1>10. /\ merged \in Seq(Pair) /\ Len(merged) = n + m
       /\ \A i \in 1..n : merged[i] = head[i]
       /\ \A i \in 1..(n + m) : i \notin 1..n => (i - n \in 1..m /\ merged[i] = rest[i - n])
       /\ \A i \in 1..m : n + i \in 1..(n + m) /\ merged[n + i] = rest[i]
  <2>1. head \in Seq(Pair) /\ rest \in Seq(Pair) /\ merged = head \o rest
    BY <1>3, <1>9
  <2>2. /\ merged \in Seq(Pair) /\ Len(merged) = Len(head) + Len(rest)
        /\ \A i \in 1..Len(head) : merged[i] = head[i]
        /\ \A i \in 1..(Len(head) + Len(rest)) :
              i \notin 1..Len(head) => i - Len(head) \in 1..Len(rest) /\ merged[i] = rest[i - Len(head)]
        /\ \A i \in 1..Len(rest) :
              Len(head) + i \in 1..(Len(head) + Len(rest)) /\ merged[Len(head) + i] = rest[i]
    BY <2>1, PropertiesConcat
  <2> QED
    BY <1>9, <2>2
<1>11. \A i \in 1..Len(merged) : i \notin 1..n => \E k \in S : merged[i] = <<k, patch[k]>>
  BY <1>7, <1>10
<1>12. \A k \in S : Properties!ValueOf(text, k) = NoValue => \E i \in 1..Len(merged) : merged[i] = <<k, patch[k]>>
  <2> SUFFICES ASSUME NEW k \in S, Properties!ValueOf(text, k) = NoValue
               PROVE  \E i \in 1..Len(merged) : merged[i] = <<k, patch[k]>>
    OBVIOUS
  <2>1. PICK i \in 1..m : order[i] = k
    BY <1>2 DEF new, PropertiesNew
  <2> QED
    BY <1>7, <1>10, <2>1
<1>13. n <= n + m /\ merged \in PropertiesText
  BY <1>2, <1>4, <1>10 DEF Pair, PropertiesText
<1> QED
  BY <1>8, <1>10, <1>11, <1>12, <1>13 DEF PropertiesMergeOf, Properties!Entry, n

\* A merge gives the keys of its patch their values, and no other key another one.
LEMMA PropertiesMerged ==
  ASSUME NEW text \in PropertiesText, NEW S \in SUBSET PropertyKey, NEW patch \in [S -> PropertyValue],
         NEW key
  PROVE  Properties!ValueOf(Properties!Merge(text, patch), key) =
            IF key \in S THEN patch[key] ELSE Properties!ValueOf(text, key)
<1> PICK merged : merged = Properties!Merge(text, patch)
  OBVIOUS
<1> DEFINE of == PropertiesOf(text, key)
           now == PropertiesOf(merged, key)
<1>1. /\ merged \in PropertiesText /\ Len(text) \in Nat /\ Len(merged) \in Nat /\ Len(text) <= Len(merged)
      /\ DOMAIN text = 1..Len(text) /\ DOMAIN merged = 1..Len(merged)
      /\ \A i \in 1..Len(text) :
            /\ text[i][1] \in S => merged[i] = <<text[i][1], patch[text[i][1]]>>
            /\ text[i][1] \notin S => merged[i] = text[i]
      /\ \A i \in 1..Len(merged) : i \notin 1..Len(text) => \E k \in S : merged[i] = <<k, patch[k]>>
      /\ \A k \in S : Properties!ValueOf(text, k) = NoValue =>
            \E i \in 1..Len(merged) : merged[i] = <<k, patch[k]>>
  <2> DEFINE Pair == (PropertyKey \cup {NoKey}) \X (PropertyValue \cup {NoValue})
  <2>0. PropertiesMergeOf(merged, text, S, patch)
    BY PropertiesMerge
  <2>1. merged \in Seq(Pair) /\ text \in Seq(Pair)
    BY <2>0 DEF PropertiesMergeOf, PropertiesText
  <2> HIDE DEF Pair
  <2>2. /\ Len(text) \in Nat /\ Len(merged) \in Nat
        /\ DOMAIN text = 1..Len(text) /\ DOMAIN merged = 1..Len(merged)
    BY <2>1
  <2> QED
    BY <2>0, <2>2 DEF PropertiesMergeOf
<1>2. \A i \in 1..Len(text) : i \in 1..Len(merged) /\ merged[i][1] = text[i][1]
  BY <1>1
<1>3. CASE key \in S
  <2>1. now # {}
    <3>1. CASE Properties!ValueOf(text, key) = NoValue
      <4>1. PICK i \in 1..Len(merged) : merged[i] = <<key, patch[key]>>
        BY <1>1, <1>3, <3>1
      <4>2. i \in now
        BY <1>1, <4>1 DEF PropertiesOf
      <4> QED
        BY <4>2
    <3>2. CASE Properties!ValueOf(text, key) # NoValue
      <4>1. of # {}
        BY <3>2, PropertiesValue
      <4> QED
        BY <1>1, <1>2, <4>1 DEF PropertiesOf
    <3> QED
      BY <3>1, <3>2
  <2>2. \A i \in now : merged[i][2] = patch[key]
    <3> TAKE i \in now
    <3>1. i \in 1..Len(merged) /\ merged[i][1] = key
      BY <1>1 DEF PropertiesOf
    <3>2. CASE i \in 1..Len(text)
      BY <1>1, <1>2, <1>3, <3>1, <3>2
    <3>3. CASE i \notin 1..Len(text)
      BY <1>1, <3>1, <3>3
    <3> QED
      BY <3>2, <3>3
  <2>3. PropertiesLast(now) \in now
    BY <1>1, <2>1, PropertiesHaveALast DEF PropertiesOf
  <2> HIDE DEF now
  <2> QED
    BY <1>3, <2>1, <2>2, <2>3, PropertiesValue DEF now
<1>4. CASE key \notin S
  <2>1. now = of
    <3>1. ASSUME NEW i \in now PROVE i \in of
      <4>1. i \in 1..Len(merged) /\ merged[i][1] = key
        BY <1>1 DEF PropertiesOf
      <4>2. i \in 1..Len(text)
        BY <1>1, <1>4, <4>1
      <4> QED
        BY <1>1, <1>2, <4>1, <4>2 DEF PropertiesOf
    <3>2. ASSUME NEW i \in of PROVE i \in now
      BY <1>1, <1>2 DEF PropertiesOf
    <3> QED
      BY <3>1, <3>2
  <2>2. \A i \in of : merged[i] = text[i]
    BY <1>1, <1>4 DEF PropertiesOf
  <2>3. of # {} => PropertiesLast(of) \in of
    BY <1>1, PropertiesHaveALast DEF PropertiesOf
  <2> HIDE DEF of, now
  <2>4. Properties!ValueOf(merged, key) = IF now = {} THEN NoValue ELSE merged[PropertiesLast(now)][2]
    BY PropertiesValue DEF now
  <2>5. Properties!ValueOf(text, key) = IF of = {} THEN NoValue ELSE text[PropertiesLast(of)][2]
    BY PropertiesValue DEF of
  <2> QED
    BY <1>4, <2>1, <2>2, <2>3, <2>4, <2>5
<1> QED
  BY <1>3, <1>4

\* The call that reads or writes the file holds the lock.
PropertiesInv ==
    /\ propertiesWrites \in Nat
    /\ DOMAIN propertiesCall = Patcher
    /\ \A c \in Patcher : propertiesCall[c].step \in {"read", "write"} => propertiesLock = c

LEMMA PropertiesInitially == Properties!Init => PropertiesInv
  BY DEF Properties!Init, PropertiesInv, Properties!Idle

LEMMA PropertiesStep == PropertiesInv /\ [Properties!Next]_Properties!vars => PropertiesInv'
<1> SUFFICES ASSUME PropertiesInv, [Properties!Next]_Properties!vars PROVE PropertiesInv'
  OBVIOUS
<1> USE NothingIsNoValue DEF Properties!Idle
\* What a call becomes that does not hold the lock, or gives it back.
<1>s. ASSUME NEW c \in Patcher, NEW new, propertiesCall' = [propertiesCall EXCEPT ![c] = new]
      PROVE  /\ DOMAIN propertiesCall' = Patcher
             /\ propertiesCall'[c] = new
             /\ \A d \in Patcher \ {c} : propertiesCall'[d] = propertiesCall[d]
  BY <1>s DEF PropertiesInv
<1>1. ASSUME NEW c \in Patcher, Properties!Begin(c) PROVE PropertiesInv'
  <2>1. PICK new : /\ new.step = "wait" /\ propertiesCall' = [propertiesCall EXCEPT ![c] = new]
    BY <1>1 DEF Properties!Begin
  <2> QED
    BY <1>1, <1>s, <2>1 DEF Properties!Begin, PropertiesInv
<1>2. ASSUME NEW c \in Patcher, Properties!Lock(c) PROVE PropertiesInv'
  <2>1. /\ propertiesLock = NoCaller /\ propertiesLock' = c
        /\ DOMAIN propertiesCall' = Patcher
        /\ \A d \in Patcher \ {c} : propertiesCall'[d] = propertiesCall[d]
        /\ UNCHANGED propertiesWrites
    BY <1>2 DEF Properties!Lock, Properties!Acquire, PropertiesInv
  <2> QED
    BY <2>1 DEF PropertiesInv
<1>3. ASSUME NEW c \in Patcher, Properties!Done(c), propertiesCall[c].step \in {"read", "write"},
             UNCHANGED propertiesWrites
      PROVE  PropertiesInv'
  BY <1>3, <1>s DEF Properties!Done, PropertiesInv
<1>4. ASSUME NEW c \in Patcher, Properties!Read(c) PROVE PropertiesInv'
  <2>1. CASE Properties!Done(c)
    BY <1>3, <1>4, <2>1 DEF Properties!Read
  <2>2. CASE ~Properties!Done(c)
    <3>1. /\ propertiesCall[c].step = "read"
          /\ UNCHANGED <<propertiesLock, propertiesWrites>>
          /\ DOMAIN propertiesCall' = Patcher
          /\ \A d \in Patcher \ {c} : propertiesCall'[d] = propertiesCall[d]
      BY <1>4, <2>2 DEF Properties!Read, PropertiesInv
    <3> QED
      BY <3>1 DEF PropertiesInv
  <2> QED
    BY <2>1, <2>2
<1>5. ASSUME NEW c \in Patcher, Properties!Write(c) PROVE PropertiesInv'
  BY <1>3, <1>5 DEF Properties!Write
<1>6. CASE Properties!Serve
  BY <1>6 DEF Properties!Serve, PropertiesInv
<1>7. CASE Properties!Crash
  BY <1>7 DEF Properties!Crash, PropertiesInv
<1>8. CASE UNCHANGED Properties!vars
  BY <1>8 DEF Properties!vars, PropertiesInv
<1> QED
  BY <1>1, <1>2, <1>4, <1>5, <1>6, <1>7, <1>8 DEF Properties!Next

\* Defaults are not written over a server.properties that the game server has created while
\* a call waited for the lock.
THEOREM CreatedPropertiesStay == Properties!Spec => Properties!CreatedStays
<1> DEFINE A == \A c \in Patcher :
                   propertiesCall[c].step = "write" /\ propertiesCall[c].kind = "ensure"
                   /\ propertiesFile # Properties!Missing
                   => propertiesFile' = propertiesFile \/ propertiesWrites' # propertiesWrites
<1>1. PropertiesInv /\ [Properties!Next]_Properties!vars => [A]_Properties!vars
  <2> SUFFICES ASSUME PropertiesInv, Properties!Next, NEW c \in Patcher,
                      propertiesCall[c].step = "write", propertiesCall[c].kind = "ensure",
                      propertiesFile # Properties!Missing
               PROVE  propertiesFile' = propertiesFile \/ propertiesWrites' # propertiesWrites
    OBVIOUS
  <2>1. ASSUME NEW d \in Patcher, Properties!Begin(d) \/ Properties!Lock(d) PROVE propertiesFile' = propertiesFile
    BY <2>1 DEF Properties!Begin, Properties!Lock
  <2>2. ASSUME NEW d \in Patcher, Properties!Read(d) PROVE FALSE
    <3>1. propertiesCall[d].step = "read"
      BY <2>2 DEF Properties!Read
    <3> QED
      BY <3>1 DEF PropertiesInv
  <2>3. ASSUME NEW d \in Patcher, Properties!Write(d) PROVE propertiesFile' = propertiesFile
    <3>1. propertiesCall[d].step = "write" /\ d = c
      BY <2>3 DEF Properties!Write, PropertiesInv
    <3> QED
      BY <2>3, <3>1 DEF Properties!Write, Properties!Create
  <2>4. CASE Properties!Serve
    BY <2>4 DEF Properties!Serve, PropertiesInv
  <2>5. CASE Properties!Crash
    BY <2>5 DEF Properties!Crash
  <2> QED
    BY <2>1, <2>2, <2>3, <2>4, <2>5 DEF Properties!Next
<1> HIDE DEF A
<1> QED
  BY <1>1, PropertiesInitially, PropertiesStep, PTL DEF Properties!Spec, Properties!CreatedStays, A

\* A file that is missing is no text.
LEMMA PropertiesMissing == Properties!Missing \notin PropertiesText
<1> DEFINE Pair == (PropertyKey \cup {NoKey}) \X (PropertyValue \cup {NoValue})
<1> SUFFICES ASSUME Properties!Missing \in Seq(Pair) PROVE FALSE
  BY DEF PropertiesText
<1> HIDE DEF Pair
<1>1. PICK n \in Nat : DOMAIN Properties!Missing = 1..n
  OBVIOUS
<1>2. DOMAIN Properties!Missing = {0}
  BY DEF Properties!Missing
<1>3. 0 \notin 1..n
  OBVIOUS
<1> QED
  BY <1>1, <1>2, <1>3

PropertiesPatch(patch) == \E S \in SUBSET PropertyKey : patch \in [S -> PropertyValue]

\* A merge gives a text again.
LEMMA PropertiesTextOf ==
  ASSUME NEW text \in PropertiesText, NEW patch, PropertiesPatch(patch)
  PROVE  /\ Properties!Merge(text, patch) \in PropertiesText
         /\ Properties!RestStays(text, patch)
         /\ \A k : Properties!ValueOf(Properties!Merge(text, patch), k) =
                      IF k \in DOMAIN patch THEN patch[k] ELSE Properties!ValueOf(text, k)
<1> PICK S \in SUBSET PropertyKey : patch \in [S -> PropertyValue]
  BY DEF PropertiesPatch
<1> PICK merged : merged = Properties!Merge(text, patch)
  OBVIOUS
<1>1. PropertiesMergeOf(merged, text, S, patch)
  BY PropertiesMerge
<1>2. merged \in PropertiesText
  BY <1>1 DEF PropertiesMergeOf
<1>3. /\ Len(text) \in Nat /\ Len(merged) \in Nat
      /\ DOMAIN text = 1..Len(text) /\ DOMAIN merged = 1..Len(merged)
  <2> DEFINE Pair == (PropertyKey \cup {NoKey}) \X (PropertyValue \cup {NoValue})
  <2>1. merged \in Seq(Pair) /\ text \in Seq(Pair)
    BY <1>2 DEF PropertiesText
  <2> HIDE DEF Pair
  <2> QED
    BY <2>1
<1>4. \A i \in DOMAIN text : i \in DOMAIN merged /\ merged[i][1] = text[i][1]
  BY <1>1, <1>3 DEF PropertiesMergeOf
<1>5. \A i \in DOMAIN merged : merged[i][1] \in S \/ (i \in DOMAIN text /\ merged[i] = text[i])
  BY <1>1, <1>3 DEF PropertiesMergeOf
<1>6. Properties!RestStays(text, patch)
  BY <1>4, <1>5 DEF Properties!RestStays
<1> QED
  BY <1>2, <1>6, PropertiesMerged

\* A call about to write has the text that it makes of the file, if nobody else wrote.
PropertiesCall(c) ==
    /\ propertiesCall[c] = [step |-> propertiesCall[c].step, kind |-> propertiesCall[c].kind,
                            patch |-> propertiesCall[c].patch, text |-> propertiesCall[c].text]
    /\ PropertiesPatch(propertiesCall[c].patch)
    /\ propertiesCall[c].kind = "ensure" => DOMAIN propertiesCall[c].patch = {}
    /\ propertiesCall[c].step = "write" =>
          /\ propertiesCall[c].text \in PropertiesText
          /\ propertiesWrites = 0 => propertiesCall[c].text = Properties!Text(c)

\* As long as the game server does not write, the text that a call is about to write is
\* what its patch makes of the file that is there, and the file has the values given.
PropertiesKept ==
    /\ propertiesFile = Properties!Missing \/ propertiesFile \in PropertiesText
    /\ \A c \in Patcher : PropertiesCall(c)
    /\ propertiesWrites = 0 =>
          \A k \in PropertyKey : propertiesLast[k] # NoValue =>
              propertiesFile # Properties!Missing /\ Properties!ValueOf(propertiesFile, k) = propertiesLast[k]

LEMMA PropertiesIdle ==
  PropertiesPatch(Properties!Nothing) /\ DOMAIN Properties!Nothing = {} /\ <<>> \in PropertiesText
  /\ <<Properties!Comment>> \in PropertiesText /\ Properties!Template \in PropertiesText
<1>1. Properties!Nothing \in [{} -> PropertyValue] /\ DOMAIN Properties!Nothing = {}
  BY DEF Properties!Nothing
<1>2. PropertiesPatch(Properties!Nothing)
  BY <1>1 DEF PropertiesPatch
<1> DEFINE Pair == (PropertyKey \cup {NoKey}) \X (PropertyValue \cup {NoValue})
<1>3. Properties!Comment \in Pair
  BY DEF Properties!Comment, Properties!Entry
<1>4. Properties!Entry(CHOOSE k \in PropertyKey : TRUE, CHOOSE v \in PropertyValue : TRUE) \in Pair
  BY PropertiesAreSome DEF Properties!Entry
<1> HIDE DEF Pair
<1>5. <<>> \in Seq(Pair) /\ <<Properties!Comment>> \in Seq(Pair) /\ Properties!Template \in Seq(Pair)
  BY <1>3, <1>4 DEF Properties!Template
<1> QED
  BY <1>1, <1>2, <1>5 DEF Pair, PropertiesText

LEMMA PropertiesBegin == Properties!Init => PropertiesKept
<1> SUFFICES ASSUME Properties!Init PROVE PropertiesKept
  OBVIOUS
<1>1. propertiesFile = Properties!Missing \/ propertiesFile \in PropertiesText
  <2>1. ASSUME NEW k \in PropertyKey, NEW v \in PropertyValue, NEW w \in PropertyValue
        PROVE  <<Properties!Entry(k, v), Properties!Comment, Properties!Entry(k, w)>> \in PropertiesText
    BY DEF Properties!Entry, Properties!Comment, PropertiesText
  <2> QED
    BY <2>1, PropertiesIdle DEF Properties!Init
<1>2. \A c \in Patcher : PropertiesCall(c)
  BY PropertiesIdle DEF PropertiesCall, Properties!Init, Properties!Idle
<1> QED
  BY <1>1, <1>2 DEF PropertiesKept, Properties!Init

\* What a call makes of the file.
LEMMA PropertiesMade ==
  ASSUME PropertiesKept, NEW c \in Patcher
  PROVE  /\ Properties!Text(c) # propertiesFile => Properties!Text(c) \in PropertiesText
         /\ propertiesCall[c].kind # "ensure"
            /\ (propertiesFile # Properties!Missing \/ Properties!Text(c) # propertiesFile) =>
               \A k \in DOMAIN propertiesCall[c].patch :
                  Properties!ValueOf(Properties!Text(c), k) = propertiesCall[c].patch[k]
         /\ propertiesCall[c].kind # "ensure" /\ propertiesFile # Properties!Missing =>
               \A k : k \notin DOMAIN propertiesCall[c].patch =>
                  Properties!ValueOf(Properties!Text(c), k) = Properties!ValueOf(propertiesFile, k)
<1> DEFINE patch == propertiesCall[c].patch
           file == propertiesFile
<1>1. PropertiesPatch(patch) /\ (file = Properties!Missing \/ file \in PropertiesText)
  BY DEF PropertiesKept, PropertiesCall
<1> HIDE DEF patch, file
<1>2. /\ Properties!Merge(<<>>, patch) \in PropertiesText
      /\ \A k : k \in DOMAIN patch => Properties!ValueOf(Properties!Merge(<<>>, patch), k) = patch[k]
  BY <1>1, PropertiesIdle, PropertiesTextOf
<1>3. file # Properties!Missing =>
         /\ Properties!Merge(file, patch) \in PropertiesText
         /\ \A k : k \in DOMAIN patch => Properties!ValueOf(Properties!Merge(file, patch), k) = patch[k]
         /\ \A k : k \notin DOMAIN patch =>
               Properties!ValueOf(Properties!Merge(file, patch), k) = Properties!ValueOf(file, k)
  BY <1>1, PropertiesTextOf
<1>4. /\ propertiesCall[c].kind = "ensure" =>
            Properties!Text(c) = IF file = Properties!Missing THEN Properties!Template ELSE file
      /\ propertiesCall[c].kind # "ensure" /\ file = Properties!Missing =>
            Properties!Text(c) \in {file, Properties!Merge(<<>>, patch)}
      /\ propertiesCall[c].kind # "ensure" /\ file # Properties!Missing =>
            Properties!Text(c) = Properties!Merge(file, patch)
  BY DEF Properties!Text, file, patch
<1> QED
  BY <1>2, <1>3, <1>4, PropertiesIdle DEF file, patch

LEMMA PropertiesWrites ==
  ASSUME NEW k, NEW t, k = [step |-> k.step, kind |-> k.kind, patch |-> k.patch, text |-> k.text],
         NEW r, r = [k EXCEPT !.step = "write", !.text = t]
  PROVE  r = [step |-> "write", kind |-> k.kind, patch |-> k.patch, text |-> t]
  OBVIOUS

\* Calls that are not about to write are not disturbed, nor are others while the file
\* stays.
LEMMA PropertiesOthers ==
  ASSUME NEW d \in Patcher, PropertiesCall(d), propertiesCall'[d] = propertiesCall[d],
         \/ propertiesCall[d].step # "write"
         \/ propertiesFile' = propertiesFile /\ propertiesWrites' = propertiesWrites
         \/ propertiesWrites' # 0
  PROVE  PropertiesCall(d)'
<1>1. CASE propertiesCall[d].step # "write" \/ propertiesWrites' # 0
  BY <1>1 DEF PropertiesCall
<1>2. CASE propertiesFile' = propertiesFile /\ propertiesWrites' = propertiesWrites
  <2>1. Properties!Text(d)' = Properties!Text(d)
    BY <1>2 DEF Properties!Text
  <2> QED
    BY <1>2, <2>1 DEF PropertiesCall
<1> QED
  BY <1>1, <1>2

LEMMA PropertiesReset ==
  ASSUME NEW c \in Patcher, propertiesCall'[c] = Properties!Idle
  PROVE  PropertiesCall(c)'
  BY PropertiesIdle DEF PropertiesCall, Properties!Idle

LEMMA PropertiesGo == PropertiesInv /\ PropertiesKept /\ [Properties!Next]_Properties!vars => PropertiesKept'
<1> SUFFICES ASSUME PropertiesInv, PropertiesKept, [Properties!Next]_Properties!vars PROVE PropertiesKept'
  OBVIOUS
<1>0. /\ propertiesWrites \in Nat /\ DOMAIN propertiesCall = Patcher
      /\ \A c \in Patcher : PropertiesCall(c)
      /\ propertiesFile = Properties!Missing \/ propertiesFile \in PropertiesText
      /\ \A c, d \in Patcher : propertiesCall[c].step \in {"read", "write"}
            /\ propertiesCall[d].step \in {"read", "write"} => c = d
  BY DEF PropertiesInv, PropertiesKept
<1>v. ASSUME propertiesWrites = 0, NEW k \in PropertyKey, propertiesLast[k] # NoValue
      PROVE  propertiesFile # Properties!Missing /\ Properties!ValueOf(propertiesFile, k) = propertiesLast[k]
  BY <1>v DEF PropertiesKept
\* A step of one call.
<1>s. ASSUME NEW c \in Patcher, NEW new, propertiesCall' = [propertiesCall EXCEPT ![c] = new]
      PROVE  propertiesCall'[c] = new /\ \A d \in Patcher \ {c} : propertiesCall'[d] = propertiesCall[d]
  BY <1>0, <1>s
\* ... that leaves the file.
<1>q. ASSUME NEW c \in Patcher, \A d \in Patcher \ {c} : propertiesCall'[d] = propertiesCall[d],
             PropertiesCall(c)',
             UNCHANGED <<propertiesFile, propertiesLast, propertiesWrites>>
      PROVE  PropertiesKept'
  <2>1. \A d \in Patcher : PropertiesCall(d)'
    BY <1>0, <1>q, PropertiesOthers
  <2> QED
    BY <1>q, <2>1 DEF PropertiesKept
\* ... that returns, with the file as its patch makes it.
<1>d. ASSUME NEW c \in Patcher, propertiesCall[c].step \in {"read", "write"},
             propertiesCall' = [propertiesCall EXCEPT ![c] = Properties!Idle],
             Properties!Patched(c), propertiesWrites' = propertiesWrites,
             propertiesFile' = Properties!Missing \/ propertiesFile' \in PropertiesText,
             propertiesWrites = 0 =>
                \/ propertiesFile' = propertiesFile /\ propertiesCall[c].kind = "ensure"
                \/ propertiesFile' = propertiesFile /\ propertiesFile = Properties!Missing
                \/ propertiesFile = Properties!Missing /\ propertiesCall[c].kind = "ensure"
                \/ /\ propertiesFile' = Properties!Text(c) /\ propertiesCall[c].kind # "ensure"
                   /\ propertiesFile # Properties!Missing \/ Properties!Text(c) # propertiesFile
      PROVE  PropertiesKept'
  <2>1. \A d \in Patcher : PropertiesCall(d)'
    <3>1. PropertiesCall(c)'
      BY <1>d, <1>s, PropertiesReset
    <3>2. ASSUME NEW d \in Patcher \ {c} PROVE PropertiesCall(d)'
      <4>1. propertiesCall[d].step # "write" /\ propertiesCall'[d] = propertiesCall[d] /\ PropertiesCall(d)
        BY <1>0, <1>d, <1>s, <3>2
      <4> QED
        BY <4>1, PropertiesOthers
    <3> QED
      BY <3>1, <3>2
  <2> DEFINE patch == propertiesCall[c].patch
  <2>2. ASSUME propertiesWrites = 0, NEW k \in PropertyKey, propertiesLast'[k] # NoValue
        PROVE  propertiesFile' # Properties!Missing /\ Properties!ValueOf(propertiesFile', k) = propertiesLast'[k]
    <3>0. propertiesLast'[k] = IF k \in DOMAIN patch /\ propertiesFile' # Properties!Missing THEN patch[k]
                               ELSE propertiesLast[k]
      BY <1>d DEF Properties!Patched
    <3>e. propertiesCall[c].kind = "ensure" => DOMAIN patch = {}
      BY <1>0 DEF PropertiesCall
    <3>1. CASE propertiesFile' = propertiesFile /\ propertiesCall[c].kind = "ensure"
      <4>1. propertiesLast'[k] = propertiesLast[k]
        BY <3>0, <3>1, <3>e
      <4> QED
        BY <1>v, <2>2, <3>1, <4>1
    <3>2. CASE propertiesFile = Properties!Missing /\ (propertiesFile' = propertiesFile \/ propertiesCall[c].kind = "ensure")
      <4>1. propertiesLast'[k] = propertiesLast[k]
        BY <3>0, <3>2, <3>e
      <4> QED
        BY <1>v, <2>2, <3>2, <4>1
    <3>3. CASE /\ propertiesFile' = Properties!Text(c) /\ propertiesCall[c].kind # "ensure"
               /\ propertiesFile # Properties!Missing \/ Properties!Text(c) # propertiesFile
      <4>1. propertiesFile' # Properties!Missing
        BY <1>0, <3>3, PropertiesMade, PropertiesMissing
      <4>2. CASE k \in DOMAIN patch
        BY <3>0, <3>3, <4>1, <4>2, PropertiesMade
      <4>3. CASE k \notin DOMAIN patch
        <5>1. /\ propertiesLast'[k] = propertiesLast[k] /\ propertiesFile # Properties!Missing
              /\ Properties!ValueOf(propertiesFile, k) = propertiesLast[k]
          BY <1>v, <2>2, <3>0, <4>3
        <5> QED
          BY <3>3, <4>1, <4>3, <5>1, PropertiesMade
      <4> QED
        BY <4>2, <4>3
    <3> QED
      BY <1>d, <2>2, <3>1, <3>2, <3>3
  <2>3. propertiesWrites' = 0 =>
          \A k \in PropertyKey : propertiesLast'[k] # NoValue =>
              propertiesFile' # Properties!Missing /\ Properties!ValueOf(propertiesFile', k) = propertiesLast'[k]
    BY <1>d, <2>2
  <2> QED
    BY <1>d, <2>1, <2>3 DEF PropertiesKept
<1>1. ASSUME NEW c \in Patcher, Properties!Begin(c) PROVE PropertiesKept'
  <2>0. UNCHANGED <<propertiesFile, propertiesLast, propertiesWrites>>
    BY <1>1 DEF Properties!Begin
  <2>1. PICK new : /\ propertiesCall' = [propertiesCall EXCEPT ![c] = new]
                   /\ \/ \E kind \in {"merge", "existing"}, patch \in Properties!Patches :
                            new = [Properties!Idle EXCEPT !.step = "wait", !.kind = kind, !.patch = patch]
                      \/ new = [Properties!Idle EXCEPT !.step = "wait", !.kind = "ensure"]
    BY <1>1 DEF Properties!Begin
  <2>2. \A patch \in Properties!Patches : PropertiesPatch(patch)
    BY DEF Properties!Patches, PropertiesPatch
  <2>3. /\ new = [step |-> new.step, kind |-> new.kind, patch |-> new.patch, text |-> new.text]
        /\ new.step = "wait" /\ PropertiesPatch(new.patch) /\ (new.kind = "ensure" => DOMAIN new.patch = {})
    <3>1. CASE new = [Properties!Idle EXCEPT !.step = "wait", !.kind = "ensure"]
      <4>1. new = [step |-> "wait", kind |-> "ensure", patch |-> Properties!Nothing, text |-> Properties!Missing]
        BY <3>1 DEF Properties!Idle
      <4> QED
        BY <4>1, PropertiesIdle
    <3>2. ASSUME NEW kind \in {"merge", "existing"}, NEW patch \in Properties!Patches,
                 new = [Properties!Idle EXCEPT !.step = "wait", !.kind = kind, !.patch = patch]
          PROVE  /\ new = [step |-> new.step, kind |-> new.kind, patch |-> new.patch, text |-> new.text]
                 /\ new.step = "wait" /\ PropertiesPatch(new.patch) /\ new.kind # "ensure"
      <4>1. new = [step |-> "wait", kind |-> kind, patch |-> patch, text |-> Properties!Missing]
        BY <3>2 DEF Properties!Idle
      <4> QED
        BY <2>2, <4>1
    <3> QED
      BY <2>1, <3>1, <3>2
  <2>4. PropertiesCall(c)'
    BY <1>s, <2>1, <2>3 DEF PropertiesCall
  <2> QED
    BY <1>q, <1>s, <2>0, <2>1, <2>4
<1>2. ASSUME NEW c \in Patcher, Properties!Lock(c) PROVE PropertiesKept'
  <2>0. UNCHANGED <<propertiesFile, propertiesLast, propertiesWrites>>
    BY <1>2 DEF Properties!Lock
  <2>1. propertiesCall' = [propertiesCall EXCEPT ![c] = [propertiesCall[c] EXCEPT !.step = "read"]]
    BY <1>2 DEF Properties!Lock
  <2>2. PICK new : new = [propertiesCall[c] EXCEPT !.step = "read"]
    OBVIOUS
  <2>3. /\ new.step = "read" /\ new.kind = propertiesCall[c].kind /\ new.patch = propertiesCall[c].patch
        /\ new = [step |-> new.step, kind |-> new.kind, patch |-> new.patch, text |-> new.text]
    <3>1. propertiesCall[c] = [step |-> propertiesCall[c].step, kind |-> propertiesCall[c].kind,
                               patch |-> propertiesCall[c].patch, text |-> propertiesCall[c].text]
      BY <1>0 DEF PropertiesCall
    <3>2. new = [step |-> "read", kind |-> propertiesCall[c].kind,
                 patch |-> propertiesCall[c].patch, text |-> propertiesCall[c].text]
      BY <2>2, <3>1
    <3> QED
      BY <3>2
  <2>4. PropertiesCall(c)'
    BY <1>0, <1>s, <2>1, <2>2, <2>3 DEF PropertiesCall
  <2> QED
    BY <1>q, <1>s, <2>0, <2>1, <2>4
<1>3. ASSUME NEW c \in Patcher, Properties!Read(c) PROVE PropertiesKept'
  <2>0. propertiesCall[c].step = "read" /\ UNCHANGED <<propertiesFile, propertiesWrites>>
    BY <1>3 DEF Properties!Read
  <2>1. CASE Properties!Text(c) = propertiesFile /\ Properties!Done(c) /\ Properties!Patched(c)
    BY <1>0, <1>d, <2>0, <2>1 DEF Properties!Done
  <2>2. CASE /\ Properties!Text(c) # propertiesFile /\ UNCHANGED propertiesLast
             /\ propertiesCall' = [propertiesCall EXCEPT ![c].step = "write", ![c].text = Properties!Text(c)]
    <3>1. PICK new : new = [propertiesCall[c] EXCEPT !.step = "write", !.text = Properties!Text(c)]
      OBVIOUS
    <3>2. propertiesCall' = [propertiesCall EXCEPT ![c] = new]
      BY <1>0, <2>2, <3>1
    <3>3. propertiesCall[c] = [step |-> propertiesCall[c].step, kind |-> propertiesCall[c].kind,
                               patch |-> propertiesCall[c].patch, text |-> propertiesCall[c].text]
      BY <1>0 DEF PropertiesCall
    <3>4. new = [step |-> "write", kind |-> propertiesCall[c].kind,
                 patch |-> propertiesCall[c].patch, text |-> Properties!Text(c)]
      BY <3>1, <3>3, PropertiesWrites
    <3>5. propertiesCall'[c] = new
      BY <1>s, <3>2
    <3>6. Properties!Text(c)' = Properties!Text(c)
      BY <2>0, <3>4, <3>5 DEF Properties!Text
    <3>7. Properties!Text(c) \in PropertiesText
      BY <2>2, PropertiesMade
    <3>8. PropertiesCall(c)'
      BY <1>0, <3>4, <3>5, <3>6, <3>7 DEF PropertiesCall
    <3> QED
      BY <1>q, <1>s, <2>0, <2>2, <3>2, <3>8
  <2>3. CASE Properties!Done(c) /\ UNCHANGED propertiesLast
    <3>1. propertiesCall' = [propertiesCall EXCEPT ![c] = Properties!Idle]
      BY <2>3 DEF Properties!Done
    <3> QED
      BY <1>q, <1>s, <2>0, <2>3, <3>1, PropertiesReset
  <2> QED
    BY <1>3, <2>1, <2>2, <2>3 DEF Properties!Read
<1>4. ASSUME NEW c \in Patcher, Properties!Write(c) PROVE PropertiesKept'
  <2>0. /\ propertiesCall[c].step = "write" /\ propertiesWrites' = propertiesWrites
        /\ propertiesCall' = [propertiesCall EXCEPT ![c] = Properties!Idle]
    BY <1>4 DEF Properties!Write, Properties!Done
  <2>t. propertiesCall[c].text \in PropertiesText /\ propertiesCall[c].text # Properties!Missing
        /\ (propertiesWrites = 0 => propertiesCall[c].text = Properties!Text(c))
    BY <1>0, <2>0, PropertiesMissing DEF PropertiesCall
  <2>1. CASE UNCHANGED <<propertiesFile, propertiesLast>>
    BY <1>q, <1>s, <2>0, <2>1, PropertiesReset
  <2>2. CASE propertiesCall[c].kind = "ensure" /\ Properties!Create(propertiesCall[c].text) /\ Properties!Patched(c)
    <3>1. propertiesFile' = IF propertiesFile = Properties!Missing THEN propertiesCall[c].text ELSE propertiesFile
      BY <2>2 DEF Properties!Create
    <3> QED
      BY <1>0, <1>d, <2>0, <2>t, <2>2, <3>1
  <2>3. CASE propertiesCall[c].kind # "ensure" /\ propertiesFile' = propertiesCall[c].text /\ Properties!Patched(c)
    <3>1. propertiesWrites = 0 => (propertiesFile # Properties!Missing \/ Properties!Text(c) # propertiesFile)
      BY <2>t
    <3> QED
      BY <1>d, <2>0, <2>t, <2>3, <3>1
  <2> QED
    BY <1>4, <2>1, <2>2, <2>3 DEF Properties!Write
<1>5. CASE Properties!Serve
  <2>1. PICK v \in [PropertyKey -> PropertyValue] :
            /\ propertiesFile' = Properties!Merge(
                  IF propertiesFile = Properties!Missing THEN <<Properties!Comment>> ELSE propertiesFile, v)
            /\ propertiesWrites' = propertiesWrites + 1 /\ UNCHANGED propertiesCall
    BY <1>5 DEF Properties!Serve
  <2>2. PropertiesPatch(v)
    BY DEF PropertiesPatch
  <2>3. propertiesFile' \in PropertiesText
    BY <1>0, <2>1, <2>2, PropertiesIdle, PropertiesTextOf
  <2>4. propertiesWrites' # 0
    BY <1>0, <2>1
  <2>5. \A d \in Patcher : PropertiesCall(d)'
    BY <1>0, <2>1, <2>4, PropertiesOthers
  <2> QED
    BY <2>3, <2>4, <2>5 DEF PropertiesKept
<1>6. CASE Properties!Crash
  <2>1. propertiesCall' = [c \in Patcher |-> Properties!Idle]
        /\ UNCHANGED <<propertiesFile, propertiesLast, propertiesWrites>>
    BY <1>6 DEF Properties!Crash
  <2>2. \A d \in Patcher : PropertiesCall(d)'
    BY <2>1, PropertiesReset
  <2> QED
    BY <2>1, <2>2 DEF PropertiesKept
<1>7. CASE UNCHANGED Properties!vars
  <2>1. UNCHANGED <<propertiesFile, propertiesCall, propertiesLast, propertiesWrites>>
    BY <1>7 DEF Properties!vars
  <2>2. \A d \in Patcher : PropertiesCall(d)'
    BY <1>0, <2>1, PropertiesOthers
  <2> QED
    BY <2>1, <2>2 DEF PropertiesKept
<1> QED
  BY <1>1, <1>2, <1>3, <1>4, <1>5, <1>6, <1>7 DEF Properties!Next

\* Whatever patches overlap, a patch that returned has its values in the file as long as
\* the game server does not write; and no patch changes, moves or adds an entry of a key
\* that is not its own (minecraft_properties.rs).
THEOREM PatchesAreKept == Properties!Spec => []Properties!PatchesStay
<1>1. PropertiesKept => Properties!PatchesStay
  <2> SUFFICES ASSUME PropertiesKept PROVE Properties!PatchesStay
    OBVIOUS
  <2>1. ASSUME propertiesFile # Properties!Missing, NEW patch \in Properties!Patches
        PROVE  Properties!RestStays(propertiesFile, patch)
    <3>1. propertiesFile \in PropertiesText
      BY <2>1 DEF PropertiesKept
    <3>2. PropertiesPatch(patch)
      BY DEF Properties!Patches, PropertiesPatch
    <3> QED
      BY <3>1, <3>2, PropertiesTextOf
  <2> QED
    BY <2>1 DEF PropertiesKept, Properties!PatchesStay
<1> QED
  BY <1>1, PropertiesInitially, PropertiesStep, PropertiesBegin, PropertiesGo, PTL DEF Properties!Spec

-----------------------------------------------------------------------------
(***************************************************************************)
(* The mods of a tModLoader server (TModMods).                             *)
(***************************************************************************)

TerrariaWork ==
    [op : Terraria!Op \cup {"idle"}, step : Terraria!Step \cup {"idle"},
     mods : SUBSET TModName, loaded : SUBSET (TModName \cup WorkshopItem),
     item : WorkshopItem \cup {NoThing}, pack : ItemPacks \cup {NoModpack}, queue : SUBSET TModName]

\* A change of one mod holds the list that is still on the disk, with its change; what an
\* install has copied is whole.
TerrariaCallOK(k) ==
    /\ k \in TerrariaWork
    /\ k.op = "import" => k.pack \in ItemPacks /\ k.loaded \in SUBSET WorkshopItem
    /\ k.op = "install" => k.item \in WorkshopItem
    /\ k.op = "add" => k.item = NoThing
    /\ k.op = "set" => k.loaded \in SUBSET TModName
    /\ k.step = "lists" => k.op = "import"
    /\ k.step = "copy" => k.op \in {"add", "install", "import"}
    /\ k.step \in {"read", "remove"} => k.op \in {"on", "off", "delete", "add"}
    /\ k.step \in {"steamcmd", "record", "next"} => k.op \in {"install", "import"}
    /\ k.step \in {"steamcmd", "record"} => k.item \in WorkshopItem
    /\ k.step = "next" => k.op = "import"
    /\ k.step = "write" /\ k.op # "set" =>
          /\ terrariaEnabled # DamagedFile
          /\ k.loaded \in {Terraria!Loaded(terrariaEnabled) \cup k.mods,
                           Terraria!Loaded(terrariaEnabled) \ k.mods}
    /\ k.op = "install" /\ k.step \in {"copy", "record"} =>
          \A n \in ItemMods[k.item] : terrariaMods[n] = "whole" \/ (k.step = "copy" /\ n \in k.queue)

\* Damaged lists are told from absent ones, and every call keeps what it read.
TerrariaInv ==
    /\ terrariaMods \in [TModName -> {"none", "torn", "whole"}]
    /\ terrariaEnabled \in (SUBSET TModName) \cup {NoThing, DamagedFile}
    /\ terrariaIds \in (SUBSET WorkshopItem) \cup {NoThing}
    /\ terrariaCall \in [Caller -> TerrariaWork]
    /\ \A c \in Caller : TerrariaCallOK(terrariaCall[c])

LEMMA TerrariaInitially == Terraria!Init => TerrariaInv
<1> SUFFICES ASSUME Terraria!Init PROVE TerrariaInv
  OBVIOUS
<1>1. Terraria!Idle \in TerrariaWork /\ TerrariaCallOK(Terraria!Idle)
  BY DEF Terraria!Idle, TerrariaWork, TerrariaCallOK
<1>2. terrariaMods \in [TModName -> {"none", "torn", "whole"}] /\ terrariaEnabled = NoThing /\ terrariaIds = NoThing
  BY DEF Terraria!Init
<1>3. terrariaCall = [c \in Caller |-> Terraria!Idle]
  BY DEF Terraria!Init
<1>4. terrariaCall \in [Caller -> TerrariaWork] /\ \A c \in Caller : terrariaCall[c] = Terraria!Idle
  BY <1>1, <1>3
<1> QED
  BY <1>1, <1>2, <1>4 DEF TerrariaInv

\* A call that returns, or goes on as `k'.
LEMMA TerrariaGoes ==
  ASSUME TerrariaInv, NEW c, Caller = {c}, NEW k \in TerrariaWork, terrariaCall' = [terrariaCall EXCEPT ![c] = k]
  PROVE  terrariaCall' \in [Caller -> TerrariaWork] /\ terrariaCall'[c] = k
  BY DEF TerrariaInv

LEMMA TerrariaReturns ==
  ASSUME TerrariaInv, NEW c, Caller = {c}, Terraria!Return(c)
  PROVE  terrariaCall' \in [Caller -> TerrariaWork] /\ TerrariaCallOK(terrariaCall[c])'
<1>1. Terraria!Idle \in TerrariaWork /\ TerrariaCallOK(Terraria!Idle)'
  BY DEF Terraria!Idle, TerrariaWork, TerrariaCallOK
<1> QED
  BY <1>1, TerrariaGoes DEF Terraria!Return, TerrariaInv

LEMMA TerrariaBegins ==
  ASSUME TerrariaInv, NEW c, Caller = {c}, NEW k \in TerrariaWork,
         k.op = "import" => k.pack \in ItemPacks /\ k.loaded = {},
         k.op = "install" => k.item \in WorkshopItem,
         k.op = "add" => k.item = NoThing,
         k.op = "set" => k.loaded \in SUBSET TModName,
         k.step = "lists" => k.op = "import",
         k.step = "copy" => k.op \in {"add", "import"},
         k.step \in {"read", "remove"} => k.op \in {"on", "off", "delete", "add"},
         k.step \notin {"record", "next"},
         k.step = "steamcmd" => k.op = "install",
         k.op = "install" => k.step = "steamcmd",
         k.step = "write" => k.op = "set",
         Terraria!Begin(c, k)
  PROVE  TerrariaInv'
<1>1. terrariaCall' \in [Caller -> TerrariaWork] /\ terrariaCall'[c] = k
  BY TerrariaGoes DEF Terraria!Begin
<1>2. UNCHANGED <<terrariaMods, terrariaEnabled, terrariaIds>>
  BY DEF Terraria!Begin
<1>3. TerrariaCallOK(terrariaCall[c])'
  BY <1>1 DEF TerrariaCallOK
<1> QED
  BY <1>1, <1>2, <1>3 DEF TerrariaInv

LEMMA TerrariaBegin ==
  ASSUME TerrariaInv, NEW c, Caller = {c},
         \/ \E n \in TModName : Terraria!Toggle(c, n) \/ Terraria!Delete(c, n) \/ Terraria!Add(c, n)
         \/ \E S \in SUBSET TModName : Terraria!SetEnabled(c, S)
         \/ \E i \in WorkshopItem : Terraria!InstallItem(c, i)
         \/ \E p \in ItemPacks : Terraria!Import(c, p)
         \/ Terraria!InstallServer(c)
  PROVE  TerrariaInv'
<1> USE DEF Terraria!Idle, TerrariaWork, Terraria!Op, Terraria!Step
<1>1. ASSUME NEW n \in TModName, Terraria!Toggle(c, n) PROVE TerrariaInv'
  <2>1. PICK op \in {"on", "off"} : Terraria!Begin(c, [Terraria!Idle EXCEPT !.op = op, !.step = "read", !.mods = {n}])
    BY <1>1 DEF Terraria!Toggle
  <2> QED
    BY <2>1, TerrariaBegins
<1>2. ASSUME NEW n \in TModName, Terraria!Delete(c, n) PROVE TerrariaInv'
  BY <1>2, TerrariaBegins DEF Terraria!Delete
<1>3. ASSUME NEW n \in TModName, Terraria!Add(c, n) PROVE TerrariaInv'
  BY <1>3, TerrariaBegins DEF Terraria!Add
<1>4. ASSUME NEW S \in SUBSET TModName, Terraria!SetEnabled(c, S) PROVE TerrariaInv'
  BY <1>4, TerrariaBegins DEF Terraria!SetEnabled
<1>5. ASSUME NEW i \in WorkshopItem, Terraria!InstallItem(c, i) PROVE TerrariaInv'
  BY <1>5, TerrariaBegins DEF Terraria!InstallItem
<1>6. ASSUME NEW p \in ItemPacks, Terraria!Import(c, p) PROVE TerrariaInv'
  <2>1. p.mods \in SUBSET TModName
    BY WorkshopIsOfMods
  <2> QED
    BY <1>6, <2>1, TerrariaBegins DEF Terraria!Import
<1>7. CASE Terraria!InstallServer(c)
  BY <1>7, TerrariaBegins DEF Terraria!InstallServer
<1> QED
  BY <1>1, <1>2, <1>3, <1>4, <1>5, <1>6, <1>7

LEMMA TerrariaCall ==
  ASSUME TerrariaInv, NEW c, Caller = {c}
  PROVE  terrariaCall[c] \in TerrariaWork /\ TerrariaCallOK(terrariaCall[c])
  BY DEF TerrariaInv, TerrariaCallOK

LEMMA TerrariaLoaded ==
  ASSUME TerrariaInv
  PROVE  Terraria!Loaded(terrariaEnabled) \in SUBSET TModName
<1>1. terrariaEnabled \in (SUBSET TModName) \cup {NoThing, DamagedFile}
  BY DEF TerrariaInv
<1> QED
  BY <1>1 DEF Terraria!Loaded

LEMMA TerrariaRead ==
  ASSUME TerrariaInv, NEW c, Caller = {c}, Terraria!Read(c)
  PROVE  TerrariaInv'
<1>0. UNCHANGED <<terrariaMods, terrariaEnabled, terrariaIds>> /\ terrariaCall[c].step = "read"
  BY DEF Terraria!Read, Terraria!Files
<1>1. CASE terrariaEnabled # DamagedFile
  <2> DEFINE new == IF terrariaCall[c].op \in {"on", "add"} THEN Terraria!Loaded(terrariaEnabled) \cup terrariaCall[c].mods
                    ELSE Terraria!Loaded(terrariaEnabled) \ terrariaCall[c].mods
  <2>1. terrariaCall' = [terrariaCall EXCEPT ![c].step = "write", ![c].loaded = new]
    BY <1>1 DEF Terraria!Read, Terraria!Readable
  <2>2. new \in SUBSET TModName
    BY TerrariaLoaded, TerrariaCall DEF TerrariaWork
  <2>3. new \in {Terraria!Loaded(terrariaEnabled) \cup terrariaCall[c].mods,
                 Terraria!Loaded(terrariaEnabled) \ terrariaCall[c].mods}
    OBVIOUS
  <2> HIDE DEF new
  <2>4. terrariaCall' = [terrariaCall EXCEPT ![c] = [terrariaCall[c] EXCEPT !.step = "write", !.loaded = new]]
    BY <2>1 DEF TerrariaInv
  <2>5. ASSUME NEW k \in TerrariaWork, NEW r, r = [k EXCEPT !.step = "write", !.loaded = new]
        PROVE  r \in TerrariaWork /\ r.step = "write" /\ r.loaded = new /\ r.op = k.op /\ r.mods = k.mods
               /\ r.item = k.item /\ r.pack = k.pack
    BY <2>2, <2>5 DEF TerrariaWork, Terraria!Step
  <2>6. /\ terrariaCall' \in [Caller -> TerrariaWork]
        /\ terrariaCall'[c] \in TerrariaWork /\ terrariaCall'[c].step = "write" /\ terrariaCall'[c].loaded = new
        /\ terrariaCall'[c].op = terrariaCall[c].op /\ terrariaCall'[c].mods = terrariaCall[c].mods
        /\ terrariaCall'[c].item = terrariaCall[c].item /\ terrariaCall'[c].pack = terrariaCall[c].pack
    <3>1. terrariaCall[c] \in TerrariaWork
      BY TerrariaCall
    <3> DEFINE r == [terrariaCall[c] EXCEPT !.step = "write", !.loaded = new]
    <3>2. r \in TerrariaWork /\ r.step = "write" /\ r.loaded = new /\ r.op = terrariaCall[c].op
          /\ r.mods = terrariaCall[c].mods /\ r.item = terrariaCall[c].item /\ r.pack = terrariaCall[c].pack
      BY <2>5, <3>1
    <3>3. terrariaCall' = [terrariaCall EXCEPT ![c] = r]
      BY <2>4
    <3> HIDE DEF r
    <3>4. terrariaCall' \in [Caller -> TerrariaWork] /\ terrariaCall'[c] = r
      BY <3>2, <3>3, TerrariaGoes
    <3> QED
      BY <3>2, <3>4
  <2>7. TerrariaCallOK(terrariaCall[c])'
    BY <1>0, <1>1, <2>2, <2>3, <2>6, TerrariaCall DEF TerrariaCallOK
  <2> QED
    BY <1>0, <2>6, <2>7 DEF TerrariaInv
<1>2. CASE terrariaEnabled = DamagedFile
  BY <1>0, <1>2, TerrariaReturns DEF Terraria!Read, Terraria!Readable, TerrariaInv
<1> QED
  BY <1>1, <1>2

LEMMA TerrariaFields ==
  ASSUME TerrariaInv, NEW c, Caller = {c}
  PROVE  /\ terrariaCall[c].op \in Terraria!Op \cup {"idle"}
         /\ terrariaCall[c].mods \in SUBSET TModName
         /\ terrariaCall[c].loaded \in SUBSET (TModName \cup WorkshopItem)
         /\ terrariaCall[c].item \in WorkshopItem \cup {NoThing}
         /\ terrariaCall[c].queue \in SUBSET TModName
  BY TerrariaCall DEF TerrariaWork

LEMMA TerrariaGoto ==
  ASSUME TerrariaInv, NEW c, Caller = {c}, NEW step \in Terraria!Step, Terraria!Goto(c, step)
  PROVE  /\ terrariaCall' \in [Caller -> TerrariaWork]
         /\ terrariaCall'[c] \in TerrariaWork /\ terrariaCall'[c].step = step
         /\ terrariaCall'[c].op = terrariaCall[c].op /\ terrariaCall'[c].pack = terrariaCall[c].pack
         /\ terrariaCall'[c].mods = terrariaCall[c].mods /\ terrariaCall'[c].item = terrariaCall[c].item
         /\ terrariaCall'[c].queue = terrariaCall[c].queue /\ terrariaCall'[c].loaded = terrariaCall[c].loaded
<1> DEFINE r == [terrariaCall[c] EXCEPT !.step = step]
<1>1. ASSUME NEW k \in TerrariaWork, NEW q, q = [k EXCEPT !.step = step]
      PROVE  /\ q \in TerrariaWork /\ q.step = step /\ q.op = k.op /\ q.pack = k.pack /\ q.mods = k.mods
             /\ q.item = k.item /\ q.queue = k.queue /\ q.loaded = k.loaded
  BY <1>1 DEF TerrariaWork
<1>2. /\ r \in TerrariaWork /\ r.step = step /\ r.op = terrariaCall[c].op /\ r.pack = terrariaCall[c].pack
      /\ r.mods = terrariaCall[c].mods /\ r.item = terrariaCall[c].item
      /\ r.queue = terrariaCall[c].queue /\ r.loaded = terrariaCall[c].loaded
  BY <1>1, TerrariaCall
<1>3. terrariaCall' = [terrariaCall EXCEPT ![c] = r]
  BY DEF Terraria!Goto, TerrariaInv
<1> HIDE DEF r
<1>4. terrariaCall' \in [Caller -> TerrariaWork] /\ terrariaCall'[c] = r
  BY <1>2, <1>3, TerrariaGoes
<1> QED
  BY <1>2, <1>4

LEMMA TerrariaWrite ==
  ASSUME TerrariaInv, NEW c, Caller = {c}, Terraria!Write(c)
  PROVE  TerrariaInv'
<1>1. UNCHANGED <<terrariaMods, terrariaIds>> /\ Terraria!Return(c) /\ terrariaCall[c].step = "write"
      /\ terrariaEnabled' \in {terrariaEnabled, DamagedFile, terrariaCall[c].loaded}
  BY DEF Terraria!Write, Terraria!Files
<1>2. terrariaCall[c].loaded \in SUBSET TModName
  BY <1>1, TerrariaCall, TerrariaLoaded, TerrariaFields DEF TerrariaCallOK
<1> QED
  BY <1>1, <1>2, TerrariaReturns DEF TerrariaInv

LEMMA TerrariaRemove ==
  ASSUME TerrariaInv, NEW c, Caller = {c}, Terraria!Remove(c)
  PROVE  TerrariaInv'
<1>1. UNCHANGED <<terrariaEnabled, terrariaIds>> /\ terrariaCall[c].step = "remove"
  BY DEF Terraria!Remove
<1>2. terrariaMods' \in [TModName -> {"none", "torn", "whole"}]
  BY DEF Terraria!Remove, TerrariaInv
<1>3. CASE Terraria!Goto(c, "read")
  <2>1. TerrariaCallOK(terrariaCall[c])'
    BY <1>1, <1>3, TerrariaGoto, TerrariaCall DEF TerrariaCallOK, Terraria!Step
  <2> QED
    BY <1>1, <1>2, <1>3, <2>1, TerrariaGoto DEF TerrariaInv, Terraria!Step
<1>4. CASE Terraria!Return(c)
  BY <1>1, <1>2, <1>4, TerrariaReturns DEF TerrariaInv
<1> QED
  BY <1>3, <1>4 DEF Terraria!Remove

LEMMA TerrariaCopy ==
  ASSUME TerrariaInv, NEW c, Caller = {c}, Terraria!Copy(c)
  PROVE  TerrariaInv'
<1>1. UNCHANGED <<terrariaEnabled, terrariaIds>> /\ terrariaCall[c].step = "copy"
  BY DEF Terraria!Copy
<1>2. PICK n \in Terraria!Left(c) :
        \/ /\ terrariaMods' = [terrariaMods EXCEPT ![n] = "whole"]
           /\ terrariaCall' = [terrariaCall EXCEPT ![c].queue = @ \ {n},
                 ![c].step = IF Terraria!Left(c) = {n} THEN Terraria!AfterCopy(c) ELSE "copy"]
        \/ terrariaMods' \in {terrariaMods, [terrariaMods EXCEPT ![n] = "torn"]} /\ Terraria!Return(c)
  BY DEF Terraria!Copy
<1>3. terrariaMods' \in [TModName -> {"none", "torn", "whole"}]
  BY <1>2 DEF TerrariaInv
<1>4. CASE Terraria!Return(c)
  BY <1>1, <1>3, <1>4, TerrariaReturns DEF TerrariaInv
<1>5. CASE /\ terrariaMods' = [terrariaMods EXCEPT ![n] = "whole"]
           /\ terrariaCall' = [terrariaCall EXCEPT ![c].queue = @ \ {n},
                 ![c].step = IF Terraria!Left(c) = {n} THEN Terraria!AfterCopy(c) ELSE "copy"]
  <2> DEFINE s == IF Terraria!Left(c) = {n} THEN Terraria!AfterCopy(c) ELSE "copy"
             k == terrariaCall[c]
  <2>1. /\ k.op = "add" => s \in {"copy", "read"}
        /\ k.op # "add" => s \in {"copy", "record", "lists"}
        /\ k.op # "add" /\ s = "lists" => k.item = NoThing
        /\ s = "record" => k.item # NoThing
    BY TerrariaCall DEF Terraria!AfterCopy, TerrariaCallOK
  <2>2. s \in Terraria!Step /\ s \in {"copy", "read", "record", "lists"}
    BY <2>1 DEF Terraria!Step
  <2>3. s \in {"record", "lists"} => Terraria!Left(c) = {n}
    BY <2>1 DEF Terraria!AfterCopy
  <2>4. k.op # "add" => Terraria!Left(c) = k.queue
    BY DEF Terraria!Left
  <2> HIDE DEF s
  <2>5. terrariaCall' = [terrariaCall EXCEPT ![c] = [k EXCEPT !.queue = k.queue \ {n}, !.step = s]]
    BY <1>5 DEF TerrariaInv, s
  <2>6. ASSUME NEW q \in TerrariaWork, NEW r, r = [q EXCEPT !.queue = q.queue \ {n}, !.step = s]
        PROVE  r \in TerrariaWork /\ r.op = q.op /\ r.pack = q.pack /\ r.step = s /\ r.item = q.item
               /\ r.queue = q.queue \ {n} /\ r.loaded = q.loaded
    BY <2>2, <2>6 DEF TerrariaWork
  <2> DEFINE new == [k EXCEPT !.queue = k.queue \ {n}, !.step = s]
  <2>7. new \in TerrariaWork /\ new.op = k.op /\ new.pack = k.pack /\ new.step = s /\ new.item = k.item
        /\ new.queue = k.queue \ {n} /\ new.loaded = k.loaded
    BY <2>6, TerrariaCall
  <2> HIDE DEF new
  <2>8. terrariaCall' \in [Caller -> TerrariaWork] /\ terrariaCall'[c] = new
    BY <2>5, <2>7, TerrariaGoes DEF new
  <2>9. k.op = "install" => k.item \in WorkshopItem /\ ItemMods[k.item] \in SUBSET TModName
    BY TerrariaCall, WorkshopIsOfMods DEF TerrariaCallOK
  <2>10. k.op = "install" => \A m \in ItemMods[k.item] : terrariaMods'[m] = "whole" \/ (s = "copy" /\ m \in k.queue \ {n})
    <3> SUFFICES ASSUME k.op = "install", NEW m \in ItemMods[k.item], terrariaMods'[m] # "whole"
                 PROVE  s = "copy" /\ m \in k.queue \ {n}
      OBVIOUS
    <3>1. m \in TModName /\ m # n
      BY <1>5, <2>9 DEF TerrariaInv
    <3>2. terrariaMods'[m] = terrariaMods[m]
      BY <1>5, <3>1 DEF TerrariaInv
    <3>3. m \in k.queue
      BY <1>1, <3>2, TerrariaCall DEF TerrariaCallOK
    <3>4. s # "read"
      BY <2>1
    <3>5. s \notin {"record", "lists"}
      BY <2>3, <2>4, <3>1, <3>3
    <3> QED
      BY <2>2, <3>1, <3>3, <3>4, <3>5
  <2>11. TerrariaCallOK(terrariaCall[c])'
    BY <1>1, <2>1, <2>2, <2>7, <2>8, <2>10, TerrariaCall, TerrariaFields, NothingIsNoValue DEF TerrariaCallOK
  <2> QED
    BY <1>1, <1>3, <2>7, <2>8, <2>11 DEF TerrariaInv
<1> QED
  BY <1>2, <1>4, <1>5

LEMMA TerrariaSteam ==
  ASSUME TerrariaInv, NEW c, Caller = {c}, Terraria!InstallSteam(c)
  PROVE  TerrariaInv'
<1>1. UNCHANGED <<terrariaMods, terrariaEnabled, terrariaIds>>
      /\ (UNCHANGED terrariaCall \/ Terraria!Return(c))
  BY DEF Terraria!InstallSteam
<1>2. CASE UNCHANGED terrariaCall
  BY <1>1, <1>2 DEF TerrariaInv, TerrariaCallOK
<1>3. CASE Terraria!Return(c)
  BY <1>1, <1>3, TerrariaReturns DEF TerrariaInv
<1> QED
  BY <1>1, <1>2, <1>3

LEMMA TerrariaSteamCmd ==
  ASSUME TerrariaInv, NEW c, Caller = {c}, Terraria!SteamCmd(c)
  PROVE  TerrariaInv'
<1> DEFINE k == terrariaCall[c]
<1>1. UNCHANGED <<terrariaMods, terrariaEnabled, terrariaIds>> /\ k.step = "steamcmd"
  BY DEF Terraria!SteamCmd
<1>2. CASE /\ ItemMods[k.item] # {} /\ k.item \in terrariaItems'
           /\ terrariaCall' = [terrariaCall EXCEPT ![c].step = "copy", ![c].queue = ItemMods[k.item]]
  <2>1. k.op \in {"install", "import"}
    BY <1>1, TerrariaCall DEF TerrariaCallOK
  <2>2. k.item \in WorkshopItem /\ ItemMods[k.item] \in SUBSET TModName
    BY <1>1, TerrariaCall, WorkshopIsOfMods DEF TerrariaCallOK
  <2> PICK m \in SUBSET TModName : m = ItemMods[k.item]
    BY <2>2
  <2> DEFINE new == [k EXCEPT !.step = "copy", !.queue = m]
  <2>3. ASSUME NEW q \in TerrariaWork, NEW r, r = [q EXCEPT !.step = "copy", !.queue = m]
        PROVE  r \in TerrariaWork /\ r.op = q.op /\ r.pack = q.pack /\ r.step = "copy" /\ r.item = q.item
               /\ r.queue = m /\ r.loaded = q.loaded
    BY <2>3 DEF TerrariaWork, Terraria!Step
  <2>4. new \in TerrariaWork /\ new.op = k.op /\ new.pack = k.pack /\ new.step = "copy" /\ new.item = k.item
        /\ new.queue = m /\ new.loaded = k.loaded
    BY <2>3, TerrariaCall
  <2>5. terrariaCall' = [terrariaCall EXCEPT ![c] = new]
    BY <1>2 DEF TerrariaInv
  <2> HIDE DEF new
  <2>6. terrariaCall' \in [Caller -> TerrariaWork] /\ terrariaCall'[c] = new
    BY <2>4, <2>5, TerrariaGoes
  <2>7. TerrariaCallOK(terrariaCall[c])'
    BY <2>1, <2>2, <2>4, <2>6, TerrariaCall DEF TerrariaCallOK
  <2> QED
    BY <1>1, <2>4, <2>6, <2>7 DEF TerrariaInv
<1>3. CASE Terraria!Return(c)
  BY <1>1, <1>3, TerrariaReturns DEF TerrariaInv
<1> QED
  BY <1>2, <1>3 DEF Terraria!SteamCmd

LEMMA TerrariaRecords ==
  ASSUME TerrariaInv, NEW c, Caller = {c}, Terraria!Record(c)
  PROVE  TerrariaInv'
<1> DEFINE k == terrariaCall[c]
<1>1. UNCHANGED <<terrariaMods, terrariaEnabled>> /\ k.step = "record"
  BY DEF Terraria!Record
<1>2. k.item \in WorkshopItem /\ k.op \in {"install", "import"}
  BY <1>1, TerrariaCall DEF TerrariaCallOK
<1>3. Terraria!Recorded(c) \in SUBSET WorkshopItem
  <2>1. terrariaIds \in (SUBSET WorkshopItem) \cup {NoThing}
    BY DEF TerrariaInv
  <2> QED
    BY <1>2, <2>1 DEF Terraria!Recorded
<1>4. terrariaIds' \in (SUBSET WorkshopItem) \cup {NoThing}
  <2>1. terrariaIds' \in {terrariaIds, Terraria!Recorded(c)} \cup SUBSET Terraria!Recorded(c)
    BY DEF Terraria!Record
  <2>2. terrariaIds \in (SUBSET WorkshopItem) \cup {NoThing}
    BY DEF TerrariaInv
  <2> QED
    BY <1>3, <2>1, <2>2
<1>5. CASE Terraria!Return(c)
  BY <1>1, <1>4, <1>5, TerrariaReturns DEF TerrariaInv
<1>6. CASE k.op = "import" /\ terrariaCall' = [terrariaCall EXCEPT ![c].step = "next", ![c].item = NoThing]
  <2> DEFINE new == [k EXCEPT !.step = "next", !.item = NoThing]
  <2>1. ASSUME NEW q \in TerrariaWork, NEW r, r = [q EXCEPT !.step = "next", !.item = NoThing]
        PROVE  r \in TerrariaWork /\ r.op = q.op /\ r.pack = q.pack /\ r.step = "next" /\ r.loaded = q.loaded
    BY <2>1 DEF TerrariaWork, Terraria!Step
  <2>2. new \in TerrariaWork /\ new.op = k.op /\ new.pack = k.pack /\ new.step = "next" /\ new.loaded = k.loaded
    BY <2>1, TerrariaCall
  <2>3. terrariaCall' = [terrariaCall EXCEPT ![c] = new]
    BY <1>6 DEF TerrariaInv
  <2> HIDE DEF new
  <2>4. terrariaCall' \in [Caller -> TerrariaWork] /\ terrariaCall'[c] = new
    BY <2>2, <2>3, TerrariaGoes
  <2>5. TerrariaCallOK(terrariaCall[c])'
    BY <1>6, <2>2, <2>4, TerrariaCall DEF TerrariaCallOK
  <2> QED
    BY <1>1, <1>4, <2>2, <2>4, <2>5 DEF TerrariaInv
<1> QED
  BY <1>5, <1>6 DEF Terraria!Record, Terraria!NextItem

LEMMA TerrariaLists ==
  ASSUME TerrariaInv, NEW c, Caller = {c}, Terraria!Lists(c)
  PROVE  TerrariaInv'
<1> DEFINE k == terrariaCall[c]
<1>1. UNCHANGED terrariaMods /\ k.step = "lists"
  BY DEF Terraria!Lists
<1>2. k.op = "import" /\ k.pack \in ItemPacks
  BY <1>1, TerrariaCall DEF TerrariaCallOK
<1>3. k.pack.enabled \in (SUBSET TModName) \cup {NoThing} /\ k.pack.ids \in (SUBSET WorkshopItem) \cup {NoThing}
  BY <1>2, WorkshopIsOfMods
<1>4. terrariaEnabled' \in (SUBSET TModName) \cup {NoThing, DamagedFile}
  <2>1. terrariaEnabled' \in {terrariaEnabled, DamagedFile, Terraria!Over(terrariaEnabled, k.pack.enabled)}
    BY DEF Terraria!Lists
  <2>2. terrariaEnabled \in (SUBSET TModName) \cup {NoThing, DamagedFile}
    BY DEF TerrariaInv
  <2> QED
    BY <1>3, <2>1, <2>2 DEF Terraria!Over
<1>5. terrariaIds' \in (SUBSET WorkshopItem) \cup {NoThing}
  <2>1. \/ terrariaIds' \in {terrariaIds, Terraria!Over(terrariaIds, k.pack.ids)}
        \/ k.pack.ids # NoThing /\ terrariaIds' \in SUBSET k.pack.ids
    BY DEF Terraria!Lists
  <2>2. terrariaIds \in (SUBSET WorkshopItem) \cup {NoThing}
    BY DEF TerrariaInv
  <2> QED
    BY <1>3, <2>1, <2>2 DEF Terraria!Over
<1>6. CASE Terraria!Return(c)
  BY <1>1, <1>4, <1>5, <1>6, TerrariaReturns DEF TerrariaInv
<1>7. CASE /\ k.pack.ids # NoThing
           /\ terrariaCall' = [terrariaCall EXCEPT ![c].step = "next", ![c].mods = {}, ![c].queue = {}, ![c].loaded = k.pack.ids]
  <2> PICK ids \in SUBSET WorkshopItem : ids = k.pack.ids
    BY <1>3, <1>7
  <2> DEFINE new == [k EXCEPT !.step = "next", !.mods = {}, !.queue = {}, !.loaded = ids]
  <2>1. ASSUME NEW q \in TerrariaWork,
               NEW r, r = [q EXCEPT !.step = "next", !.mods = {}, !.queue = {}, !.loaded = ids]
        PROVE  r \in TerrariaWork /\ r.op = q.op /\ r.pack = q.pack /\ r.step = "next" /\ r.loaded = ids
    BY <2>1 DEF TerrariaWork, Terraria!Step
  <2>2. new \in TerrariaWork /\ new.op = k.op /\ new.pack = k.pack /\ new.step = "next" /\ new.loaded = ids
    BY <2>1, TerrariaCall
  <2>3. terrariaCall' = [terrariaCall EXCEPT ![c] = new]
    BY <1>7 DEF TerrariaInv
  <2> HIDE DEF new
  <2>4. terrariaCall' \in [Caller -> TerrariaWork] /\ terrariaCall'[c] = new
    BY <2>2, <2>3, TerrariaGoes
  <2>5. TerrariaCallOK(terrariaCall[c])'
    BY <1>2, <2>2, <2>4 DEF TerrariaCallOK
  <2> QED
    BY <1>1, <1>4, <1>5, <2>2, <2>4, <2>5 DEF TerrariaInv
<1> QED
  BY <1>6, <1>7 DEF Terraria!Lists

LEMMA TerrariaNext ==
  ASSUME TerrariaInv, NEW c, Caller = {c}, Terraria!NextOf(c)
  PROVE  TerrariaInv'
<1> DEFINE k == terrariaCall[c]
<1>1. UNCHANGED <<terrariaMods, terrariaEnabled, terrariaIds>> /\ k.step = "next"
  BY DEF Terraria!NextOf, Terraria!Files
<1>2. CASE Terraria!Return(c)
  BY <1>1, <1>2, TerrariaReturns DEF TerrariaInv
<1>3. ASSUME NEW i \in k.loaded,
             terrariaCall' = [terrariaCall EXCEPT ![c].loaded = @ \ {i}, ![c].item = i, ![c].step = "steamcmd"]
      PROVE  TerrariaInv'
  <2>1. k.op = "import" /\ k.loaded \in SUBSET WorkshopItem /\ i \in WorkshopItem /\ k.pack \in ItemPacks
    BY <1>1, TerrariaCall DEF TerrariaCallOK
  <2> PICK rest \in SUBSET WorkshopItem : rest = k.loaded \ {i}
    BY <2>1
  <2> DEFINE new == [k EXCEPT !.loaded = rest, !.item = i, !.step = "steamcmd"]
  <2>2. ASSUME NEW q \in TerrariaWork, NEW r, r = [q EXCEPT !.loaded = rest, !.item = i, !.step = "steamcmd"]
        PROVE  r \in TerrariaWork /\ r.op = q.op /\ r.pack = q.pack /\ r.step = "steamcmd" /\ r.loaded = rest /\ r.item = i
    BY <2>1, <2>2 DEF TerrariaWork, Terraria!Step
  <2>3. new \in TerrariaWork /\ new.op = k.op /\ new.pack = k.pack /\ new.step = "steamcmd" /\ new.loaded = rest /\ new.item = i
    BY <2>2, TerrariaCall
  <2>4. terrariaCall' = [terrariaCall EXCEPT ![c] = new]
    BY <1>3 DEF TerrariaInv
  <2> HIDE DEF new
  <2>5. terrariaCall' \in [Caller -> TerrariaWork] /\ terrariaCall'[c] = new
    BY <2>3, <2>4, TerrariaGoes
  <2>6. TerrariaCallOK(terrariaCall[c])'
    BY <2>1, <2>3, <2>5 DEF TerrariaCallOK
  <2> QED
    BY <1>1, <2>3, <2>5, <2>6 DEF TerrariaInv
<1> QED
  BY <1>2, <1>3 DEF Terraria!NextOf

LEMMA TerrariaExtract ==
  ASSUME TerrariaInv, NEW c, Caller = {c}, Terraria!Extract(c)
  PROVE  TerrariaInv'
<1>1. UNCHANGED <<terrariaMods, terrariaEnabled, terrariaIds>> /\ terrariaCall[c].step = "extract"
  BY DEF Terraria!Extract
<1>2. CASE Terraria!Return(c)
  BY <1>1, <1>2, TerrariaReturns DEF TerrariaInv
<1>3. CASE Terraria!Goto(c, "empty")
  <2>1. TerrariaCallOK(terrariaCall[c])'
    BY <1>1, <1>3, TerrariaGoto, TerrariaCall DEF TerrariaCallOK, Terraria!Step
  <2> QED
    BY <1>1, <1>3, <2>1, TerrariaGoto DEF TerrariaInv, Terraria!Step
<1> QED
  BY <1>2, <1>3 DEF Terraria!Extract

LEMMA TerrariaEmpty ==
  ASSUME TerrariaInv, NEW c, Caller = {c}, Terraria!Empty(c)
  PROVE  TerrariaInv'
<1>1. UNCHANGED <<terrariaMods, terrariaIds>> /\ Terraria!Return(c)
      /\ terrariaEnabled' \in {{}, NoThing, DamagedFile, terrariaEnabled}
  BY DEF Terraria!Empty, Terraria!Files
<1> QED
  BY <1>1, TerrariaReturns DEF TerrariaInv

LEMMA TerrariaCrash ==
  ASSUME TerrariaInv, NEW c, Caller = {c}, Terraria!Crash
  PROVE  TerrariaInv'
<1>1. UNCHANGED <<terrariaMods, terrariaIds, terrariaEnabled>> /\ terrariaCall' = [d \in Caller |-> Terraria!Idle]
  BY DEF Terraria!Crash, Terraria!Files
<1>2. Terraria!Return(c)
  BY <1>1 DEF Terraria!Return, TerrariaInv
<1> QED
  BY <1>1, <1>2, TerrariaReturns DEF TerrariaInv

LEMMA TerrariaNexts ==
  ASSUME NEW c, Caller = {c}, Terraria!Next
  PROVE  \/ \/ \E n \in TModName : Terraria!Toggle(c, n) \/ Terraria!Delete(c, n) \/ Terraria!Add(c, n)
            \/ \E S \in SUBSET TModName : Terraria!SetEnabled(c, S)
            \/ \E i \in WorkshopItem : Terraria!InstallItem(c, i)
            \/ \E p \in ItemPacks : Terraria!Import(c, p)
            \/ Terraria!InstallServer(c)
         \/ Terraria!Read(c) \/ Terraria!Write(c) \/ Terraria!Remove(c) \/ Terraria!Copy(c)
         \/ Terraria!InstallSteam(c) \/ Terraria!SteamCmd(c) \/ Terraria!Record(c)
         \/ Terraria!Lists(c) \/ Terraria!NextOf(c) \/ Terraria!Extract(c) \/ Terraria!Empty(c)
         \/ Terraria!Crash
  BY DEF Terraria!Next

LEMMA TerrariaStep == TerrariaInv /\ [Terraria!Next]_Terraria!vars => TerrariaInv'
<1> SUFFICES ASSUME TerrariaInv, [Terraria!Next]_Terraria!vars PROVE TerrariaInv'
  OBVIOUS
<1> PICK c : Caller = {c}
  BY OneCallAtATime
<1>1. CASE Terraria!Next
  BY <1>1, TerrariaNexts, TerrariaBegin, TerrariaRead, TerrariaWrite, TerrariaRemove, TerrariaCopy,
     TerrariaSteam, TerrariaSteamCmd, TerrariaRecords, TerrariaLists, TerrariaNext,
     TerrariaExtract, TerrariaEmpty, TerrariaCrash
<1>2. CASE UNCHANGED Terraria!vars
  BY <1>2 DEF Terraria!vars, TerrariaInv, TerrariaCallOK
<1> QED
  BY <1>1, <1>2

\* A list of mods that cannot be read is replaced only by a whole one, and a change of one
\* mod leaves every other entry on the disk as it was, however calls fail or crash.
THEOREM ListOfModsIsKept == Terraria!Spec => Terraria!ListIsKept
<1> DEFINE A == \/ Terraria!Working({"set", "import"}) \/ terrariaEnabled' \in {terrariaEnabled, DamagedFile}
                \/ /\ terrariaEnabled # DamagedFile
                   /\ LET old == Terraria!Loaded(terrariaEnabled)
                          new == terrariaEnabled'
                      IN \E c \in Caller : (old \ new) \cup (new \ old) \subseteq terrariaCall[c].mods
<1>1. TerrariaInv /\ [Terraria!Next]_Terraria!vars => [A]_Terraria!vars
  <2> SUFFICES ASSUME TerrariaInv, Terraria!Next PROVE A
    OBVIOUS
  <2> PICK c : Caller = {c}
    BY OneCallAtATime
  <2>1. CASE UNCHANGED terrariaEnabled
    BY <2>1
  <2>2. CASE Terraria!Write(c)
    <3>1. terrariaCall[c].step = "write" /\ terrariaEnabled' \in {terrariaEnabled, DamagedFile, terrariaCall[c].loaded}
      BY <2>2 DEF Terraria!Write
    <3>2. CASE terrariaCall[c].op = "set"
      BY <3>2 DEF Terraria!Working
    <3>3. CASE terrariaCall[c].op # "set"
      BY <3>1, <3>3, TerrariaCall DEF TerrariaCallOK
    <3> QED
      BY <3>2, <3>3
  <2>3. CASE Terraria!Lists(c)
    BY <2>3, TerrariaCall DEF TerrariaCallOK, Terraria!Lists, Terraria!Working
  <2>4. CASE Terraria!Empty(c)
    BY <2>4, NothingIsNoValue DEF Terraria!Empty, Terraria!NeedsEmpty, Terraria!Loaded
  <2>5. CASE \/ \E n \in TModName : Terraria!Toggle(c, n) \/ Terraria!Delete(c, n) \/ Terraria!Add(c, n)
             \/ \E S \in SUBSET TModName : Terraria!SetEnabled(c, S)
             \/ \E i \in WorkshopItem : Terraria!InstallItem(c, i)
             \/ \E p \in ItemPacks : Terraria!Import(c, p)
             \/ Terraria!InstallServer(c)
    BY <2>1, <2>5 DEF Terraria!Begin, Terraria!Toggle, Terraria!Delete, Terraria!Add, Terraria!SetEnabled,
       Terraria!InstallItem, Terraria!Import, Terraria!InstallServer
  <2>6. CASE Terraria!Read(c) \/ Terraria!NextOf(c) \/ Terraria!Crash
    BY <2>1, <2>6 DEF Terraria!Read, Terraria!NextOf, Terraria!Crash
  <2>7. CASE Terraria!Remove(c) \/ Terraria!Copy(c) \/ Terraria!InstallSteam(c) \/ Terraria!SteamCmd(c)
             \/ Terraria!Record(c) \/ Terraria!Extract(c)
    BY <2>1, <2>7 DEF Terraria!Remove, Terraria!Copy, Terraria!InstallSteam, Terraria!SteamCmd,
       Terraria!Record, Terraria!Extract
  <2> HIDE DEF A
  <2> QED
    BY <2>1, <2>2, <2>3, <2>4, <2>5, <2>6, <2>7, TerrariaNexts
<1> QED
  BY <1>1, TerrariaInitially, TerrariaStep, PTL DEF Terraria!Spec, Terraria!ListIsKept

\* A Workshop item that an install has recorded has every mod of it copied whole.
THEOREM RecordedItemIsCopied == Terraria!Spec => Terraria!RecordedIsCopied
<1> DEFINE A == \A i \in WorkshopItem :
                   Terraria!Working({"install"}) /\ i \in Terraria!Loaded(terrariaIds)' \ Terraria!Loaded(terrariaIds)
                      => \A n \in ItemMods[i] : terrariaMods[n] = "whole"
<1>1. TerrariaInv /\ [Terraria!Next]_Terraria!vars => [A]_Terraria!vars
  <2> SUFFICES ASSUME TerrariaInv, Terraria!Next PROVE A
    OBVIOUS
  <2> PICK c : Caller = {c}
    BY OneCallAtATime
  <2>1. CASE UNCHANGED terrariaIds
    BY <2>1 DEF Terraria!Loaded
  <2>2. CASE Terraria!Record(c)
    <3> SUFFICES ASSUME NEW i \in WorkshopItem, terrariaCall[c].op = "install",
                        i \in Terraria!Loaded(terrariaIds)', i \notin Terraria!Loaded(terrariaIds)
                 PROVE  \A n \in ItemMods[i] : terrariaMods[n] = "whole"
      BY DEF Terraria!Working
    <3>1. terrariaIds \in (SUBSET WorkshopItem) \cup {NoThing}
      BY DEF TerrariaInv
    <3>2. terrariaIds' \in {terrariaIds, Terraria!Recorded(c)} \cup SUBSET Terraria!Recorded(c)
      BY <2>2 DEF Terraria!Record
    <3>3. terrariaCall[c].step = "record" /\ terrariaCall[c].item \in WorkshopItem
      BY <2>2, TerrariaCall DEF Terraria!Record, TerrariaCallOK
    <3>4. Terraria!Loaded(terrariaIds) = IF terrariaIds = NoThing THEN {} ELSE terrariaIds
      BY <3>1, NothingIsNoValue DEF Terraria!Loaded
    <3>5. Terraria!Recorded(c) = Terraria!Loaded(terrariaIds) \cup {terrariaCall[c].item}
      BY <3>4 DEF Terraria!Recorded
    <3>6. i \in terrariaIds' /\ terrariaIds' # terrariaIds
      BY <2>1 DEF Terraria!Loaded
    <3>7. i \in Terraria!Recorded(c)
      BY <3>2, <3>6
    <3>8. i = terrariaCall[c].item
      BY <3>5, <3>7
    <3> QED
      BY <3>3, <3>8, TerrariaCall DEF TerrariaCallOK
  <2>3. CASE Terraria!Lists(c)
    BY <2>3, TerrariaCall DEF TerrariaCallOK, Terraria!Lists, Terraria!Working
  <2>4. CASE Terraria!Empty(c) \/ Terraria!Write(c) \/ Terraria!Read(c) \/ Terraria!NextOf(c) \/ Terraria!Crash
    BY <2>1, <2>4 DEF Terraria!Empty, Terraria!Write, Terraria!Read, Terraria!NextOf, Terraria!Crash, Terraria!Files
  <2>5. CASE \/ \E n \in TModName : Terraria!Toggle(c, n) \/ Terraria!Delete(c, n) \/ Terraria!Add(c, n)
             \/ \E S \in SUBSET TModName : Terraria!SetEnabled(c, S)
             \/ \E i \in WorkshopItem : Terraria!InstallItem(c, i)
             \/ \E p \in ItemPacks : Terraria!Import(c, p)
             \/ Terraria!InstallServer(c)
    BY <2>1, <2>5 DEF Terraria!Begin, Terraria!Toggle, Terraria!Delete, Terraria!Add, Terraria!SetEnabled,
       Terraria!InstallItem, Terraria!Import, Terraria!InstallServer
  <2>6. CASE Terraria!Remove(c) \/ Terraria!Copy(c) \/ Terraria!InstallSteam(c) \/ Terraria!SteamCmd(c) \/ Terraria!Extract(c)
    BY <2>1, <2>6 DEF Terraria!Remove, Terraria!Copy, Terraria!InstallSteam, Terraria!SteamCmd, Terraria!Extract
  <2> HIDE DEF A
  <2> QED
    BY <2>1, <2>2, <2>3, <2>4, <2>5, <2>6, TerrariaNexts
<1> QED
  BY <1>1, TerrariaInitially, TerrariaStep, PTL DEF Terraria!Spec, Terraria!RecordedIsCopied

-----------------------------------------------------------------------------
(***************************************************************************)
(* The install of a server (ServerInstall).                                *)
(***************************************************************************)

ServerSteps == Server!Step \cup {"idle"}
ServerConfigs == [type : ServerType, version : GameVersion, setup : BOOLEAN]
ServerCommits == {"commit", "undo", "back"}
ServerEnds == {"switch", "common", "check", "save"}
ServerLoads == {"Forge", "NeoForge", "SpongeForge"}

ServerTypes ==
    /\ installCfg \in ServerConfigs
    /\ installCall \in [step : ServerSteps, type : ServerType \cup {"none"},
                        version : GameVersion \cup {0}]
    /\ installCall.step # "idle" => installCall.type \in ServerType /\ installCall.version \in GameVersion
    /\ installCall.step = "sponge" => installCall.type = "SpongeForge"
    /\ installEntry \in [Server!Entry -> GameVersion \cup {0}]
    /\ installStaged \in [Server!Entry -> GameVersion \cup {0}]
    /\ installRollback \in [Server!Entry -> GameVersion \cup {0}]
    /\ installBefore \in [Server!Entry -> GameVersion \cup {0}]
    /\ installInstalled \subseteq Server!Entry
    /\ installExtras \in [{"mods", "plugins"} -> SUBSET ServerType]
    /\ installFaults \in Nat

\* What a commit has moved away is in the rollback directory, what it has not is in place.
CommitKeeps ==
    /\ installCall.step \notin ServerCommits => installRollback = Server!Absent /\ installInstalled = {}
    /\ \A e \in Server!Entry :
          /\ installRollback[e] # 0 => installRollback[e] = installBefore[e]
          /\ installCall.step = "commit" /\ e \notin installInstalled
             => installRollback[e] = 0 /\ installEntry[e] = installBefore[e]
          /\ installCall.step \in {"commit", "undo"} /\ e \in installInstalled
             => installRollback[e] = installBefore[e]
          /\ installCall.step = "undo" /\ e \notin installInstalled
             => \/ installEntry[e] = installBefore[e]
                \/ installRollback[e] = installBefore[e] /\ installEntry[e] = 0
          /\ installCall.step = "back" /\ installFaults = 1 /\ installRollback[e] = 0
             => installEntry[e] = installBefore[e]
    /\ installCall.step \in {"undo", "back"} => installFaults > 0

\* A call that is about to save has put the program of its type and version into place.
ProgramIsThere ==
    /\ installCall.step \in {"clean", "fetch", "run", "commit", "undo", "back", "detect", "sponge"}
       => installCall.type \in ServerLoads
    /\ installCall.step = "terraria" => installCall.type = "Terraria"
    /\ installCall.step \in ServerEnds /\ installCall.type \notin ServerLoads \cup {"Terraria"}
       => installJar = [type |-> installCall.type, version |-> installCall.version]
    /\ installCall.step = "save" /\ Server!IsLoader(installCall.type)
       => Server!Detected(installEntry, installCall.version)

\* The directories of the two types are empty once the type was switched.
DirectoriesFit ==
    /\ installExtras["plugins"] \subseteq Server!Plugins
    /\ installCall.step \in {"common", "check", "save"} /\ installCfg.setup /\ installCfg.type # installCall.type
       => /\ installExtras[Server!CleanedDir(installCfg.type)] = {}
          /\ installExtras[Server!CleanedDir(installCall.type)] = {}

ServerInv == ServerTypes /\ CommitKeeps /\ ProgramIsThere /\ DirectoriesFit

-----------------------------------------------------------------------------
LEMMA ServerInitially == Server!Init => ServerInv
<1> SUFFICES ASSUME Server!Init PROVE ServerInv
  OBVIOUS
<1>1. ServerTypes
  BY DEF Server!Init, ServerTypes, ServerConfigs, ServerSteps, Server!Idle, Server!Absent
<1>2. installCall.step = "idle" /\ CommitKeeps
  BY DEF Server!Init, CommitKeeps, ServerCommits, Server!Idle, Server!Absent
<1> QED
  BY <1>1, <1>2 DEF Server!Init, ServerInv, ProgramIsThere, DirectoriesFit, ServerEnds

\* A step of a call only changes where it is.
LEMMA ServerGoes ==
  ASSUME ServerTypes, NEW s \in ServerSteps, installCall.step # "idle",
         installCall' = [installCall EXCEPT !.step = s]
  PROVE  /\ installCall' \in [step : ServerSteps, type : ServerType \cup {"none"}, version : GameVersion \cup {0}]
         /\ installCall'.step = s
         /\ installCall'.type = installCall.type
         /\ installCall'.version = installCall.version
         /\ installCall.type \in ServerType
         /\ installCall.version \in GameVersion
  BY DEF ServerTypes


LEMMA ServerTypesStay == ServerTypes /\ [Server!Next]_Server!vars => ServerTypes'
<1> SUFFICES ASSUME ServerTypes, [Server!Next]_Server!vars PROVE ServerTypes'
  OBVIOUS
<1> USE DEF Server!runtime, Server!commit, ServerTypes, ServerSteps, Server!Idle, Server!Return, Server!Goto,
        Server!Works, Server!Fails, Server!Step, ServerConfigs, Server!Absent, Server!Removed
<1>1. ASSUME NEW type \in ServerType, NEW version \in GameVersion, Server!Begin(type, version)
      PROVE  ServerTypes'
  BY <1>1 DEF Server!Begin
<1>2. CASE Server!Java
  BY <1>2 DEF Server!Java
<1>3. CASE Server!DownloadJar
  BY <1>3 DEF Server!DownloadJar
<1>4. CASE Server!Build
  BY <1>4 DEF Server!Build
<1>5. CASE Server!Terraria
  BY <1>5 DEF Server!Terraria
<1>6. CASE Server!Clean
  BY <1>6 DEF Server!Clean, Server!Entry
<1>7. CASE Server!Fetch
  BY <1>7 DEF Server!Fetch
<1>8. CASE Server!RunInstaller
  BY <1>8 DEF Server!RunInstaller, Server!Entry
<1>9. ASSUME NEW e \in Server!Entry, Server!Place(e) PROVE ServerTypes'
  BY <1>9 DEF Server!Place, Server!Counted
<1>10. CASE Server!Placed
  BY <1>10 DEF Server!Placed
<1>11. CASE Server!Undo
  BY <1>11 DEF Server!Undo
<1>12. CASE Server!Back
  BY <1>12 DEF Server!Back
<1>13. CASE Server!Detect
  BY <1>13 DEF Server!Detect
<1>14. CASE Server!Sponge
  <2>1. installCall.type = "SpongeForge" /\ installCall.type \in ServerType
    BY <1>14 DEF Server!Sponge
  <2> QED
    BY <1>14, <2>1 DEF Server!Sponge
<1>15. CASE Server!Switch
  BY <1>15 DEF Server!Switch
<1>16. CASE Server!Common \/ Server!Check
  <2>1. /\ UNCHANGED <<installCfg, installEntry, installStaged, installRollback, installBefore, installInstalled,
                       installExtras>>
        /\ installFaults' \in Nat
    BY <1>16 DEF Server!Common, Server!Check
  <2>2. installCall' = Server!Idle
        \/ (installCall.step # "idle" /\ \E s \in {"check", "save"} : installCall' = [installCall EXCEPT !.step = s])
    BY <1>16 DEF Server!Common, Server!Check
  <2> QED
    BY <2>1, <2>2
<1>17. CASE Server!Save
  <2>1. installCall.type \in ServerType /\ installCall.version \in GameVersion
    BY <1>17 DEF Server!Save
  <2>2. installCfg' \in ServerConfigs
    <3>1. \/ installCfg' = installCfg
          \/ installCfg' = [type |-> installCall.type, version |-> installCall.version, setup |-> TRUE]
      BY <1>17 DEF Server!Save
    <3>2. ASSUME NEW t \in ServerType, NEW v \in GameVersion
          PROVE  [type |-> t, version |-> v, setup |-> TRUE] \in ServerConfigs
      OBVIOUS
    <3>3. installCfg \in ServerConfigs
      OBVIOUS
    <3> HIDE DEF ServerConfigs, ServerTypes
    <3> QED
      BY <2>1, <3>1, <3>2, <3>3
  <2>3. installCall' = Server!Idle /\ installFaults' \in Nat
        /\ UNCHANGED <<installEntry, installStaged, installRollback, installInstalled, installBefore,
                       installExtras>>
    BY <1>17 DEF Server!Save
  <2> QED
    BY <2>2, <2>3
<1>18. CASE Server!AddExtra
  <2>1. /\ installExtras' = [installExtras EXCEPT ![Server!DirOf(installCfg.type)] = @ \cup {installCfg.type}]
        /\ UNCHANGED <<installCfg, installCall, installEntry, installStaged, installRollback,
                       installInstalled, installBefore, installFaults>>
    BY <1>18 DEF Server!AddExtra
  <2>2. Server!DirOf(installCfg.type) \in {"mods", "plugins"} /\ installCfg.type \in ServerType
    BY DEF Server!DirOf
  <2>3. installExtras' \in [{"mods", "plugins"} -> SUBSET ServerType]
    BY <2>1, <2>2
  <2> QED
    BY <2>1, <2>3
<1>19. CASE Server!Crash
  BY <1>19 DEF Server!Crash
<1>20. CASE UNCHANGED Server!vars
  BY <1>20 DEF Server!vars
<1> HIDE DEF Server!runtime, Server!commit, ServerTypes, ServerSteps, Server!Idle, Server!Return, Server!Goto,
         Server!Works, Server!Fails, Server!Step, ServerConfigs, Server!Absent, Server!Removed
<1> QED
  BY <1>1, <1>2, <1>3, <1>4, <1>5, <1>6, <1>7, <1>8, <1>9, <1>10, <1>11, <1>12, <1>13, <1>14,
     <1>15, <1>16, <1>17, <1>18, <1>19, <1>20 DEF Server!Next

LEMMA CommitKept == ServerTypes /\ CommitKeeps /\ [Server!Next]_Server!vars => CommitKeeps'
<1> SUFFICES ASSUME ServerTypes, CommitKeeps, [Server!Next]_Server!vars PROVE CommitKeeps'
  OBVIOUS
<1> USE DEF Server!runtime, Server!commit
<1>t. /\ installFaults \in Nat
      /\ Server!Works => installFaults' = installFaults
      /\ Server!Fails => installFaults' = installFaults + 1
  BY DEF ServerTypes, Server!Works, Server!Fails
\* Steps outside a commit.
<1>q. ASSUME installCall.step \notin ServerCommits, installCall'.step \notin ServerCommits,
             UNCHANGED <<installRollback, installInstalled, installBefore>>
      PROVE  CommitKeeps'
  BY <1>q DEF CommitKeeps, ServerCommits, Server!Absent
<1>r. ASSUME Server!Removed, installCall'.step \notin ServerCommits PROVE CommitKeeps'
  BY <1>r DEF CommitKeeps, ServerCommits, Server!Removed, Server!Absent
<1>1. ASSUME NEW type \in ServerType, NEW version \in GameVersion, Server!Begin(type, version)
      PROVE  CommitKeeps'
  BY <1>1, <1>q DEF Server!Begin, Server!Idle, ServerCommits
<1>2. CASE Server!Java \/ Server!DownloadJar \/ Server!Build \/ Server!Terraria \/ Server!Clean \/ Server!Fetch
  <2>1. installCall.step \notin ServerCommits /\ installCall'.step \notin ServerCommits
    BY <1>2 DEF Server!Java, Server!DownloadJar, Server!Build, Server!Terraria, Server!Clean, Server!Fetch,
       ServerTypes, ServerCommits, Server!Goto, Server!Return, Server!Idle
  <2> QED
    BY <1>2, <2>1, <1>q DEF Server!Java, Server!DownloadJar, Server!Build, Server!Terraria, Server!Clean,
       Server!Fetch
<1>3. CASE Server!Detect \/ Server!Sponge \/ Server!Switch \/ Server!Common \/ Server!Check \/ Server!Save
  <2>1. installCall.step \notin ServerCommits /\ installCall'.step \notin ServerCommits
    BY <1>3 DEF Server!Detect, Server!Sponge, Server!Switch, Server!Common, Server!Check, Server!Save,
       ServerTypes, ServerCommits, Server!Goto, Server!Return, Server!Idle
  <2> QED
    BY <1>3, <2>1, <1>q DEF Server!Detect, Server!Sponge, Server!Switch, Server!Common, Server!Check, Server!Save
<1>4. CASE Server!RunInstaller
  <2>1. installCall.step = "run" /\ installRollback = Server!Absent /\ installInstalled = {}
        /\ UNCHANGED <<installRollback, installInstalled, installEntry>>
    BY <1>4 DEF Server!RunInstaller, CommitKeeps, ServerCommits
  <2>2. CASE installCall'.step = "commit" /\ installBefore' = installEntry
    BY <2>1, <2>2 DEF CommitKeeps, ServerCommits, Server!Absent
  <2>3. CASE installCall'.step = "idle" /\ UNCHANGED installBefore
    BY <2>1, <2>3, <1>q DEF ServerCommits
  <2> QED
    BY <1>4, <2>2, <2>3 DEF Server!RunInstaller, ServerTypes, Server!Goto, Server!Return, Server!Idle
<1>5. ASSUME NEW e \in Server!Entry, Server!Place(e) PROVE CommitKeeps'
  <2>1. installCall.step = "commit" /\ e \notin installInstalled /\ UNCHANGED installBefore
    BY <1>5 DEF Server!Place, Server!Waiting
  <2>2. installRollback[e] = 0 /\ installEntry[e] = installBefore[e]
    BY <2>1 DEF CommitKeeps
  <2>3. CASE UNCHANGED <<installEntry, installRollback, installInstalled, installCall>>
    BY <2>1, <2>3 DEF CommitKeeps, ServerCommits
  <2>4. CASE /\ installEntry' = [installEntry EXCEPT ![e] = installStaged[e]]
             /\ installRollback' = [installRollback EXCEPT ![e] = installEntry[e]]
             /\ installInstalled' = installInstalled \cup {e}
             /\ UNCHANGED installCall
    BY <2>1, <2>2, <2>4 DEF CommitKeeps, ServerCommits, ServerTypes
  <2>5. CASE /\ Server!Fails /\ UNCHANGED <<installEntry, installRollback, installInstalled>>
             /\ Server!Goto("undo")
    BY <2>1, <2>5, <1>t DEF CommitKeeps, ServerCommits, ServerTypes, Server!Goto
  <2>6. CASE /\ Server!Fails
             /\ installEntry' = [installEntry EXCEPT ![e] = 0]
             /\ installRollback' = [installRollback EXCEPT ![e] = installEntry[e]]
             /\ UNCHANGED installInstalled
             /\ Server!Goto("undo")
    BY <2>1, <2>2, <2>6, <1>t DEF CommitKeeps, ServerCommits, ServerTypes, Server!Goto
  <2> QED
    BY <1>5, <2>3, <2>4, <2>5, <2>6 DEF Server!Place, Server!Counted
<1>6. CASE Server!Placed
  BY <1>6, <1>r DEF Server!Placed, Server!Goto, ServerTypes, ServerCommits
<1>7. CASE Server!Undo
  <2>1. /\ installCall.step = "undo" /\ installCall'.step = "back"
        /\ UNCHANGED <<installRollback, installInstalled, installBefore>>
        /\ installFaults > 0
    BY <1>7 DEF Server!Undo, ServerTypes, Server!Goto, CommitKeeps
  <2>2. CASE installFaults' = installFaults + 1
    BY <2>1, <2>2, <1>t DEF CommitKeeps, ServerCommits
  <2>3. CASE /\ installFaults' = installFaults
             /\ installEntry' = [e \in Server!Entry |-> IF e \in installInstalled THEN 0 ELSE installEntry[e]]
    BY <2>1, <2>3, <1>t DEF CommitKeeps, ServerCommits
  <2> QED
    BY <1>7, <2>2, <2>3, <1>t DEF Server!Undo
<1>8. CASE Server!Back \/ Server!Crash
  BY <1>8, <1>r DEF Server!Back, Server!Crash, Server!Return, Server!Idle, ServerCommits
<1>9. CASE Server!AddExtra
  BY <1>9, <1>q DEF Server!AddExtra, Server!Idle, ServerCommits
<1>10. CASE UNCHANGED Server!vars
  BY <1>10 DEF Server!vars, CommitKeeps
<1> QED
  BY <1>1, <1>2, <1>3, <1>4, <1>5, <1>6, <1>7, <1>8, <1>9, <1>10 DEF Server!Next

LEMMA ProgramStays == ServerTypes /\ ProgramIsThere /\ [Server!Next]_Server!vars => ProgramIsThere'
<1> SUFFICES ASSUME ServerTypes, ProgramIsThere, [Server!Next]_Server!vars PROVE ProgramIsThere'
  OBVIOUS
<1> USE DEF Server!runtime, Server!commit, Server!Goto, Server!Return, Server!Idle, ServerEnds, ServerLoads
<1>i. ASSUME installCall' = Server!Idle PROVE ProgramIsThere'
  BY <1>i DEF ProgramIsThere
<1>1. ASSUME NEW type \in ServerType, NEW version \in GameVersion, Server!Begin(type, version)
      PROVE  ProgramIsThere'
  BY <1>1 DEF Server!Begin, ProgramIsThere
<1>2. CASE Server!Java
  BY <1>2, <1>i DEF Server!Java, ServerTypes, ProgramIsThere, Server!RunsInstaller, Server!IsLoader
<1>3. CASE Server!DownloadJar
  BY <1>3, <1>i DEF Server!DownloadJar, ServerTypes, ProgramIsThere
<1>4. CASE Server!Build
  BY <1>4, <1>i DEF Server!Build, ServerTypes, ProgramIsThere
<1>5. CASE Server!Terraria
  BY <1>5, <1>i DEF Server!Terraria, ServerTypes, ProgramIsThere
<1>6. CASE Server!Clean \/ Server!Fetch
  BY <1>6, <1>i DEF Server!Clean, Server!Fetch, ServerTypes, ProgramIsThere
<1>7. CASE Server!RunInstaller
  BY <1>7, <1>i DEF Server!RunInstaller, ServerTypes, ProgramIsThere
<1>8. ASSUME NEW e \in Server!Entry, Server!Place(e) PROVE ProgramIsThere'
  <2>1. installCall.step = "commit" /\ (UNCHANGED installCall \/ Server!Goto("undo"))
    BY <1>8 DEF Server!Place
  <2> QED
    BY <2>1 DEF ServerTypes, ProgramIsThere
<1>9. CASE Server!Placed \/ Server!Undo \/ Server!Back
  BY <1>9, <1>i DEF Server!Placed, Server!Undo, Server!Back, ServerTypes, ProgramIsThere
<1>10. CASE Server!Detect
  BY <1>10, <1>i DEF Server!Detect, ServerTypes, ProgramIsThere
<1>11. CASE Server!Sponge
  BY <1>11, <1>i DEF Server!Sponge, ServerTypes, ProgramIsThere
<1>12. CASE Server!Switch \/ Server!Common
  BY <1>12, <1>i DEF Server!Switch, Server!Common, ServerTypes, ProgramIsThere
<1>13. CASE Server!Check
  <2>1. UNCHANGED <<installJar, installEntry>> /\ installCall.step = "check"
    BY <1>13 DEF Server!Check
  <2>2. CASE Server!IsLoader(installCall.type)
    BY <1>13, <1>i, <2>1, <2>2 DEF Server!Check, ServerTypes, ProgramIsThere, Server!Detected, Server!IsLoader
  <2>3. CASE ~Server!IsLoader(installCall.type)
    BY <1>13, <1>i, <2>1, <2>3 DEF Server!Check, ServerTypes, ProgramIsThere, Server!IsLoader
  <2> QED
    BY <2>2, <2>3
<1>14. CASE Server!Save \/ Server!Crash
  BY <1>14, <1>i DEF Server!Save, Server!Crash
<1>15. CASE Server!AddExtra
  BY <1>15, <1>i DEF Server!AddExtra
<1>16. CASE UNCHANGED Server!vars
  BY <1>16 DEF Server!vars, ProgramIsThere, Server!IsLoader, Server!Detected
<1> QED
  BY <1>1, <1>2, <1>3, <1>4, <1>5, <1>6, <1>7, <1>8, <1>9, <1>10, <1>11, <1>12, <1>13, <1>14, <1>15,
     <1>16 DEF Server!Next

LEMMA DirectoriesStay == ServerTypes /\ DirectoriesFit /\ [Server!Next]_Server!vars => DirectoriesFit'
<1> SUFFICES ASSUME ServerTypes, DirectoriesFit, [Server!Next]_Server!vars PROVE DirectoriesFit'
  OBVIOUS
<1> USE DEF Server!runtime, Server!commit, Server!Goto, Server!Return, Server!Idle
<1>q. ASSUME UNCHANGED installExtras, installCall'.step \notin {"common", "check", "save"}
      PROVE  DirectoriesFit'
  BY <1>q DEF DirectoriesFit
<1>1. ASSUME NEW type \in ServerType, NEW version \in GameVersion, Server!Begin(type, version)
      PROVE  DirectoriesFit'
  BY <1>1, <1>q DEF Server!Begin
<1>2. CASE Server!Java \/ Server!DownloadJar \/ Server!Build \/ Server!Terraria \/ Server!Clean \/ Server!Fetch
           \/ Server!RunInstaller
  BY <1>2, <1>q DEF ServerTypes, Server!Java, Server!DownloadJar, Server!Build, Server!Terraria, Server!Clean,
     Server!Fetch, Server!RunInstaller
<1>3. ASSUME NEW e \in Server!Entry, Server!Place(e) PROVE DirectoriesFit'
  BY <1>3, <1>q DEF Server!Place, ServerTypes
<1>4. CASE Server!Placed \/ Server!Undo \/ Server!Back \/ Server!Detect \/ Server!Crash \/ Server!Save
  BY <1>4, <1>q DEF Server!Placed, Server!Undo, Server!Back, Server!Detect, Server!Crash, Server!Save, ServerTypes
<1>5. CASE Server!Sponge
  <2>1. installExtras'["plugins"] = installExtras["plugins"] /\ installCall'.step \notin {"common", "check", "save"}
    BY <1>5 DEF Server!Sponge, ServerTypes
  <2> QED
    BY <2>1 DEF DirectoriesFit
<1>6. CASE Server!Switch
  <2>1. /\ installExtras' = [d \in {"mods", "plugins"} |-> IF Server!Emptied(d) THEN {} ELSE installExtras[d]]
        /\ UNCHANGED installCfg
        /\ installCall'.type = installCall.type
    BY <1>6 DEF Server!Switch, ServerTypes
  <2>2. installExtras'["plugins"] \subseteq Server!Plugins
    BY <2>1 DEF DirectoriesFit
  <2>3. ASSUME installCfg.setup, installCfg.type # installCall.type
        PROVE  /\ installExtras'[Server!CleanedDir(installCfg.type)] = {}
               /\ installExtras'[Server!CleanedDir(installCall.type)] = {}
    BY <2>1, <2>3 DEF Server!Emptied, Server!Switches, Server!CleanedDir
  <2>4. /\ Server!CleanedDir(installCfg.type)' = Server!CleanedDir(installCfg.type)
        /\ Server!CleanedDir(installCall.type)' = Server!CleanedDir(installCall.type)
    BY <2>1 DEF Server!CleanedDir
  <2> QED
    BY <2>1, <2>2, <2>3, <2>4 DEF DirectoriesFit
<1>7. CASE Server!Common \/ Server!Check
  <2>1. /\ installCall.step \in {"common", "check"} /\ UNCHANGED <<installCfg, installExtras>>
        /\ installCall'.type = installCall.type \/ installCall'.step = "idle"
    BY <1>7 DEF Server!Common, Server!Check, ServerTypes
  <2> QED
    BY <2>1 DEF DirectoriesFit, Server!CleanedDir
<1>8. CASE Server!AddExtra
  <2>1. /\ installExtras' = [installExtras EXCEPT ![Server!DirOf(installCfg.type)] = @ \cup {installCfg.type}]
        /\ installCall'.step = "idle"
    BY <1>8 DEF Server!AddExtra
  <2>2. installExtras'["plugins"] \subseteq Server!Plugins
    BY <2>1 DEF DirectoriesFit, Server!DirOf, ServerTypes
  <2> QED
    BY <2>1, <2>2 DEF DirectoriesFit
<1>9. CASE UNCHANGED Server!vars
  BY <1>9 DEF Server!vars, DirectoriesFit, Server!CleanedDir
<1> QED
  BY <1>1, <1>2, <1>3, <1>4, <1>5, <1>6, <1>7, <1>8, <1>9 DEF Server!Next

LEMMA ServerStep == ServerInv /\ [Server!Next]_Server!vars => ServerInv'
  BY ServerTypesStay, CommitKept, ProgramStays, DirectoriesStay DEF ServerInv

\* A commit of a loader that fails in one rename puts every entry of the old runtime back.
THEOREM RuntimeRestored == Server!Spec => Server!RuntimeIsRestored
<1> DEFINE A == installCall.step = "back" /\ installFaults' = 1 => installEntry' = installBefore
<1>1. ServerInv /\ [Server!Next]_Server!vars => [A]_Server!vars
  <2> SUFFICES ASSUME ServerInv, Server!Next, installCall.step = "back", installFaults' = 1
               PROVE  installEntry' = installBefore
    OBVIOUS
  <2>1. Server!Back \/ Server!Crash
    BY DEF Server!Next, Server!Begin, Server!Java, Server!DownloadJar, Server!Build, Server!Terraria,
       Server!Clean, Server!Fetch, Server!RunInstaller, Server!Place, Server!Placed, Server!Undo,
       Server!Detect, Server!Sponge, Server!Switch, Server!Common, Server!Check, Server!Save,
       Server!AddExtra, Server!Idle
  <2>2. installFaults \in Nat /\ installFaults > 0
    BY DEF ServerInv, ServerTypes, CommitKeeps
  <2>3. ~Server!Fails
    BY <2>2 DEF Server!Fails
  <2>4. /\ installFaults = 1
        /\ installEntry' = [e \in Server!Entry |-> IF installRollback[e] # 0 THEN installRollback[e] ELSE installEntry[e]]
    BY <2>1, <2>3 DEF Server!Back, Server!Crash, Server!Works
  <2>5. \A e \in Server!Entry : installEntry'[e] = installBefore[e]
    BY <2>4 DEF ServerInv, CommitKeeps
  <2>6. installBefore \in [Server!Entry -> GameVersion \cup {0}]
    BY DEF ServerInv, ServerTypes
  <2> QED
    BY <2>4, <2>5, <2>6
<1> HIDE DEF A
<1> QED
  BY <1>1, ServerInitially, ServerStep, PTL DEF Server!Spec, Server!RuntimeIsRestored, A

LEMMA OnlySaveSaves ==
  ASSUME Server!Next, installCfg' # installCfg
  PROVE  Server!Save
  BY DEF Server!Next, Server!Begin, Server!Java, Server!DownloadJar, Server!Build, Server!Terraria,
     Server!Clean, Server!Fetch, Server!RunInstaller, Server!Place, Server!Placed, Server!Undo, Server!Back,
     Server!Detect, Server!Sponge, Server!Switch, Server!Common, Server!Check,
     Server!AddExtra, Server!Crash

\* A profile that is saved as set up can be started: the program of its type and version is
\* in place, whatever was there before and was fetched, cached or installed.
THEOREM SavedServerStarts == Server!Spec => Server!SavedStarts
<1> DEFINE A == installCfg' # installCfg /\ installCfg'.type \notin {"SpongeForge", "Terraria"}
                => Server!Starts(installCfg)'
<1>1. ServerInv /\ [Server!Next]_Server!vars => [A]_Server!vars
  <2> SUFFICES ASSUME ServerInv, Server!Next, installCfg' # installCfg,
                      installCfg'.type \notin {"SpongeForge", "Terraria"}
               PROVE  Server!Starts(installCfg)'
    OBVIOUS
  <2>1. /\ installCall.step = "save"
        /\ UNCHANGED <<installJar, installEntry>>
        /\ installCfg'.type = installCall.type /\ installCfg'.version = installCall.version
    BY OnlySaveSaves DEF Server!Save, Server!runtime
  <2>2. CASE Server!IsLoader(installCall.type)
    BY <2>1, <2>2 DEF ServerInv, ProgramIsThere, Server!Detected, Server!Starts, Server!IsLoader
  <2>3. CASE ~Server!IsLoader(installCall.type)
    BY <2>1, <2>3 DEF ServerInv, ProgramIsThere, ServerEnds, ServerLoads, Server!Starts, Server!IsLoader
  <2> QED
    BY <2>2, <2>3
<1> HIDE DEF A
<1> QED
  BY <1>1, ServerInitially, ServerStep, PTL DEF Server!Spec, Server!SavedStarts, A

\* A server whose type changes has no mods or plugins left that the new type cannot load.
THEOREM ExtrasFitTheServer == Server!Spec => Server!ExtrasFit
<1> DEFINE A == installCfg.setup /\ installCfg'.type # installCfg.type
                => installExtras'[Server!DirOf(installCfg'.type)] \subseteq Server!Loads(installCfg'.type)
<1>1. ServerInv /\ [Server!Next]_Server!vars => [A]_Server!vars
  <2> SUFFICES ASSUME ServerInv, Server!Next, installCfg.setup, installCfg'.type # installCfg.type
               PROVE  installExtras'[Server!DirOf(installCfg'.type)] \subseteq Server!Loads(installCfg'.type)
    OBVIOUS
  <2>1. /\ installCall.step = "save"
        /\ UNCHANGED installExtras
        /\ installCfg'.type = installCall.type
    BY OnlySaveSaves DEF Server!Save
  <2>2. /\ installExtras["plugins"] \subseteq Server!Plugins
        /\ installExtras[Server!CleanedDir(installCall.type)] = {}
    BY <2>1 DEF ServerInv, DirectoriesFit
  <2>3. CASE installCall.type \in Server!Plugins
    <3>1. Server!DirOf(installCall.type) = "plugins" /\ Server!Loads(installCall.type) = Server!Plugins
      BY <2>3 DEF Server!DirOf, Server!Loads, Server!Plugins
    <3> QED
      BY <2>1, <2>2, <3>1
  <2>4. CASE installCall.type \notin Server!Plugins
    <3>1. Server!DirOf(installCall.type) = Server!CleanedDir(installCall.type)
      BY <2>4 DEF Server!DirOf, Server!CleanedDir, Server!Plugins
    <3> QED
      BY <2>1, <2>2, <3>1
  <2> QED
    BY <2>3, <2>4
<1> HIDE DEF A
<1> QED
  BY <1>1, ServerInitially, ServerStep, PTL DEF Server!Spec, Server!ExtrasFit, A

-----------------------------------------------------------------------------
(***************************************************************************)
(* The licence (Heartbeat).                                                *)
(***************************************************************************)

\* The clock is a number; it goes forward by one, and not while the key changes.
LicenceInv == beatNow \in Nat

LEMMA LicenceStarts == Beat!Init => LicenceInv
  BY DEF Beat!Init, LicenceInv

LEMMA LicenceClock ==
  ASSUME LicenceInv, [Beat!Next]_Beat!vars
  PROVE  beatNow' = beatNow \/ (beatNow' = beatNow + 1 /\ beatStored' = beatStored)
<1> USE DEF Beat!world, Beat!loop, Beat!history
<1>1. CASE Beat!Tick
  BY <1>1 DEF Beat!Tick, Beat!UpTo
<1>2. CASE Beat!Change \/ Beat!Crash
  BY <1>2 DEF Beat!Change, Beat!Crash
<1>3. CASE Beat!Off \/ Beat!Post \/ Beat!NoAnswer \/ Beat!Wake \/ Beat!SignOut
  BY <1>3 DEF Beat!Off, Beat!Post, Beat!NoAnswer, Beat!Wake, Beat!SignOut
<1>4. CASE \E key \in LicenceKey : Beat!UserActivates(key)
  BY <1>4 DEF Beat!UserActivates
<1>5. CASE \E key \in LicenceKey \cup {NoThing}, revoked \in BOOLEAN : Beat!Answer(key, revoked)
  BY <1>5 DEF Beat!Answer
<1>6. CASE UNCHANGED Beat!vars
  BY <1>6 DEF Beat!vars
<1> QED
  BY <1>1, <1>2, <1>3, <1>4, <1>5, <1>6 DEF Beat!Next

LEMMA LicenceGoes == LicenceInv /\ [Beat!Next]_Beat!vars => LicenceInv'
  BY LicenceClock DEF LicenceInv

\* What an activation may leave in the file is what was there, a key that is active, or half of one.
LEMMA ActivatedIsActive ==
  ASSUME NEW file, NEW key, NEW ends \in Beat!Activated(file, key)
  PROVE  ends.file = file \/ ends.file = DamagedFile
         \/ (ends.file = key /\ Beat!Verdict(key, beatNow) = "active")
  BY DEF Beat!Activated, Beat!Ends

LEMMA AppliedIsActive ==
  ASSUME NEW file, NEW key, NEW revoked \in BOOLEAN, NEW ends \in Beat!Apply(file, key, revoked)
  PROVE  ends.file = file \/ ends.file \in {DamagedFile, NoThing}
         \/ (ends.file = key /\ Beat!Verdict(key, beatNow) = "active")
<1> DEFINE first == IF key = NoThing THEN {Beat!Ends(file, 0)} ELSE Beat!Activated(file, key)
<1>1. ASSUME NEW a \in first
      PROVE  a.file = file \/ a.file \in {DamagedFile, NoThing}
             \/ (a.file = key /\ Beat!Verdict(key, beatNow) = "active")
  <2>1. CASE key = NoThing
    BY <2>1 DEF Beat!Ends
  <2>2. CASE key # NoThing
    BY <2>2, ActivatedIsActive
  <2> QED
    BY <2>1, <2>2
<1>2. CASE ~revoked
  BY <1>1, <1>2 DEF Beat!Apply
<1>3. CASE revoked
  <2>1. PICK a \in first : \E d \in Beat!Deactivated(a.file) : ends = Beat!Ends(d.file, a.failed + d.failed)
    BY <1>3 DEF Beat!Apply
  <2>2. PICK d \in Beat!Deactivated(a.file) : ends = Beat!Ends(d.file, a.failed + d.failed)
    BY <2>1
  <2>3. d.file = NoThing \/ d.file = a.file
    BY DEF Beat!Deactivated, Beat!Ends
  <2>4. ends.file = d.file
    BY <2>2 DEF Beat!Ends
  <2> QED
    BY <1>1, <2>3, <2>4
<1> QED
  BY <1>2, <1>3

\* An active licence does not end between two looks at the clock, its grace comes first; and
\* no answer of the dashboard puts a key that has run out in the place of one in force.
THEOREM LicenceLapsesByGrace == Beat!Spec => Beat!LicenceLapsesLate
<1> DEFINE A == /\ Beat!Current = "active" /\ Beat!Current' = "free" => beatStored' # beatStored
                /\ Beat!Current # "free" /\ beatStored' \in LicenceKey \ {beatStored} => Beat!Current' = "active"
<1>1. LicenceInv /\ [Beat!Next]_Beat!vars => [A]_Beat!vars
  <2> SUFFICES ASSUME LicenceInv, Beat!Next PROVE A
    OBVIOUS
  <2>1. ASSUME Beat!Current = "active", Beat!Current' = "free", beatStored' = beatStored PROVE FALSE
    <3>1. beatStored \in LicenceKey /\ beatNow <= KeyLife[beatStored]
      BY <2>1 DEF Beat!Current, Beat!Verdict
    <3>2. KeyLife[beatStored] \in Nat /\ KeyLife[beatStored] >= 4
      BY <3>1, KeysLast
    <3>3. beatNow \in Nat /\ (beatNow' = beatNow \/ beatNow' = beatNow + 1)
      BY LicenceClock DEF LicenceInv
    <3>4. beatNow' <= KeyLife[beatStored] + (KeyLife[beatStored] * 25) \div 100
      BY <3>1, <3>2, <3>3
    <3>5. Beat!Verdict(beatStored, beatNow') \in {"active", "grace"}
      BY <3>2, <3>3, <3>4 DEF Beat!Verdict
    <3>6. Beat!Current' = IF beatStored' \in LicenceKey /\ Beat!Verdict(beatStored', beatNow') # "invalid"
                          THEN Beat!Verdict(beatStored', beatNow') ELSE "free"
      BY DEF Beat!Current, Beat!Verdict
    <3> QED
      BY <2>1, <3>1, <3>5, <3>6
  <2>2. ASSUME beatStored' \in LicenceKey, beatStored' # beatStored PROVE Beat!Current' = "active"
    <3> USE DEF Beat!world, Beat!loop, Beat!history
    <3>1. beatNow' = beatNow
      BY <2>2, LicenceClock
    <3>2. beatStored' \notin {DamagedFile, NoThing}
      BY <2>2, NothingIsNoValue
    <3>3. Beat!Verdict(beatStored', beatNow) = "active"
      <4>1. CASE Beat!SignOut
        BY <4>1, <2>2, <3>2 DEF Beat!SignOut, Beat!Becomes, Beat!Deactivated, Beat!Ends
      <4>2. ASSUME NEW key \in LicenceKey, Beat!UserActivates(key) PROVE Beat!Verdict(beatStored', beatNow) = "active"
        BY <4>2, <2>2, <3>2, ActivatedIsActive DEF Beat!UserActivates, Beat!Becomes
      <4>3. ASSUME NEW key \in LicenceKey \cup {NoThing}, NEW revoked \in BOOLEAN, Beat!Answer(key, revoked)
            PROVE  Beat!Verdict(beatStored', beatNow) = "active"
        BY <4>3, <2>2, <3>2, AppliedIsActive DEF Beat!Answer, Beat!Becomes
      <4> QED
        BY <2>2, <4>1, <4>2, <4>3 DEF Beat!Next, Beat!Tick, Beat!Change, Beat!Crash, Beat!Off, Beat!Post,
           Beat!NoAnswer, Beat!Wake
    <3>4. Beat!Current' = IF beatStored' \in LicenceKey /\ Beat!Verdict(beatStored', beatNow') # "invalid"
                          THEN Beat!Verdict(beatStored', beatNow') ELSE "free"
      BY DEF Beat!Current, Beat!Verdict
    <3> QED
      BY <2>2, <3>1, <3>3, <3>4
  <2> QED
    BY <2>1, <2>2
<1> HIDE DEF A
<1> QED
  BY <1>1, LicenceStarts, LicenceGoes, PTL DEF Beat!Spec, Beat!LicenceLapsesLate, A

-----------------------------------------------------------------------------
(***************************************************************************)
(* The machines that write files, together (MCServices).                   *)
(***************************************************************************)

\* Each of them goes on in MCServices as it would alone.
LEMMA Parts ==
    MCSpec =>
        /\ Java!Spec /\ Backup!Spec /\ Saved!Spec /\ Properties!Spec /\ Server!Spec /\ Modpack!Spec
        /\ Side!Spec /\ Terraria!Spec /\ Node!Spec /\ Beat!Spec /\ Stored!Spec
<1>0. MCInit =>
        /\ Java!Init /\ Backup!Init /\ Saved!Init /\ Properties!Init /\ Server!Init /\ Modpack!Init
        /\ Side!Init /\ Terraria!Init /\ Node!Init /\ Beat!Init /\ Stored!Init
  BY DEF MCInit
\* A step moves the machine or leaves it alone.
<1>n. [MCNext]_servicesVars =>
        /\ JavaMoves \/ UNCHANGED javaVars
        /\ BackupMoves \/ UNCHANGED backupVars
        /\ SavedMoves \/ UNCHANGED profilesVars
        /\ PropertiesMoves \/ UNCHANGED propertiesVars
        /\ ServerMoves \/ UNCHANGED installVars
        /\ ModpackMoves \/ UNCHANGED packVars
        /\ SideMoves \/ UNCHANGED sideVars
        /\ TerrariaMoves \/ UNCHANGED terrariaVars
        /\ NodeMoves \/ UNCHANGED nodeVars
        /\ BeatMoves \/ UNCHANGED beatVars
        /\ StoredMoves \/ UNCHANGED storedVars
  BY DEF MCNext, servicesVars,
      JavaMoves, BackupMoves, SavedMoves, PropertiesMoves, RemedyMoves, TunnelMoves,
      ServerMoves, ModpackMoves, SideMoves, TerrariaMoves, PlayersMoves, NodeMoves,
      MonitorMoves, BeatMoves, DataMoves, StoredMoves, ChunksMoves
<1>1. [MCNext]_servicesVars => [Java!Next]_Java!vars
  BY <1>n DEF JavaMoves, javaVars, Java!vars
<1>2. [MCNext]_servicesVars => [Backup!Next]_Backup!vars
  BY <1>n DEF BackupMoves, backupVars, Backup!vars
<1>3. [MCNext]_servicesVars => [Saved!Next]_Saved!vars
  BY <1>n DEF SavedMoves, profilesVars, Saved!vars
<1>4. [MCNext]_servicesVars => [Properties!Next]_Properties!vars
  BY <1>n DEF PropertiesMoves, propertiesVars, Properties!vars
<1>5. [MCNext]_servicesVars => [Server!Next]_Server!vars
  BY <1>n DEF ServerMoves, installVars, Server!vars, Server!runtime, Server!commit
<1>6. [MCNext]_servicesVars => [Modpack!Next]_Modpack!vars
  BY <1>n DEF ModpackMoves, packVars, Modpack!vars, Modpack!server, Modpack!staging
<1>7. [MCNext]_servicesVars => [Side!Next]_Side!vars
  BY <1>n DEF SideMoves, sideVars, Side!vars
<1>8. [MCNext]_servicesVars => [Terraria!Next]_Terraria!vars
  BY <1>n DEF TerrariaMoves, terrariaVars, Terraria!vars
<1>9. [MCNext]_servicesVars => [Node!Next]_Node!vars
  BY <1>n DEF NodeMoves, nodeVars, Node!vars, Node!files
<1>10. [MCNext]_servicesVars => [Beat!Next]_Beat!vars
  BY <1>n DEF BeatMoves, beatVars, Beat!vars, Beat!world, Beat!loop, Beat!history
<1>11. [MCNext]_servicesVars => [Stored!Next]_Stored!vars
  BY <1>n DEF StoredMoves, storedVars, Stored!vars
<1> QED
       BY <1>0, <1>1, <1>2, <1>3, <1>4, <1>5, <1>6, <1>7, <1>8, <1>9, <1>10, <1>11, PTL
     DEF MCSpec,
         Java!Spec, Backup!Spec, Saved!Spec, Properties!Spec, Server!Spec, Modpack!Spec,
         Side!Spec, Terraria!Spec, Node!Spec, Beat!Spec, Stored!Spec

\* Nothing that a restore, a download, a save or a prepare leaves is half done,
\* and no mod is lost, whatever fails and wherever it crashes.
THEOREM NothingIsEverHalf == MCSpec => []NothingIsHalfOrLost
  BY Parts, RestoredServerIsOneTree, BundledJavaIsWhole, SavedProfilesAreWhole, PreparedNodeIsWhole,
     SavesAreWhole, SavesAreAlone, OldModsStay, ScanLeavesNoUnwanted, PTL
     DEF NothingIsHalfOrLost, SavingAlone, SavingDistinct

\* What was saved stays.
THEOREM SavedStays == MCSpec => SavesStay
  BY Parts, SavedProfilesStay, CreatedPropertiesStay, ListOfModsIsKept, StoppedNodeIsEnded,
     LicenceLapsesByGrace, SavingRefinement, SavesAreAlone, PTL
     DEF SavesStay, SavingAlone, SavingDistinct

\* Installs are sound.
THEOREM SoundInstalls == MCSpec => InstallsAreSound
  BY Parts, RuntimeRestored, SavedServerStarts, ExtrasFitTheServer, RecordedItemIsCopied, PTL
     DEF InstallsAreSound
=============================================================================
