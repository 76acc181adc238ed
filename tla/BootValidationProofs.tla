------------------------ MODULE BootValidationProofs ------------------------
(***************************************************************************)
(* Proofs about BootValidation, for any number of failing operations and   *)
(* of crashes.                                                             *)
(*                                                                         *)
(* A crash leaves the overlay in the tree, and the next boot saves that    *)
(* overlay as if it were the original.  The invariant follows what the     *)
(* original may have become by then: properties that are not the overlay   *)
(* are the original, a marker that holds the overlay never meets restored  *)
(* properties, and a marker that is missing when the properties are to be  *)
(* restored means that there were none.                                    *)
(***************************************************************************)
EXTENDS BootValidation, TLAPS

\* The files are the build's, or have the overlay; an overlay in the marker was
\* copied from the properties, and is still there.
FilesAreKnown ==
    /\ props \in {original, "overlay"}
    /\ marker \in {"none", original, "overlay"}
    /\ marker = "overlay" => props = "overlay"

BeforeBackup == {"prepare", "backup"}
BeforeServer == BeforeBackup \cup {"overlay", "launch"}

\* backedUp is set only after a backup, and a backup without a marker is one of a
\* tree without properties.
MissingMarkerIsTrue ==
    /\ pc \in BeforeBackup \cup {"idle", "overlay"} => ~backedUp
    /\ pc \in {"overlay", "restore"} \/ (backedUp /\ pc \notin {"unmark", "verify"}) =>
          (marker = "none" => original = "none")

\* Where there may be a server.
ServerIsIn ==
    /\ pc \in {"idle"} \cup BeforeServer => proc = "none"
    /\ EndedBeforeRestored

\* A tree that is committed is touched by none of the validator's steps.
CommittedIsIdle == committed => pc = "idle"

Inv ==
    /\ TypeOK
    /\ FilesAreKnown
    /\ MissingMarkerIsTrue
    /\ ServerIsIn
    /\ CommittedIsIdle
    /\ CommittedIsOriginal

-----------------------------------------------------------------------------
\* The type invariant in parts, each for the prover that can do it.
FilesTyped == original \in {"none", "staged"} /\ props \in Properties /\ marker \in Properties
BootTyped == proc \in Process /\ pc \in Step /\ result \in Result
FlagsTyped ==
    /\ world \in BOOLEAN /\ late \in BOOLEAN /\ backedUp \in BOOLEAN /\ committed \in BOOLEAN
    /\ unseen \subseteq Residue
BoundsTyped == failures \in 0..MaxFailures /\ crashes \in 0..MaxCrashes

LEMMA TypeParts == TypeOK <=> FilesTyped /\ BootTyped /\ FlagsTyped /\ BoundsTyped
  BY DEF TypeOK, FilesTyped, BootTyped, FlagsTyped, BoundsTyped

\* The invariant holds at the start.
LEMMA InitInv == Init => Inv
<1> SUFFICES ASSUME Init PROVE Inv
  OBVIOUS
<1>1. TypeOK
  <2>1. FilesTyped
    BY DEF Init, FilesTyped, Properties
  <2>2. BootTyped
    BY DEF Init, BootTyped, Process, Result, Step
  <2>3. FlagsTyped
    BY DEF Init, FlagsTyped
  <2>4. BoundsTyped
    BY BoundsAssumption DEF Init, BoundsTyped
  <2> QED
    BY <2>1, <2>2, <2>3, <2>4, TypeParts
<1>2. FilesAreKnown /\ MissingMarkerIsTrue
  BY DEF Init, FilesAreKnown, MissingMarkerIsTrue, BeforeBackup
<1>3. ServerIsIn /\ CommittedIsIdle /\ CommittedIsOriginal
  BY DEF Init, ServerIsIn, EndedBeforeRestored, CommittedIsIdle, CommittedIsOriginal
<1> QED
  BY <1>1, <1>2, <1>3 DEF Inv

\* Types, part by part and step by step.
LEMMA FilesStep == FilesTyped /\ Next => FilesTyped'
<1> SUFFICES ASSUME FilesTyped, Next PROVE FilesTyped'
  OBVIOUS
<1> USE DEF FilesTyped, Properties, Works, Fails, Goto, Outcome, Idle, tree, boot, verdict, bounds
<1>1. CASE Validate \/ Prepare
  BY <1>1 DEF Validate, Prepare
<1>2. CASE Backup \/ Overlay
  BY <1>2 DEF Backup, Overlay
<1>3. CASE Launch \/ WaitForExit
  BY <1>3 DEF Launch, WaitForExit
<1>4. CASE Reader
  BY <1>4 DEF Reader, TimeOut, ReadLine, ReadEnd, ReadFails, NoLine
<1>5. CASE Stop \/ Kill
  BY <1>5 DEF Stop, Kill, Killed
<1>6. CASE CleanWorld \/ Restore
  BY <1>6 DEF CleanWorld, Restore, Return
<1>7. CASE Unmark \/ Verify
  BY <1>7 DEF Unmark, Verify, Return, Clean
<1>8. CASE ServerProcess \/ Elapse
  BY <1>8 DEF ServerProcess, MakeWorld, CloseOutput, Exit, Elapse
<1>9. CASE Crash \/ NewTree
  BY <1>9 DEF Crash, NewTree
<1> QED
  BY <1>1, <1>2, <1>3, <1>4, <1>5, <1>6, <1>7, <1>8, <1>9 DEF Next, Validator

LEMMA BootStep == BootTyped /\ Next => BootTyped'
<1> SUFFICES ASSUME BootTyped, Next PROVE BootTyped'
  OBVIOUS
<1> USE DEF BootTyped, Process, Step, Result, Works, Fails, Goto, Outcome, Idle, tree, boot, verdict, bounds
<1>1. CASE Validate \/ Prepare
  BY <1>1 DEF Validate, Prepare
<1>2. CASE Backup \/ Overlay
  BY <1>2 DEF Backup, Overlay
<1>3. CASE Launch \/ WaitForExit
  BY <1>3 DEF Launch, WaitForExit
<1>4. CASE Reader
  BY <1>4 DEF Reader, TimeOut, ReadLine, ReadEnd, ReadFails, NoLine
<1>5. CASE Stop \/ Kill
  BY <1>5 DEF Stop, Kill, Killed
<1>6. CASE CleanWorld \/ Restore
  BY <1>6 DEF CleanWorld, Restore, Return
<1>7. CASE Unmark \/ Verify
  BY <1>7 DEF Unmark, Verify, Return, Clean
<1>8. CASE ServerProcess \/ Elapse
  BY <1>8 DEF ServerProcess, MakeWorld, CloseOutput, Exit, Elapse
<1>9. CASE Crash \/ NewTree
  BY <1>9 DEF Crash, NewTree
<1> QED
  BY <1>1, <1>2, <1>3, <1>4, <1>5, <1>6, <1>7, <1>8, <1>9 DEF Next, Validator

LEMMA FlagsStep == FlagsTyped /\ Next => FlagsTyped'
<1> SUFFICES ASSUME FlagsTyped, Next PROVE FlagsTyped'
  OBVIOUS
<1> USE DEF FlagsTyped, Works, Fails, Goto, Outcome, Idle, tree, boot, verdict, bounds
<1>1. CASE Validate \/ Prepare
  BY <1>1 DEF Validate, Prepare
<1>2. CASE Backup \/ Overlay
  BY <1>2 DEF Backup, Overlay
<1>3. CASE Launch \/ WaitForExit
  BY <1>3 DEF Launch, WaitForExit
<1>4. CASE Reader
  BY <1>4 DEF Reader, TimeOut, ReadLine, ReadEnd, ReadFails, NoLine
<1>5. CASE Stop \/ Kill
  BY <1>5 DEF Stop, Kill, Killed
<1>6. CASE CleanWorld \/ Restore
  BY <1>6 DEF CleanWorld, Restore, Return
<1>7. CASE Unmark \/ Verify
  BY <1>7 DEF Unmark, Verify, Return, Clean
<1>8. CASE ServerProcess \/ Elapse
  BY <1>8 DEF ServerProcess, MakeWorld, CloseOutput, Exit, Elapse
<1>9. CASE Crash \/ NewTree
  BY <1>9 DEF Crash, NewTree
<1> QED
  BY <1>1, <1>2, <1>3, <1>4, <1>5, <1>6, <1>7, <1>8, <1>9 DEF Next, Validator

LEMMA BoundsStep == BoundsTyped /\ Next => BoundsTyped'
<1> SUFFICES ASSUME BoundsTyped, Next PROVE BoundsTyped'
  OBVIOUS
<1> USE BoundsAssumption DEF BoundsTyped, Works, Fails, Goto, Outcome, Idle, tree, boot, verdict, bounds
<1>1. CASE Validate \/ Prepare
  BY <1>1 DEF Validate, Prepare
<1>2. CASE Backup \/ Overlay
  BY <1>2 DEF Backup, Overlay
<1>3. CASE Launch \/ WaitForExit
  BY <1>3 DEF Launch, WaitForExit
<1>4. CASE Reader
  BY <1>4 DEF Reader, TimeOut, ReadLine, ReadEnd, ReadFails, NoLine
<1>5. CASE Stop \/ Kill
  BY <1>5 DEF Stop, Kill, Killed
<1>6. CASE CleanWorld \/ Restore
  BY <1>6 DEF CleanWorld, Restore, Return
<1>7. CASE Unmark \/ Verify
  <2>1. CASE Unmark
    BY <2>1 DEF Unmark, Return
  <2>2. CASE Verify
    <3>1. crashes' = crashes /\ (Works \/ Fails)
      BY <2>2 DEF Verify
    <3> QED
      BY <3>1
  <2> QED
    BY <1>7, <2>1, <2>2
<1>8. CASE ServerProcess \/ Elapse
  BY <1>8 DEF ServerProcess, MakeWorld, CloseOutput, Exit, Elapse
<1>9. CASE Crash \/ NewTree
  BY <1>9 DEF Crash, NewTree
<1> QED
  BY <1>1, <1>2, <1>3, <1>4, <1>5, <1>6, <1>7, <1>8, <1>9 DEF Next, Validator

LEMMA StepTypes == TypeOK /\ Next => TypeOK'
<1>1. TypeOK' <=> FilesTyped' /\ BootTyped' /\ FlagsTyped' /\ BoundsTyped'
  BY DEF TypeOK, FilesTyped, BootTyped, FlagsTyped, BoundsTyped
<1> QED
  BY <1>1, TypeParts, FilesStep, BootStep, FlagsStep, BoundsStep

-----------------------------------------------------------------------------
(***************************************************************************)
(* The rest of the invariant, action by action.                            *)
(***************************************************************************)
Rest ==
    /\ FilesAreKnown
    /\ MissingMarkerIsTrue
    /\ ServerIsIn
    /\ CommittedIsIdle
    /\ CommittedIsOriginal

\* What the overlay does to the files.
LEMMA OverlaySteps ==
  ASSUME Inv, Validate \/ Prepare \/ Backup \/ Overlay \/ Launch
  PROVE  Rest'
<1> USE DEF Inv, Rest, TypeOK, FilesAreKnown, MissingMarkerIsTrue, ServerIsIn, CommittedIsIdle,
            CommittedIsOriginal, EndedBeforeRestored, BeforeBackup, BeforeServer,
            Properties, Goto, Outcome, Idle, tree, boot, verdict, bounds
<1>1. CASE Validate
  BY <1>1 DEF Validate
<1>2. CASE Prepare
  BY <1>2 DEF Prepare
<1>3. CASE Backup
  <2>1. CASE Goto("overlay") /\ marker' = (IF props = "none" THEN marker ELSE props)
    BY <1>3, <2>1 DEF Backup
  <2>2. CASE Outcome("failed", "clean") /\ UNCHANGED marker
    BY <1>3, <2>2 DEF Backup
  <2> QED
    BY <1>3, <2>1, <2>2 DEF Backup
<1>4. CASE Overlay
  BY <1>4 DEF Overlay
<1>5. CASE Launch
  BY <1>5 DEF Launch
<1> QED
  BY <1>1, <1>2, <1>3, <1>4, <1>5

\* The server writes to the tree while it runs, and the validator waits.
LEMMA ServerSteps ==
  ASSUME Inv, ServerProcess \/ Elapse \/ Reader \/ WaitForExit \/ Stop \/ Kill
  PROVE  Rest'
<1> USE DEF Inv, Rest, TypeOK, FilesAreKnown, MissingMarkerIsTrue, ServerIsIn, CommittedIsIdle,
            CommittedIsOriginal, EndedBeforeRestored, BeforeBackup, BeforeServer,
            Goto, Outcome, tree, boot, verdict, bounds
<1>1. CASE ServerProcess \/ Elapse
  BY <1>1 DEF ServerProcess, MakeWorld, CloseOutput, Exit, Elapse
<1>2. CASE Reader
  BY <1>2 DEF Reader, TimeOut, ReadLine, ReadEnd, ReadFails, NoLine
<1>3. CASE WaitForExit
  BY <1>3 DEF WaitForExit
<1>4. CASE Stop \/ Kill
  BY <1>4 DEF Stop, Kill, Killed
<1> QED
  BY <1>1, <1>2, <1>3, <1>4

\* What undoing does, and what a crash leaves.
LEMMA UndoSteps ==
  ASSUME Inv, CleanWorld \/ Restore \/ Unmark \/ Verify \/ Crash \/ NewTree
  PROVE  Rest'
<1> USE DEF Inv, Rest, TypeOK, FilesAreKnown, MissingMarkerIsTrue, ServerIsIn, CommittedIsIdle,
            CommittedIsOriginal, EndedBeforeRestored, BeforeBackup, BeforeServer,
            Properties, Goto, Idle, tree, boot, verdict, bounds
<1>1. CASE CleanWorld
  BY <1>1 DEF CleanWorld
<1>2. CASE Restore
  BY <1>2 DEF Restore, Return
<1>3. CASE Unmark
  BY <1>3 DEF Unmark, Return
<1>4. CASE Verify
  BY <1>4 DEF Verify, Clean
<1>5. CASE Crash
  BY <1>5 DEF Crash
<1>6. CASE NewTree
  BY <1>6 DEF NewTree
<1> QED
  BY <1>1, <1>2, <1>3, <1>4, <1>5, <1>6

\* Every step keeps the invariant.
LEMMA StepInv == Inv /\ [Next]_vars => Inv'
<1> SUFFICES ASSUME Inv, [Next]_vars PROVE Inv'
  OBVIOUS
<1>1. CASE UNCHANGED vars
  BY <1>1
  DEF vars, tree, boot, verdict, bounds, Inv, TypeOK, FilesAreKnown, MissingMarkerIsTrue, ServerIsIn,
      CommittedIsIdle, CommittedIsOriginal, EndedBeforeRestored
<1>2. CASE Next
  <2>1. TypeOK'
    BY <1>2, StepTypes DEF Inv
  <2>2. Rest'
    BY <1>2, OverlaySteps, ServerSteps, UndoSteps DEF Next, Validator
  <2> QED
    BY <2>1, <2>2 DEF Inv, Rest
<1> QED
  BY <1>1, <1>2

-----------------------------------------------------------------------------
(***************************************************************************)
(* The theorems.                                                           *)
(***************************************************************************)

\* The inductive invariant holds always.
THEOREM Invariance == Spec => []Inv
  BY InitInv, StepInv, PTL DEF Spec

\* The types of boot_validator.rs.
THEOREM TypeCorrect == Spec => []TypeOK
  BY Invariance, PTL DEF Inv

\* verify_validation_cleanup lets no tree be committed whose properties are not
\* those of the build, although it looks only for what is left over and a crash
\* may have lost the original; what it cannot look at it lets pass, and that can
\* be nothing but the overlay itself.
THEOREM CommitsAreOriginal == Spec => []CommittedIsOriginal
  BY Invariance, PTL DEF Inv

\* The guard undoes the overlay only after the server has ended.
THEOREM UndoneAfterTheEnd == Spec => []EndedBeforeRestored
  BY Invariance, PTL DEF Inv, ServerIsIn
=============================================================================
