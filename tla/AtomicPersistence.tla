------------------------- MODULE AtomicPersistence -------------------------
(***************************************************************************)
(* atomic_write_json and its readers (atomic_persistence.rs), on which     *)
(* every saved marker, question and retry state of the other modules       *)
(* rests: the JSON goes to a sibling file, is synced if possible, and is   *)
(* renamed over the target.  Each call of the file system is a step, any   *)
(* of them may fail, and the program may end or the machine lose its power *)
(* between them.                                                           *)
(*                                                                         *)
(* Two saves of one target share the name of their sibling.  A handle      *)
(* stays with its file: after another save has renamed the file, what is   *)
(* written through the handle goes into the target.                        *)
(***************************************************************************)
CONSTANTS
    Writer,         \* the calls of atomic_write_json for one target
    Value,          \* what is saved
    NoFile,
    NoValue,        \* what is in a file that cannot be parsed
    Overlap,        \* may two saves of the target overlap?
    SyncFails,      \* may sync_all fail, which is ignored?
    PowerFails      \* may the machine lose its power?

VARIABLES
    target,
    tmp,            \* the sibling, .json.tmp
    older,          \* earlier targets, while the directory is not on the disk
    call

vars == <<target, tmp, older, call>>

\* A file: its value, who has written into it since it was created, and whether what
\* was written is on the disk.
File == [value : Value \cup {NoValue}, by : SUBSET Writer, durable : BOOLEAN]
Empty == [value |-> NoValue, by |-> {}, durable |-> FALSE]
Whole(f) == f = NoFile \/ f.value \in Value

Idle == [step |-> "idle", value |-> NoValue, at |-> "gone"]
Step == {"idle", "start", "finish", "sync", "rename"}
Place == {"tmp", "target", "gone"}    \* where the file of a handle is by now

TypeOK ==
    /\ target \in File \cup {NoFile}
    /\ tmp \in File \cup {NoFile}
    /\ older \subseteq File \cup {NoFile}
    /\ call \in [Writer -> [step : Step, value : Value \cup {NoValue}, at : Place]]

Init ==
    /\ \/ target = NoFile
       \/ \E v \in Value : target = [value |-> v, by |-> {}, durable |-> TRUE]
    /\ tmp \in {NoFile, Empty}
    /\ older = {}
    /\ call = [w \in Writer |-> Idle]

-----------------------------------------------------------------------------
(***************************************************************************)
(* atomic_write_json.                                                      *)
(***************************************************************************)

\* A file loses a name: handles on it stay with it.
Moved(c, from, to) == [w \in Writer |-> IF c[w].at = from THEN [c[w] EXCEPT !.at = to] ELSE c[w]]

\* Into the file of w's handle, wherever that is.
Into(w, f) ==
    /\ target' = IF call[w].at = "target" THEN f ELSE target
    /\ tmp' = IF call[w].at = "tmp" THEN f ELSE tmp
    /\ UNCHANGED older
Held(w) == CASE call[w].at = "tmp" -> tmp [] call[w].at = "target" -> target [] OTHER -> Empty

\* File::create empties the sibling that another call or a crash has left.
Create(w, v) ==
    /\ call[w] = Idle
    /\ Overlap \/ \A u \in Writer : call[u] = Idle
    /\ tmp' = Empty
    /\ call' = [call EXCEPT ![w] = [step |-> "start", value |-> v, at |-> "tmp"]]
    /\ UNCHANGED <<target, older>>

\* write_all, in two parts: a file that another has written into or emptied meanwhile
\* ends up with parts of both.
StartWriting(w) ==
    /\ call[w].step = "start"
    /\ Into(w, [value |-> NoValue, by |-> Held(w).by \cup {w}, durable |-> FALSE])
    /\ call' = [call EXCEPT ![w].step = "finish"]

FinishWriting(w) ==
    /\ call[w].step = "finish"
    /\ Into(w, [value |-> IF Held(w).by = {w} THEN call[w].value ELSE NoValue,
                by |-> Held(w).by \cup {w}, durable |-> FALSE])
    /\ call' = [call EXCEPT ![w].step = "sync"]

Sync(w) ==
    /\ call[w].step = "sync"
    /\ \E d \in IF SyncFails THEN BOOLEAN ELSE {TRUE} :
         Into(w, IF d THEN [Held(w) EXCEPT !.durable = TRUE] ELSE Held(w))
    /\ call' = [call EXCEPT ![w].step = "rename"]

\* The handle of w is closed with the call.
Rename(w) ==
    /\ call[w].step = "rename"
    /\ tmp # NoFile
    /\ target' = tmp /\ tmp' = NoFile
    /\ older' = older \cup {target}
    /\ call' = [Moved(Moved(call, "target", "gone"), "tmp", "target") EXCEPT ![w] = Idle]

\* Any of the calls fails, File::create too, and the sibling is removed, whosever it is
\* by now.
Fail(w) ==
    /\ call[w] # Idle
    /\ tmp' = NoFile
    /\ call' = [Moved(call, "tmp", "gone") EXCEPT ![w] = Idle]
    /\ UNCHANGED <<target, older>>

-----------------------------------------------------------------------------
(***************************************************************************)
(* The rest of the world.                                                  *)
(***************************************************************************)

Settle ==
    /\ older' = {}
    /\ UNCHANGED <<target, tmp, call>>

\* The program ends; the files stay as they are.
Crash ==
    /\ call' = [w \in Writer |-> Idle]
    /\ UNCHANGED <<target, tmp, older>>

\* What was not synced is lost, and the directory may be an earlier one.
AfterLoss(f) ==
    IF f = NoFile \/ f.durable THEN {f} ELSE {f, [f EXCEPT !.value = NoValue, !.durable = TRUE]}

LosePower ==
    /\ PowerFails
    /\ \E f \in older \cup {target} : target' \in AfterLoss(f)
    /\ tmp' \in {NoFile, Empty}
    /\ older' = {}
    /\ call' = [w \in Writer |-> Idle]

Work(w) ==
    \/ \E v \in Value : Create(w, v)
    \/ StartWriting(w) \/ FinishWriting(w) \/ Sync(w) \/ Rename(w) \/ Fail(w)

Next == (\E w \in Writer : Work(w)) \/ Settle \/ Crash \/ LosePower

Spec == Init /\ [][Next]_vars

-----------------------------------------------------------------------------
(***************************************************************************)
(* Properties.                                                             *)
(***************************************************************************)

\* What read_versioned_json finds is no file or a whole one, wherever a save was
\* interrupted.  The code's comment promises it of every save
\* (atomic_persistence.rs:47); it holds when saves of one target do not overlap, and
\* when the disk has what is renamed.
TargetIsWhole == Whole(target)

\* What the readers find changes as a whole, by a save, or back to an earlier value.
Found(f) == IF f = NoFile THEN NoFile ELSE f.value
found == Found(target)
foundBefore == {Found(f) : f \in older}
Register == INSTANCE DurableRegister WITH value <- found, older <- foundBefore
ImplementsRegister == Register!Spec
=============================================================================
