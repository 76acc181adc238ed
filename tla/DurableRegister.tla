-------------------------- MODULE DurableRegister --------------------------
(***************************************************************************)
(* What the saved state of the program promises to those who read it: a    *)
(* value that was saved, always a whole one, and the newest of them unless *)
(* the machine loses its power before the directory is on the disk; then   *)
(* an earlier one may come back.  AtomicPersistence implements this with a *)
(* temporary file and a rename.                                            *)
(***************************************************************************)
CONSTANTS Value, NoFile

VARIABLES
    value,      \* what a reader finds, or NoFile
    older       \* what a loss of power may bring back instead

vars == <<value, older>>

Init == value \in Value \cup {NoFile} /\ older = {}

Save(v) ==
    /\ value' = v
    /\ older' = older \cup {value}

\* The directory is on the disk.
Settle == older' = {} /\ UNCHANGED value

LosePower ==
    /\ value' \in older \cup {value}
    /\ older' = {}

Next == (\E v \in Value : Save(v)) \/ Settle \/ LosePower

Spec == Init /\ [][Next]_vars
=============================================================================
