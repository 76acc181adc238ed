--------------------------- MODULE DirectorySwap ---------------------------
(***************************************************************************)
(* What replacing the server directory promises, whoever does it: a build  *)
(* that served from the live path is only ever moved aside into a slot of  *)
(* its own, and what is set aside comes back only when the live path is    *)
(* free.  InstallTransaction implements this with a modpack commit.        *)
(*                                                                         *)
(* Nothing here says the path is never empty: between TakeDown and PutUp   *)
(* (or BringBack) it is, and a crash may leave it so.                      *)
(***************************************************************************)
CONSTANTS
    Build,      \* the builds a directory can hold
    Slot,       \* the places a build can be set aside in
    Absent      \* no directory

VARIABLES
    path,       \* the build the live path refers to, or Absent
    kept        \* for each slot, the build set aside in it, or Absent

vars == <<path, kept>>

TypeOK ==
    /\ path \in Build \cup {Absent}
    /\ kept \in [Slot -> Build \cup {Absent}]

Init ==
    /\ path \in Build \cup {Absent}
    /\ kept = [s \in Slot |-> Absent]

\* The build that serves is set aside in a slot nobody has used.
TakeDown(s) ==
    /\ path # Absent
    /\ kept[s] = Absent
    /\ kept' = [kept EXCEPT ![s] = path]
    /\ path' = Absent

\* A new build goes up where there is none.
PutUp(b) ==
    /\ path = Absent
    /\ path' = b
    /\ UNCHANGED kept

\* The build set aside in s serves again.
BringBack(s) ==
    /\ path = Absent
    /\ kept[s] # Absent
    /\ path' = kept[s]
    /\ kept' = [kept EXCEPT ![s] = Absent]

Next ==
    \/ \E s \in Slot : TakeDown(s) \/ BringBack(s)
    \/ \E b \in Build : PutUp(b)

Spec == Init /\ [][Next]_vars
=============================================================================
