------------------------- MODULE MCQuarantineRestore -------------------------
(***************************************************************************)
(* Instances of QuarantineRestore: two files of one mod.                   *)
(***************************************************************************)
EXTENDS QuarantineRestore, TLC

CONSTANTS old, new, a

Declares == (old :> a) @@ (new :> a)
=============================================================================
