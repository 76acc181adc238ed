---------------------------- MODULE MCRecoveryFlow ----------------------------
(***************************************************************************)
(* Instances of RecoveryFlow, which differ in their servers, packs and     *)
(* budgets.                                                                *)
(***************************************************************************)
EXTENDS RecoveryFlow, TLC

CONSTANTS s1, s2, t1, t2, m1, m2, m3

\* Two servers with a transaction each.
OneEach == (t1 :> s1) @@ (t2 :> s2)
BigAndSmall == (t1 :> {m1, m2}) @@ (t2 :> {m1})

\* One transaction of one server: enough for the budgets of the code, and for the
\* properties that RecoveryFlow says the code does not have.
Single == t1 :> s1
Three == t1 :> {m1, m2, m3}
=============================================================================
