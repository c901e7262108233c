------------------------------ MODULE MCConsole ------------------------------
(***************************************************************************)
(* Instances of Console: an appointment in each of two tenants, and a      *)
(* technician in one.                                                      *)
(***************************************************************************)
EXTENDS Console, TLC

CONSTANTS a1, a2, t1, z1, z2

MCScenes ==
  {[acts |-> {"session", "tabs"},   there |-> {a1, t1}],
   [acts |-> {"tabs", "elsewhere"}, there |-> {a1, a2}],
   [acts |-> {"tabs", "write"},     there |-> {t1}]}

HomeOf == a1 :> z1 @@ a2 :> z2 @@ t1 :> z1
=============================================================================
