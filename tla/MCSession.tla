------------------------------ MODULE MCSession ------------------------------
(***************************************************************************)
(* Instances of Session.  A behaviour is about the tokens of one user, or  *)
(* about memberships and the tokens that come to speak of them, or about a *)
(* super admin; two requests at a time, any number in all.                 *)
(***************************************************************************)
EXTENDS Session, TLC

CONSTANTS ada, bob, eve, z1, z2, k1, k2, k3, k4, q1, q2

OneFounder == {<<ada, z1>>}

MCScenes ==
  {[ops |-> {"login", "refresh", "logout", "switch"}, users |-> {ada}],
   [ops |-> {"login", "refresh", "assign", "promote", "switch"}, users |-> {ada, bob}],
   [ops |-> {"register", "login", "assign"}, users |-> {ada, bob}],
   [ops |-> {"login", "refresh", "switch"}, users |-> {eve}]}

Alike == Permutations({q1, q2})
=============================================================================
