---------------------------- MODULE MCBookingDesk ----------------------------
(***************************************************************************)
(* An instance of BookingDesk with days of four.  The appointment of others *)
(* lies over midnight: it meets a long service that starts the evening      *)
(* before it, not a short one, and every service that starts at midnight.   *)
(***************************************************************************)
EXTENDS BookingDesk, TLC

CONSTANTS x1, b1, k1, k2, p, c1, c2

Plans == p :> [start |-> 3, end |-> 5, tech |-> x1, bay |-> b1]

Skills == k1 :> {x1} @@ k2 :> {}

Durations == k1 :> 1 @@ k2 :> 2
=============================================================================
