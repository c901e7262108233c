------------------------- MODULE MCAppointmentCache -------------------------
(***************************************************************************)
(* Instances of AppointmentCache: two status requests and two detail       *)
(* queries in flight at a time.  Each of them starts over when it has      *)
(* ended, so their number is not bounded.                                  *)
(***************************************************************************)
EXTENDS AppointmentCache, TLC

CONSTANTS e1, e2, r1, r2

\* Status requests differ in nothing, nor do detail queries.
Alike == Permutations(Editor) \cup Permutations(Reader)
=============================================================================
