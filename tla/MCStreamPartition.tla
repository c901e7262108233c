-------------------------- MODULE MCStreamPartition --------------------------
(***************************************************************************)
(* Instances of StreamPartition: one or two runs of worker processes, one  *)
(* partition, one or two tenants and up to five entries, with the ids      *)
(* 1, 2, ... in the order of their numbers.                                *)
(***************************************************************************)
EXTENDS StreamPartition, TLC

CONSTANTS m1, m2, m3, m4, m5, p1, ta, tb, w1, w2

OneStream == [m \in Message |-> p1]

\* All entries of tenant ta, or m5 of tb.
OneTenant == [m \in Message |-> ta]
TwoTenants == [m \in Message |-> IF m = m5 THEN tb ELSE ta]

InOrder ==
  [m \in Message |-> IF m = m1 THEN 1 ELSE IF m = m2 THEN 2 ELSE IF m = m3 THEN 3
                     ELSE IF m = m4 THEN 4 ELSE 5]

\* Worker processes differ in their consumer id only.
AlikeWorkers == Permutations(Worker)
=============================================================================
