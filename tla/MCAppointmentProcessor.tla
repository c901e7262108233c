----------------------- MODULE MCAppointmentProcessor -----------------------
(***************************************************************************)
(* Instances of AppointmentProcessor: two technicians, two bays and one to *)
(* three requests, given by the tables below.  A request that names ids is *)
(* a manual one unless the configuration lists it in AutoAssigned.         *)
(***************************************************************************)
EXTENDS AppointmentProcessor

CONSTANTS m1, m2, m3, m4, t1, t2, b1, b2, e1, e2

\* A manual request, m1, and others without ids: AutoAssigned ones, or the
\* manual one m4, which fails the validator.
OneManualTech == [m \in Message |-> IF m = m1 THEN t1 ELSE None]
OneManualBay  == [m \in Message |-> IF m = m1 THEN b1 ELSE None]

\* Everybody can do everything; or m2 asks for a service only t1 does.
AllSkilled  == [m \in Message |-> Tech]
SomeSkilled == [m \in Message |-> IF m = m2 THEN {t1} ELSE Tech]

\* Every request names t1 and b1.
SamePairTech == [m \in Message |-> t1]
SamePairBay  == [m \in Message |-> b1]

\* AutoAssigned requests that carry ids nevertheless.
PresetTech == [m \in Message |-> t2]
PresetBay  == [m \in Message |-> b1]

\* One slot for all, or slots that overlap without sharing their start.
OneSlotStart   == [m \in Message |-> 1]
OneSlotEnd     == [m \in Message |-> 3]
StaggeredStart == [m \in Message |-> IF m = m1 THEN 1 ELSE 2]
StaggeredEnd   == [m \in Message |-> IF m = m1 THEN 3 ELSE 4]

\* Stream ids: distinct, or the same for all, two entries added to two
\* partition streams within one millisecond.
OwnToken    == [m \in Message |-> <<m>>]
SharedToken == [m \in Message |-> <<m1>>]

\* Status requests: all on m1.
EditsFirst == [e \in Editor |-> m1]
=============================================================================
