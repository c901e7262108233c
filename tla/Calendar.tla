------------------------------ MODULE Calendar ------------------------------
(***************************************************************************)
(* What the booking of appointments promises, without handlers or locks:   *)
(* a calendar in which a request is booked in ONE step, on a technician    *)
(* and a bay that are free at that moment, and in which appointments then  *)
(* move along the status machine.  AppointmentProcessor implements it in   *)
(* behaviours in which handlers keep their locks and neither handlers nor  *)
(* status requests race; the operators are those of the availability       *)
(* queries.                                                                *)
(***************************************************************************)
EXTENDS Integers

CONSTANTS
  Message, Tech, Bay, None,
  WantTech, WantBay, Skilled, ListedBay, Start, End

VARIABLES
  state,    \* status of each appointment, "none" before it is booked
  onTech,   \* its technician, None before it is booked
  inBay     \* its bay, None before it is booked

calendar == <<state, onTech, inBay>>

Occupies(n) == state[n] \in {"Scheduled", "InProgress"}

Meets(n, m) == Start[n] < End[m] /\ End[n] > Start[m]

TechFree(t, m) == \A n \in Message : Occupies(n) /\ Meets(n, m) => onTech[n] # t

BayFree(b, m) == \A n \in Message : Occupies(n) /\ Meets(n, m) => inBay[n] # b

Init ==
  /\ state = [m \in Message |-> "none"]
  /\ onTech = [m \in Message |-> None]
  /\ inBay = [m \in Message |-> None]

\* The technician has the skill, the bay is listed, ids the customer asked
\* for are respected, and both are free for the whole interval.
Book(m, t, b) ==
  /\ state[m] = "none"
  /\ t \in Skilled[m] /\ WantTech[m] \in {None, t} /\ TechFree(t, m)
  /\ b \in ListedBay /\ WantBay[m] \in {None, b} /\ BayFree(b, m)
  /\ state' = [state EXCEPT ![m] = "Scheduled"]
  /\ onTech' = [onTech EXCEPT ![m] = t]
  /\ inBay' = [inBay EXCEPT ![m] = b]

Begins(m) ==
  /\ state[m] = "Scheduled"
  /\ state' = [state EXCEPT ![m] = "InProgress"]
  /\ UNCHANGED <<onTech, inBay>>

Completes(m) ==
  /\ state[m] = "InProgress"
  /\ state' = [state EXCEPT ![m] = "Completed"]
  /\ UNCHANGED <<onTech, inBay>>

Cancels(m) ==
  /\ Occupies(m)
  /\ state' = [state EXCEPT ![m] = "Cancelled"]
  /\ UNCHANGED <<onTech, inBay>>

Next ==
  \E m \in Message :
    \/ \E t \in Tech, b \in Bay : Book(m, t, b)
    \/ Begins(m) \/ Completes(m) \/ Cancels(m)

Spec == Init /\ [][Next]_calendar
=============================================================================
