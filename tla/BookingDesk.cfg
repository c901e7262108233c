SPECIFICATION Spec
CONSTANTS
  x1 = x1  b1 = b1  k1 = k1  k2 = k2  p = p
  c1 = c1  c2 = c2  None = None
  Tech = {x1}
  Bay = {b1}
  Kind = {k1, k2}
  Booking = {p}
  Plan <- Plans
  Skilled <- Skills
  Duration <- Durations
  Times = {2, 4}
  DayLength = 4
  Zone = 0
  Customer = {c1, c2}
  Scenes = {"desk", "holds"}
  MaxAsked = 1
INVARIANTS OfferIsFree HoldIsWhole
