SPECIFICATION Spec
CONSTANTS
  m1 = m1  m2 = m2  m3 = m3  m4 = m4  t1 = t1  t2 = t2  b1 = b1  b2 = b2  e1 = e1  e2 = e2
  None = None
  Message = {m1, m2}
  Tech = {t1, t2}
  Bay = {b1, b2}
  ListedBay = {b1, b2}
  AutoAssigned = {}
  WantTech <- SamePairTech
  WantBay <- SamePairBay
  Skilled <- AllSkilled
  Start <- StaggeredStart
  End <- StaggeredEnd
  Token <- OwnToken
  Editor = {}
  Target <- EditsFirst
  Faults = {}
INVARIANT NoDoubleBooking
CHECK_DEADLOCK FALSE
