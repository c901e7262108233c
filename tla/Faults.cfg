SPECIFICATION Spec
CONSTANTS
  m1 = m1  m2 = m2  m3 = m3  m4 = m4  t1 = t1  t2 = t2  b1 = b1  b2 = b2  e1 = e1  e2 = e2
  None = None
  Message = {m1, m2, m4}
  Tech = {t1, t2}
  Bay = {b1, b2}
  ListedBay = {b1, b2}
  AutoAssigned = {m2}
  WantTech <- OneManualTech
  WantBay <- OneManualBay
  Skilled <- SomeSkilled
  Start <- OneSlotStart
  End <- OneSlotEnd
  Token <- OwnToken
  Editor = {e1, e2}
  Target <- EditsFirst
  Faults = {"await", "lostReply", "cache", "release", "crash"}
INVARIANTS HoldersKeepLocks CapableBooking
PROPERTIES NoStepSkipped
CHECK_DEADLOCK FALSE
