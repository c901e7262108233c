SPECIFICATION FairSpec
CONSTANTS
  m1 = m1  m2 = m2  m3 = m3  m4 = m4  t1 = t1  t2 = t2  b1 = b1  b2 = b2  e1 = e1  e2 = e2
  None = None
  Message = {m1, m2}
  Tech = {t1, t2}
  Bay = {b1, b2}
  ListedBay = {b1, b2}
  AutoAssigned = {m2}
  WantTech <- PresetTech
  WantBay <- PresetBay
  Skilled <- AllSkilled
  Start <- OneSlotStart
  End <- OneSlotEnd
  Token <- OwnToken
  Editor = {}
  Target <- EditsFirst
  Faults = {"await", "release", "crash", "lease"}
PROPERTIES EveryRequestEnds LocksDrain OnlyTheOwnerReleases
CHECK_DEADLOCK FALSE
