SPECIFICATION Spec
CONSTANTS
  m1 = m1  m2 = m2  m3 = m3  m4 = m4  m5 = m5  p1 = p1  ta = ta  tb = tb
  w1 = w1  w2 = w2
  None = None
  Worker = {w1}
  Partition = {p1}
  Tenant = {ta}
  Message = {m1}
  PartitionOf <- OneStream
  TenantOf <- OneTenant
  Id <- InOrder
  Malformed = {}
  MaxConcurrent = 1
  Capacity = 1
  ReadCount = 2
  Faults = {}
INVARIANT RefusedIsDeadLettered
CHECK_DEADLOCK FALSE
