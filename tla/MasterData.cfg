SPECIFICATION Spec
CONSTANTS
  b1 = b1  b2 = b2  t1 = t1  t2 = t2  s1 = s1  v1 = v1  z1 = z1  z2 = z2  q1 = q1  q2 = q2
  Bay = {b1, b2}
  Technician = {t1, t2}
  ServiceType = {s1}
  Vehicle = {v1}
  Tenant = {z1, z2}
  Seeded = {s1, v1, t1, z1}
  Scenes <- MCScenes
  Request = {q1, q2}
  Faults = {"redis", "crash"}
  MaxVersion = 2
INVARIANTS TypeOK CacheFollowsRow BookedTypeStays
PROPERTY StaleHashGoes
