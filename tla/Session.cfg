SPECIFICATION Spec
CONSTANTS
  ada = ada  bob = bob  eve = eve  z1 = z1  z2 = z2
  k1 = k1  k2 = k2  k3 = k3  k4 = k4  q1 = q1  q2 = q2
  User = {ada, bob, eve}
  Tenant = {z1, z2}
  Call = {q1, q2}
  Token = {k1, k2, k3, k4}
  Super = {eve}
  Founder <- OneFounder
  Scenes <- MCScenes
  Faults = {"break"}
INVARIANTS TypeOK ClaimsAreBacked SpentOnce GrantsHold OneLivePerLogin
SYMMETRY Alike
CHECK_DEADLOCK FALSE
