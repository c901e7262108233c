SPECIFICATION Spec
CONSTANTS
  a1 = a1  a2 = a2  t1 = t1  z1 = z1  z2 = z2
  Tenant = {z1, z2}
  Technician = {t1}
  Appointment = {a1, a2}
  Home <- HomeOf
  SuperAdmin = FALSE
  Scenes <- MCScenes
  MaxReads = 1
  MaxUpsets = 1
INVARIANTS TypeOK ShowsItsOwn
PROPERTY ActiveRowsFollow
