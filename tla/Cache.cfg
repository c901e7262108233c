SPECIFICATION Spec
CONSTANTS
  e1 = e1  e2 = e2  r1 = r1  r2 = r2
  Editor = {e1, e2}
  Reader = {r1, r2}
  Faults = {"redis", "commit", "crash"}
  MaxAccidents = 2
INVARIANTS TypeOK PublishedIsCommitted OccupancyFollowsRow HashFollowsRow ActiveSetFollowsRow DetailFollowsRow OverExpires
SYMMETRY Alike
CHECK_DEADLOCK FALSE
