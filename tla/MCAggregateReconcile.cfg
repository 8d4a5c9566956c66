\* One worker, the LISTEN bridge and the daily job, racing, on one report and one cell.
SPECIFICATION ReconcileSpec
CONSTANTS
  r1 = r1
  junior = junior
  engineer = engineer
  w1 = w1
  Reports = {r1}
  Cells = {junior}
  Bodies = {"told"}
  Consumers = {"aggregate"}
  Mine = "aggregate"
  Workers = {w1}
  ClaimLimit = 4
  Announced <- MCAnnounced
  MaxFailures = 1
  NoEvent = NoEvent
  NoKey = NoKey
  Written = {"told"}
  Blank = "told"
  Hidden = Hidden
  Roles = {engineer}
  RoleOf <- MCRoleOf
  Sentinel = {}
  MaxLog = 2
INVARIANTS
  ReconcileTypeOK
PROPERTIES
  EventsAreDrained
  
CHECK_DEADLOCK FALSE
