\* Two workers, as WORKER_CONCURRENCY allows, refresh one cell at a time.
SPECIFICATION Spec
CONSTANTS
  r1 = r1
  junior = junior
  senior = senior
  unspecified = unspecified
  engineer = engineer
  w1 = w1
  w2 = w2
  Reports = {r1}
  Cells = {junior}
  Bodies = {"old"}
  Consumers = {"aggregate"}
  Mine = "aggregate"
  Workers = {w1, w2}
  ClaimLimit = 6
  Announced <- MCAnnounced
  MaxFailures = 0
  NoEvent = NoEvent
  Written = {"old"}
  Blank = "old"
  Hidden = Hidden
  Roles = {engineer}
  RoleOf <- MCRoleOf
  Sentinel = {}
  MaxLog = 2
INVARIANTS
  SettledIsExact
CHECK_DEADLOCK FALSE
