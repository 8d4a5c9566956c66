\* One worker; one report that moves between a level and no level of a role; one
\* event that also gets a job of its own.
SPECIFICATION Spec
CONSTANTS
  r1 = r1
  junior = junior
  senior = senior
  unspecified = unspecified
  engineer = engineer
  w1 = w1
  w2 = w2
  Reports = {r1}
  Cells = {junior, unspecified}
  Bodies = {"old", "new"}
  Consumers = {"aggregate"}
  Mine = "aggregate"
  Workers = {w1}
  ClaimLimit = 6
  Announced <- MCAnnounced
  MaxFailures = 1
  NoEvent = NoEvent
  Written = {"old", "new"}
  Blank = "new"
  Hidden = Hidden
  Roles = {engineer}
  RoleOf <- MCRoleOf
  Sentinel = {unspecified}
  MaxLog = 3
INVARIANTS
  TypeOK
  SettledIsExact
CHECK_DEADLOCK FALSE
