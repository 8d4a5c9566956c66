\* One event, no failure: a flag request overlaps the recompute job.
SPECIFICATION Spec
CONSTANTS
  r1 = r1
  u1 = u1
  x1 = x1
  w1 = w1
  c1 = c1
  Reports = {r1}
  Cells = {c1}
  Bodies = {"told"}
  Consumers = {"karma"}
  Mine = "karma"
  Workers = {w1}
  ClaimLimit = 4
  Announced = {}
  MaxFailures = 0
  MaxLog = 1
  Written = {"told"}
  Blank = "told"
  Hidden = Hidden
  NoEvent = NoEvent
  Users = {u1}
  AuthorOf <- MCAuthorOf
  Readers = {x1}
  Award = 5
  NoUser = NoUser
  NoReport = NoReport
INVARIANTS
  KarmaConverges
CHECK_DEADLOCK FALSE
