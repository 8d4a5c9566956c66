\* One report, one worker, the LISTEN bridge, the backfill.
SPECIFICATION FairSpec
CONSTANTS
  r1 = r1
  c1 = c1
  w1 = w1
  Reports = {r1}
  Cells = {c1}
  Bodies = {"old", "new", "blank"}
  Consumers = {"search"}
  Mine = "search"
  Workers = {w1}
  ClaimLimit = 4
  Announced <- MCAnnounced
  MaxFailures = 1
  BatchSize = 1
  MaxLog = 2
  Written = {"old", "new"}
  Blank = "blank"
  Hidden = Hidden
  NoEvent = NoEvent
  NoDocument = NoDocument
  NoReport = NoReport
INVARIANTS
  TypeOK
  SettledIsIndexed
PROPERTIES
  EventuallyFindable
CHECK_DEADLOCK FALSE
