\* A report is deleted while the backfill holds its document.
SPECIFICATION FairSpec
CONSTANTS
  r1 = r1
  c1 = c1
  w1 = w1
  Reports = {r1}
  Cells = {c1}
  Bodies = {"old", "blank"}
  Consumers = {"search"}
  Mine = "search"
  Workers = {w1}
  ClaimLimit = 4
  Announced = {}
  MaxFailures = 0
  BatchSize = 1
  MaxLog = 2
  Written = {"old"}
  Blank = "blank"
  Hidden = Hidden
  NoEvent = NoEvent
  NoDocument = NoDocument
  NoReport = NoReport
PROPERTIES
  EventuallyOnlyVisible
CHECK_DEADLOCK FALSE
