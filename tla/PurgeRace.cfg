\* A purge selects a report and a moderator restores it before the scrub.
SPECIFICATION Spec
CONSTANTS
  r1 = r1
  r2 = r2
  u1 = u1
  c1 = c1
  c2 = c2
  told = told
  blank = blank
  s1 = s1
  s2 = s2
  Reports = {r1, r2}
  Users <- MCUsers
  Cells = {c1, c2}
  Bodies = {told, blank}
  Consumers = {"aggregate"}
  Sessions = {s1}
  AuthorOf <- MCAuthorOf
  CompanyOf <- MCCompanyOf
  InitialStatus = {"pending_moderation"}
  OverlappingEdits = FALSE
  MaxLog = 3
  Written = {told}
  Blank = blank
  Hidden = Hidden
  NoReport = NoReport
  NoCell = NoCell
SYMMETRY ReportSymmetry
INVARIANTS
  PurgedStaysDeleted
CHECK_DEADLOCK FALSE
