\* The components behind the pages: one process that serves the inline check
\* and the sweep, three roles, two callers, tabs and readers, two submissions
\* to two companies, one principal.
SPECIFICATION MCSpec
CONSTANTS
  Parts = {"taxonomy", "roles", "fixed", "sliding", "comments", "likes", "drafts", "submission", "peek", "accounts"}
  web = web
  inline = inline
  sweep = sweep
  slur = slur
  acme = acme
  acmeInc = acmeInc
  ann = ann
  bob = bob
  swe = swe
  sde = sde
  dev = dev
  pm = pm
  p1 = p1
  p2 = p2
  t1 = t1
  t2 = t2
  report = report
  c1 = c1
  c2 = c2
  ca = ca
  cb = cb
  Processes = {web}
  Requests = {inline, sweep}
  ProcessOf <- MCProcessOf
  Patterns = {slur}
  Broken = {}
  MaxEdits = 1
  NoList = NoList
  Rows = {acme, acmeInc}
  KindOf <- MCKindOf
  Curated = {}
  Twins <- MCTwins
  Slurs <- MCSlurs
  Unclean = {}
  Submitters = {ann}
  Verified = {ann}
  Nobody = Nobody
  NoRow = NoRow
  Moderators = {ann, bob}
  Aliases = {sde, dev, pm}
  Canon <- MCCanon
  NoRole = NoRole
  Overlapping = FALSE
  Callers = {ann, bob}
  Limit = 2
  Window = 2
  MaxClock = 4
  MaxHits = 3
  RedisFaults = 1
  Writers = {ann}
  Posts = {p1, p2}
  WriterOf <- MCWriterOf
  CommentLimit = 1
  PageSize = 1
  MaxComments = 3
  Post = report
  Replies = {c1, c2}
  OwnerOf <- MCOwnerOf
  Fans = {bob}
  Toggles = {t1, t2}
  FanOf <- MCFanOf
  DayCap = 1
  AuthorDayCap = 1
  Tabs = {p1, p2}
  DraftCap = 2
  MaxDrafts = 5
  Firms = {ca, cb}
  Submits = {t1, t2}
  MaxPapers = 2
  MaxFiled = 2
  Panes = {p1, p2}
  OwnerRequests = {t1}
  MaxEditions = 3
  Visits = {p1, p2}
  MaxUsers = 2
INVARIANTS
  TypeOK
  DecidedOnce
  OwnEditsAreInForce
  
  
  
  
  ServedIsPublic
  AccountClosesWhole
PROPERTIES
  BacksOffFromTwins
  
  CapHoldsAtCreation
CHECK_DEADLOCK FALSE
