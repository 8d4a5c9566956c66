\* The components of the browser: three contents of a form, three texts in a
\* combobox, two companies, three reports in the triage list, one round of two
\* questions, three rows in the queues, a thread of up to three comments, and
\* three reports in the catalog.
SPECIFICATION MCSpec
CONSTANTS
  Parts = {"draftForm", "combobox", "ladder", "filters", "triage", "rounds", "queue", "conversation", "catalog"}
  c0 = c0
  cA = cA
  cB = cB
  ta = ta
  tb = tb
  tc = tc
  ca = ca
  cb = cb
  sa = sa
  r1 = r1
  r2 = r2
  all = all
  one = one
  ra = ra
  rb = rb
  ann = ann
  bob = bob
  Contents = {c0, cA, cB}
  Blank = c0
  NoContent = NoContent
  MaxStrokes = 2
  MaxCalls = 3
  MaxRows = 2
  MaxLate = 1
  Typings = {ta, tb, tc}
  Nothing = Nothing
  Matches <- MCMatches
  MaxSearches = 2
  Companies = {ca, cb}
  Suggestions = {sa}
  PromotedTo <- MCPromotedTo
  HasLadder = {ca, cb}
  NoCompany = NoCompany
  Outcomes = {"offer"}
  RoundTypeSlugs = {"coding"}
  LevelSlugs = {"L1"}
  TopicSlugs = {"ta", "tb"}
  Queries = {"graph"}
  Addresses <- MCAddresses
  MAX_PER_PAGE = 3
  DEFAULT_PER_PAGE = 2
  MaxTotal = 4
  MaxHops = 3
  OrderedIds <- MCOrderedIds
  ListUrl = "list"
  MaxOpens = 2
  MaxFetches = 4
  MaxPending = 2
  RoundTypes = {"coding"}
  Ratings = {"good"}
  Texts = {"", "padded", "prose", "phone"}
  Blocked = {"phone"}
  Trim <- MCTrim
  TopicIds = {"ta"}
  Names = {"n3"}
  TopicNamed <- MCTopicNamed
  NameOf <- MCNameOf
  MAX_ROUNDS = 1
  MAX_QUESTIONS_PER_ROUND = 2
  Moderated = {r1, r2, c0}
  ModeratedReports = {r1, r2}
  Filters = {all, one}
  Matching <- MCMatching
  NoReason = NoReason
  NoPrompt = NoPrompt
  NoCall = NoCall
  MaxVisits = 1
  MaxEntries = 2
  MaxOthers = 1
  Begun <- MCBegun
  ThreadPage = 1
  MaxThread = 3
  MaxLikes = 1
  MaxOut = 2
  MaxOthersDo = 1
  Houses = {ca, cb}
  Trades = {ra, rb}
  Topics = {ta, tb}
  Curatable = {ca, tb}
  Rungs <- MCRungs
  ReportBodies <- MCReportBodies
  KarmaOf <- MCKarmaOf
  Attested = {ann, bob}
  Sparse = 2
  DENSE_CELL_THRESHOLD = 2
  TRIAGE_ID_CAP = 2
  MaxPosted = 3
  MaxThanks = 1
  MaxAway = 1
INVARIANTS
  TypeOK
  SettledIsSaved
  ReportAndDraftAgree
  ListIsCurrent
  LevelFitsCompany
  LinksKeepThroughout
  PaneIsTheSelection
  EditKeepsReport
  RemovalsAreJustified
  ThreadIsTheListing
  ShelvesAgreeThroughout
  SitemapStaysCanonical
CHECK_DEADLOCK FALSE
