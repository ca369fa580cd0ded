SPECIFICATION PathSpec
CONSTANTS
  u1 = u1
  i1 = i1
  i2 = i2
  d1 = d1
  d2 = d2
  p1 = p1
  c1 = c1
  c2 = c2
  s1 = s1
  s2 = s2
  None = None
  Subscriptions <- OneSubscription
  Items <- TwoItems
  DAItems <- TwoDAItems
  Publishes <- OnePublish
  owner <- AllOnFirst
  itemID <- Separate
  clientHandle <- OwnHandles
  Reporting <- TwoItems
  NotReadable <- Unreadable2
  priority <- Equal
  keepAliveCount = 1
  maxNotifications = 1
  MaxMonitoredItems = 2
  MaxRetransmissionQueue = 2
  MaxChanges <- TwiceFirst
  MaxSemantics = 0
  Callers <- TwoCallers
  ItemIDs <- ThreeItems
  Canonical <- Types
  Rights <- AccessRights
  ReadRequests <- Reads
  WriteRequests <- Writes
  MaxRegisteredItems = 2
  MaxRequests = 1
  MaxConnections = 2
  Sessions <- TwoSessions
  MaxNodesPerBrowse = 2
  MaxReferencesPerNode = 2
  MaxContinuationPoints = 1
  ContinuationPointExpiry = 2
  Matching = {1, 4}
  Requested = {0, 1}
  MaxPoints = 2
  BrowseTime = 2
  MaxMessageBytes = 1000
  MaxStringBytes = 20
  MaxByteStringBytes = 300
  MaxArrayLength = 2
  MaxDiagnosticRecursion = 1
  ThumbprintBytes = 2
  DateTimeUpper = 100
  Samples <- SizesAndPicks
  MinimumBufferSize = 0
  Halves <- SmallHalves
  Texts = {"a"}
  MaxArrayElements = 6
  MaxDimensions = 3
  Lengths = {0, 1, 2, 3, 10, 13}
  Lowers = {0, 2}
  MaxBatch = 2
  MaxBrowseDepth = 1
  MaxBrowseEntries = 1
  Spellings <- FieldSpellings
  Fields = {"source"}
  Size <- Sizes
  Folded <- CaseFolded
  MaxJSONDepth = 2
  InlineKeys = 1
  MaxTokens = 10
  MaxNumeral = 5
INVARIANTS
  ClampReported
CHECK_DEADLOCK FALSE
