SPECIFICATION NotificationsSpec
CONSTANTS
  h1 = h1
  h2 = h2
  t1 = t1
  t2 = t2
  g1 = g1
  g2 = g2
  g3 = g3
  Nobody = Nobody
  Handles <- TwoHandles
  Threads <- TwoThreads
  MaxBatch = 2
  MaxReports = 3
  Groups <- ThreeGroups
  MaxSubscriptions = 2
  MaxRefs = 2
INVARIANTS
  PendingCoherent
  CallbackObjectSafe
  NothingLeftBehind
PROPERTIES
  ImplementsCoalescing
  StreamDelivers
CHECK_DEADLOCK FALSE
