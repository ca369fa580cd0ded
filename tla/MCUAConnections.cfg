SPECIFICATION ConnectionsSpec
CONSTANTS
  s1 = s1
  ch1 = ch1
  ch2 = ch2
  r1 = r1
  r2 = r2
  NoSession = NoSession
  Sessions <- OneSession
  Channels <- TwoChannels
  Requests <- TwoRequests
  MaxSessions = 1
  MaxSubscriptions = 1
  MaxPublishes = 1
  k1 = k1
  k2 = k2
  k3 = k3
  NoConn = NoConn
  Conns <- ThreeConns
  MaxPermits = 2
  MaxSlots = 1
  u1 = u1
  i1 = i1
  d1 = d1
  p1 = p1
  None = None
  Subscriptions <- OneSubscription
  Items <- OneItem
  DAItems <- OneDAItem
  Publishes <- OnePublish
  owner <- OwnedByIt
  itemID <- NamedByIt
  clientHandle <- OwnHandle
  Reporting <- OneItem
  NotReadable <- NoDAItem
  priority <- Equal
  keepAliveCount = 2
  maxNotifications = 1
  MaxMonitoredItems = 2
  MaxRetransmissionQueue = 2
  MaxChanges <- Twice
  MaxSemantics = 1
INVARIANTS
  SessionOwnership
  ConnectionsAccounted
PROPERTIES
  NotTimedOutWhileServed
  PublishReturns
  EndedSessionsReclaimed
  ListenerStops
  HeldIsReported
CHECK_DEADLOCK FALSE
