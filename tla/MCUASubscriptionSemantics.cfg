SPECIFICATION Spec
CONSTANTS
  u1 = u1
  i1 = i1
  i2 = i2
  d1 = d1
  p1 = p1
  None = None
  Subscriptions <- OneSubscription
  Items <- FirstOnly
  DAItems <- OneDAItem
  Publishes <- OnePublish
  owner <- AllOnFirst
  itemID <- Same
  clientHandle <- OwnHandles
  Reporting <- FirstOnly
  NotReadable <- NoneOfThem
  priority <- Equal
  keepAliveCount = 1
  maxNotifications = 1
  MaxMonitoredItems = 2
  MaxRetransmissionQueue = 2
  MaxChanges <- Twice
  MaxSemantics = 1
INVARIANTS
  SemanticsBitSent
