SPECIFICATION Spec
CONSTANTS
  c1 = c1
  c2 = c2
  w1 = w1
  Calls <- TwoCalls
  NoCall = NoCall
  Offered = {"subscribe", "unsubscribe"}
  Watchdogs <- OneWatchdog
  CommandQueue = 1
  MaxSubscriptions = 2
  MaxGenerations = 2
  WakeMayFail = FALSE
SYMMETRY CallSymmetry
INVARIANTS
  NoLostWakeup
  RepliesNeverBlock
  SubscriptionIdentity
  HandlesAccountedFor
  ConnectedMeansConnected
CHECK_DEADLOCK FALSE
