SPECIFICATION GoSpec
CONSTANTS
  c1 = c1
  c2 = c2
  w1 = w1
  Calls <- OneCall
  NoCall = NoCall
  Offered = {"read", "subscribe"}
  Watchdogs <- OneWatchdog
  CommandQueue = 1
  MaxSubscriptions = 1
  MaxGenerations = 2
  WakeMayFail = TRUE
PROPERTIES
  CallsReturn
  ShutdownStops
  KeepsReconnecting
CHECK_DEADLOCK FALSE
