SPECIFICATION FrontendsSpec
CONSTANTS
  Ids = {1, 2, 3}
  Groups = {1, 2}
  MaxInflight = 2
  MaxOwned = 1
  Calls = {1, 2}
  Connections = {1, 2}
  MaxConcurrent = 1
  MaxStreams = 1
  MaxPermits = 1
INVARIANTS
  MCPAccounted
  ServiceSound
PROPERTIES
  SessionsFinish
  ShutdownCompletes
CHECK_DEADLOCK FALSE
