SPECIFICATION FairSpec
CONSTANTS
  MaxChannels = 1
  MaxChunkCount = 2
  LastNumber = 3
  WrapFloor = 1
  WrapBelow = 1
  FirstNumbers = {3}
  MaxTokens = 2
  MaxMessages = 2
  MaxInFlight = 1
INVARIANTS
  TokensAdvance
  ConformingServed
  MessagesInOrder
PROPERTIES
  SilentChannelsReclaimed
CHECK_DEADLOCK FALSE
