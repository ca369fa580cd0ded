SPECIFICATION FairSpaceSpec
CONSTANTS
  c1 = c1
  c2 = c2
  root = root
  a1 = a1
  i1 = i1
  j1 = j1
  Clients <- TwoClients
  Root = root
  Branches <- OneBranch
  ItemKeys <- TwoItems
  children <- Contents
  depth <- Depths
  PropertyCount = 1
  MaxNodes = 2
  MaxDepth = 1
  RefreshInterval = 1
  MaxTime = 1
  MaxEvents = 1
  Never = Never
INVARIANTS
  PopulationSound
PROPERTIES
  BrowsesEnd
CHECK_DEADLOCK FALSE
