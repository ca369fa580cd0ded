SPECIFICATION SpaceSpec
CONSTANTS
  c1 = c1
  c2 = c2
  root = root
  a1 = a1
  i1 = i1
  j1 = j1
  Clients <- OneClient
  Root = root
  Branches <- OneBranch
  ItemKeys <- OneItem
  children <- Contents
  depth <- Depths
  PropertyCount = 1
  MaxNodes = 5
  MaxDepth = 1
  RefreshInterval = 2
  MaxTime = 3
  MaxEvents = 0
  Never = Never
INVARIANTS
  BrowseReflectsSource
CHECK_DEADLOCK FALSE
