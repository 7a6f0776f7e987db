CONSTANTS
  v1 = v1
  v2 = v2
  v3 = v3
  c1 = c1
  c2 = c2
  Nodes <- MCNodes
  Edges <- MCTriangle
  Clients = {c1, c2}
  Home <- MCApart
  Targets = {v3}
  Flags = {0}
  Servers = {v3}
  Stoppable = {}
  AllEven = {}
  StaleTime = 1
  MAP_SIZE = 1
  MaxHops = 4
  MaxAsked = 2
  MaxTicks = 0
  MaxStops = 0
SPECIFICATION FairSpec
PROPERTIES
  FloodsOnce
  Settles
  CalmAnswered
CHECK_DEADLOCK FALSE
