CONSTANTS
  v1 = v1
  v2 = v2
  v3 = v3
  c1 = c1
  c2 = c2
  Nodes <- MCNodes
  Edges <- MCLine
  Clients = {c1, c2}
  Home <- MCBothAtEnd
  Targets = {v3}
  Flags = {0}
  Servers = {v3}
  Stoppable = {v2}
  AllEven = {}
  StaleTime = 1
  MAP_SIZE = 2
  MaxHops = 4
  MaxAsked = 2
  MaxTicks = 2
  MaxStops = 1
SPECIFICATION Spec
INVARIANTS
  OneCopy
  AnswerToAsker
  RoutesLead
SYMMETRY Symmetry
CHECK_DEADLOCK FALSE
