CONSTANTS
  n1 = n1
  n2 = n2
  n3 = n3
  Nodes <- MCNodes
  LeadZero = {}
  Odd <- MCNodes
  Terminated = {}
  Asks <- MCAsks
  MaxLost = 1
  MaxConns = 2
  MaxStarts <- MCStarts
  Source = n1
  Tours <- MCTours
  Goal = 1
  MaxDrop = 1
SPECIFICATION FairSpec
INVARIANTS
  GroupComplete
  Identifies
  QuietAfterEnd
PROPERTY TourEnds
CHECK_DEADLOCK FALSE
