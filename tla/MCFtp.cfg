CONSTANTS
  c1 = c1
  c2 = c2
  Clients = {c1, c2}
  Bases = {1}
  Given <- MCGiven
  FirstFiles <- MCFirstFiles
  Mortal = {c2}
  MaxCmds = 3
SPECIFICATION FairSpec
INVARIANTS
  OverwriteRacedOrFirst
  SameOrder
PROPERTIES
  Announced
  CommandEnds
CHECK_DEADLOCK FALSE
