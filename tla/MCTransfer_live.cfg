CONSTANTS
  NumSegs = 3
  MaxWindow = 2
  MaxBuffer = 2
  MaxRexmt = 2
  MaxCwnd = 2
  MaxToServer = 1
  MaxToClient = 1
  Duplicates = FALSE
SPECIFICATION FairSpec
INVARIANTS
  WithinReceiveWindow
  FullBufferDrains
PROPERTIES
  DeliversFile
  ServerEnds
  ClientEnds
CHECK_DEADLOCK FALSE
