CONSTANTS
  NumSegs = 2
  MaxWindow = 2
  MaxBuffer = 2
  MaxRexmt = 2
  MaxCwnd = 2
  MaxToServer = 2
  MaxToClient = 2
  Duplicates = FALSE
SPECIFICATION Spec
INVARIANT StaleIgnored
CHECK_DEADLOCK FALSE
