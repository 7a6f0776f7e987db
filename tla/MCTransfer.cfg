CONSTANTS
  NumSegs = 2
  MaxWindow = 2
  MaxBuffer = 2
  MaxRexmt = 2
  MaxCwnd = 2
  MaxToServer = 100
  MaxToClient = 100
  Duplicates = TRUE
SPECIFICATION Spec
INVARIANTS
  TypeOK
  InOrderOutput
  CounterMatchesList
  TimerGuardsFirstUnacked
  SenderBounds
  IInv
  DoneMeansPrinted
CHECK_DEADLOCK FALSE
