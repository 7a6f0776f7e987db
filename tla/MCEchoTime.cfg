CONSTANTS
  c1 = c1
  c2 = c2
  Clients <- MCClients
  Texts <- MCTexts
  MaxTyped = 2
  MaxStarts = 2
  SockSize = 1
  PipeSize = 2
SPECIFICATION FairSpec
INVARIANTS
  EchoOwn
  ExitMeansCrash
PROPERTY SessionEnds
CHECK_DEADLOCK FALSE
