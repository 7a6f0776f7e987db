CONSTANTS
  c1 = c1
  Clients = {c1}
  Name <- MCFile
  MaxInFlight = 3
  Width = 3
  Loopback = 7
  MaxInterfaces = 2
SPECIFICATION FairSetup
INVARIANT ChoiceRight
PROPERTY HandshakeEnds
CHECK_DEADLOCK FALSE
