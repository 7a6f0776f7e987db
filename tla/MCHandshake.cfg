CONSTANTS
  c1 = c1
  c2 = c2
  Clients <- MCClients
  Name <- MCOneFile
  MaxInFlight = 2
SPECIFICATION Spec
INVARIANTS
  OneChildPerClient
  PortIsServed
SYMMETRY Symmetry
CHECK_DEADLOCK FALSE
