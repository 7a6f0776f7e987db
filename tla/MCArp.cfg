CONSTANTS
  n1 = n1
  n2 = n2
  n3 = n3
  Nodes <- MCNodes
  LeadZero <- MCThird
  Terminated <- MCTerminated
  Odd <- MCOdd
  Asks <- MCAsks
  MaxLost = 1
  MaxConns = 2
  MaxStarts <- MCStarts
SPECIFICATION FairSpec
INVARIANTS
  AnswersRight
  DescriptorsLive
  TableFits
PROPERTY StoredIsAnswered
CHECK_DEADLOCK FALSE
