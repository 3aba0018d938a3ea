CONSTANTS
  c1 = c1
  c2 = c2
  c3 = c3
  None = None
  Client = {c1, c2}
  Edge = 2
  Spawn <- MCSpawn
  Step <- MCStep
  MaxPackets = 1
  Sends <- MCTwoSend
  Fickle = {c1}
  Loyal = {c1}
SPECIFICATION RosterSpec
INVARIANTS TypeOK SameOrder KnowsEveryone LastMoveIsPosition MapPointsHome ShowsEveryone OnlyFirstLingers
CHECK_DEADLOCK FALSE
