CONSTANTS
  b1 = b1
  b2 = b2
  NoBase = NoBase
  TornBase = TornBase
  Amounts = {2, 3}
  Bases = {b1, b2}
  Batches = {1, 3}
  MaxFailed = 2
  Faulty = TRUE
  MaxFaulty = 2
SPECIFICATION FairSpec
INVARIANTS TypeOK TotalIsDue FewInFlight HonestNeverFails
PROPERTIES GarbageKeepsComing
CHECK_DEADLOCK FALSE
