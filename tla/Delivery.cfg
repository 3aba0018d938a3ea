CONSTANTS
  Conns = 2
  Packets = 3
  QueueCap = 2
  Kicks = 1
SPECIFICATION FairSpec
INVARIANTS TypeOK NothingLost
PROPERTIES InOrder ReadIsHandled ReaderEnds
CHECK_DEADLOCK FALSE
