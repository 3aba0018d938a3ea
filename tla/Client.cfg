CONSTANTS
  Packets = 3
  QueueCap = 1
SPECIFICATION FairSpec
 
PROPERTIES PingIsAnswered LoopsEnd
CHECK_DEADLOCK FALSE
