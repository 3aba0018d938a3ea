CONSTANTS
  Writers = {"session", "world"}
  Messages = 2
  Size = {1, 3}
  Header = 2
  Initial = 3
  Slack = 1
SPECIFICATION FairSpec
INVARIANTS FramesIntact TwoTries
PROPERTIES AllHandled
CHECK_DEADLOCK FALSE
