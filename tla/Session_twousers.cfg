CONSTANTS
  h1 = h1
  h2 = h2
  u1 = u1
  u2 = u2
  None = None
  Handshake = {h1, h2}
  User = {u1, u2}
  UserOf <- MCTwoUsers
  IPOf <- MCTwoIPs
  QueueCap = 1
  Unreliable = {h2}
  Events = {"packet"}
  Sequential = TRUE
SPECIFICATION Spec
INVARIANTS OnlyLostAreClosed
CHECK_DEADLOCK FALSE
