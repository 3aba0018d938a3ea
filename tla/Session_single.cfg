CONSTANTS
  h1 = h1
  h2 = h2
  u1 = u1
  u2 = u2
  None = None
  Handshake = {h1}
  User = {u1}
  UserOf <- MCOneUser
  IPOf <- MCOneIP
  QueueCap = 2
  Unreliable = {h1}
  Events = {"packet", "kick", "prune", "stop"}
  Sequential = TRUE
SPECIFICATION Spec
INVARIANTS TypeOK ClosedChannelHasCloser RegistryMatchesWorld
CHECK_DEADLOCK FALSE
