CONSTANTS
  h1 = h1
  h2 = h2
  u1 = u1
  u2 = u2
  None = None
  Handshake = {h1, h2}
  User = {u1}
  UserOf <- MCOneUser
  IPOf <- MCOneIP
  QueueCap = 1
  Unreliable = {h1}
  Events = {}
  Sequential = TRUE
SPECIFICATION Spec
INVARIANTS RegistryMatchesWorld SupersededIsClosed JoinSendsPlayers
CHECK_DEADLOCK FALSE
