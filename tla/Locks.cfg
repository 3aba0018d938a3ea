CONSTANTS
  c1 = c1
  c2 = c2
  None = None
  Leaked = Leaked
  Client = {c1, c2}
  Does <- MCDoes
  Events = {"sweep", "stop"}
  Unreliable = {c1}
SPECIFICATION Spec
INVARIANTS TypeOK LockOrder NoDeadlock LocksReturned
CHECK_DEADLOCK FALSE
