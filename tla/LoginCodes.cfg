CONSTANTS
  l1 = l1
  l2 = l2
  l3 = l3
  v1 = v1
  v2 = v2
  v3 = v3
  ann = ann
  bob = bob
  Forged = Forged
  None = None
  Login = {l1, l2, l3}
  Verify = {v1, v2}
  Name = {ann, bob}
  NameOf <- MCNameOf
  TTL = 1
  MaxTime = 3
SPECIFICATION Spec
INVARIANTS TypeOK OneIdPerName AcceptedInTime
PROPERTIES TicketSpec
CHECK_DEADLOCK FALSE
