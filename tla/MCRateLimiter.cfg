SPECIFICATION Spec
CONSTANTS
  c1 = c1
  c2 = c2
  c3 = c3
  Clients = {c1, c2, c3}
  Limit = 1
  Window = 1
  Capacity = 1
  MaxTime = 4
  MaxRequests = 6
INVARIANTS
  TypeOK
  BurstIsBounded
  RefusalHasCause
CHECK_DEADLOCK FALSE
