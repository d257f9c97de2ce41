SPECIFICATION Spec
CONSTANTS
  w1 = w1
  w2 = w2
  i1 = i1
  i2 = i2
  t1 = t1
  t2 = t2
  Workers = {w1, w2}
  Items <- TwoItems
  Jobs <- OneJob
  Tenants = {t1, t2}
  TenantOf <- OneTenant
  ScanLimit = 2
  NoItem = NoItem
  MaxAttempts = 3
  LeaseTicks = 3
  WorkTicks = 1
  FinishTicks = 1
  Faults <- OnlyShutdown
PROPERTY WorkerRelinquishesLease
