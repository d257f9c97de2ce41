SPECIFICATION FairSpec
CONSTANTS
  w1 = w1
  w2 = w2
  i1 = i1
  i2 = i2
  t1 = t1
  t2 = t2
  Workers = {w1, w2}
  Items <- TwoItems
  Jobs <- JobPerItem
  Tenants = {t1, t2}
  TenantOf <- TenantPerItem
  ScanLimit = 1
  NoItem = NoItem
  MaxAttempts = 2
  LeaseTicks = 1
  WorkTicks = 0
  FinishTicks = 0
  Faults <- AnyButTheSignal
PROPERTIES
  EveryItemSettles
