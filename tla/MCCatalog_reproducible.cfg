SPECIFICATION Spec
CONSTANTS
  k1 = k1
  Keys = {k1}
  Values = {1, 2}
  MaxDay = 2
  MaxTime = 2
  MaxSources = 3
PROPERTY PastLookupsAreReproducible
CHECK_DEADLOCK FALSE
