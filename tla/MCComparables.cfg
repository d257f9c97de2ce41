SPECIFICATION MarketSpec
CONSTANTS
  p = p
  q = q
  Ids = {1, 2, 3}
  Refs = {p, q}
  Scores = {0, 1}
  Unfit = Unfit
  MaxTime = 2
  Window = 1
  CandidateLimit = 2
  Shown = 1
INVARIANTS
  NewestOfEachProperty
SYMMETRY RefSymmetry
PROPERTY PastSamplesStand
CHECK_DEADLOCK FALSE
