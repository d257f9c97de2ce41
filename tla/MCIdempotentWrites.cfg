SPECIFICATION FairSpec
CONSTANTS
  kAnalysis = kAnalysis
  kJob = kJob
  kBatch = kBatch
  Keys = {kAnalysis, kJob, kBatch}
  KindOf <- MCKindOf
  Bodies = {b1, b2}
  MaxRequests = 3
INVARIANTS
  TypeOK
  NoDuplicateKey
  AnswersMatchRecord
PROPERTIES
  LocksAreReleased
  ImplementsWriteOnce
CHECK_DEADLOCK FALSE
