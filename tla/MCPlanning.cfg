SPECIFICATION Spec
CONSTANTS
  Sizes = {1, 2}
  Codes = {"gas", "electric", "trash"}
  Group <- HeatAndTrash
  MaxCents = 4
  Lookups <- SomeLookups
  Requests <- AllRequests
  MaxLookups = 2
INVARIANTS
  TypeOK
  ReferenceIsGrounded
  OneVintage
  OneAllowancePerService
  VerdictsAgree
CHECK_DEADLOCK FALSE
