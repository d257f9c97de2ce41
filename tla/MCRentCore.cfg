SPECIFICATION Spec
CONSTANTS
  MaxCents = 5
  Bps <- MCBps
  MaxInt = 252000
  MaxTerm = 3
  Underwritings <- MCUnderwritings
  Rents = {0, 2, 5}
  Scenarios <- MCScenarios
  MaxScenarios = 1
INVARIANTS
  TypeOK
  NoiIsWithinCents
  MoreRentNeverCosts
  LoanIsRepaid
  EquityIsNeverNegative
  NothingOverflows
CHECK_DEADLOCK FALSE
