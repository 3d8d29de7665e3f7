\* Every public mutator: are raw_ops and ops exclusive?
CONSTANTS
  Names <- MCNames
  Keys <- MCKeys
  Vals <- MCVals
  Filters <- MCFilters
  KeyColumn = "rk"
  WriteTypes = {"Insert"}
  Default <- MCDefault
  None = None
  MaxOps = 3
  MaxCols = 2
SPECIFICATION Spec
INVARIANT ModesExclusive
CHECK_DEADLOCK FALSE
