\* Every public mutator: does read_only still describe the held operations?
CONSTANTS
  Names <- MCNames
  Keys <- MCKeys
  Vals <- MCVals
  Filters <- MCFilters
  KeyColumn = "rk"
  WriteTypes = {"Insert"}
  Default <- MCDefault
  None = None
  MaxOps = 3
  MaxCols = 2
SPECIFICATION Spec
INVARIANT ReadOnlyExact
CHECK_DEADLOCK FALSE
