\* Builder-only usage: classification flags against the held operations.
CONSTANTS
  Names <- MCNames
  Keys <- MCKeys
  Vals <- MCVals
  Filters <- MCFilters
  KeyColumn = "rk"
  WriteTypes = {"Insert"}
  Default <- MCDefault
  None = None
  MaxOps = 3
  MaxCols = 2
SPECIFICATION BuildSpec
INVARIANT TypeOK
INVARIANT ReadOnlyExact
INVARIANT SameTypeExact
\* A batch stops growing at MaxOps; the caller then sends it.
CHECK_DEADLOCK FALSE
