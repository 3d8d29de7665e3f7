\* Builder-only usage: is same_properties_names exactly "all held operations
\* have one set of property names"?
CONSTANTS
  Names <- MCNames
  Keys <- MCKeys
  Vals <- MCVals
  Filters <- MCFilters
  KeyColumn = "rk"
  WriteTypes = {"Insert"}
  Default <- MCDefault
  None = None
  MaxOps = 3
  MaxCols = 2
SPECIFICATION BuildSpec
INVARIANT SamePropsNamesExact
CHECK_DEADLOCK FALSE
