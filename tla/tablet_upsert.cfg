\* check_and_upsert batches converted to tablet operations. Two operations are
\* enough to misalign lists; two keys and two filters tell operations apart.
CONSTANTS
  Names <- MCNames
  Keys <- MCKeys2
  Vals <- MCVals
  Filters <- MCFilters2
  KeyColumn = "rk"
  WriteTypes = {"Insert"}
  Default <- MCDefault
  None = None
  MaxOps = 2
  MaxCols = 1
SPECIFICATION UpsertSpec

INVARIANT TabletConversionFaithful
CHECK_DEADLOCK FALSE
