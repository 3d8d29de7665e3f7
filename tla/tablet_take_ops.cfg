\* check_and_upsert calls with take_ops between them: are the single ops
\* built from the calls that made them?
CONSTANTS
  Names <- MCNames
  Keys <- MCKeys
  Vals <- MCVals
  Filters <- MCFilters
  KeyColumn = "rk"
  WriteTypes = {"Insert"}
  Default <- MCDefault
  None = None
  MaxOps = 2
  MaxCols = 1
SPECIFICATION UpsertTakeSpec
INVARIANT TabletConversionFaithful
CHECK_DEADLOCK FALSE
