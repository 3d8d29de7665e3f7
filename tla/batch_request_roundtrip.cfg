\* Batches filled by the builders, given a table identity, moved into a
\* request and encoded, under versions 3 and 4.  Encode can always be
\* taken again once a request exists, and a batch can always grow or be
\* moved, so deadlock is checked.
CONSTANTS
  Names <- MCNames
  Keys <- MCKeys
  Vals <- MCVals
  Filters <- MCFilters
  KeyColumn = "rk"
  WriteTypes = {"Insert"}
  Default <- MCDefault
  None = None
  MaxOps = 2
  MaxCols = 1
  TableNames <- MCTableNames
  Credentials <- MCCredentials
  Ids <- MCIds
  InvalidId <- MCInvalidId
  Versions = {3, 4}
SPECIFICATION ReqSpec
INVARIANT ReqTypeOK EncodedLenAgrees EncodedRoundTrip
