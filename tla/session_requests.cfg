\* One connection: a login request of every shape, then single-operation
\* requests in both negotiated versions and both partition-id shapes.
\* Deadlock is checked: a request can always be rebuilt or re-encoded.
CONSTANTS
  Names <- MCNames
  Keys <- MCKeys
  Vals <- MCVals
  Default <- MCDefault
  None = None
  TableNames <- MCTableNames
  Credentials <- MCCredentials
  Ids <- MCIds
  InvalidId <- MCInvalidId
  Versions = {3, 4}
  OpTypes <- MCOpTypes
  MaxCols = 1
  TenantNames <- MCTenantNames
  UserNames <- MCUserNames
  DatabaseNames <- MCDatabaseNames
  Passwords <- MCPasswords
  Scrambles <- MCScrambles
SPECIFICATION SessionSpec
INVARIANT TypeOK EncodedLenAgrees EncodedRoundTrip
INVARIANT LoginLenAgrees
