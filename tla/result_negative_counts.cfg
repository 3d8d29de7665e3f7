\* The result_decode inputs, with a result code whose warning count is
\* replaced by -1, and a batch result whose first entity has no property
\* and sends its property count as -1: ObRpcResultCode::decode and
\* ObTableEntity::decode read no record and succeed, where spec section 7
\* asks for a typed decode error.
CONSTANTS
  Names <- MCNames
  Keys <- MCKeys
  Vals <- MCVals
  Default <- MCDefault
  None = None
  ErrNos <- MCErrNos
  Msgs <- MCMsgs
  Tags <- MCTags
  PropFns <- MCPropFns
  MaxResults = 2
  MaxWarnings = 1
  AllocLimit = 3
  HugeCounts = {}
  IdWidth = 16
SPECIFICATION Spec
CHECK_DEADLOCK FALSE
INVARIANT NegativeCountRejected
