\* Batch results of up to two operation results and result codes of up to
\* one warning, undamaged or damaged.  Decode is the only step, so every
\* behaviour stops after it.
CONSTANTS
  Names <- MCNames
  Keys <- MCKeys
  Vals <- MCVals
  Default <- MCDefault
  None = None
  ErrNos <- MCErrNos
  Msgs <- MCMsgs
  Tags <- MCTags
  PropFns <- MCPropFns
  MaxResults = 2
  MaxWarnings = 1
  AllocLimit = 3
  HugeCounts = {4}
  IdWidth = 16
SPECIFICATION Spec
CHECK_DEADLOCK FALSE
INVARIANT NoCrash
