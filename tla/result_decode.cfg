\* Batch results of up to two operation results, result codes of up to one
\* warning and login results, undamaged or damaged.  A decode is the first
\* step; a decoded login result may then hand its credential over once, and
\* every behaviour stops after that.
CONSTANTS
  Names <- MCNames
  Keys <- MCKeys
  Vals <- MCVals
  Default <- MCDefault
  None = None
  ErrNos <- MCErrNos
  Msgs <- MCMsgs
  Tags <- MCTags
  PropFns <- MCPropFns
  MaxResults = 2
  MaxWarnings = 1
  AllocLimit = 3
  HugeCounts = {}
  IdWidth = 16
SPECIFICATION Spec
CHECK_DEADLOCK FALSE
INVARIANT DecodeFaithful DamageDetected
