\* Every public mutator: the batch length agrees with its encoding.
CONSTANTS
  Names <- MCNames
  Keys <- MCKeys
  Vals <- MCVals
  Filters <- MCFilters
  KeyColumn = "rk"
  WriteTypes = {"Insert"}
  Default <- MCDefault
  None = None
  MaxOps = 3
  MaxCols = 1
SPECIFICATION Spec
INVARIANT BatchLenMatchesEncode
\* Outputs and ghosts are left out of the state: nothing reads them.
VIEW CodeState
\* A batch that has taken or converted its operations may receive no
\* further call: that is the end of its life, not a deadlock.
CHECK_DEADLOCK FALSE
