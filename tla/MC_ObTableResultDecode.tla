------------------------ MODULE MC_ObTableResultDecode ------------------------
EXTENDS ObTableResultDecode

\* Keys, values and names are symbols (integers of 256 and up).
MCNames == {1000}
MCKeys == {2001}
MCVals == {3001}
MCDefault == 3000
\* Success, and the duplicate-key errno.
MCErrNos == {0, -5024}
MCMsgs == {<<77>>}
\* Get, Insert, and the unmapped tag 11 (Invalid).
MCTags == {0, 1, 11}
\* No property, or one, keyed by the bytes of its name.
MCPropFns == {<<>>, [x \in {<<1000>>} |-> 3001]}
=============================================================================
