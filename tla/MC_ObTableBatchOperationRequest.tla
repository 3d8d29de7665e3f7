-------------------- MODULE MC_ObTableBatchOperationRequest --------------------
EXTENDS ObTableBatchOperationRequest

MCNames == {1000}
MCKeys == {2001}
\* Column names, keys and values are symbols (integers of 256 and up).
MCVals == {3001}
MCDefault == 3000
MCFilters == {"f1"}
MCTableNames == {<<4001>>}
MCCredentials == {<<200, 0>>}
\* A one-byte and a two-byte varint id, beside the sentinel -1 (ten bytes).
MCIds == {1, 300}
MCInvalidId == -1
=============================================================================
