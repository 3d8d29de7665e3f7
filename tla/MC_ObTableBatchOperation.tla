--------------------- MODULE MC_ObTableBatchOperation ----------------------
(***************************************************************************)
(* Constants for checking ObTableBatchOperation with TLC.  Two column      *)
(* names are the fewest for which two operations can name different       *)
(* columns; column lists of length two allow a repeated name.              *)
(***************************************************************************)
EXTENDS ObTableBatchOperation

MCNames == {1000, 1001}
MCKeys == {2001}
\* Column names, keys and values are symbols (integers of 256 and up).
MCVals == {3001}
MCDefault == 3000
MCFilters == {"f1"}
MCKeys2 == {2001, 2002}
MCFilters2 == {"f1", "f2"}
=============================================================================
