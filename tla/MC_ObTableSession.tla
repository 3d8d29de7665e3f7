------------------------- MODULE MC_ObTableSession -------------------------
EXTENDS ObTableSession

\* Column names, keys and values are symbols (integers of 256 and up).
MCNames == {1000}
MCKeys == {2001}
MCVals == {3001}
MCDefault == 3000
\* One table name; a credential of two bytes, one of them >= 128.
MCTableNames == {<<4001>>}
MCCredentials == {<<200, 0>>}
\* A one-byte and a two-byte varint id, beside the sentinel -1 (ten bytes).
MCIds == {1, 300}
MCOpTypes == {"Insert", "Get"}
MCInvalidId == -1
\* An empty tenant name, a short one, and one of 130 symbols whose length
\* takes a two-byte varint.
MCTenantNames == {<<>>, <<4001>>, [i \in 1..130 |-> 4002]}
MCUserNames == {<<>>, <<5001>>, <<5002>>}
MCDatabaseNames == {<<>>, <<6001>>}
\* Password symbols; scrambles are 20 printable characters.
MCPasswords == {7001, 7002}
MCScrambles == {[i \in 1..20 |-> 97], [i \in 1..20 |-> 65 + i]}
=============================================================================
