------------------------ MODULE ObTableOperationRequest ------------------------
(***************************************************************************)
(* ObTableOperationRequest (payloads.rs 470-587): a request built fresh    *)
(* for one operation, mutated by the three setters, then sized and        *)
(* encoded.  Both content_len and encode branch on the process-wide       *)
(* negotiated major version ob_vsn_major(), which the handshake sets once  *)
(* before any payload is encoded: it is chosen in Init and never changes.  *)
(*                                                                         *)
(* The transport sizes a buffer with len() and later fills it with        *)
(* encode(): two calls, each reading ob_vsn_major() for itself.  wire is   *)
(* their outcome: the len() the buffer was sized with and the request it  *)
(* is of, then the bytes encode wrote and the version it read.             *)
(***************************************************************************)
EXTENDS ObWireReader

CONSTANTS
  TableNames,    \* table names, as strings of symbols
  Credentials,   \* credentials from login, as byte strings
  Ids,           \* table and partition ids the router may resolve
  InvalidId,     \* OB_INVALID_ID, the unresolved sentinel
  Versions,      \* negotiated major versions
  OpTypes,       \* operation types a caller passes
  MaxCols        \* most columns an operation names

VARIABLES req, vsn, wire
vars == <<req, vsn, wire>>

NoWire == [len |-> 0, bytes |-> <<>>, of |-> None, written |-> FALSE, v |-> 0]

\* ObTableEntityType and ObTableConsistencyLevel tags.
EntityTag == [Dynamic |-> 0, KV |-> 1, HKV |-> 2]
ConsistencyTag == [Strong |-> 0, Eventual |-> 1]

\* The operations ObTableOperation::new receives: columns and values of the
\* same length, or no values at all.
OpTuples ==
  UNION {{Tuple(t, None, <<k>>, c, p, None, None) : p \in {None} \cup [1..Len(c) -> Vals]} :
           t \in OpTypes, k \in Keys, c \in BoundedSeq(Names, MaxCols)}

\* Mutant: the ids left at 0 instead of the unresolved sentinel.
NewRequestZeroIds(tableName, t) ==
  [credential |-> <<>>, tableName |-> tableName, tableId |-> 0, partitionId |-> 0,
   entityType |-> "Dynamic", operation |-> NewOperation(t), consistency |-> "Strong",
   returnRowKey |-> FALSE, returnAffectedEntity |-> FALSE, returnAffectedRows |-> TRUE]

\* ObTableOperationRequest::new.
NewRequest(tableName, t) ==
  [credential |-> <<>>, tableName |-> tableName,
   tableId |-> InvalidId, partitionId |-> InvalidId,
   entityType |-> "Dynamic", operation |-> NewOperation(t),
   consistency |-> "Strong",
   returnRowKey |-> FALSE, returnAffectedEntity |-> FALSE, returnAffectedRows |-> TRUE]

-----------------------------------------------------------------------------
(* content_len and encode: the partition id is a fixed 8 bytes from       *)
(* version 4 on, a varint before.                                          *)

\* Mutant: the partition id sized as a varint whatever the version.
PartitionIdLenUngated(id, v) == Vi64Len(id)

PartitionIdLen(id, v) == IF v >= 4 THEN 8 ELSE Vi64Len(id)

PartitionIdBytes(id, v) == IF v >= 4 THEN I64(id) ELSE Vi64(id)

RequestContentLen(r, v) ==
  VStringLen(r.credential) + VStringLen(r.tableName) + Vi64Len(r.tableId)
    + PartitionIdLen(r.partitionId, v)
    + 5
    + OperationLen(r.operation)

\* Mutant: the entity type written after the operation.
RequestBodyEntityTypeLate(r, v) ==
  VString(r.credential) \o VString(r.tableName) \o Vi64(r.tableId)
    \o PartitionIdBytes(r.partitionId, v)
    \o OperationEncode(r.operation) \o I8(EntityTag[r.entityType])
    \o I8(ConsistencyTag[r.consistency])
    \o I8(BoolByte(r.returnRowKey)) \o I8(BoolByte(r.returnAffectedEntity))
    \o I8(BoolByte(r.returnAffectedRows))

RequestBody(r, v) ==
  VString(r.credential) \o VString(r.tableName) \o Vi64(r.tableId)
    \o PartitionIdBytes(r.partitionId, v)
    \o I8(EntityTag[r.entityType]) \o OperationEncode(r.operation)
    \o I8(ConsistencyTag[r.consistency])
    \o I8(BoolByte(r.returnRowKey)) \o I8(BoolByte(r.returnAffectedEntity))
    \o I8(BoolByte(r.returnAffectedRows))

RequestEncode(r, v) == Header(PayloadVersion, RequestContentLen(r, v)) \o RequestBody(r, v)

RequestLen(r, v) == PayloadLen(PayloadVersion, RequestContentLen(r, v))

-----------------------------------------------------------------------------
(* Actions.                                                                *)

Init ==
  /\ vsn \in Versions
  /\ \E n \in TableNames, t \in OpTuples : req = NewRequest(n, t)
  /\ wire = NoWire

\* A new request for the next call replaces the previous one.
New(n, t) ==
  /\ req' = NewRequest(n, t)
  /\ wire' = NoWire
  /\ UNCHANGED vsn

SetTableId(id) ==
  /\ req' = [req EXCEPT !.tableId = id]
  /\ UNCHANGED <<vsn, wire>>

SetPartitionId(id) ==
  /\ req' = [req EXCEPT !.partitionId = id]
  /\ UNCHANGED <<vsn, wire>>

SetCredential(c) ==
  /\ req' = [req EXCEPT !.credential = c]
  /\ UNCHANGED <<vsn, wire>>

\* The transport sizes the buffer with len() (content_len reads the version)...
Size ==
  /\ wire' = [NoWire EXCEPT !.len = RequestLen(req, vsn), !.of = req]
  /\ UNCHANGED <<req, vsn>>

\* ...then fills it with encode() of the same request (encode reads the
\* version again).
Encode ==
  /\ wire.of = req
  /\ ~wire.written
  /\ wire' = [wire EXCEPT !.bytes = RequestEncode(req, vsn), !.written = TRUE, !.v = vsn]
  /\ UNCHANGED <<req, vsn>>

Next ==
  \/ \E n \in TableNames, t \in OpTuples : New(n, t)
  \/ \E id \in Ids \cup {InvalidId} : SetTableId(id) \/ SetPartitionId(id)
  \/ \E c \in Credentials : SetCredential(c)
  \/ Size
  \/ Encode

Spec == Init /\ [][Next]_vars

-----------------------------------------------------------------------------
(* Properties.                                                             *)

TypeOK ==
  /\ vsn \in Versions
  /\ req.tableId \in Ids \cup {InvalidId}
  /\ req.partitionId \in Ids \cup {InvalidId}
  /\ req.credential \in Credentials \cup {<<>>}
  /\ req.operation.type \in OpTypes
  /\ wire.len \in Nat

\* The len() the buffer was sized with is the number of bytes encode later
\* writes, in both partition-id shapes: content_len and encode of
\* ObTableOperationRequest each read ob_vsn_major(), and whatever happens
\* on the connection between the two calls, they must read the same one.
EncodedLenAgrees == wire.written => wire.len = Len(wire.bytes)

\* A reader that follows the documented wire order, with the partition id
\* as a fixed 8 bytes from version 4 on, recovers every field of the
\* request, in order, and ends exactly where the header says.
ReadRequest(w, v) ==
  Bind(ReadHeader(Start, w), LAMBDA h :
    LET c1 == ReadVString(h.cur, w)
        c2 == ReadVString(c1, w)
        c3 == ReadVi64(c2, w)
        c4 == IF v >= 4 THEN ReadI64(c3, w) ELSE ReadVi64(c3, w)
        c5 == ReadI8(c4, w)
        c6 == ReadOperation(c5, w)
        c7 == ReadI8(ReadI8(ReadI8(ReadI8(c6, w), w), w), w)
    IN Closed(h, c7))

RequestFields(r) ==
  <<r.credential, r.tableName, r.tableId, r.partitionId, EntityTag[r.entityType],
    Recovered(r.operation), ConsistencyTag[r.consistency],
    BoolByte(r.returnRowKey), BoolByte(r.returnAffectedEntity),
    BoolByte(r.returnAffectedRows)>>

EncodedRoundTrip ==
  wire.written =>
    Bind(ReadRequest(wire.bytes, wire.v), LAMBDA c :
      c.ok /\ c.pos = Len(wire.bytes) + 1 /\ c.vals = RequestFields(wire.of))

=============================================================================
