--------------------- MODULE ObTableBatchOperationRequest ---------------------
(***************************************************************************)
(* ObTableBatchOperationRequest (payloads.rs 1087-1189) composed with the  *)
(* batch it is built from.  The caller fills an ObTableBatchOperation with *)
(* the builders and sets its table identity; new() takes the batch by      *)
(* value, copying its name, ids and atomic_op into the request; the        *)
(* request's credential is set, then it is sized and encoded.  One call    *)
(* is followed at a time: the next batch is filled once the request has    *)
(* been sent and dropped.  ob_vsn_major() is fixed at Init.                *)
(***************************************************************************)
EXTENDS ObTableBatchOperation, ObWireReader

CONSTANTS
  TableNames,    \* table names, as strings of symbols
  Credentials,   \* credentials from login, as byte strings
  Ids,           \* table and partition ids the router may resolve
  InvalidId,     \* OB_INVALID_ID, the unresolved sentinel
  Versions       \* negotiated major versions

VARIABLES
  table,   \* the batch's table_name, table_id, partition_id
  vsn,     \* ob_vsn_major()
  breq,    \* the request last built, or None
  wire     \* the outcome of the last encode, or NoWire

reqVars == <<table, vsn, breq, wire>>
allVars == <<vars, reqVars>>

NoWire == [len |-> 0, bytes |-> <<>>, of |-> None]

EntityTag == [Dynamic |-> 0, KV |-> 1, HKV |-> 2]
ConsistencyTag == [Strong |-> 0, Eventual |-> 1]

\* Mutant: the ids left at 0 instead of the unresolved sentinel.
NewTableZeroIds == [name |-> <<>>, id |-> 0, part |-> 0]

\* ObTableBatchOperation::new's identity: an empty name, unresolved ids.
NewTable == [name |-> <<>>, id |-> InvalidId, part |-> InvalidId]

\* ObTableBatchOperationRequest::new: the batch moves into the request.
NewBatchRequest ==
  [credential |-> <<>>, tableName |-> table.name,
   tableId |-> table.id, partitionId |-> table.part,
   entityType |-> "Dynamic", atomicOp |-> atomicOp,
   batch |-> [ops |-> ops, readOnly |-> readOnly, sameType |-> sameType,
              samePropsNames |-> samePropsNames],
   consistency |-> "Strong",
   returnRowKey |-> FALSE, returnAffectedEntity |-> FALSE, returnAffectedRows |-> TRUE]

-----------------------------------------------------------------------------
(* content_len and encode.  Unlike the single request, the entity type and *)
(* the batch follow the table id, and the partition id (8 bytes from       *)
(* version 4 on, a varint before) comes after the return flags, just      *)
(* before atomic_op.                                                       *)

\* Mutant: the partition id written as a varint whatever the version.
BatchPartitionIdBytesUngated(id, v) == Vi64(id)

BatchPartitionIdBytes(id, v) == IF v >= 4 THEN I64(id) ELSE Vi64(id)

BatchPartitionIdLen(id, v) == IF v >= 4 THEN 8 ELSE Vi64Len(id)

BatchRequestContentLen(r, v) ==
  VStringLen(r.credential) + VStringLen(r.tableName) + Vi64Len(r.tableId)
    + BatchPartitionIdLen(r.partitionId, v)
    + BatchLen(r.batch.ops)
    + 6

\* Mutant: the partition id written where the single request writes it.
BatchRequestBodyPartitionEarly(r, v) ==
  VString(r.credential) \o VString(r.tableName) \o Vi64(r.tableId)
    \o BatchPartitionIdBytes(r.partitionId, v)
    \o I8(EntityTag[r.entityType])
    \o BatchEncode(r.batch.ops, r.batch.readOnly, r.batch.sameType, r.batch.samePropsNames)
    \o I8(ConsistencyTag[r.consistency])
    \o I8(BoolByte(r.returnRowKey)) \o I8(BoolByte(r.returnAffectedEntity))
    \o I8(BoolByte(r.returnAffectedRows))
    \o I8(BoolByte(r.atomicOp))

BatchRequestBody(r, v) ==
  VString(r.credential) \o VString(r.tableName) \o Vi64(r.tableId)
    \o I8(EntityTag[r.entityType])
    \o BatchEncode(r.batch.ops, r.batch.readOnly, r.batch.sameType, r.batch.samePropsNames)
    \o I8(ConsistencyTag[r.consistency])
    \o I8(BoolByte(r.returnRowKey)) \o I8(BoolByte(r.returnAffectedEntity))
    \o I8(BoolByte(r.returnAffectedRows))
    \o BatchPartitionIdBytes(r.partitionId, v)
    \o I8(BoolByte(r.atomicOp))

BatchRequestEncode(r, v) ==
  Header(PayloadVersion, BatchRequestContentLen(r, v)) \o BatchRequestBody(r, v)

BatchRequestLen(r, v) == PayloadLen(PayloadVersion, BatchRequestContentLen(r, v))

-----------------------------------------------------------------------------
(* Actions.                                                                *)

ReqInit ==
  /\ Init
  /\ table = NewTable
  /\ vsn \in Versions
  /\ breq = None
  /\ wire = NoWire

\* A builder call, or set_atomic_op, on the batch being filled.
Build == breq = None /\ BuildNext /\ UNCHANGED reqVars

SetTableName(n) ==
  /\ breq = None
  /\ table' = [table EXCEPT !.name = n]
  /\ UNCHANGED <<vars, vsn, breq, wire>>

SetTableId(id) ==
  /\ breq = None
  /\ table' = [table EXCEPT !.id = id]
  /\ UNCHANGED <<vars, vsn, breq, wire>>

SetPartitionId(id) ==
  /\ breq = None
  /\ table' = [table EXCEPT !.part = id]
  /\ UNCHANGED <<vars, vsn, breq, wire>>

\* new() consumes the batch; the caller's next batch starts afresh, as
\* ObTableBatchOperation::new() or raw() makes it.
NewRequest ==
  /\ breq = None
  /\ breq' = NewBatchRequest
  /\ wire' = NoWire
  /\ \E r \in BOOLEAN : raw' = r
  /\ rawOps' = <<>> /\ ops' = <<>> /\ filters' = <<>> /\ options' = <<>>
  /\ readOnly' = TRUE /\ sameType' = TRUE /\ samePropsNames' = TRUE
  /\ atomicOp' = FALSE
  /\ tabletOps' = <<>> /\ intent' = <<>> /\ converted' = <<>>
  /\ table' = NewTable
  /\ UNCHANGED vsn

SetCredential(c) ==
  /\ breq # None
  /\ breq' = [breq EXCEPT !.credential = c]
  /\ UNCHANGED <<vars, table, vsn, wire>>

Encode ==
  /\ breq # None
  /\ wire' = [len |-> BatchRequestLen(breq, vsn), bytes |-> BatchRequestEncode(breq, vsn),
              of |-> breq]
  /\ UNCHANGED <<vars, table, vsn, breq>>

\* The transport sends the encoded request and drops it.
Sent ==
  /\ wire # NoWire
  /\ breq' = None
  /\ wire' = NoWire
  /\ UNCHANGED <<vars, table, vsn>>

ReqNext ==
  \/ Build
  \/ \E n \in TableNames : SetTableName(n)
  \/ \E id \in Ids : SetTableId(id) \/ SetPartitionId(id)
  \/ NewRequest
  \/ \E c \in Credentials : SetCredential(c)
  \/ Encode
  \/ Sent

ReqSpec == ReqInit /\ [][ReqNext]_allVars

-----------------------------------------------------------------------------
(* Properties.                                                             *)

ReqTypeOK ==
  /\ table.id \in Ids \cup {InvalidId} /\ table.part \in Ids \cup {InvalidId}
  /\ vsn \in Versions
  /\ breq # None =>
       /\ breq.tableId \in Ids \cup {InvalidId}
       /\ breq.partitionId \in Ids \cup {InvalidId}
       /\ breq.batch.ops \in Seq(Ops)
  /\ wire.len \in Nat

\* The len() the buffer is sized with is the number of bytes encode writes,
\* with the nested batch, its operations and entities each sized by their
\* own content_len (ObTableBatchOperationRequest::content_len and encode).
EncodedLenAgrees == wire # NoWire => wire.len = Len(wire.bytes)

\* A reader following the documented batch-request order (table id, entity
\* type, the batch, consistency, the return flags, the version-gated
\* partition id, atomic_op) recovers the request as new() snapshotted it:
\* the batch's table identity and atomic_op at the time it was moved in,
\* its operations in order and its three flags.
ReadBatchRequest(w, v) ==
  Bind(ReadHeader(Start, w), LAMBDA h :
    LET c3 == ReadVi64(ReadVString(ReadVString(h.cur, w), w), w)
        c5 == ReadBatch(ReadI8(c3, w), w)
        c9 == ReadI8(ReadI8(ReadI8(ReadI8(c5, w), w), w), w)
        c10 == IF v >= 4 THEN ReadI64(c9, w) ELSE ReadVi64(c9, w)
    IN Closed(h, ReadI8(c10, w)))

BatchRequestFields(r) ==
  <<r.credential, r.tableName, r.tableId, EntityTag[r.entityType],
    [ops |-> [i \in DOMAIN r.batch.ops |-> Recovered(r.batch.ops[i])],
     flags |-> <<BoolByte(r.batch.readOnly), BoolByte(r.batch.sameType),
                 BoolByte(r.batch.samePropsNames)>>],
    ConsistencyTag[r.consistency],
    BoolByte(r.returnRowKey), BoolByte(r.returnAffectedEntity),
    BoolByte(r.returnAffectedRows), r.partitionId, BoolByte(r.atomicOp)>>

EncodedRoundTrip ==
  wire # NoWire =>
    Bind(ReadBatchRequest(wire.bytes, vsn), LAMBDA c :
      c.ok /\ c.pos = Len(wire.bytes) + 1 /\ c.vals = BatchRequestFields(wire.of))

=============================================================================
