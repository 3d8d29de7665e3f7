---------------------------- MODULE ObPayloadCodec ----------------------------
(***************************************************************************)
(* content_len and encode of the payloads a batch is made of: ObRowKey,    *)
(* ObTableEntity, ObTableOperation and ObTableBatchOperation               *)
(* (src/src/rpc/protocol/payloads.rs), and the operation type tags.        *)
(*                                                                         *)
(* An operation is the record ObTableBatchOperation builds:                *)
(* [type, rkNames, keys, props], props a function from property names to  *)
(* values.  A name is written as a one-symbol string; a Value goes through *)
(* the external scalar codec, whose bytes are opaque symbols.  A symbol is *)
(* an integer of 256 or more: never a byte, so a reader that meets one     *)
(* where it expects a byte fails instead of taking it for one.            *)
(***************************************************************************)
EXTENDS ObWire, SequencesExt

CONSTANTS
  Names,        \* property column names
  Keys,         \* row key values
  Vals,         \* property values
  Default,      \* Value::default(), used when a tuple carries no values
  None          \* Option::None

-----------------------------------------------------------------------------
(* ObTableOperationType and its i8 tag (Invalid = 11 has no wire tag).     *)

Get == "Get"
Del == "Del"
CheckAndInsertUp == "CheckAndInsertUp"

OpTag == [Get |-> 0, Insert |-> 1, Del |-> 2, Update |-> 3, InsertOrUpdate |-> 4,
          Replace |-> 5, Increment |-> 6, Append |-> 7, Scan |-> 8, TTL |-> 9,
          CheckAndInsertUp |-> 10]
OperationTypes == DOMAIN OpTag

\* ObTableOperationType::from_i8: the type with that tag, or an error.
DecodeError == "InvalidData"
FromI8(i) == IF \E t \in OperationTypes : OpTag[t] = i
             THEN CHOOSE t \in OperationTypes : OpTag[t] = i
             ELSE DecodeError

-----------------------------------------------------------------------------
(* RawObTableOperation and RawObTableOperationFlag.                        *)

\* RawObTableOperationFlag { check_and_execute, check_exists }
Flag(cae, ce) == [checkAndExecute |-> cae, checkExists |-> ce]

\* RawObTableOperation: (type, row key names, row keys, columns, values,
\* filter, option); None where the Option is None.
Tuple(type, rkNames, keys, cols, props, filter, option) ==
  [type |-> type, rkNames |-> rkNames, keys |-> keys, cols |-> cols,
   props |-> props, filter |-> filter, option |-> option]

-----------------------------------------------------------------------------
(* ObTableOperation::new, and set_row_key_names when the tuple names the   *)
(* row key columns.  Properties go through add_attr, a HashMap insert:     *)
(* a repeated column name keeps its last value.                            *)

NewOperation(t) ==
  LET cols == IF t.cols = None THEN <<>> ELSE t.cols
      LastIndex(n) == Max({i \in DOMAIN cols : cols[i] = n})
      Value(i) == IF t.props = None THEN Default ELSE t.props[i]
  IN [type    |-> t.type,
      rkNames |-> IF t.rkNames = None THEN <<>> ELSE t.rkNames,
      keys    |-> t.keys,
      props   |-> [n \in {cols[i] : i \in DOMAIN cols} |-> Value(LastIndex(n))]]

PropNames(op) == DOMAIN op.props

-----------------------------------------------------------------------------
(* The external scalar codec, Value::len / encode and table_obj_len /      *)
(* table_obj_encode: the sizes are arbitrary, and differ between the two   *)
(* modes so that a mix-up of the modes changes a length.                   *)

\* The meta (type) part Obj mode writes before the value.
ObjMeta == 256
KeyBytes(v, objType) ==
  IF objType = "Obj" THEN <<ObjMeta, v>> ELSE <<v>>
KeyLen(v, objType) == IF objType = "Obj" THEN 2 ELSE 1
ValueBytes(v) == KeyBytes(v, "Obj")
ValueLen(v) == KeyLen(v, "Obj")

NameText(n) == <<n>>

\* The version BasePayLoad::dummy() gives nested payloads.
PayloadVersion == 1

SeqSum(s) == FoldLeft(LAMBDA a, b : a + b, 0, s)

\* The HashMap's iteration order: arbitrary, and the same for both loops
\* over an unchanged map.
PropOrder(props) == SetToSeq(DOMAIN props)

-----------------------------------------------------------------------------
(* ObRowKey::content_len and encode.                                       *)

RowKeyContentLen(keys, objType) ==
  Vi64Len(Len(keys)) + SeqSum([i \in DOMAIN keys |-> KeyLen(keys[i], objType)])

RowKeyEncode(keys, objType) ==
  Vi64(Len(keys)) \o FlattenSeq([i \in DOMAIN keys |-> KeyBytes(keys[i], objType)])

-----------------------------------------------------------------------------
(* ObTableEntity::content_len and encode; ObTableOperation::new builds     *)
(* the row key with ObjEncodeType::Obj.                                    *)

\* Mutant: a property name counted without its closing 0 byte.
EntityContentLenNoNul(op) ==
  LET names == PropOrder(op.props)
  IN RowKeyContentLen(op.keys, "Obj") + Vi64Len(Len(names))
       + SeqSum([i \in DOMAIN names |->
                   VBytesLen(NameText(names[i])) + ValueLen(op.props[names[i]])])

EntityContentLen(op) ==
  LET names == PropOrder(op.props)
  IN RowKeyContentLen(op.keys, "Obj") + Vi64Len(Len(names))
       + SeqSum([i \in DOMAIN names |->
                   VStringLen(NameText(names[i])) + ValueLen(op.props[names[i]])])

EntityEncode(op) ==
  LET names == PropOrder(op.props)
  IN Header(PayloadVersion, EntityContentLen(op))
       \o RowKeyEncode(op.keys, "Obj")
       \o Vi64(Len(names))
       \o FlattenSeq([i \in DOMAIN names |->
                        VString(NameText(names[i])) \o ValueBytes(op.props[names[i]])])

-----------------------------------------------------------------------------
(* ObTableOperation::content_len and encode: the tag byte, then the        *)
(* entity with its own header.                                             *)

OperationContentLen(op) == 1 + PayloadLen(PayloadVersion, EntityContentLen(op))

OperationEncode(op) ==
  Header(PayloadVersion, OperationContentLen(op)) \o I8(OpTag[op.type]) \o EntityEncode(op)

OperationLen(op) == PayloadLen(PayloadVersion, OperationContentLen(op))

-----------------------------------------------------------------------------
(* ObTableBatchOperation::content_len and encode: the operations of ops    *)
(* (raw_ops are never written), then the three flags as i8.                *)

BoolByte(b) == IF b THEN 1 ELSE 0

BatchContentLen(ops) ==
  3 + Vi64Len(Len(ops)) + SeqSum([i \in DOMAIN ops |-> OperationLen(ops[i])])

BatchEncode(ops, readOnly, sameType, samePropsNames) ==
  Header(PayloadVersion, BatchContentLen(ops))
    \o Vi64(Len(ops))
    \o FlattenSeq([i \in DOMAIN ops |-> OperationEncode(ops[i])])
    \o I8(BoolByte(readOnly)) \o I8(BoolByte(sameType)) \o I8(BoolByte(samePropsNames))

BatchLen(ops) == PayloadLen(PayloadVersion, BatchContentLen(ops))

=============================================================================
