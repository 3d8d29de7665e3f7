------------------------ MODULE ObTableBatchOperation ------------------------
(***************************************************************************)
(* The batch accumulator ObTableBatchOperation of                          *)
(* src/src/rpc/protocol/payloads.rs.                                       *)
(*                                                                         *)
(* A batch is created raw or structured.  Builders hand a tuple to         *)
(* add_op: a raw batch stores the tuple, a structured one classifies it    *)
(* against the FIRST stored operation (read_only, same_type,               *)
(* same_properties_names), pushes its filter and option, if any, onto two  *)
(* side lists, and stores the built ObTableOperation.  add_table_op,       *)
(* the take_* calls and generate_tablet_ops change the lists without       *)
(* touching the flags.                                                     *)
(*                                                                         *)
(* Data is abstracted to what the classifier and the tablet conversion     *)
(* tell apart: column names, key values, property values and filter texts  *)
(* are model values; a row key is a one-element sequence.                  *)
(***************************************************************************)
EXTENDS ObPayloadCodec

CONSTANTS
  Filters,      \* filter texts produced by a FilterEncoder
  KeyColumn,    \* the row key column name given to check_and_upsert
  WriteTypes,   \* the operation types of the write builders enumerated
  MaxOps,       \* bound: operations held by the batch at once
  MaxCols       \* bound: length of a column list given to a builder

ASSUME MaxOps \in Nat /\ MaxCols \in Nat
ASSUME WriteTypes \subseteq
         {"Insert", "Update", "InsertOrUpdate", "Replace", "Increment", "Append"}

VARIABLES
  raw,             \* the mode chosen at construction
  rawOps,          \* raw_ops: tuples stored verbatim
  ops,             \* ops: built operations
  filters,         \* filters: side list of filter texts
  options,         \* options: side list of RawObTableOperationFlag
  readOnly,        \* read_only
  sameType,        \* same_type
  samePropsNames,  \* same_properties_names
  atomicOp,        \* atomic_op
  tabletOps,       \* the single ops of the last generate_tablet_ops result
  intent,          \* ghost: the tuple each element of ops was built from
  converted        \* ghost: intent as it was at the last generate_tablet_ops

\* The struct's own fields; the last three variables are outputs and ghosts
\* that no action reads, so a run whose properties ignore them may use this
\* as its VIEW.
CodeState == <<raw, rawOps, ops, filters, options, readOnly, sameType,
               samePropsNames, atomicOp>>

vars == <<raw, rawOps, ops, filters, options, readOnly, sameType,
          samePropsNames, atomicOp, tabletOps, intent, converted>>

-----------------------------------------------------------------------------
(* Inputs.                                                                 *)

ColumnLists == BoundedSeq(Names, MaxCols)
RowKeys == {<<k>> : k \in Keys}

ValueLists(cols) == [1..Len(cols) -> Vals]

\* The tuples the repository's builders hand to add_op.
GetTuples ==
  {Tuple(Get, None, k, c, None, None, None) : k \in RowKeys, c \in ColumnLists}
WriteTuples ==
  UNION {{Tuple(w, None, k, c, p, None, None) : p \in ValueLists(c)} :
           w \in WriteTypes, k \in RowKeys, c \in ColumnLists}
DeleteTuples == {Tuple(Del, None, k, None, None, None, None) : k \in RowKeys}
UpsertTuples ==
  UNION {{Tuple(CheckAndInsertUp, <<KeyColumn>>, k, c, p, f, Flag(TRUE, ce)) :
            p \in ValueLists(c)} :
           k \in RowKeys, c \in ColumnLists, f \in Filters, ce \in BOOLEAN}
BuilderTuples == GetTuples \cup WriteTuples \cup DeleteTuples \cup UpsertTuples

-----------------------------------------------------------------------------
(* Classification in add_op, each against ops.first().                     *)

\* Mutant: the read_only update is left out.
NextReadOnlyDropped(t) == readOnly

NextReadOnly(t) == readOnly /\ t.type = Get

\* Mutant: compared with the last operation, and not sticky once false.
NextSameTypeLast(t) == ops = <<>> \/ ops[Len(ops)].type = t.type

NextSameType(t) == sameType /\ (ops = <<>> \/ ops[1].type = t.type)

\* The loop over the new names inserts each into a set and stops after
\* the first name the first operation does not have.
ScannedNames(props, cols) ==
  LET missing == {i \in DOMAIN cols : cols[i] \notin props}
      stop == IF missing = {} THEN Len(cols) ELSE Min(missing)
  IN {cols[i] : i \in 1..stop}

NextSamePropsNames(t) ==
  IF samePropsNames /\ ops # <<>>
  THEN LET props == PropNames(ops[1])
       IN CASE props = {} /\ t.cols = None -> TRUE
            [] props # {} /\ t.cols # None ->
                 /\ Cardinality(props) = Len(t.cols)
                 /\ Cardinality(ScannedNames(props, t.cols)) = Len(t.cols)
            [] OTHER -> FALSE
  ELSE samePropsNames

\* Bound: no list of the batch reaches MaxOps (filters and options outlive
\* a take_ops, so they are bounded separately).
HasRoom ==
  /\ Len(ops) + Len(rawOps) < MaxOps
  /\ Len(filters) < MaxOps /\ Len(options) < MaxOps

\* Mutant: the Option is pushed without the `if let Some` test.
PushAlways(list, x) == Append(list, x)

\* `if let Some(x) = .. { list.push(x) }` for the filter and the option.
PushSome(list, x) == IF x # None THEN Append(list, x) ELSE list

\* ObTableOperation::new, set_row_key_names, then ops.push.
PushOp(list, t) == Append(list, NewOperation(t))

\* add_op: the whole body, raw and structured.
AddOp(t) ==
  /\ HasRoom
  /\ IF raw
     THEN /\ rawOps' = Append(rawOps, t)
          /\ UNCHANGED <<ops, filters, options, readOnly, sameType,
                         samePropsNames, intent>>
     ELSE /\ readOnly' = NextReadOnly(t)
          /\ sameType' = NextSameType(t)
          /\ samePropsNames' = NextSamePropsNames(t)
          /\ filters' = PushSome(filters, t.filter)
          /\ options' = PushSome(options, t.option)
          /\ ops' = PushOp(ops, t)
          /\ intent' = Append(intent, t)
          /\ UNCHANGED rawOps
  /\ UNCHANGED <<raw, atomicOp, tabletOps, converted>>

-----------------------------------------------------------------------------
(* The builders: thin wrappers over add_op.                                *)

BatchGet == \E t \in GetTuples : AddOp(t)

\* insert, update, insert_or_update, replace, increment, append
BatchWrite == \E t \in WriteTuples : AddOp(t)

BatchDelete == \E t \in DeleteTuples : AddOp(t)

\* check_and_upsert, reached through check_and_upsert_if_exists (TRUE)
\* and check_and_upsert_if_not_exists (FALSE).
CheckAndUpsert == \E t \in UpsertTuples : AddOp(t)

\* add_table_op: pushes an already built operation, whatever the mode.
AddTableOp ==
  /\ HasRoom
  /\ \E t \in BuilderTuples :
       /\ ops' = Append(ops, NewOperation(t))
       /\ intent' = Append(intent, [t EXCEPT !.filter = None, !.option = None])
  /\ UNCHANGED <<raw, rawOps, filters, options, readOnly, sameType,
                 samePropsNames, atomicOp, tabletOps, converted>>

SetAtomicOp ==
  /\ \E b \in BOOLEAN : atomicOp' = b
  /\ UNCHANGED <<raw, rawOps, ops, filters, options, readOnly, sameType,
                 samePropsNames, tabletOps, intent, converted>>

-----------------------------------------------------------------------------
(* The take_* calls: mem::take of one list, flags untouched.               *)

TakeRawOps ==
  /\ rawOps # <<>>
  /\ rawOps' = <<>>
  /\ UNCHANGED <<raw, ops, filters, options, readOnly, sameType,
                 samePropsNames, atomicOp, tabletOps, intent, converted>>

TakeOps ==
  /\ ops # <<>>
  /\ ops' = <<>>
  /\ intent' = <<>>
  /\ UNCHANGED <<raw, rawOps, filters, options, readOnly, sameType,
                 samePropsNames, atomicOp, tabletOps, converted>>

TakeFilters ==
  /\ filters # <<>>
  /\ filters' = <<>>
  /\ UNCHANGED <<raw, rawOps, ops, options, readOnly, sameType,
                 samePropsNames, atomicOp, tabletOps, intent, converted>>

TakeOptions ==
  /\ options # <<>>
  /\ options' = <<>>
  /\ UNCHANGED <<raw, rawOps, ops, filters, readOnly, sameType,
                 samePropsNames, atomicOp, tabletOps, intent, converted>>

-----------------------------------------------------------------------------
(* generate_tablet_ops: the three lists are taken and zipped, so the       *)
(* result is as long as the shortest.  Each triple becomes a               *)
(* CheckAndInsertUp single op whose entity carries the key and the         *)
(* properties, whose query is the point range [key, key] with the filter   *)
(* (TableObj encoding), and whose check_not_exists is !check_exists.  The  *)
(* enclosing ObTableTabletOp has tablet id OB_INVALID_ID and is_same_type. *)

\* Mutant: check_exists copied instead of inverted.
SingleOpNotInverted(op, filter, option) ==
  [type |-> CheckAndInsertUp, checkNotExists |-> option.checkExists,
   query |-> [rkNames |-> op.rkNames, range |-> <<op.keys, op.keys>>,
              filter |-> filter, objType |-> "TableObj"],
   entity |-> [rkNames |-> op.rkNames, keys |-> op.keys, props |-> op.props]]

SingleOp(op, filter, option) ==
  [type |-> CheckAndInsertUp, checkNotExists |-> ~option.checkExists,
   query |-> [rkNames |-> op.rkNames, range |-> <<op.keys, op.keys>>,
              filter |-> filter, objType |-> "TableObj"],
   entity |-> [rkNames |-> op.rkNames, keys |-> op.keys, props |-> op.props]]

GenerateTabletOps ==
  LET n == Min({Len(ops), Len(filters), Len(options)})
  IN /\ tabletOps' = [i \in 1..n |-> SingleOp(ops[i], filters[i], options[i])]
     /\ converted' = intent
     /\ ops' = <<>>
     /\ filters' = <<>>
     /\ options' = <<>>
     /\ intent' = <<>>
     /\ UNCHANGED <<raw, rawOps, readOnly, sameType, samePropsNames, atomicOp>>

-----------------------------------------------------------------------------
(* ObTableBatchOperation::new / raw (internal_new).                        *)

Init ==
  /\ raw \in BOOLEAN
  /\ rawOps = <<>>
  /\ ops = <<>>
  /\ filters = <<>>
  /\ options = <<>>
  /\ readOnly = TRUE
  /\ sameType = TRUE
  /\ samePropsNames = TRUE
  /\ atomicOp = FALSE
  /\ tabletOps = <<>>
  /\ intent = <<>>
  /\ converted = <<>>

\* Building a batch with the builders, the usual way a batch is filled.
BuildNext == BatchGet \/ BatchWrite \/ BatchDelete \/ CheckAndUpsert \/ SetAtomicOp

\* A batch of check_and_upsert calls converted to a tablet operation, the
\* only use generate_tablet_ops is written for.
UpsertNext == CheckAndUpsert \/ GenerateTabletOps

\* The same, with take_ops between the calls: every operation held is still
\* a check_and_upsert, as the comment at generate_tablet_ops requires.
UpsertTakeNext == UpsertNext \/ TakeOps

\* Every public mutator.
Next ==
  \/ BuildNext
  \/ AddTableOp
  \/ TakeRawOps \/ TakeOps \/ TakeFilters \/ TakeOptions
  \/ GenerateTabletOps

BuildSpec == Init /\ [][BuildNext]_vars
UpsertSpec == Init /\ [][UpsertNext]_vars
UpsertTakeSpec == Init /\ [][UpsertTakeNext]_vars
Spec == Init /\ [][Next]_vars

-----------------------------------------------------------------------------
(* Properties.                                                             *)

Ops == {NewOperation(t) : t \in BuilderTuples}

TypeOK ==
  /\ raw \in BOOLEAN
  /\ rawOps \in Seq(BuilderTuples)
  /\ ops \in Seq(Ops)
  /\ filters \in Seq(Filters)
  /\ options \in Seq([checkAndExecute : BOOLEAN, checkExists : BOOLEAN])
  /\ {readOnly, sameType, samePropsNames, atomicOp} \subseteq BOOLEAN
  /\ Len(intent) = Len(ops)

\* Spec section 8: read_only, as add_op maintains it, is TRUE exactly when
\* every operation the batch holds (and will encode) is a Get.
ReadOnlyExact == readOnly <=> \A i \in DOMAIN ops : ops[i].type = Get

\* same_type, maintained by comparing each new operation with the first
\* only, is TRUE exactly when all held operations have one type.
SameTypeExact ==
  sameType <=> \A i, j \in DOMAIN ops : ops[i].type = ops[j].type

\* Spec section 4.5: same_properties_names is TRUE exactly when all held
\* operations have the same set of property names, empty against empty
\* included (the server may rely on one column layout when it is TRUE).
SamePropsNamesExact ==
  samePropsNames <=> \A i, j \in DOMAIN ops : PropNames(ops[i]) = PropNames(ops[j])

\* Spec section 8: raw_ops and ops are never both non-empty.
ModesExclusive == rawOps = <<>> \/ ops = <<>>

\* generate_tablet_ops emits one single op per operation it drains, each
\* a CheckAndInsertUp carrying that operation's key, properties, filter,
\* and the inverse of its check_exists as check_not_exists.
Faithful(s, t) ==
  /\ t.type = s.type
  /\ t.filter = s.query.filter
  /\ t.option # None /\ s.checkNotExists = ~t.option.checkExists
  /\ s.entity.keys = t.keys /\ s.query.range = <<t.keys, t.keys>>
  /\ s.entity.props = NewOperation(t).props

TabletConversionFaithful ==
  /\ Len(tabletOps) = Len(converted)
  /\ \A i \in DOMAIN converted : Faithful(tabletOps[i], converted[i])

\* Spec section 5: the len() that sizes the buffer (header plus
\* content_len) equals the number of bytes encode writes, in every state
\* a batch can reach through its public mutators.
BatchLenMatchesEncode ==
  Len(BatchEncode(ops, readOnly, sameType, samePropsNames)) = BatchLen(ops)

=============================================================================
