# TLA+ models of the OBKV table client payload layer

This directory models `src/src/rpc/protocol/payloads.rs`: the request and
response payloads of the OBKV table client, and the batch accumulator that
classifies operations before they are sent. The other parts of the client
(transport, routing, value codec, filter codec, password scrambling) are not
part of the repository's source. They appear here only as the contracts the
payloads use.

## 1. Inventory

### Components and their state

| Component | Source lines | State | Operations |
|---|---|---|---|
| Operation type | `payloads.rs` 47-150 | none: an enum with tags 0..10 and `Invalid` = 11 | `From<i8>` (panics on other tags), `from_i8` (error on other tags), `need_encode_query` |
| Row key | 152-250 | `column_names`, `keys`, `obj_type` (Obj / TableObj) | `new`, setters, `content_len`, `encode` |
| Entity | 252-375 | a row key and a `HashMap` of properties | `add_attr` (overwrite by name), `content_len`, `encode`, `decode` |
| Operation | 377-468 | `op_type`, `entity` | `new` (builds the entity from parallel column/value lists), `content_len`, `encode`; `decode` is `unimplemented!` |
| Single-operation request | 470-587 | credential, table name, table id, partition id, entity type, operation, consistency, three return flags | `new`, `set_table_id`, `set_partition_id`, `set_credential`, `content_len`, `encode` |
| Batch accumulator (`ObTableBatchOperation`) | 589-1085 | `raw`, `raw_ops`, `ops`, `filters`, `options`, `read_only`, `same_type`, `same_properties_names`, `atomic_op`, table identity | `new`/`raw`, `add_op`, nine builders, `check_and_upsert(_if_exists/_if_not_exists)`, `add_table_op`, `take_ops`/`take_raw_ops`/`take_filters`/`take_options`, `generate_tablet_ops`, `set_atomic_op`, `content_len`, `encode` |
| Batch request | 1087-1189 | as the single request, plus the accumulator and an `atomic_op` snapshot | `new`, `set_credential`, `content_len`, `encode` |
| Result code and warnings | 1191-1343 | `rcode`, `msg`, `warning_msgs` | `decode` |
| Login request / result | 1345-1542 | login fields, scramble, credential | `new`, `content_len`, `encode` / `decode`, `take_credential` |
| Operation result | 1544-1693 | header (`errorno`, `sql_state`, `msg`), `operation_type`, entity, `affected_rows`, `trace_id`, `peer_addr` | `decode`, `set_trace_id`, `set_peer_addr` |
| Batch result | 1695-1760 | `op_results` | `decode` (count, then nested results) |

### How they interact

Everything runs on one thread per object; there are no locks, callbacks or
messages inside this file. The interaction is composition and data flow:

* builders call `add_op`, which classifies the new operation against the
  FIRST operation of `ops` and appends to three lists (`ops`, `filters`,
  `options`) that `generate_tablet_ops` later zips in lockstep;
* a batch request is built from a batch by value, copying its table identity
  and its `atomic_op` flag at construction;
* every payload's `len()` (header + `content_len()`) sizes the buffer, and
  `encode` writes the header, then the body, calling the nested payloads'
  `encode` (each writes its own header);
* `content_len` and `encode` of both requests read the process-wide
  negotiated version `ob_vsn_major()` separately;
* results are decoded from a buffer, nested results reading in order.

### What is hard

* The classifier flags are updated incrementally against the first element
  only, and are not touched by `add_table_op`, `take_ops` or
  `generate_tablet_ops`: a long sequence of legal calls can leave them out of
  step with the list that is encoded next to them.
* `filters` and `options` are pushed only when the tuple carries them, so
  they are index-aligned with `ops` only when every operation carries them;
  `generate_tablet_ops` zips the three lists and silently truncates.
* `content_len` and `encode` are two hand-written traversals that must agree
  byte for byte, in two version-dependent wire shapes, with nested headers.
* Decoding trusts counts and lengths from the wire (negative, huge).

### What makes each component correct

* Batch accumulator: the three flags are exactly (or at least soundly) the
  brute-force reduction over the current `ops`; raw and structured lists are
  never both non-empty; `generate_tablet_ops` emits one tablet operation per
  accumulated operation, each with that operation's key, filter and inverted
  `check_exists`.
* Requests: `len()` equals the number of bytes `encode` writes, and a reader
  following the documented wire order recovers every field.
* Results: a well-formed response decodes to what the server encoded; a
  negative count is an error before any nested read; malformed input is an
  error, never a panic.

## 2. Plan

Modules, in the order they are built:

1. `ObTableBatchOperation` — the batch accumulator, the heart of the file:
   state = the struct's fields, one action per public mutator (builders,
   `add_op`, `add_table_op`, the `take_*` calls, `generate_tablet_ops`,
   `set_atomic_op`). Ghost history `intent` records what each operation was
   built from, so conversion can be compared with it. `MC_ObTableBatchOperation`
   gives the constants. Each builder draws its tuple from a constant set
   (`GetTuples`, `WriteTuples`, `DeleteTuples`, `UpsertTuples`). TLC
   computes these sets once, before its workers start. Records built
   inside the action were shared between workers before TLC had
   normalised them, and about one run in a hundred failed spuriously.
2. `ObWire` — the wire primitives contract (varint length and bytes,
   length-prefixed strings and bytes, fixed-width integers) as operators,
   spec-modelled because `serde_obkv::util` is not in `src/`.
3. `ObPayloadCodec` — row key, entity, operation and batch `content_len` /
   `encode` as operators over `ObWire`; the accumulator module extends it so
   the full-API run can check that the batch's length agrees with its bytes.
4. `ObTableOperationRequest` and `ObTableBatchOperationRequest` — single
   and batch requests: construction, setters, sizing and encoding under
   versions 3 and 4. `ObWireReader` is a reader written from the documented
   wire order (not from the encoders), used to check the round trip.
5. `ObTableResultDecode` — a cursor-based decoder for result code, operation
   result and batch result over buffers drawn from well-formed and damaged
   encodings (negative count, huge count, unmapped tag, truncation).
6. `ObTableLoginRequest`, the login result in `ObTableResultDecode`, and
   `ObTableSession`, which composes a login with the operation requests
   that follow it on one connection.

Runs (planned; section 3 lists the ones that exist):

* pass: builder-only classification; check-and-upsert conversion; full API
  batch length agreement; request round trip in both versions; result decode.
* violation: each disagreement between code and spec met while modelling.

## 3. Modules

| Module | Models | State and actions |
|---|---|---|
| `ObWire` | wire primitives of `serde_obkv::util` and `encode_header` (outside `src/`, from the spec) | operators only: `Vi64`/`Vi32` varints (negative values take 10/5 bytes), `I8`, `I64`, `VString`, `Header`, `PayloadLen` |
| `ObPayloadCodec` | operation type tags, `from_i8`, `ObTableOperation::new`, `content_len`/`encode` of row key, entity, operation and batch | operators only |
| `ObTableBatchOperation` | the batch accumulator | variables = the struct's fields (`raw`, `rawOps`, `ops`, `filters`, `options`, three flags, `atomicOp`) plus outputs of the `take_*` calls and a ghost `intent` (what each operation was built from); one action per public mutator; `AddOp` is `add_op` whole, with its flag updates and its three pushes |
| `ObWireReader` | a reference reader of the request wire format | operators over a cursor `[ok, pos, vals]`; integers are decoded from their bytes |
| `ObTableOperationRequest` | `ObTableOperationRequest` | `req`, `vsn` (`ob_vsn_major()`), `wire` (the `len()` the buffer was sized with, then the bytes `encode` wrote and the version it read); actions `New`, the three setters, `Size` (`len()`) and `Encode` (`encode()` of the same request), two steps as the transport makes them |
| `ObTableBatchOperationRequest` | `ObTableBatchOperationRequest` composed with the accumulator | the accumulator's variables plus `table`, `vsn`, `breq`, `wire`; `NewRequest` snapshots the batch and starts a fresh one; `Sent` drops a sent request |
| `ObTableResultDecode` | `decode` of result code, warnings, table result, entity, operation result, batch result and login result; `take_credential` | `sent` (what the server encoded, or a damage of it), `buf`, `outcome`, `taken` (the credential handed to the caller); actions `DecodeBatch`, `DecodeCode`, `DecodeLogin`, each a whole `decode` call, and `TakeCredential` |
| `ObTableLoginRequest` | `ObTableLoginRequest::new`, `content_len`, `encode` | `lreq` (the request, `None` before the first connection), `lwire`; actions `BuildLogin` (tenant, user, database, password and scramble drawn from small sets) and `EncodeLogin` |
| `ObTableSession` | one connection, from spec 4.7 (the flow belongs to the transport, outside `src/`): login first, then operation requests | extends the two request modules and adds `cred`; `LoggingIn` takes the login actions while no credential is cached, `LoggedIn` caches the answer's credential and drops the login request, `Serving` takes the operation request's actions. The version is chosen once in `SessionInit`, as the handshake sets it (spec 6). The phases make the state space the sum of the two components', not their product |

Abstractions. Names, keys and values are integers of 256 or more, so they
can never be mistaken for a byte: a name is a one-symbol string; a key or
value is written by the external scalar codec as `<<meta, v>>`. On the
response side, values are tokens (`Varint`, `Byte`, `Val`) instead of
bytes, because the reading of varints is outside `src/`. TLC's integers
are 32-bit, so the login result's `i64 as u64` cast of the tenant id is
modelled at width `IdWidth = 16` (`AsU64(v) == v % 2^IdWidth`): a tenant id
of `2^IdWidth - 1` is sent as the negative varint -1 and must come back.
A password is one symbol, and the external `scramble_password` is 20 bytes
that depend on the password and the nonce; only its length matters to the
checked sizes. The `HashMap`
iteration order is arbitrary but the same for both loops over one map.

## 4. Runs

| Run | Expect | Checks | What it shows |
|---|---|---|---|
| `batch_build` | pass | `TypeOK`, `ReadOnlyExact`, `SameTypeExact` | with builders and `check_and_upsert` only, `read_only` and `same_type` equal their brute-force values over every list of up to 3 ops |
| `tablet_upsert` | pass | `TabletConversionFaithful` | `generate_tablet_ops` on `check_and_upsert` batches gives each call's key, filter, properties and inverted `check_exists` |
| `full_api` | pass | `BatchLenMatchesEncode` | with every mutator in any order, the batch's `len()` equals the bytes `encode` writes |
| `session_requests` | pass | `TypeOK`, `EncodedLenAgrees`, `EncodedRoundTrip`, `LoginLenAgrees` | over one connection (`MC_ObTableSession`): the single request, sized by `len()` and filled by `encode()` in two steps, is sized exactly and the reader recovers every field in both partition-id shapes; the login request is sized exactly (with a 130-symbol tenant name, whose length takes a 2-byte varint) |
| `batch_request_roundtrip` | pass | `ReqTypeOK`, `EncodedLenAgrees`, `EncodedRoundTrip` | batch request: the same, with the partition id after the return flags |
| `result_decode` | pass | `DecodeFaithful`, `DamageDetected` | batch results, result codes and login results decode to what was sent (the tenant id across its u64 cast; the credential, once taken, is the server's); damaged buffers, a negative batch count included, are errors |
| `same_props_exact` | violation | `SamePropsNamesExact` | the flag is wrong both ways: `get(k,[c0])` then `get(k,[c1])` leaves it TRUE (line 785: the name is inserted before the test, then the loop breaks), and two `get(k,[])` calls clear it, against spec 4.5's "empty-vs-empty counts equal" (line 791); TLC reports one of the two three-state traces |
| `classifier_full_api` | violation | `ReadOnlyExact` | `add_table_op` and `take_ops` leave `read_only` stale (lines 738, 986) |
| `modes_exclusive` | violation | `ModesExclusive` | `add_table_op` on a raw batch fills `ops` too (line 738) |
| `tablet_take_ops` | violation | `TabletConversionFaithful` | with check_and_upsert calls only (`UpsertTakeSpec`), `check_and_upsert_if_exists`, `take_ops`, `check_and_upsert_if_not_exists`, `generate_tablet_ops` emits the second call's operation with the first call's option, because `take_ops` (line 987) leaves filters and options behind for the zip (line 1012) |
| `result_negative_counts` | violation | `NegativeCountRejected` | a warning count of -1 (line 1329: `while len > 0`) or an entity property count of -1 where none was meant (line 365: `if properties_len > 0`) decodes as success with no records, where spec 7 asks for a typed error; TLC reports one of the two two-state traces |
| `result_no_crash` | violation | `NoCrash` | a huge warning or result count aborts in `with_capacity`/`reserve` (lines 1327, 1750) instead of returning an error |

Each property of a passing run is also checked against a mutant of the
code it is about (see `mutants` in `PROJECT.json`): a dropped or misplaced
flag update, an uninverted `check_exists`, a missing NUL byte in a length,
an ungated partition-id width, a field written out of order, a
wrong-width cast. TLC finds every mutant.

Bounds. At most 3 operations per batch (2 where requests or conversion
are checked) and at most 2 columns per operation: the classifier compares
each new operation with the first, so three operations give a first, a
match and a mismatch in every order, and two columns make name sets that
differ in one name. `tablet_take_ops` needs only 2 operations and 1
column: the second upsert after a `take_ops` already meets the first
one's option. Two names, two keys and two filters are enough to tell
operations apart. Ids are 1 (a 1-byte varint) and 300 (a 2-byte varint)
plus the sentinel -1 (a 10-byte varint), so each partition-id shape meets
varints of different lengths. Versions 3 and 4 are the two sides of the
version gate. A decode input has up to 2 results or 1 warning, is damaged
by truncation at every position, or has its count replaced by -1, by one
more than sent, or (in `result_no_crash`) by a count beyond the allocation
limit `AllocLimit`.

Deadlock. The accumulator runs stop at `MaxOps`, and after a `take_*` or a
conversion a batch may receive no further call, so they set
`CHECK_DEADLOCK FALSE`; decode is a single step. The request runs always
have a successor (another encode, setter or new request), so deadlock is
checked there.

Login inputs: tenant names of 0, 1 and 130 symbols, users of 0 and 1
symbol (two distinct ones), databases of 0 and 1 symbol, two passwords and
two scrambles (a constant one and an increasing one); login results with
an empty or non-empty credential, capabilities 0 and 300, and tenant ids 5
and `2^IdWidth - 1`.

Fairness and liveness. None: nothing in this file waits, retries or loops
on an outside event, and every method returns, so all properties are
safety properties.

## 5. Not modelled

* `ObTableLoginRequest::decode` and `ObTableLoginResult::encode` are
  `unimplemented!()`; the login getters change nothing.
* `ObTableOperation::decode` and the request `decode`s are `unimplemented!()`.
* `set_trace_id`, `set_peer_addr` and the getters: setters with no effect
  on any checked behaviour.
* The panic in `ObTableOperation::new` when fewer values than columns are
  passed (line 398): the builders are given lists of equal length.
* Negative entity counts other than a property count sent as -1 where the
  server meant none (lines 355, 365): any other negative count misaligns
  the reads that follow, and in the token abstraction of the response the
  model cannot say what the real bytes would decode to.
* A result object decoded twice (the `assert_eq!` at line 1749) and a
  second `take_credential` (line 1493): spec section 3 has result objects
  decoded exactly once and a partly decoded one discarded, and the
  credential cached by the caller, so the model's callers do neither.
* `ObTableEntity::remove_attr` and the public `set_row_key` /
  `set_row_key_names` setters (lines 284-298): no modelled operation
  calls them.
* Reconnection: the version is set once by the handshake (spec 6), so a
  second login between `len()` and `encode()` changes nothing either
  reads.
* No refinement is checked. An abstract list-with-flags specification of
  the builder-only batch added nothing beyond `ReadOnlyExact` and
  `SameTypeExact` except that `add_op` appends, and the full API breaks
  its flags anyway (`classifier_full_api`).
* Transport, routing, scalar codec, filter codec, password scrambling and
  version negotiation: outside the repository's source.
