------------------------- MODULE ObTableResultDecode -------------------------
(***************************************************************************)
(* The response decoders of payloads.rs: ObTableResult (1544-1625),        *)
(* ObTableEntity (349-375), ObTableOperationResult (1627-1693),            *)
(* ObTableBatchOperationResult (1695-1760), and ObRpcResultCode with its   *)
(* ObRpcResultWarningMsg records (1191-1343), and ObTableLoginResult       *)
(* (1464-1536).                                                            *)
(*                                                                         *)
(* A buffer is abstracted to a sequence of fields, as the wire primitives  *)
(* delimit them (the byte level of those primitives is checked on the      *)
(* request side): Varint(n) a varint, Byte(b) one raw byte (read as i8),  *)
(* and Val(v) a scalar Value of the external codec.  A read of the wrong  *)
(* kind of field stands for a primitive that fails on the bytes it meets. *)
(*                                                                         *)
(* A decoder is an operator from a cursor to a cursor [st, pos, out]: the  *)
(* status (ok, an error kind, or a crash of the process), the next field,  *)
(* and the value decoded.  Its input is what a server sends: the encoding *)
(* of a result value, or that encoding damaged (truncated, with a         *)
(* different count, or with an unmapped operation tag).                    *)
(***************************************************************************)
EXTENDS ObPayloadCodec

CONSTANTS
  ErrNos,        \* errorno / rcode values a server returns
  Msgs,          \* message byte strings
  Tags,          \* operation type tags a server echoes (some unmapped)
  PropFns,       \* entity properties a server returns: name text -> value
  MaxResults,    \* bound: operation results in a batch result
  MaxWarnings,   \* bound: warning records in a result code
  AllocLimit,    \* the largest count Vec::reserve / with_capacity can hold
  HugeCounts,    \* counts beyond AllocLimit a damaged buffer may carry
  IdWidth        \* the width of u64 / i64 ids, reduced to what TLC counts in

VARIABLES
  sent,     \* what the server meant: [kind, val, dmg]
  buf,      \* the buffer handed to decode
  outcome,  \* the cursor decode returned, or None before decode
  taken     \* what the caller took with take_credential, or None

vars == <<sent, buf, outcome, taken>>

Varint(n) == [k |-> "int", v |-> n]
Byte(b) == [k |-> "byte", v |-> b]
Val(v) == [k |-> "val", v |-> v]

-----------------------------------------------------------------------------
(* Cursors and the wire primitives (serde_obkv::util, decode_value and     *)
(* decode_base, outside src/).                                             *)

Errors == {"UnexpectedEof", "InvalidData"}
Crash == "Crash"

Put(pos, v) == [st |-> "ok", pos |-> pos, out |-> v]
Fail(c, why) == [c EXCEPT !.st = why]
Ok(c) == c.st = "ok"
\* The next read from c, once a read before it has failed.
Then(c, v) == IF Ok(c) THEN [c EXCEPT !.out = v] ELSE c

\* decode_vi32 / decode_vi64 / decode_value, and a one-byte split_buf_to.
RdTok(c, s, kind) ==
  IF ~Ok(c) THEN c
  ELSE IF c.pos > Len(s) THEN Fail(c, "UnexpectedEof")
  ELSE IF s[c.pos].k # kind THEN Fail(c, "InvalidData")
  ELSE Put(c.pos + 1, s[c.pos].v)

\* split_buf_to(src, len as usize): a negative len is a huge usize; fewer
\* bytes than asked for is an error.
SplitBufTo(c, s, n) ==
  IF ~Ok(c) THEN c
  ELSE IF n < 0 \/ c.pos + n - 1 > Len(s) THEN Fail(c, "UnexpectedEof")
  ELSE IF \E i \in c.pos..(c.pos + n - 1) : s[i].k # "byte" THEN Fail(c, "InvalidData")
  ELSE Put(c.pos + n, [i \in 1..n |-> s[c.pos + i - 1].v])

\* A vi32 length, then that many bytes (decode_bytes, and the same two
\* steps written out in ObRpcResultCode and ObRpcResultWarningMsg).
RdBytes(c, s) == LET l == RdTok(c, s, "int") IN SplitBufTo(l, s, l.out)

\* decode_vstring: the bytes, then the closing 0 byte.
RdVString(c, s) ==
  LET b == RdBytes(c, s)
      z == RdTok(b, s, "byte")
  IN IF Ok(z) /\ z.out # 0 THEN Fail(z, "InvalidData") ELSE Then(z, b.out)

\* decode_base: the version and the payload length, both vi64; the length
\* is not compared with what the body then reads.
DecodeBase(c, s) == RdTok(RdTok(c, s, "int"), s, "int")

-----------------------------------------------------------------------------
(* ObTableResult::decode (1569-1578).                                      *)

DecodeTableResult(c, s) ==
  LET e == RdTok(DecodeBase(c, s), s, "int")
      q == RdBytes(e, s)
      m == RdBytes(q, s)
  IN Then(m, [errno |-> e.out, sqlState |-> q.out, msg |-> m.out])

-----------------------------------------------------------------------------
(* ObTableEntity::decode (349-375): row keys only when the count is        *)
(* positive, then properties through add_attr, where a repeated name       *)
(* keeps the last value.                                                   *)

RECURSIVE ReadKeys(_, _, _, _)
ReadKeys(c, s, n, acc) ==
  IF ~Ok(c) \/ n <= 0 THEN Then(c, acc)
  ELSE LET v == RdTok(c, s, "val") IN ReadKeys(v, s, n - 1, Append(acc, v.out))

AddAttr(props, name, v) == [x \in DOMAIN props \cup {name} |-> IF x = name THEN v ELSE props[x]]

RECURSIVE ReadProps(_, _, _, _)
ReadProps(c, s, n, acc) ==
  IF ~Ok(c) \/ n <= 0 THEN Then(c, acc)
  ELSE LET name == RdVString(c, s)
           v == RdTok(name, s, "val")
       IN ReadProps(v, s, n - 1, IF Ok(v) THEN AddAttr(acc, name.out, v.out) ELSE acc)

DecodeEntity(c, s) ==
  LET kn == RdTok(DecodeBase(c, s), s, "int")
      ks == ReadKeys(kn, s, kn.out, <<>>)
      pn == RdTok(ks, s, "int")
      ps == ReadProps(pn, s, pn.out, <<>>)
  IN Then(ps, [keys |-> ks.out, props |-> ps.out])

-----------------------------------------------------------------------------
(* ObTableOperationResult::decode (1683-1692): header, the echoed type     *)
(* through from_i8 (an unmapped tag is an error), entity, affected rows.   *)

\* Mutant: the affected row count read before the entity.
DecodeOpResultAffectedFirst(c, s) ==
  LET h == DecodeTableResult(DecodeBase(c, s), s)
      t == RdTok(h, s, "byte")
      a == RdTok(t, s, "int")
      e == DecodeEntity(a, s)
  IN IF Ok(t) /\ FromI8(t.out) = DecodeError THEN Fail(t, "InvalidData")
     ELSE Then(e, [header |-> h.out, type |-> FromI8(t.out), entity |-> e.out,
                   affected |-> a.out])

\* Mutant: an unmapped tag taken as Get, the type new() starts with.
DecodeOpResultDefaultTag(c, s) ==
  LET h == DecodeTableResult(DecodeBase(c, s), s)
      t == RdTok(h, s, "byte")
      e == DecodeEntity(t, s)
      a == RdTok(e, s, "int")
  IN Then(a, [header |-> h.out,
              type |-> IF FromI8(t.out) = DecodeError THEN Get ELSE FromI8(t.out),
              entity |-> e.out, affected |-> a.out])

DecodeOpResult(c, s) ==
  LET h == DecodeTableResult(DecodeBase(c, s), s)
      t == RdTok(h, s, "byte")
      e == DecodeEntity(t, s)
      a == RdTok(e, s, "int")
  IN IF Ok(t) /\ FromI8(t.out) = DecodeError THEN Fail(t, "InvalidData")
     ELSE Then(a, [header |-> h.out, type |-> FromI8(t.out), entity |-> e.out,
                   affected |-> a.out])

-----------------------------------------------------------------------------
(* ObTableBatchOperationResult::decode (1738-1759).                        *)

RECURSIVE ReadOpResults(_, _, _, _)
ReadOpResults(c, s, n, acc) ==
  IF ~Ok(c) \/ n <= 0 THEN Then(c, acc)
  ELSE LET r == DecodeOpResult(c, s)
       IN ReadOpResults(r, s, n - 1, IF Ok(r) THEN Append(acc, r.out) ELSE acc)

\* held: the op_results the object already holds (assert_eq! to empty);
\* reserve(op_res_num) aborts the process beyond AllocLimit.
DecodeBatchResult(s, held) ==
  LET n == RdTok(DecodeBase(Put(1, <<>>), s), s, "int")
  IN IF ~Ok(n) THEN n
     ELSE IF n.out < 0 THEN Fail(n, "InvalidData")
     ELSE IF held # <<>> THEN Fail(n, Crash)
     ELSE IF n.out > AllocLimit THEN Fail(n, Crash)
     ELSE ReadOpResults(n, s, n.out, <<>>)

-----------------------------------------------------------------------------
(* ObRpcResultWarningMsg::decode (1245-1257) and ObRpcResultCode::decode   *)
(* (1317-1336): the warning count allocates with_capacity when positive,   *)
(* and the loop runs while it is positive.                                 *)

DecodeWarning(c, s) ==
  LET m == RdBytes(DecodeBase(c, s), s)
      ts == RdTok(m, s, "int")
      lv == RdTok(ts, s, "int")
      ln == RdTok(lv, s, "int")
      cd == RdTok(ln, s, "int")
  IN Then(cd, [msg |-> m.out, timestamp |-> ts.out, logLevel |-> lv.out,
               lineNo |-> ln.out, code |-> cd.out])

\* Mutant: the loop stops quietly at the end of the buffer.
RECURSIVE ReadWarningsLenient(_, _, _, _)
ReadWarningsLenient(c, s, n, acc) ==
  IF ~Ok(c) \/ n <= 0 \/ c.pos > Len(s) THEN Then(c, acc)
  ELSE LET w == DecodeWarning(c, s)
       IN ReadWarningsLenient(w, s, n - 1, IF Ok(w) THEN Append(acc, w.out) ELSE acc)

RECURSIVE ReadWarnings(_, _, _, _)
ReadWarnings(c, s, n, acc) ==
  IF ~Ok(c) \/ n <= 0 THEN Then(c, acc)
  ELSE LET w == DecodeWarning(c, s)
       IN ReadWarnings(w, s, n - 1, IF Ok(w) THEN Append(acc, w.out) ELSE acc)

DecodeResultCode(s) ==
  LET r == RdTok(DecodeBase(Put(1, <<>>), s), s, "int")
      m == RdBytes(r, s)
      n == RdTok(m, s, "int")
      ws == ReadWarnings(n, s, n.out, <<>>)
  IN IF Ok(n) /\ n.out > AllocLimit THEN Fail(n, Crash)
     ELSE Then(ws, [rcode |-> r.out, msg |-> m.out, warnings |-> ws.out])

-----------------------------------------------------------------------------
(* ObTableLoginResult::decode (1519-1536): the tenant id is read as an i64 *)
(* and cast `as u64`, which wraps a negative value to 2^64 plus it.        *)

AsU64(v) == v % 2^IdWidth
AsI64(u) == IF u >= 2^(IdWidth - 1) THEN u - 2^IdWidth ELSE u

\* Mutant: the tenant id kept as the i64 it was read as.
DecodeLoginResultNoCast(s) ==
  LET sc == RdTok(DecodeBase(Put(1, <<>>), s), s, "int")
      r1 == RdTok(sc, s, "int")
      r2 == RdTok(r1, s, "int")
      sv == RdVString(r2, s)
      cr == RdVString(sv, s)
      tn == RdTok(cr, s, "int")
      us == RdTok(tn, s, "int")
      db == RdTok(us, s, "int")
  IN Then(db, [caps |-> sc.out, version |-> sv.out, credential |-> cr.out,
               tenantId |-> tn.out, userId |-> us.out, databaseId |-> db.out])

DecodeLoginResult(s) ==
  LET sc == RdTok(DecodeBase(Put(1, <<>>), s), s, "int")
      r1 == RdTok(sc, s, "int")
      r2 == RdTok(r1, s, "int")
      sv == RdVString(r2, s)
      cr == RdVString(sv, s)
      tn == RdTok(cr, s, "int")
      us == RdTok(tn, s, "int")
      db == RdTok(us, s, "int")
  IN Then(db, [caps |-> sc.out, version |-> sv.out, credential |-> cr.out,
               tenantId |-> AsU64(tn.out), userId |-> us.out, databaseId |-> db.out])

-----------------------------------------------------------------------------
(* What a server sends, in the order section 4.8 of the protocol gives;   *)
(* every nested payload is framed by its version and its length.          *)

Framed(body) == <<Varint(PayloadVersion), Varint(Len(body))>> \o body
EncBytes(b) == <<Varint(Len(b))>> \o [i \in DOMAIN b |-> Byte(b[i])]
EncVString(b) == EncBytes(b) \o <<Byte(0)>>

EncTableResult(h) == Framed(<<Varint(h.errno)>> \o EncBytes(h.sqlState) \o EncBytes(h.msg))

EncEntity(e) ==
  LET names == SetToSeq(DOMAIN e.props)
  IN Framed(<<Varint(Len(e.keys))>> \o [i \in DOMAIN e.keys |-> Val(e.keys[i])]
            \o <<Varint(Len(names))>>
            \o FlattenSeq([i \in DOMAIN names |->
                             EncVString(names[i]) \o <<Val(e.props[names[i]])>>]))

EncOpResult(r) ==
  Framed(EncTableResult(r.header) \o <<Byte(r.tag)>> \o EncEntity(r.entity)
         \o <<Varint(r.affected)>>)

EncBatchResult(rs) ==
  Framed(<<Varint(Len(rs))>> \o FlattenSeq([i \in DOMAIN rs |-> EncOpResult(rs[i])]))

EncWarning(w) ==
  Framed(EncBytes(w.msg) \o <<Varint(w.timestamp), Varint(w.logLevel), Varint(w.lineNo), Varint(w.code)>>)

EncResultCode(rc) ==
  Framed(<<Varint(rc.rcode)>> \o EncBytes(rc.msg) \o <<Varint(Len(rc.warnings))>>
         \o FlattenSeq([i \in DOMAIN rc.warnings |-> EncWarning(rc.warnings[i])]))

\* The server's login result, the reserved fields 0, the tenant id a u64
\* sent as the i64 of the same bits.
EncLoginResult(l) ==
  Framed(<<Varint(l.caps), Varint(0), Varint(0)>> \o EncVString(l.version)
         \o EncVString(l.credential)
         \o <<Varint(AsI64(l.tenantId)), Varint(l.userId), Varint(l.databaseId)>>)

-----------------------------------------------------------------------------
(* Inputs: result values over small domains, and the damage done to their *)
(* encodings.  The count of a batch result, or of the warnings, is the     *)
(* third field (after the version and the length).                         *)

Headers == [errno : ErrNos, sqlState : {<<>>}, msg : Msgs]
OpResultValues ==
  [header : Headers, tag : Tags, entity : [keys : {<<k>> : k \in Keys}, props : PropFns],
   affected : {1}]
BatchValues == BoundedSeq(OpResultValues, MaxResults)
WarningValues ==
  [msg : Msgs, timestamp : {7}, logLevel : {2}, lineNo : {300}, code : ErrNos]
CodeValues == [rcode : ErrNos, msg : Msgs, warnings : BoundedSeq(WarningValues, MaxWarnings)]
\* Tenant ids below and at the top of the u64 range.
LoginValues ==
  [caps : {0, 300}, version : Msgs, credential : {<<>>} \cup Msgs,
   tenantId : {5, 2^IdWidth - 1}, userId : {7}, databaseId : {9}]
Values(kind) ==
  CASE kind = "batch" -> BatchValues [] kind = "code" -> CodeValues [] kind = "login" -> LoginValues

\* The position of the count field: the third field of a batch result,
\* after rcode and the message of a result code.
CountAt(kind, val) == IF kind = "batch" THEN 3 ELSE 5 + Len(val.msg)
Count(kind, val) == IF kind = "batch" THEN Len(val) ELSE Len(val.warnings)
Encoding(kind, val) ==
  CASE kind = "batch" -> EncBatchResult(val)
    [] kind = "code" -> EncResultCode(val)
    [] kind = "login" -> EncLoginResult(val)

\* The position of the property count of the first result's entity: after
\* the batch's version, length and count, the result's version and length,
\* its table result, its tag, and the entity's version, length, key count
\* and keys.
PropCountAt(val) ==
  3 + 2 + Len(EncTableResult(val[1].header)) + 1 + 3 + Len(val[1].entity.keys) + 1

\* No damage; the encoding cut after its first k fields; the count field
\* replaced by a negative one, one too many, or one past AllocLimit (a
\* login result has no count); in a batch whose first entity has no
\* property, that entity's property count sent as -1 instead of 0.
Damages(kind, val) ==
  {[t |-> "none"]}
  \cup {[t |-> "trunc", at |-> k] : k \in 0..(Len(Encoding(kind, val)) - 1)}
  \cup IF kind = "login" THEN {}
       ELSE {[t |-> "count", n |-> n] : n \in {-1, Count(kind, val) + 1} \cup HugeCounts}
  \cup IF kind = "batch" /\ val # <<>> /\ val[1].entity.props = <<>>
       THEN {[t |-> "negprops"]} ELSE {}

Damage(kind, val, d) ==
  LET w == Encoding(kind, val)
  IN CASE d.t = "none" -> w
       [] d.t = "trunc" -> SubSeq(w, 1, d.at)
       [] d.t = "count" -> [w EXCEPT ![CountAt(kind, val)] = Varint(d.n)]
       [] d.t = "negprops" -> [w EXCEPT ![PropCountAt(val)] = Varint(-1)]

-----------------------------------------------------------------------------
(* A response buffer is handed to decode once, on a result object fresh    *)
(* from new().                                                             *)

Init ==
  /\ \E kind \in {"batch", "code", "login"} :
       \E val \in Values(kind) :
         \E d \in Damages(kind, val) :
           /\ sent = [kind |-> kind, val |-> val, dmg |-> d]
           /\ buf = Damage(kind, val, d)
  /\ outcome = None
  /\ taken = None

DecodeBatch ==
  /\ sent.kind = "batch" /\ outcome = None
  /\ outcome' = DecodeBatchResult(buf, <<>>)
  /\ UNCHANGED <<sent, buf, taken>>

DecodeCode ==
  /\ sent.kind = "code" /\ outcome = None
  /\ outcome' = DecodeResultCode(buf)
  /\ UNCHANGED <<sent, buf, taken>>

DecodeLogin ==
  /\ sent.kind = "login" /\ outcome = None
  /\ outcome' = DecodeLoginResult(buf)
  /\ UNCHANGED <<sent, buf, taken>>

\* take_credential (1492-1494), which the caller makes once, after a
\* successful login, to cache the credential: mem::take leaves it empty.
TakeCredential ==
  /\ sent.kind = "login" /\ outcome # None /\ Ok(outcome) /\ taken = None
  /\ taken' = outcome.out.credential
  /\ outcome' = [outcome EXCEPT !.out.credential = <<>>]
  /\ UNCHANGED <<sent, buf>>

Next == DecodeBatch \/ DecodeCode \/ DecodeLogin \/ TakeCredential

Spec == Init /\ [][Next]_vars

-----------------------------------------------------------------------------
(* Properties.                                                             *)

Decoded == outcome # None

\* An operation result as decode should give it back.
Expected(r) ==
  [header |-> r.header, type |-> FromI8(r.tag), entity |-> r.entity, affected |-> r.affected]
Unmapped(val) == \E i \in DOMAIN val : FromI8(val[i].tag) = DecodeError

\* An undamaged response, every tag mapped, decodes to what the server
\* sent, field for field and in order, and decode consumes the whole
\* buffer: the nested decoders of batch results, operation results,
\* entities and warning records read the fields in the order the server
\* writes them, and the login result gives back the tenant id the server
\* meant across the i64-to-u64 cast.  The credential the caller takes is
\* the one the server sent.
DecodeFaithful ==
  (Decoded /\ sent.dmg.t = "none" /\ ~(sent.kind = "batch" /\ Unmapped(sent.val))) =>
    /\ outcome.st = "ok"
    /\ outcome.pos = Len(buf) + 1
    /\ IF sent.kind = "login"
       THEN /\ [outcome.out EXCEPT !.credential = sent.val.credential] = sent.val
            /\ taken \in {None, sent.val.credential}
       ELSE outcome.out = IF sent.kind = "batch"
                          THEN [i \in DOMAIN sent.val |-> Expected(sent.val[i])]
                          ELSE sent.val

\* A damaged response, truncated anywhere, promising more results or
\* warnings than it holds, sending a negative batch result count (the
\* op_res_num check), or echoing an unmapped operation tag, is a decode
\* error: never a success with partial data, never a crash.
DamageDetected ==
  (Decoded /\ \/ sent.dmg.t = "trunc"
              \/ sent.dmg.t = "count" /\ sent.dmg.n > Count(sent.kind, sent.val)
              \/ sent.kind = "batch" /\ sent.dmg.t = "count" /\ sent.dmg.n < 0
              \/ sent.kind = "batch" /\ Unmapped(sent.val)) =>
    outcome.st \in Errors

\* Whatever the server sends, decoding never takes the process down: a
\* malformed count is an error, as spec section 7 requires
\* (reserve(op_res_num) in ObTableBatchOperationResult::decode and
\* with_capacity in ObRpcResultCode::decode).
NoCrash == Decoded => outcome.st # Crash

\* Spec section 7: a negative count is a typed decode error, never taken
\* for some other value.  Only the batch result checks its count:
\* ObRpcResultCode::decode runs its warning loop `while len > 0`, and
\* ObTableEntity::decode reads row keys and properties only `if len > 0`,
\* so a negative warning or property count is read as none.
NegativeCountRejected ==
  (Decoded /\ \/ sent.kind = "code" /\ sent.dmg.t = "count" /\ sent.dmg.n < 0
              \/ sent.dmg.t = "negprops") =>
    outcome.st \in Errors

=============================================================================
