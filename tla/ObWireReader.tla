----------------------------- MODULE ObWireReader -----------------------------
(***************************************************************************)
(* A reference reader of the request wire format, written from the field   *)
(* order the protocol documents (spec sections 4.2 to 4.6), not from the   *)
(* encoders: it finds each field's extent from the bytes themselves        *)
(* (varint continuation bits, length prefixes, nested payload headers).    *)
(* Integers are decoded from their bytes; a key or a Value, whose codec is *)
(* external, as the unique value of its domain whose bytes start there.   *)
(*                                                                         *)
(* A cursor is [ok, pos, vals]: whether reading has succeeded so far, the  *)
(* next position, and the fields read, in order.                           *)
(***************************************************************************)
EXTENDS ObPayloadCodec

Start == [ok |-> TRUE, pos |-> 1, vals |-> <<>>]
Failed == [ok |-> FALSE, pos |-> 0, vals |-> <<>>]

\* F applied to the value of x, x evaluated once: every reader passes its
\* cursor on and consults it several times.
Bind(x, F(_)) == CHOOSE r \in {F(y) : y \in {x}} : TRUE

\* The rest of w from position p.
Rest(w, p) == IF p > Len(w) THEN <<>> ELSE SubSeq(w, p, Len(w))

\* Read one field whose encoding Enc(v), for the v of Dom, is a prefix of
\* what is left; the encodings of distinct v must not be prefixes of each
\* other (varints, fixed widths and the scalar codec are prefix-free).
ReadAs(c0, w, Dom, Enc(_)) ==
  Bind(c0, LAMBDA c :
    LET hits == {v \in Dom : IsPrefix(Enc(v), Rest(w, c.pos))}
    IN IF ~c.ok \/ Cardinality(hits) # 1 THEN Failed
       ELSE LET v == CHOOSE v \in hits : TRUE
            IN [ok |-> TRUE, pos |-> c.pos + Len(Enc(v)), vals |-> Append(c.vals, v)])

\* Read one field whose value the bytes at the cursor determine: Guess(p)
\* computes it from the bytes at p, and it is accepted only when it lies in
\* Dom and its encoding is exactly what is there.
ReadBy(c0, w, Dom, Enc(_), Guess(_)) ==
  Bind(c0, LAMBDA c :
    IF ~c.ok \/ c.pos > Len(w) THEN Failed
    ELSE Bind(Guess(c.pos), LAMBDA g :
           IF g \notin Dom \/ ~IsPrefix(Enc(g), Rest(w, c.pos)) THEN Failed
           ELSE [ok |-> TRUE, pos |-> c.pos + Len(Enc(g)), vals |-> Append(c.vals, g)]))

\* The varint at p: its 7-bit groups, low first, up to the first byte below
\* 128.  Up to four groups are a non-negative value; a longer varint is
\* read as a negative one, from the complement of its low four groups
\* (the re-encoding check in ReadBy rejects anything else).
Group(w, p, i) == w[p + i - 1] % 128
VarintGuess(w, p) ==
  LET s == VarintSpan(w, p)
      k == IF s > 4 THEN 4 ELSE s
  IN IF s = 0 THEN -2
     ELSE IF s <= 4 THEN SeqSum([i \in 1..k |-> Group(w, p, i) * 128^(i - 1)])
     ELSE -1 - SeqSum([i \in 1..k |-> (127 - Group(w, p, i)) * 128^(i - 1)])

\* A fixed-width big-endian integer of k bytes at p, read from its low
\* three bytes, negative when the top bit of the first is set.
FixedGuess(w, p, k) ==
  LET low == [i \in 1..3 |-> w[p + k - i]]
  IN IF p + k - 1 > Len(w) THEN -2
     ELSE IF w[p] >= 128 THEN -1 - SeqSum([i \in 1..3 |-> (255 - low[i]) * 256^(i - 1)])
     ELSE SeqSum([i \in 1..3 |-> low[i] * 256^(i - 1)])

\* A varint or a fixed-width integer of at most MaxVarint.
MaxVarint == 400
ReadVi64(c, w) == ReadBy(c, w, -1..MaxVarint, Vi64, LAMBDA p : VarintGuess(w, p))
ReadVi32(c, w) == ReadBy(c, w, -1..MaxVarint, Vi32, LAMBDA p : VarintGuess(w, p))
ReadI64(c, w) == ReadBy(c, w, -1..MaxVarint, I64, LAMBDA p : FixedGuess(w, p, 8))
ReadI8(c, w) ==
  ReadBy(c, w, -128..127, I8, LAMBDA p : IF w[p] >= 128 THEN w[p] - 256 ELSE w[p])

LastRead(c) == c.vals[Len(c.vals)]
\* Replace the last n values read by one value v.
Fold(c, n, v) ==
  IF ~c.ok THEN c
  ELSE [c EXCEPT !.vals = Append(SubSeq(@, 1, Len(@) - n), v)]

\* A length-prefixed string closed by a 0 byte: the vi32 length says how
\* many bytes to take; the byte after them must be 0.
ReadVString(c, w) ==
  Bind(ReadVi32(c, w), LAMBDA l :
    IF ~l.ok THEN Failed
    ELSE LET n == LastRead(l)
         IN IF n < 0 \/ l.pos + n > Len(w) THEN Failed
            ELSE IF w[l.pos + n] # 0 THEN Failed
            ELSE [ok |-> TRUE, pos |-> l.pos + n + 1,
                  vals |-> Append(Front(l.vals), SubSeq(w, l.pos, l.pos + n - 1))])

\* A nested payload header: version, then the content length.  Returns
\* the cursor after the header and the position the body must end at.
ReadHeader(c, w) ==
  Bind(ReadVi64(c, w), LAMBDA v :
    Bind(ReadVi64(v, w), LAMBDA l :
      IF ~l.ok \/ LastRead(v) # PayloadVersion THEN [cur |-> Failed, end |-> 0]
      ELSE [cur |-> [l EXCEPT !.vals = SubSeq(@, 1, Len(@) - 2)],
            end |-> l.pos + LastRead(l)]))

\* The body read by Body must end exactly where the header said.
Closed(h, c0) == Bind(c0, LAMBDA c : IF c.ok /\ c.pos = h.end THEN c ELSE Failed)

ReadKey(c, w) == ReadAs(c, w, Keys, LAMBDA v : KeyBytes(v, "Obj"))
ReadValue(c, w) == ReadAs(c, w, Vals \cup {Default}, ValueBytes)
\* A property: its name as a string, then its value; read as <<name, value>>.
ReadProp(c, w) ==
  Bind(ReadVString(c, w), LAMBDA n :
    Bind(ReadValue(n, w), LAMBDA v :
      IF ~v.ok \/ ~\E x \in Names : NameText(x) = LastRead(n) THEN Failed
      ELSE Fold(v, 2, <<CHOOSE x \in Names : NameText(x) = LastRead(n), LastRead(v)>>)))

\* One key, or one property.
ReadOne(c, w, kind) == IF kind = "key" THEN ReadKey(c, w) ELSE ReadProp(c, w)

\* The count read last, or 0 after a failure.
CountRead(c) == IF c.ok THEN LastRead(c) ELSE 0

RECURSIVE ReadMany(_, _, _, _)
\* n fields of the given kind, gathered into one sequence value.
ReadMany(c0, w, n, kind) ==
  Bind(c0, LAMBDA c :
    IF ~c.ok THEN c
    ELSE IF n = 0 THEN [c EXCEPT !.vals = Append(@, <<>>)]
    ELSE Bind(ReadOne(c, w, kind), LAMBDA one :
           Bind(ReadMany(one, w, n - 1, kind), LAMBDA more :
             IF ~more.ok THEN Failed
             ELSE Fold(more, 2, <<LastRead(one)>> \o LastRead(more)))))

\* An entity: header, key count, keys, property count, properties; read as
\* [keys, props].
ReadEntity(c, w) ==
  Bind(ReadHeader(c, w), LAMBDA h :
   Bind(ReadVi64(h.cur, w), LAMBDA kn :
    Bind(ReadMany(kn, w, CountRead(kn), "key"), LAMBDA ks :
     Bind(ReadVi64(ks, w), LAMBDA pn :
      Bind(Closed(h, ReadMany(pn, w, CountRead(pn), "prop")), LAMBDA ps :
        IF ~ps.ok \/ LastRead(kn) < 0 \/ LastRead(pn) < 0 THEN Failed
        ELSE LET pairs == LastRead(ps)
             IN Fold(ps, 4,
                     [keys |-> LastRead(ks),
                      props |-> [x \in {pairs[i][1] : i \in DOMAIN pairs} |->
                                   pairs[CHOOSE i \in DOMAIN pairs : pairs[i][1] = x][2]]]))))))

\* An operation: header, type tag, entity; read as [type, keys, props].
ReadOperation(c, w) ==
  Bind(ReadHeader(c, w), LAMBDA h :
    Bind(ReadI8(h.cur, w), LAMBDA t :
      Bind(Closed(h, ReadEntity(t, w)), LAMBDA e :
        IF ~e.ok \/ FromI8(LastRead(t)) = DecodeError THEN Failed
        ELSE Fold(e, 2, [type |-> FromI8(LastRead(t)), keys |-> LastRead(e).keys,
                         props |-> LastRead(e).props]))))

RECURSIVE ReadOps(_, _, _)
\* n operations, gathered into one sequence value.
ReadOps(c0, w, n) ==
  Bind(c0, LAMBDA c :
    IF ~c.ok THEN c
    ELSE IF n = 0 THEN [c EXCEPT !.vals = Append(@, <<>>)]
    ELSE Bind(ReadOperation(c, w), LAMBDA one :
           Bind(ReadOps(one, w, n - 1), LAMBDA more :
             IF ~more.ok THEN Failed
             ELSE Fold(more, 2, <<LastRead(one)>> \o LastRead(more)))))

\* A batch: header, operation count, the operations, then read_only,
\* same_type and same_properties_names as i8; read as [ops, flags].
ReadBatch(c, w) ==
  Bind(ReadHeader(c, w), LAMBDA h :
    Bind(ReadVi64(h.cur, w), LAMBDA n :
      Bind(Closed(h, ReadI8(ReadI8(ReadI8(ReadOps(n, w, CountRead(n)), w), w), w)), LAMBDA fs :
        IF ~fs.ok \/ LastRead(n) < 0 THEN Failed
        ELSE LET k == Len(fs.vals)
             IN Fold(fs, 5, [ops |-> fs.vals[k - 3],
                             flags |-> <<fs.vals[k - 2], fs.vals[k - 1], fs.vals[k]>>]))))

\* What the reader recovers of an operation the client built.
Recovered(op) == [type |-> op.type, keys |-> op.keys, props |-> op.props]

=============================================================================
