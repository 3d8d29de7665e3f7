------------------------------- MODULE ObWire -------------------------------
(***************************************************************************)
(* The wire primitives the payloads are written with (serde_obkv::util,    *)
(* not part of src/): unsigned LEB128 varints of the two's complement      *)
(* value, fixed-width big-endian integers, and length-prefixed strings     *)
(* and byte strings closed by a 0 byte.  Each primitive has two            *)
(* definitions, as in util: the bytes it writes and the length the         *)
(* encoded_length_* helper reports.                                        *)
(*                                                                         *)
(* A byte is an integer in 0..255; the characters of a string are opaque   *)
(* symbols, one per byte.  TLC integers are 32-bit, so a negative value is *)
(* encoded group by group without forming 2^64 + n.                        *)
(***************************************************************************)
EXTENDS Integers, Sequences, FiniteSets

RECURSIVE PosGroups(_)
\* 7-bit groups of n >= 0, low group first, high bit = more to come.
PosGroups(n) ==
  IF n < 128 THEN <<n>> ELSE <<(n % 128) + 128>> \o PosGroups(n \div 128)

RECURSIVE NegGroups(_, _)
\* 7-bit groups of 2^room + m for m < 0, with m = n \div 128^k after k
\* groups; once fewer than 7 bits remain the last group is 2^room + m.
NegGroups(m, room) ==
  IF room < 7 THEN <<2^room + m>>
  ELSE <<(m % 128) + 128>> \o NegGroups(m \div 128, room - 7)

\* encode_vi64 / encode_vi32: the value cast to u64 / u32.
Vi64(n) == IF n >= 0 THEN PosGroups(n) ELSE NegGroups(n, 64)
Vi32(n) == IF n >= 0 THEN PosGroups(n) ELSE NegGroups(n, 32)

\* encoded_length_vi64 / encoded_length_vi32.
PosLen(n) == 1 + Cardinality({k \in 1..4 : n >= 2^(7 * k)})
Vi64Len(n) == IF n < 0 THEN 10 ELSE PosLen(n)
Vi32Len(n) == IF n < 0 THEN 5 ELSE PosLen(n)

RECURSIVE BigEndian(_, _)
\* put_i64 / put_i8: the k low bytes of n, most significant first.
BigEndian(n, k) == IF k = 0 THEN <<>> ELSE BigEndian(n \div 256, k - 1) \o <<(n % 256)>>
I8(n) == BigEndian(n, 1)
I64(n) == BigEndian(n, 8)

\* encode_vstring / encode_bytes_string: vi32 length, the bytes, a 0 byte.
VString(s) == Vi32(Len(s)) \o s \o <<0>>
VStringLen(s) == Vi32Len(Len(s)) + Len(s) + 1

\* encode_bytes (the form decode_bytes reads): vi32 length, the bytes.
VBytes(s) == Vi32(Len(s)) \o s
VBytesLen(s) == Vi32Len(Len(s)) + Len(s)

\* Reading a varint: the number of bytes up to and including the first
\* byte below 128 at or after position p (0 if there is none).
VarintSpan(w, p) ==
  LET ends == {i \in p..Len(w) : w[i] \in 0..127}
  IN IF ends = {} THEN 0
     ELSE (CHOOSE e \in ends : \A f \in ends : e <= f) - p + 1

\* Every payload starts with encode_header: its version, then its
\* content length, both as vi64; len() is that header plus content_len().
Header(version, contentLen) == Vi64(version) \o Vi64(contentLen)
PayloadLen(version, contentLen) == Vi64Len(version) + Vi64Len(contentLen) + contentLen

=============================================================================
