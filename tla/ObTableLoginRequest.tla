-------------------------- MODULE ObTableLoginRequest --------------------------
(***************************************************************************)
(* ObTableLoginRequest (payloads.rs 1345-1455): built by new() for a       *)
(* tenant, user, database and password, then sized and encoded.  new()     *)
(* draws a 20-character random scramble and sends, instead of the          *)
(* password, the external scramble_password(password, scramble).  The     *)
(* request has no setters.                                                 *)
(*                                                                         *)
(* A password is a one-symbol string, so that it can be looked for on the *)
(* lwire.  The scrambling primitive is external: it is modelled as 20       *)
(* bytes that depend on both its arguments.                               *)
(***************************************************************************)
EXTENDS ObPayloadCodec

CONSTANTS
  TenantNames,     \* tenant names, as strings of symbols
  UserNames,       \* user names
  DatabaseNames,   \* database names
  Passwords,       \* password symbols
  Scrambles        \* what get_password_scramble may return

VARIABLES lreq, lwire
loginVars == <<lreq, lwire>>

NoLoginWire == [len |-> 0, bytes |-> <<>>, of |-> None]

\* PASS_SCRAMBLE_LEN, and the length of the scrambled password.
PassScrambleLen == 20

\* security::scramble_password (external): 20 bytes of both arguments.
ScramblePassword(pw, nonce) == [i \in 1..PassScrambleLen |-> (pw + nonce[i]) % 256]

\* ObTableLoginRequest::new.
NewLogin(t, u, d, pw, nonce) ==
  [auth |-> 1, clientType |-> 2, clientVersion |-> 1, reserved1 |-> 0,
   caps |-> 0, maxPacket |-> 0, reserved2 |-> 0, reserved3 |-> 0,
   tenant |-> t, user |-> u, secret |-> ScramblePassword(pw, nonce),
   scramble |-> nonce, database |-> d, ttl |-> 0]

-----------------------------------------------------------------------------
(* content_len and encode.                                                 *)

\* Mutant: the scrambled password sized without its closing 0 byte.
LoginContentLenBytesSecret(r) ==
  4 + Vi32Len(r.caps) + Vi32Len(r.maxPacket) + Vi32Len(r.reserved2) + Vi64Len(r.reserved3)
    + VStringLen(r.tenant) + VStringLen(r.user) + VBytesLen(r.secret)
    + VStringLen(r.scramble) + VStringLen(r.database) + Vi64Len(r.ttl)

LoginContentLen(r) ==
  4 + Vi32Len(r.caps) + Vi32Len(r.maxPacket) + Vi32Len(r.reserved2) + Vi64Len(r.reserved3)
    + VStringLen(r.tenant) + VStringLen(r.user) + VStringLen(r.secret)
    + VStringLen(r.scramble) + VStringLen(r.database) + Vi64Len(r.ttl)

LoginBody(r) ==
  I8(r.auth) \o I8(r.clientType) \o I8(r.clientVersion) \o I8(r.reserved1)
    \o Vi32(r.caps) \o Vi32(r.maxPacket) \o Vi32(r.reserved2) \o Vi64(r.reserved3)
    \o VString(r.tenant) \o VString(r.user) \o VString(r.secret)
    \o VString(r.scramble) \o VString(r.database) \o Vi64(r.ttl)

LoginEncode(r) == Header(PayloadVersion, LoginContentLen(r)) \o LoginBody(r)

LoginLen(r) == PayloadLen(PayloadVersion, LoginContentLen(r))

-----------------------------------------------------------------------------
(* Actions: a login request is built for each connection, and sized and   *)
(* encoded by the transport.                                               *)

\* No login request exists before the first connection makes one.
LoginInit == lreq = None /\ lwire = NoLoginWire

BuildLogin ==
  \E t \in TenantNames, u \in UserNames, d \in DatabaseNames, pw \in Passwords,
     n \in Scrambles :
    /\ lreq' = NewLogin(t, u, d, pw, n)
    /\ lwire' = NoLoginWire

EncodeLogin ==
  /\ lreq # None
  /\ lwire' = [len |-> LoginLen(lreq), bytes |-> LoginEncode(lreq), of |-> lreq]
  /\ UNCHANGED lreq

LoginNext == BuildLogin \/ EncodeLogin

LoginSpec == LoginInit /\ [][LoginNext]_loginVars

-----------------------------------------------------------------------------
(* Properties.                                                             *)

\* The len() the buffer is sized with is the number of bytes encode writes
\* (ObTableLoginRequest::content_len against encode, where the scrambled
\* password is a bytes string and the names are vstrings).
LoginLenAgrees == lwire # NoLoginWire => lwire.len = Len(lwire.bytes)

=============================================================================
