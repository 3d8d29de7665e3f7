---------------------------- MODULE ObTableSession ----------------------------
(***************************************************************************)
(* One connection of the client, as protocol spec section 4.7 describes   *)
(* it: a login request is built and encoded first; the login result's    *)
(* credential is cached, and only then are operation requests encoded.    *)
(* The login request is dropped once answered.  The operation request for *)
(* the first call may already be built while the connection logs in.      *)
(* The handshake sets the negotiated version once (spec section 6), so    *)
(* ob_vsn_major() is chosen in Init.                                       *)
(*                                                                         *)
(* The connection flow itself belongs to the transport, outside this      *)
(* file; the two payloads keep their own actions, taken whole from        *)
(* ObTableLoginRequest and ObTableOperationRequest.                        *)
(***************************************************************************)
EXTENDS ObTableOperationRequest, ObTableLoginRequest

VARIABLE cred    \* the cached credential, None before the login answer

sessionVars == <<vars, loginVars, cred>>

SessionInit == Init /\ LoginInit /\ cred = None

\* Before the answer: only the login request is built and encoded.
LoggingIn ==
  /\ cred = None
  /\ LoginNext
  /\ UNCHANGED <<vars, cred>>

\* The login result arrives after the login request went out; its
\* credential is cached and the login request dropped.
LoggedIn ==
  /\ cred = None
  /\ lwire # NoLoginWire
  /\ \E c \in Credentials : cred' = c
  /\ lreq' = None
  /\ lwire' = NoLoginWire
  /\ UNCHANGED vars

\* After it: operation requests are built, set up and encoded.
Serving ==
  /\ cred # None
  /\ Next
  /\ UNCHANGED <<loginVars, cred>>

SessionNext == LoggingIn \/ LoggedIn \/ Serving

SessionSpec == SessionInit /\ [][SessionNext]_sessionVars

=============================================================================
