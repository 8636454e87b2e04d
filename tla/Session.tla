------------------------------ MODULE Session -------------------------------
(***************************************************************************)
(* What a connection promises to a client that stays and speaks the        *)
(* protocol: its requests are served one at a time, in the order it sent   *)
(* them, each in the phase its predecessors led to, each exactly once.     *)
(* Bytes, buffers, TCP segments and the event loop do not appear.          *)
(*                                                                         *)
(* A request is <<"handshake", next>>, <<"status">>, <<"ping", payload>>,  *)
(* <<"login", name>> or <<"other">>; a reply is <<"status_response">>,     *)
(* <<"pong", payload>> or <<"joined", name>>.                              *)
(***************************************************************************)
EXTENDS Sequences

CONSTANT Dialogues   \* the request sequences a client may go through

VARIABLES phase, inbox, outbox
vars == <<phase, inbox, outbox>>

Init == phase = "handshaking" /\ inbox \in Dialogues /\ outbox = << >>

Serve(from, kind, to, replies) ==
  /\ inbox # << >> /\ phase = from /\ Head(inbox)[1] = kind
  /\ inbox' = Tail(inbox)
  /\ phase' = to
  /\ outbox' = outbox \o replies

Handshake ==
  \E to \in {"status", "login"} :
    /\ Serve("handshaking", "handshake", to, << >>)
    /\ Head(inbox)[2] = to

Refuse ==
  /\ Serve("handshaking", "handshake", "handshaking", << >>)
  /\ Head(inbox)[2] \notin {"status", "login"}

Status == Serve("status", "status", "status", << <<"status_response">> >>)
Ping   == Serve("status", "ping", "status", << <<"pong", Head(inbox)[2]>> >>)
Login  == Serve("login", "login", "play", << <<"joined", Head(inbox)[2]>> >>)

Ignore ==
  \/ \E p \in {"handshaking", "status", "login", "play"} : Serve(p, "other", p, << >>)
  \/ \E k \in {"handshake", "status", "ping", "login"} : Serve("play", k, "play", << >>)

Next == Handshake \/ Refuse \/ Status \/ Ping \/ Login \/ Ignore

Spec == Init /\ [][Next]_vars

\* Every request is served at last.
AllServed == <>(inbox = << >>)
=============================================================================
