------------------------------ MODULE Requests ------------------------------
(***************************************************************************)
(* What a client that speaks the protocol sends: its requests, the packet  *)
(* of each as the handlers of Packets read it, and the stream of a         *)
(* dialogue, which is the frames of its requests one behind the other.     *)
(*                                                                         *)
(* A request is <<"handshake", next>>, <<"status">>, <<"ping", payload>>,  *)
(* <<"login", name>> or <<"other">>, which is a packet of no known id.     *)
(***************************************************************************)
EXTENDS Packets, SequencesExt

\* The next_state that no handshake is accepted with is a varint like the others.
BAD_STATE == 4
ASSUME RequestsAssumption == BAD_STATE < 2^(VARINT_BITS - 1)

\* The value of the last field of a handshake.
NextState(r) ==
  CASE r[2] = "status" -> STATE_STATUS [] r[2] = "login" -> STATE_LOGIN [] OTHER -> BAD_STATE

\* The fields of a handshake are the version, the address, the port and the
\* next state; any version, address and port do.
Handshake(next) ==
  write_varint(0) \o (write_varint(1) \o (write_string(<<3>>) \o (<<1, 2>> \o write_varint(next))))

Body(r) ==
  CASE r[1] = "handshake" -> Handshake(NextState(r))
    [] r[1] = "status"    -> write_varint(0)
    [] r[1] = "ping"      -> write_varint(1) \o write_varlong(r[2])
    [] r[1] = "login"     -> write_varint(0) \o write_string(r[2])
    [] OTHER              -> write_varint(2)

Frame(body) == write_varint(Len(body)) \o body
StreamOf(dialogue) == FlattenSeq([i \in DOMAIN dialogue |-> Frame(Body(dialogue[i]))])

\* Where the frames of a dialogue end in its stream; the first begins at 0.
Places(dialogue) ==
  LET at[k \in 0 .. Len(dialogue)] ==
        IF k = 0 THEN 0 ELSE at[k - 1] + Len(Frame(Body(dialogue[k])))
  IN  at

\* The bytes are the dialogue, frame by frame.
Says(dialogue, bytes) ==
  LET place == Places(dialogue)
  IN  /\ Len(bytes) = place[Len(dialogue)]
      /\ \A k \in 1 .. Len(dialogue) :
           SubSeq(bytes, place[k - 1] + 1, place[k]) = Frame(Body(dialogue[k]))
-----------------------------------------------------------------------------
(* Which requests belong to which state of the session *)

IsHandshake(r) == \E next \in {"status", "login", "other"} : r = <<"handshake", next>>
IsStatus(r)    == r = <<"status">>
IsPing(r)      == /\ Len(r) = 2 /\ r = <<"ping", r[2]>>
                  /\ r[2] \in -(2^(VARLONG_BITS - 1)) .. 2^(VARLONG_BITS - 1) - 1
IsJoin(r)      == Len(r) = 2 /\ r = <<"login", r[2]>> /\ r[2] \in Seq(Byte)
IsOther(r)     == r = <<"other">>

\* A client may send r in state p, and goes on to state q: anything may be
\* sent in play and is ignored there, as an unknown id is everywhere.
Leads(p, r, q) ==
  \/ IsOther(r) /\ q = p
  \/ p = STATE_HANDSHAKING /\ IsHandshake(r)
       /\ q = (IF r[2] = "other" THEN p ELSE NextState(r))
  \/ p = STATE_STATUS /\ (IsStatus(r) \/ IsPing(r)) /\ q = p
  \/ p = STATE_LOGIN /\ IsJoin(r) /\ q = STATE_PLAY
  \/ p = STATE_PLAY /\ (IsHandshake(r) \/ IsStatus(r) \/ IsPing(r) \/ IsJoin(r)) /\ q = p

\* The states that a dialogue goes through.
IsCourse(course, dialogue) ==
  /\ course[0] = STATE_HANDSHAKING
  /\ \A k \in 1 .. Len(dialogue) : Leads(course[k - 1], dialogue[k], course[k])

\* A client that speaks the protocol: each request in its place, none longer
\* than the positive varint that announces it.
Speaks(dialogue) ==
  /\ dialogue \in Seq(Range(dialogue))
  /\ \E course \in [0 .. Len(dialogue) -> States] : IsCourse(course, dialogue)
  /\ \A k \in 1 .. Len(dialogue) : Len(Body(dialogue[k])) < 2^(VARINT_BITS - 1)
=============================================================================
