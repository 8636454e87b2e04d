------------------------------ MODULE Serving -------------------------------
(***************************************************************************)
(* What Connection promises a client that stays and speaks the protocol:   *)
(* Connection implements Session.                                          *)
(***************************************************************************)
EXTENDS Connection, Requests

CONSTANT Dialogues   \* the dialogues of clients

ASSUME DialoguesAssumption == \A d \in Dialogues : Speaks(d)

\* Clients stay, and what each has to send is a dialogue.  This is a
\* condition on the clients, not on the code: the runs with clients that
\* leave or send something else are instances of Connection without it.
Stays ==
  /\ Departures = {}
  /\ \A s \in Streams : \E d \in Dialogues : Says(d, s)

\* The dialogue of the stream, and how many of its frames end at `done` or before.
DialogueOf == [s \in Streams |-> CHOOSE d \in Dialogues : Says(d, s)]
PlacesOf   == [d \in Dialogues |-> Places(d)]
FramesTo(d, x) ==
  CHOOSE k \in 0 .. Len(d) :
    PlacesOf[d][k] <= x /\ \A j \in k + 1 .. Len(d) : x < PlacesOf[d][j]

Dialogue == DialogueOf[stream]
Served   == FramesTo(Dialogue, done)

\* The requests as the server understands them: a name ends at its first zero.
Understood(dialogue) ==
  [k \in DOMAIN dialogue |->
     IF dialogue[k][1] = "login" THEN <<"login", CString(dialogue[k][2])>> ELSE dialogue[k]]

\* The reply of Session that a packet is, when it answers a request.
Answer(p) ==
  CASE p[1] \in {"status_response", "pong"} -> <<p>>
    [] p[1] = "login_success"              -> << <<"joined", p[3]>> >>
    [] OTHER                               -> << >>

Answers(packets) ==
  LET upTo[i \in 0 .. Len(packets)] ==
        IF i = 0 THEN << >> ELSE upTo[i - 1] \o Answer(packets[i])
  IN  upTo[Len(packets)]

Abstract == INSTANCE Session WITH
  Dialogues <- {Understood(d) : d \in Dialogues},
  phase     <- <<"handshaking", "status", "login", "play">>[conn.state + 1],
  inbox     <- SubSeq(Understood(Dialogue), Served + 1, Len(Dialogue)),
  outbox    <- Answers(sent \o sendq)

\* The connection of a client that stays implements Session: its requests are
\* served once, in order and in the phase they led to, however TCP cuts them.
ImplementsSession == Abstract!Spec

\* A client that stays has every one of its requests served.
EventuallyServed == Abstract!AllServed
=============================================================================
