------------------------------ MODULE Service -------------------------------
(***************************************************************************)
(* What the event loop promises: with the answers that its scripts make    *)
(* due, EventLoop implements Hub.                                          *)
(***************************************************************************)
EXTENDS EventLoop

CONSTANT Owed    \* Owed[c][n]: the packets that answer the first n requests of c

\* What c is owed for its first n requests, and what it is for one more.
OwedTo(c, n) == IF n = 0 THEN << >> ELSE Owed[c][n]

ASSUME OwedAssumption ==
  \A c \in Clients :
    /\ Owed[c] \in [DOMAIN Script[c] -> Seq(Answers)]
    /\ \A n \in DOMAIN Script[c] : Owed[c][n] = OwedTo(c, n - 1) \o Packets(<<c, n>>)

Phase == [none |-> "absent", backlog |-> "waiting", open |-> "served", closed |-> "dropped"]

Abstract == INSTANCE Hub WITH
  Answers <- Owed,
  phase   <- [c \in Clients |-> Phase[sock[c]]],
  left    <- [c \in Clients |-> peer[c] # "open"]

\* The one thread serves each client as if it had a server of its own: with
\* no answer lost, repeated, out of order or sent to another client.
ImplementsHub == Abstract!Spec

\* A client that stays and reads has all its requests answered, whatever the
\* other clients do, unless one of them halts the thread (main.c:173-195).
StayersAnswered ==
  Halts \/ \A c \in Readers :
    (sock[c] = "open") ~> (told[c] = OwedTo(c, Len(Script[c])) \/ peer[c] # "open")
=============================================================================
