---------------------------- MODULE MCEventLoop -----------------------------
(* Instances of Service for TLC.                                            *)
EXTENDS Service, SequencesExt, TLC

CONSTANTS alice, bob, carol

\* A login's answer is several packets, a ping's one, a handshake's none.
PairScript  == (alice :> <<2>>) @@ (bob :> <<0, 1>>)
TrioScript  == (alice :> <<1>>) @@ (bob :> <<1>>) @@ (carol :> <<1>>)

\* The answers one after the other.
InTurn == [c \in Clients |-> [n \in DOMAIN Script[c] |->
             FlattenSeq([i \in 1 .. n |-> Packets(<<c, i>>)])]]
=============================================================================
