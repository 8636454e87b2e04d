-------------------------------- MODULE Hub ---------------------------------
(***************************************************************************)
(* What the server promises to its clients together: each is served as if  *)
(* it had a server of its own.  It is admitted, told the answers to what   *)
(* it asked, all of them, in order and nothing else, and dropped only      *)
(* after it has left.  There is no thread, no event and no memory.         *)
(***************************************************************************)
EXTENDS Integers, Sequences

CONSTANTS Clients,
          Answers   \* Answers[c][n]: what c is told for its first n requests

VARIABLES phase,    \* "absent", "waiting", "served", "dropped"
          left,     \* whether the client has left
          asked,    \* how many requests it has sent
          told      \* what it has been told
vars == <<phase, left, asked, told>>

Init ==
  /\ phase = [c \in Clients |-> "absent"] /\ left = [c \in Clients |-> FALSE]
  /\ asked = [c \in Clients |-> 0] /\ told = [c \in Clients |-> << >>]

Moves(c, from, to) == phase[c] = from /\ phase' = [phase EXCEPT ![c] = to]

Arrive(c) == Moves(c, "absent", "waiting") /\ UNCHANGED <<left, asked, told>>
Admit(c)  == Moves(c, "waiting", "served") /\ UNCHANGED <<left, asked, told>>
Drop(c)   == Moves(c, "served", "dropped") /\ left[c] /\ UNCHANGED <<left, asked, told>>

Present(c) == phase[c] \in {"waiting", "served"}

Leave(c) ==
  /\ Present(c) /\ ~left[c]
  /\ left' = [left EXCEPT ![c] = TRUE]
  /\ UNCHANGED <<phase, asked, told>>

Ask(c) ==
  /\ Present(c) /\ ~left[c] /\ asked[c] + 1 \in DOMAIN Answers[c]
  /\ asked' = [asked EXCEPT ![c] = @ + 1]
  /\ UNCHANGED <<phase, left, told>>

Due(c) == IF asked[c] = 0 THEN << >> ELSE Answers[c][asked[c]]

Tell(c) ==
  /\ phase[c] = "served" /\ Len(told[c]) < Len(Due(c))
  /\ told' = [told EXCEPT ![c] = Append(@, Due(c)[Len(@) + 1])]
  /\ UNCHANGED <<phase, left, asked>>

Next == \E c \in Clients :
          Arrive(c) \/ Admit(c) \/ Drop(c) \/ Leave(c) \/ Ask(c) \/ Tell(c)

Spec == Init /\ [][Next]_vars
=============================================================================
