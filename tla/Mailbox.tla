------------------------------ MODULE Mailbox -------------------------------
(***************************************************************************)
(* What sending promises: the client gets the packets it is sent, in their *)
(* order, each once.  There are no bytes on a wire, no frames, buffers or  *)
(* partial sends.  Where memory may run out, a packet that outgrows its    *)
(* first buffer may arrive cut off, never one that does not.               *)
(***************************************************************************)
EXTENDS Integers, Sequences

CONSTANTS Posted,     \* the packets, each with its bytes and its first buffer's size
          MemoryFails

VARIABLE inbox        \* what the client has got

Cuts(p) == {Len(p.bytes)}
             \cup {k \in p.first .. Len(p.bytes) : MemoryFails}

Init == inbox = << >>

Deliver ==
  /\ Len(inbox) < Len(Posted)
  /\ LET p == Posted[Len(inbox) + 1]
     IN  \E k \in Cuts(p) : inbox' = Append(inbox, SubSeq(p.bytes, 1, k))

Spec == Init /\ [][Deliver]_inbox
=============================================================================
