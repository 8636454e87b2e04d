------------------------------ MODULE Delivery ------------------------------
(***************************************************************************)
(* What Outbound promises its client: Outbound implements Mailbox.         *)
(***************************************************************************)
EXTENDS Outbound

\* The length in a header is a varint, and stays positive: packet_buf->size is
\* cast to one (netbuf.c:95), and no sender's packet reaches 2^31 bytes.
ASSUME LengthAssumption ==
  \A i \in DOMAIN Posted : Len(Posted[i].bytes) < 2^(VARINT_BITS - 1)

\* The frame at an offset: where its packet begins and ends, if it is there whole.
FrameAt(bytes, o) ==
  LET r == read_varint[[data |-> bytes, capacity |-> Len(bytes), offset |-> o, error |-> FALSE]]
  IN  [whole |-> ~r.buf.error /\ r.val >= 0 /\ r.buf.offset + r.val <= Len(bytes),
       begin |-> r.buf.offset,
       end   |-> r.buf.offset + r.val]

\* The packets in the bytes a client has read, each behind its length.
Frames(bytes) ==
  LET from[o \in 0 .. Len(bytes)] ==
        LET f == FrameAt(bytes, o)
        IN  IF f.whole THEN <<SubSeq(bytes, f.begin + 1, f.end)>> \o from[f.end] ELSE << >>
  IN  from[0]

Abstract == INSTANCE Mailbox WITH inbox <- Frames(received)

\* However the kernel cuts the sends, whichever realloc fails and wherever the
\* connection is lost, the client finds the packets, in order, each a whole
\* frame; one that fits its first buffer is complete (netbuf.c:58-78, 92-116).
ImplementsMailbox == Abstract!Spec

\* A client that reads gets every packet, unless the connection is lost.
AllDelivered == <>(peer # "open" \/ Len(Frames(received)) = Len(Posted))
=============================================================================
