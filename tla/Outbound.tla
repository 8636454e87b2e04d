------------------------------ MODULE Outbound ------------------------------
(***************************************************************************)
(* A packet on its way out: written byte by byte into a buffer that grows  *)
(* (write_byte), framed and sent in pieces (netbuf_send), and read by its  *)
(* client as frames, until the connection is lost.                         *)
(***************************************************************************)
EXTENDS Netbuf

CONSTANTS Posted,        \* the packets to send: first buffer size and bytes
          SEND_BUFFER,   \* bytes the kernel holds for the client
          MemoryFails    \* whether realloc may fail

ASSUME OutboundAssumption ==
  /\ Posted \in Seq([first : Nat \ {0}, bytes : Seq(Byte)])
  /\ SEND_BUFFER \in Nat \ {0} /\ MemoryFails \in BOOLEAN

VARIABLES
  next,      \* the packet being sent, as an index of Posted
  peer,      \* "open", "reset" (the next send fails) or "broken" (it raises SIGPIPE)
  pc,        \* "write" (the packet), "header" (of the wrapper), "send", "idle", "killed"
  packet,    \* packet_buf
  wrapper,   \* netbuf_send's copy, header first
  wire,      \* bytes in the kernel, on their way
  sent,      \* bytes of the wrapper that the kernel has taken
  written,   \* bytes the program has passed to write_byte for `packet`, or the header
  received   \* the bytes the client has read

vars == <<next, peer, pc, packet, wrapper, wire, sent, written, received>>

NoBuffer == netbuf_new(0)

Init ==
  /\ next = 0 /\ peer = "open" /\ pc = "idle"
  /\ packet = NoBuffer /\ wrapper = NoBuffer
  /\ wire = << >> /\ sent = 0 /\ written = 0 /\ received = << >>

\* A sender starts its next packet, in a buffer of the size it chooses.
NewPacket ==
  /\ pc = "idle" /\ next < Len(Posted)
  /\ next' = next + 1 /\ pc' = "write" /\ written' = 0
  /\ packet' = netbuf_new(Posted[next + 1].first)
  /\ UNCHANGED <<peer, wrapper, wire, sent, received>>

\* Mutant: a byte that finds no memory is skipped, the next one is tried.
WriteByte_Forgiving ==
  /\ pc = "write" /\ written < Len(Posted[next].bytes)
  /\ packet' \in write_byte([packet EXCEPT !.error = FALSE],
                            Posted[next].bytes[written + 1], MemoryFails)
  /\ written' = written + 1
  /\ UNCHANGED <<next, peer, pc, wrapper, wire, sent, received>>

\* One call of write_byte.  No writer asks whether it has succeeded.
WriteByte ==
  /\ pc = "write" /\ written < Len(Posted[next].bytes)
  /\ packet' \in write_byte(packet, Posted[next].bytes[written + 1], MemoryFails)
  /\ written' = written + 1
  /\ UNCHANGED <<next, peer, pc, wrapper, wire, sent, received>>

Header == write_varint(Size(packet))

\* Mutant: room for a header of one byte only.
Wrap_Short ==
  /\ pc = "write" /\ written = Len(Posted[next].bytes)
  /\ wrapper' = netbuf_new(Size(packet) + 1)
  /\ pc' = "header" /\ written' = 0
  /\ UNCHANGED <<next, peer, packet, wire, sent, received>>

\* netbuf_send: the wrapper has room for the longest header.
Wrap ==
  /\ pc = "write" /\ written = Len(Posted[next].bytes)
  /\ wrapper' = netbuf_new(Size(packet) + VARINT_BYTES)
  /\ pc' = "header" /\ written' = 0
  /\ UNCHANGED <<next, peer, packet, wire, sent, received>>

\* write_varint(wrapper, packet_buf->size), a byte at a time.
WriteHeader ==
  /\ pc = "header" /\ written < Len(Header)
  /\ wrapper' \in write_byte(wrapper, Header[written + 1], MemoryFails)
  /\ written' = written + 1
  /\ UNCHANGED <<next, peer, pc, packet, wire, sent, received>>

\* memcpy of the packet behind the header.
Copy ==
  /\ pc = "header" /\ written = Len(Header)
  /\ wrapper' = [wrapper EXCEPT !.data = SubSeq(@, 1, wrapper.offset) \o packet.data]
  /\ pc' = "send" /\ sent' = 0
  /\ UNCHANGED <<next, peer, packet, wire, written, received>>

total == Size(wrapper)

\* Mutant: the -1 of EAGAIN is counted.
SendSome_CountsError ==
  /\ pc = "send" /\ peer = "open" /\ sent < total
  /\ IF Len(wire) = SEND_BUFFER THEN sent' = sent - 1 /\ UNCHANGED wire
     ELSE sent' = sent + 1 /\ wire' = Append(wire, wrapper.data[sent + 1])
  /\ UNCHANGED <<next, peer, pc, packet, wrapper, written, received>>

\* The kernel takes some of the rest.  While it has no room send returns
\* EAGAIN, and the loop tries again.
SendSome ==
  /\ pc = "send" /\ peer = "open" /\ sent < total
  /\ \E n \in 1 .. SEND_BUFFER - Len(wire) :
       /\ sent + n <= total
       /\ wire' = wire \o SubSeq(wrapper.data, sent + 1, sent + n)
       /\ sent' = sent + n
  /\ UNCHANGED <<next, peer, pc, packet, wrapper, written, received>>

\* Mutant: one send is enough.
Sent_Once ==
  /\ pc = "send" /\ sent > 0
  /\ pc' = "idle" /\ packet' = NoBuffer /\ wrapper' = NoBuffer
  /\ UNCHANGED <<next, peer, wire, sent, written, received>>

\* The whole frame is sent: both buffers are freed.
Sent ==
  /\ pc = "send" /\ sent = total
  /\ pc' = "idle" /\ packet' = NoBuffer /\ wrapper' = NoBuffer
  /\ UNCHANGED <<next, peer, wire, sent, written, received>>

\* Mutant: a send buffer that is full is taken for an error.
SendFails_OnEagain ==
  /\ pc = "send" /\ sent < total /\ Len(wire) = SEND_BUFFER
  /\ pc' = "idle" /\ packet' = NoBuffer /\ wrapper' = NoBuffer
  /\ UNCHANGED <<next, peer, wire, sent, written, received>>

\* Any other error gives up the rest of the frame: the sender, which is not
\* told, goes on with its next packet.  The error is the lost connection's, and
\* the failed send consumes it.
SendFails ==
  /\ pc = "send" /\ sent < total /\ peer = "reset"
  /\ peer' = "broken"
  /\ pc' = "idle" /\ packet' = NoBuffer /\ wrapper' = NoBuffer
  /\ UNCHANGED <<next, wire, sent, written, received>>

\* A send on a broken socket raises SIGPIPE, which ends the process.
SendKills ==
  /\ pc = "send" /\ sent < total /\ peer = "broken"
  /\ pc' = "killed"
  /\ UNCHANGED <<next, peer, packet, wrapper, wire, sent, written, received>>

\* The connection is lost: the client has reset it, or TCP has given up.
Reset ==
  /\ peer = "open" /\ peer' = "reset"
  /\ UNCHANGED <<next, pc, packet, wrapper, wire, sent, written, received>>

\* The client reads a byte; what had reached it before the connection was lost
\* may still be read.
ClientReads ==
  /\ wire # << >>
  /\ received' = Append(received, Head(wire)) /\ wire' = Tail(wire)
  /\ UNCHANGED <<next, peer, pc, packet, wrapper, sent, written>>

Sender == \/ NewPacket \/ WriteByte \/ Wrap \/ WriteHeader \/ Copy
          \/ SendSome \/ Sent \/ SendFails \/ SendKills
Next == Sender \/ ClientReads \/ Reset
Spec == Init /\ [][Next]_vars

\* The thread is scheduled, and the client reads.
FairSpec == Spec /\ WF_vars(Sender) /\ WF_vars(ClientReads)
-----------------------------------------------------------------------------
(* Properties *)

\* Type correctness of every variable.
TypeOK ==
  /\ next \in 0 .. Len(Posted) /\ pc \in {"idle", "write", "header", "send", "killed"}
  /\ peer \in {"open", "reset", "broken"}
  /\ packet \in Netbufs /\ wrapper \in Netbufs
  /\ wire \in Seq(Byte) /\ received \in Seq(Byte) /\ sent \in Nat /\ written \in Nat

\* What netbuf_send copies and sends is within its wrapper, whose size it
\* works out from the packet, cut off by a failed realloc or not; and the
\* header is written whole, because the wrapper never has to grow for it
\* (netbuf.c:93-97).
WrapperFits ==
  pc \in {"header", "send"} =>
    /\ Size(wrapper) <= wrapper.capacity /\ ~wrapper.error
    /\ wrapper.capacity = Size(packet) + VARINT_BYTES
    /\ pc = "send" => wrapper.data = Header \o packet.data

\* A packet never holds more than its buffer, and what a failed realloc has
\* left out is its end: it is a prefix of the bytes written (netbuf.c:58-78).
PacketSound ==
  pc = "write" =>
    /\ packet.offset = Size(packet) /\ Size(packet) <= packet.capacity
    /\ packet.data = SubSeq(Posted[next].bytes, 1, Size(packet))
    /\ ~packet.error => Size(packet) = written
=============================================================================
