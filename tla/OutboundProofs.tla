--------------------------- MODULE OutboundProofs ---------------------------
(***************************************************************************)
(* Theorems about Outbound for every list of packets, first buffer sizes,  *)
(* widths and send buffer: what is framed and sent is inside its buffer    *)
(* and is a prefix of what was written, whichever realloc fails, and what  *)
(* the client finds in its bytes is what Mailbox promises.                 *)
(***************************************************************************)
EXTENDS Delivery, NetbufLemmas

-----------------------------------------------------------------------------
(* The inductive invariant *)

\* The bytes of the packet that is being sent.
bytes == Posted[next].bytes

\* What a packet's buffer holds: a prefix of its bytes, in its capacity, which
\* a realloc that failed has kept from growing, not from being filled.
PacketIs == /\ packet = [data |-> SubSeq(bytes, 1, packet.offset), capacity |-> packet.capacity,
                         offset |-> packet.offset, error |-> packet.error]
            /\ packet.offset \in 0 .. Len(bytes) /\ packet.capacity \in Nat \ {0}
            /\ packet.error \in BOOLEAN /\ packet.offset <= packet.capacity
            /\ Posted[next].first <= packet.capacity
            /\ packet.error => MemoryFails /\ Posted[next].first <= packet.offset

\* The wrapper, with what is in it.
WrapperIs(data, offset) ==
  wrapper = [data |-> data, capacity |-> Size(packet) + VARINT_BYTES,
             offset |-> offset, error |-> FALSE]

Sizes == next \in 0 .. Len(Posted) /\ (pc # "idle" => next # 0 /\ PacketIs)
Writing == pc = "write" => /\ written \in packet.offset .. Len(bytes)
                           /\ ~packet.error => packet.offset = written
Heading == pc = "header" => /\ written \in 0 .. Len(Header)
                            /\ WrapperIs(SubSeq(Header, 1, written), written)
Copied == pc = "send" => WrapperIs(Header \o packet.data, Len(Header))
\* A packet without error has been written to its end when it is framed.
Ended == pc \in {"header", "send"} /\ ~packet.error => packet.offset = Len(bytes)
Phase == pc \in {"idle", "write", "header", "send", "killed"}

IInv == Sizes /\ Writing /\ Heading /\ Copied /\ Ended /\ Phase
-----------------------------------------------------------------------------
(* The steps *)

\* The packet that is being sent, and its size.
LEMMA PacketOf ==
  ASSUME NEW i \in 0 .. Len(Posted), i # 0
  PROVE  /\ Posted[i].bytes \in Seq(Byte) /\ Len(Posted[i].bytes) \in Nat
         /\ Posted[i].first \in Nat \ {0}
<1>1. Posted \in Seq([first : Nat \ {0}, bytes : Seq(Byte)]) /\ i \in 1 .. Len(Posted)
  <2>1. Posted \in Seq([first : Nat \ {0}, bytes : Seq(Byte)])
    BY OutboundAssumption
  <2> QED BY <2>1
<1>2. Posted[i] \in [first : Nat \ {0}, bytes : Seq(Byte)]
  BY <1>1, ElementOfSeq, Zenon
<1> QED BY <1>2

\* The packet's data as a sequence.
LEMMA PacketSize ==
  ASSUME next \in 0 .. Len(Posted), next # 0, PacketIs
  PROVE  /\ packet.data \in Seq(Byte) /\ Size(packet) = packet.offset /\ Size(packet) \in Nat
         /\ packet.data = SubSeq(bytes, 1, packet.offset)
<1>1. bytes \in Seq(Byte) /\ packet.offset \in 0 .. Len(bytes)
  BY PacketOf DEF PacketIs, bytes
<1>2. packet.data = SubSeq(bytes, 1, packet.offset)
  BY DEF PacketIs
<1> HIDE DEF bytes
<1>3. SubSeq(bytes, 1, packet.offset) \in Seq(Byte) /\ Len(SubSeq(bytes, 1, packet.offset)) = packet.offset
  BY <1>1
<1> QED BY <1>1, <1>2, <1>3 DEF Size

\* The header takes at most VARINT_BYTES.
LEMMA HeaderLength ==
  \E S : Header \in Seq(S) /\ Len(Header) \in 1 .. VARINT_BYTES /\ VARINT_BYTES \in Nat
<1>1. VARINT_BYTES \in Nat \ {0}
  BY WidthAssumption
<1> QED BY <1>1, EncodeLength DEF Header, write_varint

\* The initial state.
LEMMA InitInv == Init => IInv
BY OutboundAssumption
   DEF Init, IInv, Sizes, Writing, Heading, Copied, Ended, Phase

\* A sender starts a packet.
LEMMA NewPacketInv == IInv /\ NewPacket => IInv'
<1> SUFFICES ASSUME IInv, NewPacket PROVE IInv'
  OBVIOUS
<1>1. next' \in 0 .. Len(Posted) /\ next' # 0 /\ pc' = "write" /\ written' = 0
  <2>1. Len(Posted) \in Nat
    BY OutboundAssumption
  <2> QED BY <2>1 DEF NewPacket, IInv, Sizes
<1>2. packet' = [data |-> << >>, capacity |-> Posted[next'].first, offset |-> 0, error |-> FALSE]
  BY DEF NewPacket, netbuf_new
<1>3. bytes' \in Seq(Byte) /\ Len(bytes') \in Nat /\ Posted[next'].first \in Nat \ {0}
  BY <1>1, PacketOf DEF bytes
<1>4. SubSeq(bytes', 1, 0) = << >>
  BY SubSeqEmpty
<1>5. PacketIs'
  <2>1. packet'.offset = 0 /\ packet'.capacity = Posted[next'].first /\ packet'.error = FALSE
    BY <1>2
  <2>2. packet' = [data |-> SubSeq(bytes', 1, packet'.offset), capacity |-> packet'.capacity,
                   offset |-> packet'.offset, error |-> packet'.error]
    BY <1>2, <1>4, <2>1, Zenon
  <2>3. /\ packet'.offset \in 0 .. Len(bytes') /\ packet'.capacity \in Nat \ {0}
        /\ packet'.error \in BOOLEAN /\ packet'.offset <= packet'.capacity
    <3>1. packet'.capacity \in Nat \ {0} /\ packet'.error \in BOOLEAN
      BY <2>1, <1>3, Zenon
    <3>2. packet'.offset \in 0 .. Len(bytes')
      <4>1. 0 \in 0 .. Len(bytes')
        BY <1>3
      <4> QED BY <2>1, <4>1, Zenon
    <3>3. packet'.offset <= packet'.capacity
      BY <2>1, <3>1
    <3> QED BY <3>1, <3>2, <3>3
  <2>4. Posted[next'].first <= packet'.capacity
    BY <2>1, <1>3
  <2> QED BY <2>1, <2>2, <2>3, <2>4, Zenon DEF PacketIs
<1>6. Writing'
  BY <1>1, <1>2, <1>3 DEF Writing
<1> QED BY <1>1, <1>5, <1>6 DEF IInv, Sizes, Heading, Copied, Ended, Phase

\* A byte is written into the packet.
LEMMA WriteByteInv == IInv /\ WriteByte => IInv'
<1> SUFFICES ASSUME IInv, WriteByte PROVE IInv'
  OBVIOUS
<1>1. /\ pc = "write" /\ pc' = "write" /\ written < Len(bytes) /\ written' = written + 1
      /\ next' = next /\ bytes' = bytes
      /\ packet' \in write_byte(packet, bytes[written + 1], MemoryFails)
  BY DEF WriteByte, bytes
<1>2. next \in 0 .. Len(Posted) /\ next # 0 /\ PacketIs
  BY <1>1 DEF IInv, Sizes
<1>3. bytes \in Seq(Byte) /\ Len(bytes) \in Nat
  BY <1>2, PacketOf DEF bytes
<1>4. /\ packet.data \in Seq(Byte) /\ Size(packet) = packet.offset /\ Size(packet) \in Nat
      /\ packet.data = SubSeq(bytes, 1, packet.offset)
  BY <1>2, PacketSize
<1>5. written \in packet.offset .. Len(bytes) /\ (~packet.error => packet.offset = written)
  BY <1>1 DEF IInv, Writing
<1>6. CASE packet.error
  <2>1. packet' = packet
    BY <1>1, <1>6 DEF write_byte
  <2> QED BY <2>1, <1>1, <1>2, <1>3, <1>4, <1>5, <1>6
          DEF IInv, Sizes, PacketIs, Writing, Heading, Copied, Ended, Phase
<1>7. CASE ~packet.error
  <2> DEFINE d == packet.data
             cap == packet.capacity
  <2>1. packet = [data |-> d, capacity |-> cap, offset |-> Len(d), error |-> FALSE]
    BY <1>2, <1>4, <1>7 DEF PacketIs, Size
  <2>2. d \in Seq(Byte) /\ cap \in Nat \ {0} /\ Len(d) <= cap /\ Len(d) = written /\ written \in Nat
    BY <1>2, <1>4, <1>5, <1>7 DEF PacketIs, Size
  <2>3. bytes[written + 1] \in Byte
    <3> HIDE DEF bytes
    <3> QED BY <1>1, <1>3, <2>2
  <2>4. Append(d, bytes[written + 1]) = SubSeq(bytes, 1, written + 1) /\ d = SubSeq(bytes, 1, written)
    <3>1. written \in 0 .. Len(bytes) - 1 /\ packet.offset = written
      BY <1>1, <1>3, <1>5, <1>7, <2>2
    <3> QED BY <3>1, <1>3, <1>4, PrefixGrows
  <2> HIDE DEF d, cap
  <2>5. \/ /\ Len(d) < cap
           /\ packet' = [data |-> Append(d, bytes[written + 1]), capacity |-> cap,
                         offset |-> Len(d) + 1, error |-> FALSE]
        \/ /\ Len(d) = cap
           /\ \/ packet' = [data |-> Append(d, bytes[written + 1]), capacity |-> 2 * cap,
                            offset |-> Len(d) + 1, error |-> FALSE]
              \/ /\ MemoryFails
                 /\ packet' = [data |-> d, capacity |-> cap, offset |-> Len(d), error |-> TRUE]
    BY <1>1, <2>1, <2>2, <2>3, WriteAtEnd
  <2> DEFINE grown == Append(d, bytes[written + 1])
  <2>a. bytes' = bytes /\ written' = written + 1 /\ written < Len(bytes)
    BY <1>1
  <2>b. \/ \E k \in Nat \ {0} :
             /\ packet' = [data |-> grown, capacity |-> k, offset |-> written + 1, error |-> FALSE]
             /\ written + 1 <= k /\ cap <= k
        \/ /\ MemoryFails /\ written = cap
           /\ packet' = [data |-> d, capacity |-> cap, offset |-> written, error |-> TRUE]
    <3> HIDE DEF grown
    <3>1. CASE Len(d) < cap
      BY <3>1, <2>2, <2>5 DEF grown
    <3>2. CASE Len(d) = cap
      <4>1. 2 * cap \in Nat \ {0} /\ written + 1 <= 2 * cap /\ cap <= 2 * cap
        BY <3>2, <2>2
      <4> QED BY <3>2, <4>1, <2>2, <2>5 DEF grown
    <3> QED BY <2>5, <3>1, <3>2
  <2>c. grown = SubSeq(bytes, 1, written + 1) /\ d = SubSeq(bytes, 1, written)
    BY <2>4
  <2>d. Posted[next'].first <= cap /\ Posted[next'].first \in Nat
    BY <1>1, <1>2, PacketOf DEF PacketIs, cap
  <2> HIDE DEF grown, bytes
  <2>6. PacketIs' /\ (written' \in packet'.offset .. Len(bytes)) /\ (~packet'.error => packet'.offset = written')
    <3>1. CASE \E k \in Nat \ {0} :
                 /\ packet' = [data |-> grown, capacity |-> k, offset |-> written + 1, error |-> FALSE]
                 /\ written + 1 <= k /\ cap <= k
      BY <3>1, <1>3, <2>2, <2>a, <2>c, <2>d DEF PacketIs
    <3>2. CASE /\ MemoryFails /\ written = cap
               /\ packet' = [data |-> d, capacity |-> cap, offset |-> written, error |-> TRUE]
      BY <3>2, <1>3, <2>2, <2>a, <2>c, <2>d DEF PacketIs
    <3> QED BY <2>b, <3>1, <3>2
  <2> QED BY <2>6, <1>1, <1>2 DEF IInv, Sizes, Writing, Heading, Copied, Ended, Phase
<1> QED BY <1>6, <1>7

\* The wrapper is allocated.
LEMMA WrapInv == IInv /\ Wrap => IInv'
<1> SUFFICES ASSUME IInv, Wrap PROVE IInv'
  OBVIOUS
<1>1. /\ pc = "write" /\ pc' = "header" /\ written' = 0 /\ UNCHANGED <<next, packet>>
      /\ wrapper' = [data |-> << >>, capacity |-> Size(packet) + VARINT_BYTES,
                     offset |-> 0, error |-> FALSE]
  BY DEF Wrap, netbuf_new
<1>2. Len(Header) \in Nat
  BY HeaderLength
<1>3. SubSeq(Header, 1, 0) = << >>
  BY SubSeqEmpty
<1>4. Header' = Header /\ Size(packet)' = Size(packet)
  BY <1>1 DEF Header, Size, write_varint, Encode, More
<1>5. Heading'
  <2>1. written' \in 0 .. Len(Header')
    BY <1>1, <1>2, <1>4
  <2>2. wrapper' = [data |-> SubSeq(Header', 1, written'), capacity |-> Size(packet)' + VARINT_BYTES,
                    offset |-> written', error |-> FALSE]
    BY <1>1, <1>3, <1>4
  <2> QED BY <2>1, <2>2 DEF Heading, WrapperIs
<1>6. Sizes'
  BY <1>1 DEF IInv, Sizes, PacketIs, bytes
<1>7. Ended'
  BY <1>1 DEF Wrap, IInv, Sizes, PacketIs, Writing, Ended, bytes
<1> QED BY <1>1, <1>5, <1>6, <1>7 DEF IInv, Writing, Copied, Phase

\* A byte of the header is written: the wrapper has room for it.
LEMMA WriteHeaderInv == IInv /\ WriteHeader => IInv'
<1> SUFFICES ASSUME IInv, WriteHeader PROVE IInv'
  OBVIOUS
<1>1. /\ pc = "header" /\ pc' = "header" /\ written < Len(Header) /\ written' = written + 1
      /\ wrapper' \in write_byte(wrapper, Header[written + 1], MemoryFails)
      /\ UNCHANGED <<next, packet>>
  BY DEF WriteHeader
<1>2. written \in 0 .. Len(Header) /\ WrapperIs(SubSeq(Header, 1, written), written)
  BY <1>1 DEF IInv, Heading
<1>3. PICK S : Header \in Seq(S) /\ Len(Header) \in 1 .. VARINT_BYTES /\ VARINT_BYTES \in Nat
  BY HeaderLength
<1>4. Size(packet) \in Nat
  BY <1>1, PacketSize DEF IInv, Sizes
<1>5. Header' = Header /\ Size(packet)' = Size(packet)
  BY <1>1 DEF Header, Size, write_varint, Encode, More
<1> DEFINE d == SubSeq(Header, 1, written)
           cap == Size(packet) + VARINT_BYTES
<1>6. /\ d \in Seq(S) /\ Len(d) = written
      /\ Append(d, Header[written + 1]) = SubSeq(Header, 1, written + 1)
      /\ Header[written + 1] \in S
  <2>1. written \in 0 .. Len(Header) - 1
    BY <1>1, <1>2, <1>3
  <2>2. Header[written + 1] \in S
    <3> HIDE DEF d
    <3> QED BY <2>1, <1>3
  <2> QED BY <2>1, <2>2, <1>3, PrefixGrows
<1>7. cap \in Nat \ {0} /\ Len(d) < cap /\ Len(d) \in Nat
  BY <1>1, <1>2, <1>3, <1>4, <1>6
<1>8. wrapper = [data |-> d, capacity |-> cap, offset |-> Len(d), error |-> FALSE]
  BY <1>2, <1>6 DEF WrapperIs
<1> HIDE DEF d, cap
<1>9. wrapper' = [data |-> Append(d, Header[written + 1]), capacity |-> cap,
                  offset |-> Len(d) + 1, error |-> FALSE]
  <2> DEFINE x == Header[written + 1]
  <2>1. wrapper' \in write_byte(wrapper, x, MemoryFails)
    BY <1>1, Zenon
  <2>2. x \in S /\ Len(d) <= cap /\ Len(d) # cap
    BY <1>6, <1>7
  <2> HIDE DEF x
  <2>3. \/ /\ Len(d) < cap
           /\ wrapper' = [data |-> Append(d, x), capacity |-> cap, offset |-> Len(d) + 1,
                          error |-> FALSE]
        \/ Len(d) = cap
    BY <1>6, <1>7, <1>8, <2>1, <2>2, WriteAtEnd, Zenon
  <2> QED BY <2>2, <2>3 DEF x
<1>10. Heading'
  BY <1>1, <1>2, <1>3, <1>5, <1>6, <1>9 DEF Heading, WrapperIs, cap
<1>11. Sizes'
  BY <1>1 DEF IInv, Sizes, PacketIs, bytes
<1>12. Ended'
  BY <1>1 DEF IInv, Ended, bytes
<1> QED BY <1>1, <1>10, <1>11, <1>12 DEF IInv, Writing, Copied, Phase

\* The packet is copied behind its header.
LEMMA CopyInv == IInv /\ Copy => IInv'
<1> SUFFICES ASSUME IInv, Copy PROVE IInv'
  OBVIOUS
<1>1. /\ pc = "header" /\ pc' = "send" /\ written = Len(Header) /\ UNCHANGED <<next, packet>>
      /\ wrapper' = [wrapper EXCEPT !.data = SubSeq(@, 1, wrapper.offset) \o packet.data]
  BY DEF Copy
<1>2. WrapperIs(SubSeq(Header, 1, written), written)
  BY <1>1 DEF IInv, Heading
<1>3. PICK S : Header \in Seq(S) /\ Len(Header) \in 1 .. VARINT_BYTES
  BY HeaderLength
<1>4. SubSeq(Header, 1, Len(Header)) = Header
  BY <1>3
<1>5. wrapper' = [data |-> Header \o packet.data, capacity |-> Size(packet) + VARINT_BYTES,
                  offset |-> Len(Header), error |-> FALSE]
  <2>1. wrapper.offset = written /\ wrapper.data = SubSeq(Header, 1, written)
    BY <1>2 DEF WrapperIs
  <2>2. SubSeq(wrapper.data, 1, wrapper.offset) = Header
    BY <2>1, <1>1, <1>4, Zenon
  <2> DEFINE whole == Header \o packet.data
  <2>3. wrapper' = [wrapper EXCEPT !.data = whole]
    BY <2>2, <1>1, Zenon
  <2> HIDE DEF whole
  <2>4. wrapper' = [data |-> whole, capacity |-> Size(packet) + VARINT_BYTES,
                    offset |-> Len(Header), error |-> FALSE]
    BY <2>3, <1>1, <1>2 DEF WrapperIs
  <2> QED BY <2>4 DEF whole
<1>6. Header' = Header /\ Size(packet)' = Size(packet)
  BY <1>1 DEF Header, Size, write_varint, Encode, More
<1>7. Copied'
  BY <1>1, <1>5, <1>6 DEF Copied, WrapperIs
<1>8. Sizes'
  BY <1>1 DEF IInv, Sizes, PacketIs, bytes
<1>9. Ended'
  BY <1>1 DEF IInv, Ended, bytes
<1> QED BY <1>1, <1>7, <1>8, <1>9 DEF IInv, Writing, Heading, Phase

\* What the kernel and the client do, and a step that does nothing.
LEMMA SameInv ==
  IInv /\ UNCHANGED <<next, pc, packet, wrapper, written>> => IInv'
<1> SUFFICES ASSUME IInv, UNCHANGED <<next, pc, packet, wrapper, written>> PROVE IInv'
  OBVIOUS
<1>1. Header' = Header /\ Size(packet)' = Size(packet)
  BY DEF Header, Size, write_varint, Encode, More
<1> QED BY <1>1 DEF IInv, Sizes, PacketIs, bytes, Writing, Heading, Copied, Ended, WrapperIs, Phase

\* Every step keeps the invariant.
LEMMA StepInv == IInv /\ [Next]_vars => IInv'
<1> SUFFICES ASSUME IInv, [Next]_vars PROVE IInv'
  OBVIOUS
<1>1. CASE SendSome
  BY <1>1, SameInv DEF SendSome
<1>2. CASE ClientReads
  BY <1>2, SameInv DEF ClientReads
<1>3. CASE UNCHANGED vars
  BY <1>3, SameInv DEF vars
<1>4. CASE Sent \/ SendFails
  BY <1>4 DEF Sent, SendFails, IInv, Sizes, Writing, Heading, Copied, Ended, Phase
<1>5. CASE SendKills
  BY <1>5 DEF SendKills, IInv, Sizes, PacketIs, bytes, Writing, Heading, Copied, Ended, Phase
<1>6. CASE Reset
  BY <1>6, SameInv DEF Reset
<1> QED BY <1>1, <1>2, <1>3, <1>4, <1>5, <1>6, NewPacketInv, WriteByteInv, WrapInv, WriteHeaderInv, CopyInv
        DEF Next, Sender
-----------------------------------------------------------------------------
(* The theorems *)

\* The inductive invariant holds in every reachable state.
THEOREM Invariance == Spec => []IInv
<1>1. Init => IInv
  BY InitInv
<1>2. IInv /\ [Next]_vars => IInv'
  BY StepInv
<1> QED BY <1>1, <1>2, PTL DEF Spec

\* netbuf_send never copies or sends beyond its wrapper, and the header needs
\* no realloc, for every size of a packet (netbuf.c:93-97).
THEOREM FrameFits == Spec => []WrapperFits
<1>1. IInv => WrapperFits
  <2> SUFFICES ASSUME IInv, pc \in {"header", "send"}
               PROVE  /\ Size(wrapper) <= wrapper.capacity /\ ~wrapper.error
                      /\ wrapper.capacity = Size(packet) + VARINT_BYTES
                      /\ pc = "send" => wrapper.data = Header \o packet.data
    BY DEF WrapperFits
  <2>1. PICK S : Header \in Seq(S) /\ Len(Header) \in 1 .. VARINT_BYTES /\ VARINT_BYTES \in Nat
    BY HeaderLength
  <2>2. packet.data \in Seq(Byte) /\ Size(packet) \in Nat /\ Size(packet) = Len(packet.data)
    BY PacketSize DEF IInv, Sizes, Size
  <2>3. CASE pc = "header"
    <3>1. written \in 0 .. Len(Header) /\ WrapperIs(SubSeq(Header, 1, written), written)
      BY <2>3 DEF IInv, Heading
    <3>2. Len(SubSeq(Header, 1, written)) = written
      BY <2>1, <3>1
    <3> QED BY <2>1, <2>2, <2>3, <3>1, <3>2 DEF WrapperIs, Size
  <2>4. CASE pc = "send"
    <3>1. WrapperIs(Header \o packet.data, Len(Header))
      BY <2>4 DEF IInv, Copied
    <3>2. Len(Header \o packet.data) = Len(Header) + Len(packet.data)
      <4>1. Header \in Seq(S \cup Byte) /\ packet.data \in Seq(S \cup Byte)
        BY <2>1, <2>2
      <4> QED BY <4>1, ConcatProperties
    <3> QED BY <2>1, <2>2, <2>4, <3>1, <3>2 DEF WrapperIs, Size
  <2> QED BY <2>3, <2>4
<1> QED BY <1>1, Invariance, PTL

\* A packet in its buffer is a prefix of the bytes written, all of them unless
\* a realloc has failed, and inside its capacity (netbuf.c:58-78).
THEOREM PacketIsSound == Spec => []PacketSound
<1>1. IInv => PacketSound
  <2> SUFFICES ASSUME IInv, pc = "write" PROVE PacketSound
    BY DEF PacketSound
  <2>1. next \in 0 .. Len(Posted) /\ next # 0 /\ PacketIs
    BY DEF IInv, Sizes
  <2>2. Size(packet) = packet.offset /\ packet.data = SubSeq(bytes, 1, packet.offset)
    BY <2>1, PacketSize
  <2> QED BY <2>1, <2>2 DEF IInv, Writing, PacketIs, PacketSound, bytes
<1> QED BY <1>1, Invariance, PTL

-----------------------------------------------------------------------------
(* Types *)

\* A buffer without bytes.
LEMMA EmptyBuffer ==
  ASSUME NEW cap \in Nat
  PROVE  netbuf_new(cap) \in Netbufs
BY DEF netbuf_new, Netbufs

\* The packet that is being written or sent, and the header of its wrapper.
LEMMA PacketTyped ==
  ASSUME IInv, pc # "idle"
  PROVE  /\ packet \in Netbufs /\ Header \in Seq(Byte) /\ Size(packet) \in Nat
         /\ packet.data \in Seq(Byte)
<1>1. next \in 0 .. Len(Posted) /\ next # 0 /\ PacketIs
  BY DEF IInv, Sizes
<1>2. packet.data \in Seq(Byte) /\ Size(packet) \in Nat /\ packet.data = SubSeq(bytes, 1, packet.offset)
  BY <1>1, PacketSize
<1>3. packet \in Netbufs
  <2>1. PICK d, o, k, e : /\ d = packet.data /\ o = packet.offset /\ k = packet.capacity
                          /\ e = packet.error
    OBVIOUS
  <2>2. packet = [data |-> d, capacity |-> k, offset |-> o, error |-> e]
    BY <1>1, <1>2, <2>1, Zenon DEF PacketIs
  <2>3. d \in Seq(Byte) /\ k \in Nat /\ e \in BOOLEAN
    BY <1>1, <1>2, <2>1 DEF PacketIs
  <2>4. o \in Nat
    <3>1. Len(bytes) \in Nat
      BY <1>1, PacketOf DEF bytes
    <3> HIDE DEF bytes
    <3> QED BY <1>1, <2>1, <3>1 DEF PacketIs
  <2> QED BY <2>2, <2>3, <2>4 DEF Netbufs
<1>4. Header \in Seq(Byte)
  BY <1>2, Widths, EncodeIs DEF Header, write_varint
<1> QED BY <1>2, <1>3, <1>4

\* The wrapper holds bytes whenever it holds anything.
LEMMA WrapperTyped ==
  ASSUME IInv, pc \in {"header", "send"}
  PROVE  wrapper \in Netbufs /\ wrapper.data \in Seq(Byte)
<1>1. packet \in Netbufs /\ Header \in Seq(Byte) /\ Size(packet) \in Nat /\ packet.data \in Seq(Byte)
  BY PacketTyped
<1>2. VARINT_BYTES \in Nat /\ Len(Header) \in Nat
  BY <1>1, Exponents, LenProperties
<1>3. ASSUME NEW d \in Seq(Byte), NEW o \in Nat, WrapperIs(d, o)
      PROVE  wrapper \in Netbufs /\ wrapper.data \in Seq(Byte)
  <2>1. Size(packet) + VARINT_BYTES \in Nat
    BY <1>1, <1>2
  <2> QED BY <1>3, <2>1 DEF WrapperIs, Netbufs
<1>4. CASE pc = "header"
  <2>1. written \in 0 .. Len(Header) /\ WrapperIs(SubSeq(Header, 1, written), written)
    BY <1>4 DEF IInv, Heading
  <2>2. SubSeq(Header, 1, written) \in Seq(Byte) /\ written \in Nat
    <3>1. PICK h : h = Header
      OBVIOUS
    <3>2. h \in Seq(Byte) /\ written \in Nat /\ written <= Len(h)
      BY <1>1, <1>2, <2>1, <3>1
    <3>3. SubSeq(h, 1, written) \in Seq(Byte)
      BY <3>2
    <3> QED BY <3>1, <3>2, <3>3
  <2> QED BY <1>3, <2>1, <2>2
<1>5. CASE pc = "send"
  <2>1. WrapperIs(Header \o packet.data, Len(Header))
    BY <1>5 DEF IInv, Copied
  <2>2. Header \o packet.data \in Seq(Byte)
    BY <1>1, ConcatProperties
  <2> QED BY <1>2, <1>3, <2>1, <2>2
<1> QED BY <1>4, <1>5

\* The types hold at first.
LEMMA InitTyped == Init => TypeOK
<1>1. 0 \in 0 .. Len(Posted) /\ 0 \in Nat
  BY OutboundAssumption
<1> QED BY <1>1, EmptyBuffer DEF Init, TypeOK, NoBuffer

\* The types the invariant gives the two buffers while they are in use.
BuffersTyped ==
  /\ pc # "idle" => packet \in Netbufs
  /\ pc \in {"header", "send"} => wrapper \in Netbufs

LEMMA InvariantTypes == IInv => BuffersTyped
BY PacketTyped, WrapperTyped DEF BuffersTyped

\* Every step keeps the types: what is written, copied and sent are bytes.
LEMMA StepTyped == IInv /\ IInv' /\ BuffersTyped' /\ TypeOK /\ [Next]_vars => TypeOK'
<1> SUFFICES ASSUME IInv, IInv', BuffersTyped', TypeOK, [Next]_vars PROVE TypeOK'
  OBVIOUS
<1>1. next' \in 0 .. Len(Posted) /\ pc' \in {"idle", "write", "header", "send", "killed"}
  BY DEF IInv, Sizes, Phase
<1>6. peer' \in {"open", "reset", "broken"}
  BY DEF Next, Sender, NewPacket, WriteByte, Wrap, WriteHeader, Copy, SendSome, Sent, SendFails,
         SendKills, Reset, ClientReads, vars, TypeOK
<1>2. packet' \in Netbufs
  <2>1. CASE pc' # "idle"
    BY <2>1 DEF BuffersTyped
  <2>2. CASE pc' = "idle"
    <3>1. packet' = NoBuffer \/ packet' = packet
      BY <2>2 DEF Next, Sender, NewPacket, WriteByte, Wrap, WriteHeader, Copy, SendSome, Sent,
                  SendFails, SendKills, Reset, ClientReads, vars
    <3> QED BY <3>1, EmptyBuffer DEF NoBuffer, TypeOK
  <2> QED BY <2>1, <2>2
<1>3. wrapper' \in Netbufs
  <2>1. CASE pc' \in {"header", "send"}
    BY <2>1 DEF BuffersTyped
  <2>2. CASE pc' \notin {"header", "send"}
    <3>1. wrapper' = NoBuffer \/ wrapper' = wrapper
      BY <2>2 DEF Next, Sender, NewPacket, WriteByte, Wrap, WriteHeader, Copy, SendSome, Sent,
                  SendFails, SendKills, Reset, ClientReads, vars
    <3> QED BY <3>1, EmptyBuffer DEF NoBuffer, TypeOK
  <2> QED BY <2>1, <2>2
<1>4. written' \in Nat
  BY DEF Next, Sender, NewPacket, WriteByte, Wrap, WriteHeader, Copy, SendSome, Sent, SendFails,
         SendKills, Reset, ClientReads, vars, TypeOK
<1>5. sent' \in Nat /\ wire' \in Seq(Byte) /\ received' \in Seq(Byte)
  <2>0. sent \in Nat /\ wire \in Seq(Byte) /\ received \in Seq(Byte)
    BY DEF TypeOK
  <2>1. CASE SendSome
    <3>1. PICK n \in 1 .. SEND_BUFFER - Len(wire) :
            /\ sent + n <= total /\ sent' = sent + n
            /\ wire' = wire \o SubSeq(wrapper.data, sent + 1, sent + n)
      BY <2>1 DEF SendSome
    <3>2. wrapper.data \in Seq(Byte) /\ total = Len(wrapper.data) /\ n \in Nat
      <4>1. n \in Nat
        BY <2>0, LenProperties, OutboundAssumption
      <4> QED BY <2>1, <4>1, WrapperTyped DEF SendSome, total, Size
    <3>3. PICK d, a, b : d = wrapper.data /\ a = sent + 1 /\ b = sent + n
      OBVIOUS
    <3>4. d \in Seq(Byte) /\ a \in Nat /\ b \in Nat /\ 1 <= a /\ b <= Len(d)
      BY <2>0, <3>1, <3>2, <3>3
    <3>5. SubSeq(d, a, b) \in Seq(Byte)
      BY <3>4
    <3>6. wire \o SubSeq(d, a, b) \in Seq(Byte)
      BY <2>0, <3>5, ConcatProperties
    <3>7. received' = received
      BY <2>1 DEF SendSome
    <3> QED BY <2>0, <3>1, <3>2, <3>3, <3>6, <3>7
  <2>2. CASE ClientReads
    <3>1. wire # << >> /\ received' = Append(received, Head(wire)) /\ wire' = Tail(wire) /\ sent' = sent
      BY <2>2 DEF ClientReads
    <3>2. Head(wire) \in Byte /\ Tail(wire) \in Seq(Byte)
      BY <2>0, <3>1
    <3> QED BY <2>0, <3>1, <3>2
  <2>3. CASE ~SendSome /\ ~ClientReads
    <3>1. (sent' = sent \/ sent' = 0) /\ UNCHANGED <<wire, received>>
      BY <2>3 DEF Next, Sender, NewPacket, WriteByte, Wrap, WriteHeader, Copy, Sent, SendFails,
                  SendKills, Reset, vars
    <3> QED BY <2>0, <3>1
  <2> QED BY <2>1, <2>2, <2>3
<1> QED BY <1>1, <1>2, <1>3, <1>4, <1>5, <1>6 DEF TypeOK

\* Every variable keeps its type: what is written, copied, sent and read are
\* bytes, the header of netbuf_send included (netbuf.c:58-116, varint.c).
THEOREM TypeCorrect == Spec => []TypeOK
BY Invariance, InvariantTypes, InitTyped, StepTyped, PTL DEF Spec
-----------------------------------------------------------------------------
(* The stream: what has been put on its way, as frames *)

\* What the kernel has not taken yet of the frame that is being sent.
Rest == IF pc = "send" THEN SubSeq(wrapper.data, sent + 1, total) ELSE << >>

\* What has been sent and will be, up to the frame that is being sent, as long
\* as the connection is not lost.
Out == received \o wire \o Rest

\* A packet's frame, as netbuf_send makes it.
Framed(p) == write_varint(Len(p)) \o p

\* A packet whose length its header can hold.
Short(p) == p \in Seq(Byte) /\ Len(p) < 2^(VARINT_BITS - 1)

\* The bytes of the frame of p are those of `out` behind place o, up to e.
FrameBetween(p, out, o, e) ==
  /\ Short(p) /\ e = o + Len(Framed(p)) /\ e <= Len(out)
  /\ \A j \in 1 .. Len(Framed(p)) : out[o + j] = Framed(p)[j]

\* The bytes are the frames of the packets ps, one ending at each es[i].
FramesOf(ps, es, out) ==
  /\ ps \in Seq(Seq(Byte)) /\ es \in [0 .. Len(ps) -> Nat]
  /\ es[0] = 0 /\ es[Len(ps)] = Len(out)
  /\ \A i \in 1 .. Len(ps) : FrameBetween(ps[i], out, es[i - 1], es[i])

\* k of the n frames are whole in the first m bytes.
WholeIn(es, n, k, m) == k \in 0 .. n /\ es[k] <= m /\ (k < n => m < es[k + 1])
-----------------------------------------------------------------------------
\* A frame is the bytes of its packet's length, and the packet.
Parts(p, h, f) ==
  /\ h \in Seq(Byte) /\ Len(h) \in 1 .. VARINT_BYTES /\ Len(p) \in Nat
  /\ f \in Seq(Byte) /\ Len(f) = Len(h) + Len(p)
  /\ \A j \in 1 .. Len(h) : f[j] = h[j] /\ (h[j] < More <=> j = Len(h))
  /\ \A j \in 1 .. Len(p) : f[Len(h) + j] = p[j]
  /\ Decode(h, VARINT_BITS) = Len(p)

LEMMA FramedIs ==
  ASSUME NEW p, Short(p)
  PROVE  Parts(p, write_varint(Len(p)), Framed(p))
<1>0. PICK h, f : h = write_varint(Len(p)) /\ f = Framed(p)
  OBVIOUS
<1>1. p \in Seq(Byte) /\ Len(p) \in Nat /\ Len(p) < 2^(VARINT_BITS - 1)
  BY DEF Short
<1>2. PICK n : n = Len(p)
  OBVIOUS
<1>3. n \in Int /\ Width(VARINT_BYTES, VARINT_BITS) /\ h = Encode(n, VARINT_BYTES, VARINT_BITS)
  BY <1>0, <1>1, <1>2, Widths DEF write_varint
<1>4. /\ h \in Seq(Byte) /\ Len(h) \in 1 .. VARINT_BYTES
      /\ \A j \in 1 .. Len(h) : h[j] < More <=> j = Len(h)
  BY <1>3, EncodeIs
<1>5. f = h \o p
  BY <1>0 DEF Framed
<1>6. f \in Seq(Byte) /\ Len(f) = Len(h) + Len(p)
  BY <1>1, <1>4, <1>5, ConcatProperties
<1>7. \A j \in 1 .. Len(h) : f[j] = h[j]
  BY <1>1, <1>4, <1>5, ConcatProperties
<1>8. \A j \in 1 .. Len(p) : f[Len(h) + j] = p[j]
  <2> SUFFICES ASSUME NEW j \in 1 .. Len(p) PROVE f[Len(h) + j] = p[j]
    OBVIOUS
  <2>1. PICK i : i = Len(h) + j
    OBVIOUS
  <2>2. i \in 1 .. Len(h) + Len(p) /\ i > Len(h) /\ i - Len(h) = j
    BY <1>1, <1>4, <2>1
  <2>3. f[i] = p[i - Len(h)]
    BY <1>1, <1>4, <1>5, <2>2, ConcatProperties
  <2> QED BY <2>1, <2>2, <2>3
<1>9. Decode(h, VARINT_BITS) = n
  <2>1. Decode(h, VARINT_BITS) = Signed(n % 2^VARINT_BITS, VARINT_BITS)
    BY <1>3, DecodeOfEncode
  <2>2. PICK lo, hi, m : lo = 2^m /\ hi = 2^VARINT_BITS /\ m = VARINT_BITS - 1
    OBVIOUS
  <2>3. VARINT_BITS \in Nat \ {0} /\ VARINT_BITS \in EXPONENTS
    BY <1>3, WidthAssumption DEF Width
  <2>4. m \in Nat /\ m <= VARINT_BITS
    BY <2>2, <2>3
  <2>5. lo <= hi /\ m \in EXPONENTS
    BY <2>2, <2>3, <2>4, PowerMonotone
  <2>6. lo \in Nat \ {0} /\ hi \in Nat \ {0}
    BY <2>2, <2>3, <2>5, PowerPositive
  <2>7. n \in Nat /\ n < lo
    BY <1>1, <1>2, <2>2
  <2>8. n % hi = n
    <3>1. \A a, c \in Nat : a < c => a % c = a
      OBVIOUS
    <3> QED BY <2>5, <2>6, <2>7, <3>1
  <2>9. Signed(n, VARINT_BITS) = n
    <3>1. ~(n >= 2^(VARINT_BITS - 1))
      BY <2>2, <2>6, <2>7
    <3> QED BY <3>1 DEF Signed
  <2> QED BY <2>1, <2>2, <2>8, <2>9
<1>10. Parts(p, h, f)
  BY <1>1, <1>2, <1>4, <1>6, <1>7, <1>8, <1>9 DEF Parts
<1> QED BY <1>0, <1>10

\* The buffer in which a client reads.
Reader(x, o) == [data |-> x, capacity |-> Len(x), offset |-> o, error |-> FALSE]

LEMMA ReaderIs ==
  ASSUME NEW x \in Seq(Byte), NEW o \in 0 .. Len(x), NEW b, b = Reader(x, o)
  PROVE  /\ b \in Netbufs /\ b.data = x /\ b.offset = o /\ ~b.error /\ Size(b) = Len(x)
         /\ Len(x) \in Nat
         /\ read_varint[b] = ReadGroups(b, VARINT_BYTES, VARINT_BITS)
<1>1. Len(x) \in Nat /\ o \in Nat
  OBVIOUS
<1>2. b \in Netbufs /\ b.data = x /\ b.offset = o /\ b.error = FALSE
  BY <1>1 DEF Reader, Netbufs
<1>3. read_varint[b] = ReadGroups(b, VARINT_BYTES, VARINT_BITS)
  BY <1>2, Zenon DEF read_varint
<1> QED BY <1>1, <1>2, <1>3 DEF Size

\* What FrameAt is, from what is read.
LEMMA FrameAtIs ==
  ASSUME NEW x, NEW o, NEW r, r = read_varint[Reader(x, o)], NEW f, f = FrameAt(x, o)
  PROVE  /\ f.whole = (~r.buf.error /\ r.val >= 0 /\ r.buf.offset + r.val <= Len(x))
         /\ f.begin = r.buf.offset /\ f.end = r.buf.offset + r.val
BY DEF FrameAt, Reader

\* At the end of the bytes there is no frame.
LEMMA NoFrame ==
  ASSUME NEW x \in Seq(Byte)
  PROVE  ~FrameAt(x, Len(x)).whole
<1>1. PICK b, r : b = Reader(x, Len(x)) /\ r = read_varint[b]
  OBVIOUS
<1>2. VARINT_BYTES \in Nat /\ Len(x) \in 0 .. Len(x)
  BY Exponents
<1>3. /\ b \in Netbufs /\ b.offset = Len(x) /\ ~b.error /\ Size(b) = Len(x) /\ Len(x) \in Nat
      /\ r = ReadGroups(b, VARINT_BYTES, VARINT_BITS)
  BY <1>1, <1>2, ReaderIs
<1>4. ReadEnds(b, VARINT_BYTES) = {}
  BY <1>2, <1>3 DEF ReadEnds
<1>5. r.buf.error
  BY <1>2, <1>3, <1>4, ReadStarved
<1> QED BY <1>1, <1>5, FrameAtIs

\* A frame that is there whole ends behind its place, in the bytes.
LEMMA FrameMoves ==
  ASSUME NEW x \in Seq(Byte), NEW o \in 0 .. Len(x), FrameAt(x, o).whole
  PROVE  FrameAt(x, o).end \in o + 1 .. Len(x)
<1>1. PICK b, r : b = Reader(x, o) /\ r = read_varint[b]
  OBVIOUS
<1>2. VARINT_BYTES \in Nat /\ VARINT_BYTES \in 0 .. GROUPS /\ VARINT_BITS \in EXPONENTS
  BY Exponents, Widths DEF Width
<1>3. /\ b \in Netbufs /\ b.data = x /\ b.offset = o /\ ~b.error /\ Size(b) = Len(x) /\ Len(x) \in Nat
      /\ r = ReadGroups(b, VARINT_BYTES, VARINT_BITS)
  BY <1>1, ReaderIs
<1>4. ~r.buf.error /\ r.val >= 0 /\ r.buf.offset + r.val <= Len(x) /\ FrameAt(x, o).end = r.buf.offset + r.val
  BY <1>1, FrameAtIs
<1>5. PICK n \in 1 .. VARINT_BYTES :
        Takes(b, VARINT_BYTES, n) /\ r.buf.offset = o + n
        /\ r.val = Decode(SubSeq(x, o + 1, o + n), VARINT_BITS)
  BY <1>2, <1>3, <1>4, ReadSucceeds
<1>6. o + n <= Len(x) /\ n \in Nat /\ o \in Nat
  BY <1>2, <1>3, <1>5 DEF Takes
<1>7. SubSeq(x, o + 1, o + n) \in Seq(Byte) /\ Len(SubSeq(x, o + 1, o + n)) = n
  BY <1>3, <1>5, <1>6
<1>8. r.val \in Int
  <2>1. n \in 0 .. GROUPS /\ 2^VARINT_BITS \in Nat \ {0}
    BY <1>2, <1>5, Exponents, PowerPositive
  <2>2. PICK u \in 0 .. 2^VARINT_BITS - 1 : r.val = Signed(u, VARINT_BITS)
    BY <1>2, <1>5, <1>7, <2>1, DecodedValue
  <2> QED BY <2>1, <2>2, SignedOfCut
<1> QED BY <1>3, <1>4, <1>5, <1>6, <1>8

\* From place o on, the bytes are those of f, as far as they go.
Continues(x, o, f) == \A j \in 1 .. Len(f) : o + j <= Len(x) => x[o + j] = f[j]

\* A frame that ends at e is found with its packet, if the bytes go so far.
Found(a, x, p, e) ==
  /\ e <= Len(x) => a.whole /\ a.end = e /\ SubSeq(x, a.begin + 1, a.end) = p
  /\ ~(e <= Len(x)) => ~a.whole

\* Where the bytes go on with a packet's frame, the frame is found if all of it
\* is there, with the packet in it; and none is found before.
LEMMA FrameRead ==
  ASSUME NEW x \in Seq(Byte), NEW o \in 0 .. Len(x), NEW p, Short(p), Continues(x, o, Framed(p))
  PROVE  Found(FrameAt(x, o), x, p, o + Len(Framed(p)))
<1>0. PICK f, a : f = Framed(p) /\ a = FrameAt(x, o)
  OBVIOUS
<1> SUFFICES Found(a, x, p, o + Len(f))
  BY <1>0
<1>1. PICK b, r, h : b = Reader(x, o) /\ r = read_varint[b] /\ h = write_varint(Len(p))
  OBVIOUS
<1>2. VARINT_BYTES \in Nat
  BY Exponents
<1>3. /\ b \in Netbufs /\ b.data = x /\ b.offset = o /\ ~b.error /\ Size(b) = Len(x)
      /\ Len(x) \in Nat /\ o \in Nat
      /\ r = ReadGroups(b, VARINT_BYTES, VARINT_BITS)
  BY <1>1, ReaderIs
<1>4. /\ a.whole = (~r.buf.error /\ r.val >= 0 /\ r.buf.offset + r.val <= Len(x))
      /\ a.begin = r.buf.offset /\ a.end = r.buf.offset + r.val
  BY <1>0, <1>1, FrameAtIs
<1>5. /\ h \in Seq(Byte) /\ Len(h) \in 1 .. VARINT_BYTES /\ Len(p) \in Nat
      /\ f \in Seq(Byte) /\ Len(f) = Len(h) + Len(p)
      /\ \A j \in 1 .. Len(h) : f[j] = h[j] /\ (h[j] < More <=> j = Len(h))
      /\ \A j \in 1 .. Len(p) : f[Len(h) + j] = p[j]
      /\ Decode(h, VARINT_BITS) = Len(p)
  <2>1. Parts(p, h, f)
    BY <1>0, <1>1, FramedIs, Zenon
  <2> QED BY <2>1 DEF Parts
<1>6. p \in Seq(Byte) /\ Len(h) \in Nat /\ Len(h) <= Len(f)
  BY <1>2, <1>5 DEF Short
<1>7. \A j \in 1 .. Len(h) : o + j <= Len(x) => x[o + j] = h[j] /\ (x[o + j] < More <=> j = Len(h))
  BY <1>0, <1>5, <1>6 DEF Continues
<1>8. CASE ~(o + Len(h) <= Len(x))
  <2>1. ReadEnds(b, VARINT_BYTES) = {}
    <3> SUFFICES ASSUME NEW n \in 1 .. VARINT_BYTES + 1, o + n <= Len(x),
                        n = VARINT_BYTES + 1 \/ x[o + n] < More
                 PROVE  FALSE
      BY <1>3 DEF ReadEnds
    <3>1. n \in 1 .. Len(h) /\ n # Len(h) /\ n # VARINT_BYTES + 1
      BY <1>2, <1>3, <1>5, <1>6, <1>8
    <3> QED BY <1>7, <3>1
  <2>2. r.buf.error
    BY <1>2, <1>3, <2>1, ReadStarved
  <2>3. ~(o + Len(f) <= Len(x))
    BY <1>3, <1>5, <1>6, <1>8
  <2> QED BY <1>4, <2>2, <2>3 DEF Found
<1>9. CASE o + Len(h) <= Len(x)
  <2>1. Takes(b, VARINT_BYTES, Len(h))
    <3>1. Len(h) \in 1 .. VARINT_BYTES + 1 /\ Len(h) \in 1 .. Len(h)
      BY <1>2, <1>5, <1>6
    <3>2. \A m \in 1 .. Len(h) - 1 : m \in 1 .. Len(h) /\ m # Len(h) /\ o + m <= Len(x)
      BY <1>3, <1>6, <1>9
    <3>3. x[o + Len(h)] < More
      BY <1>7, <1>9, <3>1
    <3>4. \A m \in 1 .. Len(h) - 1 : ~(x[o + m] < More)
      BY <1>7, <3>2
    <3> QED BY <1>3, <1>9, <3>1, <3>3, <3>4 DEF Takes
  <2>2. PICK past, val : /\ past = [b EXCEPT !.offset = b.offset + Len(h)]
                         /\ val = Decode(SubSeq(b.data, b.offset + 1, b.offset + Len(h)), VARINT_BITS)
    OBVIOUS
  <2>3. ~(Len(h) > VARINT_BYTES)
    BY <1>2, <1>5
  <2>4. past.offset = o + Len(h) /\ ~past.error /\ r = [buf |-> past, val |-> val]
    BY <1>2, <1>3, <2>1, <2>2, <2>3, ReadOutcome
  <2>5. SubSeq(x, o + 1, o + Len(h)) = h
    <3>1. PICK s : s = SubSeq(x, o + 1, o + Len(h))
      OBVIOUS
    <3>2. s \in Seq(Byte) /\ Len(s) = Len(h) /\ \A j \in 1 .. Len(h) : s[j] = x[o + j]
      BY <1>3, <1>6, <1>9, <3>1, Stretch
    <3>3. \A j \in 1 .. Len(h) : s[j] = h[j]
      BY <1>3, <1>6, <1>7, <1>9, <3>2
    <3> QED BY <1>5, <3>1, <3>2, <3>3, SeqEqual
  <2>6. val = Len(p)
    BY <1>3, <1>5, <2>2, <2>5
  <2>7. ~r.buf.error /\ r.val = Len(p) /\ r.buf.offset = o + Len(h)
    BY <2>4, <2>6
  <2>8. /\ a.whole = (o + Len(f) <= Len(x))
        /\ a.begin = o + Len(h) /\ a.end = o + Len(f)
    BY <1>3, <1>4, <1>5, <1>6, <2>7
  <2>9. ASSUME o + Len(f) <= Len(x) PROVE SubSeq(x, a.begin + 1, a.end) = p
    <3>1. PICK s, from, to : s = SubSeq(x, from + 1, to) /\ from = o + Len(h) /\ to = from + Len(p)
      OBVIOUS
    <3>2. from \in Nat /\ to \in Nat /\ to <= Len(x) /\ to = o + Len(f)
      BY <1>3, <1>5, <1>6, <2>9, <3>1
    <3>3. s \in Seq(Byte) /\ Len(s) = Len(p) /\ \A j \in 1 .. Len(p) : s[j] = x[from + j]
      BY <1>5, <3>1, <3>2, Stretch, SMTT(20)
    <3>4. ASSUME NEW j \in 1 .. Len(p) PROVE s[j] = p[j]
      <4>1. PICK i : i = Len(h) + j
        OBVIOUS
      <4>2. i \in 1 .. Len(f) /\ o + i <= Len(x) /\ o + i = from + j
        BY <1>3, <1>5, <1>6, <2>9, <3>1, <4>1
      <4>3. x[from + j] = f[i]
        BY <1>0, <4>2 DEF Continues
      <4> QED BY <1>5, <3>3, <4>1, <4>3
    <3>5. s = p
      BY <1>6, <3>3, <3>4, SeqEqual
    <3>6. a.begin = from /\ a.end = to
      BY <2>8, <3>1, <3>2
    <3> QED BY <3>1, <3>5, <3>6
  <2> QED BY <2>8, <2>9 DEF Found
<1> QED BY <1>8, <1>9
-----------------------------------------------------------------------------
(* The packets in the bytes read, as Frames defines them *)

\* The packets from each place of x on, for the places that are not below lo.
FromIs(g, x, lo) ==
  g = [o \in lo .. Len(x) |->
         IF FrameAt(x, o).whole
         THEN <<SubSeq(x, FrameAt(x, o).begin + 1, FrameAt(x, o).end)>> \o g[FrameAt(x, o).end]
         ELSE << >>]

LEMMA FromExists ==
  ASSUME NEW x \in Seq(Byte)
  PROVE  \E g : FromIs(g, x, 0)
<1> DEFINE N == Len(x)
           T == {n \in Nat : \E g : FromIs(g, x, N - n)}
<1>0. N \in Nat
  OBVIOUS
<1>1. T \in SUBSET Nat /\ 0 \in T
  <2> DEFINE g == [o \in N .. N |-> << >>]
  <2>1. \A o \in N .. N : o = N /\ ~FrameAt(x, o).whole
    BY <1>0, NoFrame
  <2>2. FromIs(g, x, N)
    BY <2>1 DEF FromIs
  <2>3. N - 0 = N
    BY <1>0
  <2> QED BY <2>2, <2>3
<1>2. ASSUME NEW n \in 0 .. N - 1, n \in T PROVE n + 1 \in T
  <2>1. PICK g : FromIs(g, x, N - n)
    BY <1>2
  <2>2. PICK lo : lo = N - (n + 1)
    OBVIOUS
  <2>3. lo \in 0 .. N /\ N - n = lo + 1 /\ n + 1 \in Nat
    BY <1>0, <2>2
  <2>4. PICK w, e, p : /\ w = [o \in 0 .. N |-> FrameAt(x, o).whole]
                       /\ e = [o \in 0 .. N |-> FrameAt(x, o).end]
                       /\ p = [o \in 0 .. N |-> <<SubSeq(x, FrameAt(x, o).begin + 1, FrameAt(x, o).end)>>]
    OBVIOUS
  <2>5. \A o \in 0 .. N : w[o] => e[o] \in o + 1 .. N
    BY <2>4, FrameMoves
  <2>6. \A o \in lo .. N : o \in 0 .. N
    BY <1>0, <2>3
  <2>7. \A o \in lo + 1 .. N : g[o] = IF w[o] THEN p[o] \o g[e[o]] ELSE << >>
    <3>1. g = [o \in lo + 1 .. N |->
                 IF FrameAt(x, o).whole
                 THEN <<SubSeq(x, FrameAt(x, o).begin + 1, FrameAt(x, o).end)>> \o g[FrameAt(x, o).end]
                 ELSE << >>]
      BY <2>1, <2>3 DEF FromIs
    <3>2. \A o \in lo + 1 .. N : o \in 0 .. N
      BY <1>0, <2>3
    <3> QED BY <2>4, <3>1, <3>2
  <2>8. PICK first : first = IF w[lo] THEN p[lo] \o g[e[lo]] ELSE << >>
    OBVIOUS
  <2> DEFINE k == [o \in lo .. N |-> IF o = lo THEN first ELSE g[o]]
  <2>9. ASSUME NEW o \in lo .. N
        PROVE  k[o] = IF w[o] THEN p[o] \o k[e[o]] ELSE << >>
    <3>1. w[o] => e[o] \in lo .. N /\ e[o] # lo
      BY <1>0, <2>3, <2>5, <2>6
    <3>2. w[o] => k[e[o]] = g[e[o]]
      BY <3>1
    <3>3. CASE o = lo
      <4>1. k[o] = first
        BY <3>3
      <4> QED BY <2>8, <3>2, <3>3, <4>1
    <3>4. CASE o # lo
      <4>1. o \in lo + 1 .. N
        BY <1>0, <2>3, <3>4
      <4>2. k[o] = g[o]
        BY <3>4
      <4>3. g[o] = IF w[o] THEN p[o] \o g[e[o]] ELSE << >>
        BY <2>7, <4>1
      <4> HIDE DEF k
      <4> QED BY <3>2, <4>2, <4>3
    <3> QED BY <3>3, <3>4
  <2>10. k = [o \in lo .. N |-> IF w[o] THEN p[o] \o k[e[o]] ELSE << >>]
    BY <2>9
  <2> HIDE DEF k
  <2>11. FromIs(k, x, lo)
    <3>1. \A o \in lo .. N :
            /\ w[o] = FrameAt(x, o).whole /\ e[o] = FrameAt(x, o).end
            /\ p[o] = <<SubSeq(x, FrameAt(x, o).begin + 1, FrameAt(x, o).end)>>
      BY <2>4, <2>6
    <3> QED BY <2>10, <3>1 DEF FromIs
  <2> QED BY <2>2, <2>3, <2>11
<1> HIDE DEF T
<1> HIDE DEF N
<1>3. 0 .. N \subseteq T
  BY <1>0, <1>1, <1>2, Induction
<1>4. N - N = 0 /\ N \in 0 .. N
  BY <1>0
<1>5. N \in T
  BY <1>3, <1>4
<1> QED BY <1>4, <1>5 DEF T, N

\* The equations of Frames.
LEMMA FramesFrom ==
  ASSUME NEW x \in Seq(Byte)
  PROVE  \E g : Frames(x) = g[0] /\ FromIs(g, x, 0)
<1> DEFINE g == CHOOSE g : g = [o \in 0 .. Len(x) |->
                  IF FrameAt(x, o).whole
                  THEN <<SubSeq(x, FrameAt(x, o).begin + 1, FrameAt(x, o).end)>> \o g[FrameAt(x, o).end]
                  ELSE << >>]
<1>1. Frames(x) = g[0]
  BY DEF Frames
<1>2. FromIs(g, x, 0)
  BY FromExists DEF FromIs
<1> HIDE DEF g
<1> QED BY <1>1, <1>2

\* The bytes x begin a stream.
Begins(x, out) ==
  /\ x \in Seq(Byte) /\ out \in Seq(Byte) /\ Len(x) <= Len(out)
  /\ \A j \in 1 .. Len(x) : x[j] = out[j]

\* Where frame i of a stream begins, the beginning of the stream has the frame
\* if it reaches to its end.
LEMMA FrameInStream ==
  ASSUME NEW ps, NEW es, NEW out, FramesOf(ps, es, out), NEW x, Begins(x, out),
         NEW i \in 1 .. Len(ps), es[i - 1] <= Len(x),
         NEW a, a = FrameAt(x, es[i - 1])
  PROVE  Found(a, x, ps[i], es[i])
<1>1. PICK o, p, f : o = es[i - 1] /\ p = ps[i] /\ f = Framed(p)
  OBVIOUS
<1>2. Short(p) /\ es[i] = o + Len(f) /\ \A j \in 1 .. Len(f) : out[o + j] = f[j]
  BY <1>1 DEF FramesOf, FrameBetween
<1>3. x \in Seq(Byte) /\ Len(x) \in Nat /\ \A j \in 1 .. Len(x) : x[j] = out[j]
  BY DEF Begins
<1>4. o \in 0 .. Len(x)
  <2>1. Len(ps) \in Nat /\ es \in [0 .. Len(ps) -> Nat]
    BY DEF FramesOf
  <2>2. i - 1 \in 0 .. Len(ps)
    BY <2>1
  <2> QED BY <1>1, <1>3, <2>1, <2>2
<1>5. Len(f) \in Nat /\ Len(f) > 0
  <2>1. PICK h : h = write_varint(Len(p))
    OBVIOUS
  <2>2. Len(h) \in 1 .. VARINT_BYTES /\ Len(p) \in Nat /\ Len(f) = Len(h) + Len(p)
    <3>1. Parts(p, h, f)
      BY <1>1, <1>2, <2>1, FramedIs, Zenon
    <3> QED BY <3>1 DEF Parts
  <2> QED BY <2>2, Exponents
<1>6. Continues(x, o, f)
  <2> SUFFICES ASSUME NEW j \in 1 .. Len(f), o + j <= Len(x) PROVE x[o + j] = f[j]
    BY DEF Continues
  <2>1. o + j \in 1 .. Len(x)
    BY <1>3, <1>4, <1>5
  <2> QED BY <1>2, <1>3, <2>1
<1>7. Short(p) /\ a = FrameAt(x, o) /\ f = Framed(p) /\ x \in Seq(Byte)
  BY <1>1, <1>2, <1>3
<1>8. Found(a, x, p, o + Len(f))
  BY <1>4, <1>6, <1>7, FrameRead, Zenon
<1> QED BY <1>1, <1>2, <1>8

\* What a client finds in the beginning of a stream of frames: the packets
\* whose frames it has whole.
LEMMA FramesArePackets ==
  ASSUME NEW ps, NEW es, NEW out, FramesOf(ps, es, out),
         NEW x, Begins(x, out), NEW k, WholeIn(es, Len(ps), k, Len(x))
  PROVE  Frames(x) = SubSeq(ps, 1, k)
<1>1. /\ ps \in Seq(Seq(Byte)) /\ Len(ps) \in Nat /\ es \in [0 .. Len(ps) -> Nat]
      /\ es[0] = 0 /\ es[Len(ps)] = Len(out)
  BY DEF FramesOf
<1>2. /\ x \in Seq(Byte) /\ Len(x) \in Nat /\ Len(out) \in Nat /\ Len(x) <= Len(out)
  BY DEF Begins
<1>3. k \in 0 .. Len(ps) /\ k \in Nat /\ es[k] <= Len(x) /\ (k < Len(ps) => Len(x) < es[k + 1])
  BY <1>1 DEF WholeIn
<1>4. PICK g : Frames(x) = g[0] /\ FromIs(g, x, 0)
  BY <1>2, FramesFrom
<1>5. ASSUME NEW o \in 0 .. Len(x), NEW a, a = FrameAt(x, o)
      PROVE  g[o] = IF a.whole THEN <<SubSeq(x, a.begin + 1, a.end)>> \o g[a.end] ELSE << >>
  BY <1>4, <1>5 DEF FromIs
<1> DEFINE T == {d \in 0 .. k : es[k - d] <= Len(x) /\ g[es[k - d]] = SubSeq(ps, (k - d) + 1, k)}
<1>6. T \in SUBSET Nat /\ 0 \in T
  <2>1. k - 0 = k
    BY <1>3
  <2>2. es[k] \in 0 .. Len(x)
    BY <1>1, <1>2, <1>3
  <2>3. ~FrameAt(x, es[k]).whole
    <3>1. CASE k = Len(ps)
      BY <1>1, <1>2, <1>3, <2>2, <3>1, NoFrame
    <3>2. CASE k # Len(ps)
      <4>1. PICK i : i = k + 1
        OBVIOUS
      <4>2. i \in 1 .. Len(ps) /\ i - 1 = k /\ ~(es[i] <= Len(x))
        <5>1. i \in 1 .. Len(ps) /\ i - 1 = k /\ Len(x) < es[i] /\ i \in 0 .. Len(ps)
          BY <1>1, <1>3, <3>2, <4>1
        <5>2. es[i] \in Nat
          BY <1>1, <5>1
        <5> QED BY <1>2, <5>1, <5>2
      <4>3. es[i - 1] <= Len(x)
        BY <1>3, <4>2
      <4>4. Found(FrameAt(x, es[i - 1]), x, ps[i], es[i])
        BY <4>2, <4>3, FrameInStream, Zenon
      <4> QED BY <4>2, <4>4 DEF Found
    <3> QED BY <3>1, <3>2
  <2>4. g[es[k]] = << >>
    BY <1>5, <2>2, <2>3
  <2>5. SubSeq(ps, k + 1, k) = << >>
    BY <1>1, <1>3
  <2>6. es[k - 0] <= Len(x) /\ g[es[k - 0]] = SubSeq(ps, (k - 0) + 1, k)
    BY <1>3, <2>1, <2>4, <2>5, Zenon
  <2> QED BY <1>3, <2>6
<1>7. ASSUME NEW d \in 0 .. k - 1, d \in T PROVE d + 1 \in T
  <2>1. PICK i : i = k - d
    OBVIOUS
  <2>2. /\ i \in 1 .. k /\ i \in 1 .. Len(ps) /\ i - 1 \in 0 .. Len(ps) /\ i \in 0 .. Len(ps)
        /\ k - (d + 1) = i - 1 /\ (i - 1) + 1 = i /\ d + 1 \in 0 .. k
    BY <1>1, <1>3, <2>1
  <2>3. es[i] <= Len(x) /\ g[es[i]] = SubSeq(ps, i + 1, k)
    BY <1>7, <2>1
  <2>4. es[i - 1] \in Nat /\ es[i] \in Nat /\ es[i - 1] <= Len(x)
    <3>1. es[i - 1] \in Nat /\ es[i] \in Nat
      BY <1>1, <2>2
    <3>2. es[i] = es[i - 1] + Len(Framed(ps[i]))
      BY <2>2 DEF FramesOf, FrameBetween
    <3>3. Len(Framed(ps[i])) \in Nat
      <4>1. PICK p : p = ps[i]
        OBVIOUS
      <4>2. Short(p)
        BY <2>2, <4>1 DEF FramesOf, FrameBetween
      <4>3. Framed(p) \in Seq(Byte)
        BY <4>2, FramedIs DEF Parts
      <4> QED BY <4>1, <4>3, LenProperties
    <3> QED BY <1>2, <2>3, <3>1, <3>2, <3>3
  <2>5. PICK a : a = FrameAt(x, es[i - 1])
    OBVIOUS
  <2>6. a.whole /\ a.end = es[i] /\ SubSeq(x, a.begin + 1, a.end) = ps[i]
    <3>1. Found(a, x, ps[i], es[i])
      BY <2>2, <2>4, <2>5, FrameInStream, Zenon
    <3> QED BY <2>3, <3>1 DEF Found
  <2>7. g[es[i - 1]] = <<ps[i]>> \o SubSeq(ps, i + 1, k)
    <3>1. es[i - 1] \in 0 .. Len(x)
      BY <1>2, <2>4
    <3>2. g[es[i - 1]] = IF a.whole THEN <<SubSeq(x, a.begin + 1, a.end)>> \o g[a.end] ELSE << >>
      BY <1>5, <2>5, <3>1, Zenon
    <3> QED BY <2>3, <2>6, <3>2
  <2>8. g[es[i - 1]] = SubSeq(ps, i, k)
    BY <1>1, <1>3, <2>2, <2>7, Prepended
  <2> QED BY <2>2, <2>4, <2>8
<1> HIDE DEF T
<1>8. k \in T
  <2>1. k \in Nat
    BY <1>3
  <2>2. 0 .. k \subseteq T
    BY <1>6, <1>7, <2>1, Induction
  <2> QED BY <2>1, <2>2
<1>9. k - k = 0 /\ 0 + 1 = 1
  BY <1>3
<1>10. g[es[k - k]] = SubSeq(ps, (k - k) + 1, k)
  BY <1>8 DEF T
<1> QED BY <1>1, <1>4, <1>9, <1>10

\* Frames are not empty.
LEMMA EndsGrow ==
  ASSUME NEW ps, NEW es, NEW out, FramesOf(ps, es, out), NEW i \in 1 .. Len(ps)
  PROVE  es[i - 1] \in Nat /\ es[i] \in Nat /\ es[i - 1] < es[i]
<1>1. PICK p, h, f : p = ps[i] /\ h = write_varint(Len(p)) /\ f = Framed(p)
  OBVIOUS
<1>2. Short(p) /\ es[i] = es[i - 1] + Len(f)
  BY <1>1 DEF FramesOf, FrameBetween
<1>3. Len(f) \in Nat /\ Len(f) > 0
  <2>1. Parts(p, h, f)
    BY <1>1, <1>2, FramedIs, Zenon
  <2> QED BY <2>1, Exponents DEF Parts
<1>4. es[i - 1] \in Nat /\ es[i] \in Nat
  <2>1. Len(ps) \in Nat /\ es \in [0 .. Len(ps) -> Nat]
    BY DEF FramesOf
  <2>2. i - 1 \in 0 .. Len(ps) /\ i \in 0 .. Len(ps)
    BY <2>1
  <2> QED BY <2>1, <2>2
<1> QED BY <1>2, <1>3, <1>4

\* A stream goes on with one more frame: the ends of the others stay.
Longer(ps, es, out, p) ==
  \E es2 : /\ FramesOf(Append(ps, p), es2, out \o Framed(p))
           /\ \A i \in 0 .. Len(ps) : es2[i] = es[i]
           /\ Len(out) < es2[Len(ps) + 1]

LEMMA StreamGrows ==
  ASSUME NEW ps, NEW es, NEW out \in Seq(Byte), FramesOf(ps, es, out), NEW p, Short(p)
  PROVE  Longer(ps, es, out, p)
<1>1. PICK h, f, n, e, qs, all : /\ h = write_varint(Len(p)) /\ f = Framed(p) /\ n = Len(ps)
                                 /\ e = Len(out) + Len(f) /\ qs = Append(ps, p) /\ all = out \o f
  OBVIOUS
<1>2. Len(f) \in Nat /\ Len(f) > 0 /\ f \in Seq(Byte) /\ p \in Seq(Byte)
  <2>1. Parts(p, h, f)
    BY <1>1, FramedIs, Zenon
  <2> QED BY <2>1, Exponents DEF Parts, Short
<1>3. /\ ps \in Seq(Seq(Byte)) /\ n \in Nat /\ es \in [0 .. n -> Nat] /\ es[0] = 0 /\ es[n] = Len(out)
      /\ \A i \in 1 .. n : FrameBetween(ps[i], out, es[i - 1], es[i])
  BY <1>1 DEF FramesOf
<1>4. qs \in Seq(Seq(Byte)) /\ Len(qs) = n + 1 /\ qs[n + 1] = p /\ \A i \in 1 .. n : qs[i] = ps[i]
  BY <1>1, <1>2, <1>3
<1>5. /\ all \in Seq(Byte) /\ Len(all) = e /\ e \in Nat /\ Len(out) \in Nat /\ Len(out) < e
      /\ \A j \in 1 .. Len(out) : all[j] = out[j]
  BY <1>1, <1>2, ConcatProperties
<1>6. \A j \in 1 .. Len(f) : all[Len(out) + j] = f[j]
  <2> SUFFICES ASSUME NEW j \in 1 .. Len(f) PROVE all[Len(out) + j] = f[j]
    OBVIOUS
  <2>1. PICK i : i = Len(out) + j
    OBVIOUS
  <2>2. i \in 1 .. Len(out) + Len(f) /\ i > Len(out) /\ i - Len(out) = j
    BY <1>2, <1>5, <2>1
  <2>3. all[i] = f[i - Len(out)]
    BY <1>1, <1>2, <2>2, ConcatProperties
  <2> QED BY <2>1, <2>2, <2>3
<1>7. PICK es2 : es2 = [i \in 0 .. n + 1 |-> IF i <= n THEN es[i] ELSE e]
  OBVIOUS
<1>8. /\ es2 \in [0 .. n + 1 -> Nat] /\ es2[n + 1] = e /\ \A i \in 0 .. n : es2[i] = es[i]
  BY <1>3, <1>5, <1>7
<1>9. ASSUME NEW i \in 1 .. n + 1 PROVE FrameBetween(qs[i], all, es2[i - 1], es2[i])
  <2>1. CASE i = n + 1
    <3>1. i - 1 = n /\ n \in 0 .. n
      BY <1>3, <2>1
    <3>2. qs[i] = p /\ es2[i - 1] = Len(out) /\ es2[i] = e
      BY <1>3, <1>4, <1>8, <2>1, <3>1
    <3>3. FrameBetween(p, all, Len(out), e)
      BY <1>1, <1>5, <1>6 DEF FrameBetween
    <3> QED BY <3>2, <3>3
  <2>2. CASE i # n + 1
    <3>1. i \in 1 .. n /\ i \in 0 .. n /\ i - 1 \in 0 .. n
      BY <1>3, <2>2
    <3>2. PICK q, g, o : q = ps[i] /\ g = Framed(q) /\ o = es[i - 1]
      OBVIOUS
    <3>3. qs[i] = q /\ es2[i - 1] = o /\ es2[i] = es[i]
      BY <1>4, <1>8, <3>1, <3>2
    <3>4. /\ Short(q) /\ es[i] = o + Len(g) /\ es[i] <= Len(out)
          /\ \A j \in 1 .. Len(g) : out[o + j] = g[j]
      BY <1>3, <3>1, <3>2 DEF FrameBetween
    <3>5. o \in Nat /\ Len(g) \in Nat /\ \A j \in 1 .. Len(g) : o + j \in 1 .. Len(out)
      <4>1. g \in Seq(Byte)
        BY <3>2, <3>4, FramedIs DEF Parts
      <4>2. o \in Nat /\ Len(g) \in Nat
        BY <1>3, <3>1, <3>2, <4>1
      <4> QED BY <1>5, <3>4, <4>2
    <3>6. \A j \in 1 .. Len(g) : all[o + j] = g[j]
      BY <1>5, <3>4, <3>5
    <3>7. es[i] <= Len(all)
      <4>1. es[i] \in Nat
        BY <1>3, <3>1
      <4> QED BY <1>5, <3>4, <4>1
    <3> QED BY <3>2, <3>3, <3>4, <3>6, <3>7 DEF FrameBetween
  <2> QED BY <2>1, <2>2
<1>10. FramesOf(qs, es2, all)
  BY <1>3, <1>4, <1>5, <1>8, <1>9 DEF FramesOf
<1> QED BY <1>1, <1>5, <1>8, <1>10 DEF Longer
-----------------------------------------------------------------------------
(* What is delivered *)

\* A packet as a client may get it: in full, or cut where memory ran out.
Cut(i, p) == \E c \in Abstract!Cuts(Posted[i]) : p = SubSeq(Posted[i].bytes, 1, c)

\* The packets whose frames have been made.
FramedSoFar == IF pc \in {"write", "header"} THEN next - 1 ELSE next

\* Where the stream `out` of the packets ps stands: all of it is sent or will
\* be; or the connection is lost, and what has been sent is where it begins.
Stands(ps, out) == IF peer = "open" THEN out = Out /\ Len(ps) = FramedSoFar
                                    ELSE Begins(received \o wire, out)

\* The stream `out` is that of the packets ps, of which the client has got k.
Told(ps, es, k, out) ==
  /\ FramesOf(ps, es, out) /\ Len(ps) <= Len(Posted)
  /\ \A i \in 1 .. Len(ps) : Cut(i, ps[i])
  /\ WholeIn(es, Len(ps), k, Len(received))
  /\ Stands(ps, out)

\* What keeps the client's packets those of Mailbox.
DInv == \E ps, es, k, out : Told(ps, es, k, out)

\* What has been sent, and what the client has read of it, begin the stream.
Beginning == /\ Rest \in Seq(Byte) /\ Out \in Seq(Byte)
             /\ Begins(received, Out) /\ Begins(received \o wire, Out)

LEMMA ReadsTheStream == TypeOK /\ IInv => Beginning
<1> SUFFICES ASSUME TypeOK, IInv PROVE Beginning
  OBVIOUS
<1>1. Rest \in Seq(Byte)
  <2>1. CASE pc = "send"
    <3>1. PICK d, a : d = wrapper.data /\ a = sent
      OBVIOUS
    <3>2. d \in Seq(Byte) /\ a \in Nat /\ Rest = SubSeq(d, a + 1, Len(d))
      BY <2>1, <3>1, WrapperTyped DEF TypeOK, Rest, total, Size
    <3>3. SubSeq(d, a + 1, Len(d)) \in Seq(Byte)
      BY <3>2
    <3> QED BY <3>2, <3>3
  <2>2. CASE pc # "send"
    BY <2>2 DEF Rest
  <2> QED BY <2>1, <2>2
<1>2. PICK x, tail : x = received /\ tail = wire \o Rest
  OBVIOUS
<1>3. x \in Seq(Byte) /\ tail \in Seq(Byte)
  BY <1>1, <1>2, ConcatProperties DEF TypeOK
<1>4. Out = x \o tail
  <2>1. wire \in Seq(Byte) /\ received \in Seq(Byte)
    BY DEF TypeOK
  <2>2. (received \o wire) \o Rest = received \o (wire \o Rest)
    BY <1>1, <2>1, Associative, Zenon
  <2> QED BY <1>2, <2>2 DEF Out
<1>5. /\ x \o tail \in Seq(Byte) /\ Len(x \o tail) = Len(x) + Len(tail)
      /\ \A j \in 1 .. Len(x) : (x \o tail)[j] = x[j]
  BY <1>3, ConcatProperties
<1>6. Begins(x, Out)
  <2>1. Len(tail) \in Nat /\ Len(x) \in Nat
    BY <1>3
  <2> QED BY <1>3, <1>4, <1>5, <2>1 DEF Begins
<1>7. Begins(received \o wire, Out)
  <2>1. PICK y : y = received \o wire
    OBVIOUS
  <2>2. y \in Seq(Byte)
    BY <2>1, ConcatProperties DEF TypeOK
  <2>3. /\ y \o Rest \in Seq(Byte) /\ Len(y \o Rest) = Len(y) + Len(Rest)
        /\ \A j \in 1 .. Len(y) : (y \o Rest)[j] = y[j]
    BY <1>1, <2>2, ConcatProperties
  <2>4. Len(y) \in Nat /\ Len(Rest) \in Nat
    BY <1>1, <2>2
  <2> QED BY <2>1, <2>2, <2>3, <2>4 DEF Begins, Out
<1> QED BY <1>1, <1>2, <1>4, <1>5, <1>6, <1>7 DEF Beginning

\* The kernel takes bytes from the rest of the frame.
LEMMA SendSomeSame ==
  TypeOK /\ IInv /\ SendSome => Out' = Out
<1> SUFFICES ASSUME TypeOK, IInv, SendSome PROVE Out' = Out
  OBVIOUS
<1>1. PICK n \in 1 .. SEND_BUFFER - Len(wire) :
        /\ sent + n <= total /\ sent' = sent + n
        /\ wire' = wire \o SubSeq(wrapper.data, sent + 1, sent + n)
  BY DEF SendSome
<1>2. pc = "send" /\ pc' = "send" /\ wrapper' = wrapper /\ received' = received
  BY DEF SendSome
<1>3. PICK d, a : d = wrapper.data /\ a = sent
  OBVIOUS
<1>4. d \in Seq(Byte) /\ a \in Nat /\ n \in Nat /\ total = Len(d) /\ total' = total
  <2>1. n \in Nat
    BY LenProperties, OutboundAssumption DEF TypeOK
  <2> QED BY <1>2, <1>3, <2>1, WrapperTyped DEF TypeOK, total, Size
<1>5. PICK t, u : t = SubSeq(d, a + 1, a + n) /\ u = SubSeq(d, a + n + 1, Len(d))
  OBVIOUS
<1>6. a + n <= Len(d) /\ t \o u = SubSeq(d, a + 1, Len(d))
  <2>1. a + n <= Len(d)
    BY <1>1, <1>3, <1>4
  <2> QED BY <1>4, <1>5, <2>1, PartAndRest
<1>7. Rest = t \o u /\ Rest' = u /\ wire' = wire \o t
  BY <1>1, <1>2, <1>3, <1>4, <1>5, <1>6 DEF Rest
<1>8. t \in Seq(Byte) /\ u \in Seq(Byte) /\ wire \in Seq(Byte) /\ received \in Seq(Byte)
  <2>1. t \in Seq(Byte)
    BY <1>4, <1>5, <1>6, Stretch
  <2>2. PICK b : b = a + n + 1
    OBVIOUS
  <2>3. b \in Nat /\ 1 <= b /\ u = SubSeq(d, b, Len(d))
    BY <1>4, <1>5, <2>2
  <2>4. u \in Seq(Byte)
    BY <1>4, <2>3
  <2> QED BY <2>1, <2>4 DEF TypeOK
<1>9. Out' = Out
  <2>1. PICK y : y = received \o wire
    OBVIOUS
  <2>2. y \in Seq(Byte) /\ (y \o t) \o u = y \o (t \o u)
    <3>1. y \in Seq(Byte)
      BY <1>8, <2>1, ConcatProperties
    <3> QED BY <1>8, <3>1, Associative, Zenon
  <2>3. (received \o wire) \o t = received \o (wire \o t)
    BY <1>8, Associative, Zenon
  <2>4. Out' = (received \o (wire \o t)) \o u /\ Out = (received \o wire) \o (t \o u)
    BY <1>2, <1>7 DEF Out
  <2> QED BY <2>1, <2>2, <2>3, <2>4, Zenon
<1> QED BY <1>9

\* The client reads a byte.
LEMMA ClientReadsSame ==
  TypeOK /\ ClientReads =>
    /\ Out' = Out /\ received' \o wire' = received \o wire
    /\ \E c \in Byte : received' = Append(received, c)
<1> SUFFICES ASSUME TypeOK, ClientReads
             PROVE  /\ Out' = Out /\ received' \o wire' = received \o wire
                    /\ \E c \in Byte : received' = Append(received, c)
  OBVIOUS
<1>1. /\ wire # << >> /\ received' = Append(received, Head(wire)) /\ wire' = Tail(wire)
      /\ UNCHANGED <<pc, wrapper, sent>>
  BY DEF ClientReads
<1>2. Rest' = Rest
  BY <1>1 DEF Rest, total, Size
<1>3. PICK x, y, c, t : x = received /\ y = wire /\ c = Head(y) /\ t = Tail(y)
  OBVIOUS
<1>4. x \in Seq(Byte) /\ y \in Seq(Byte) /\ y # << >>
  BY <1>1, <1>3 DEF TypeOK
<1>5. c \in Byte /\ t \in Seq(Byte)
  BY <1>3, <1>4
<1>6. Append(x, c) \o t = x \o y
  BY <1>3, <1>4, <1>5
<1> QED BY <1>1, <1>2, <1>3, <1>5, <1>6 DEF Out

\* A step that puts no frame on its way and is not the client's changes neither
\* the stream nor what has been read of it, unless the connection is lost.
LEMMA QuietSame ==
  /\ TypeOK /\ IInv
  /\ NewPacket \/ WriteByte \/ Wrap \/ WriteHeader \/ SendSome \/ Sent \/ UNCHANGED vars
  => Out' = Out /\ FramedSoFar' = FramedSoFar /\ UNCHANGED <<received, peer>>
<1> SUFFICES ASSUME TypeOK, IInv,
                    NewPacket \/ WriteByte \/ Wrap \/ WriteHeader \/ SendSome \/ Sent \/ UNCHANGED vars
             PROVE  Out' = Out /\ FramedSoFar' = FramedSoFar /\ UNCHANGED <<received, peer>>
  OBVIOUS
<1>1. CASE NewPacket
  <2>1. /\ pc = "idle" /\ pc' = "write" /\ next' = next + 1
        /\ UNCHANGED <<wire, received, peer>>
    BY <1>1 DEF NewPacket
  <2>2. next \in Nat
    BY OutboundAssumption, LenProperties DEF TypeOK
  <2>3. FramedSoFar' = FramedSoFar
    BY <2>1, <2>2 DEF FramedSoFar
  <2> QED BY <2>1, <2>3 DEF Out, Rest
<1>2. CASE WriteByte \/ Wrap \/ WriteHeader
  <2>1. /\ pc \in {"write", "header"} /\ pc' \in {"write", "header"}
        /\ UNCHANGED <<next, wire, received, peer>>
    BY <1>2 DEF WriteByte, Wrap, WriteHeader
  <2> QED BY <2>1 DEF Out, Rest, FramedSoFar
<1>3. CASE SendSome
  <2>1. pc = "send" /\ UNCHANGED <<pc, next, received, peer>>
    BY <1>3 DEF SendSome
  <2>2. Out' = Out
    BY <1>3, SendSomeSame
  <2> QED BY <2>1, <2>2 DEF FramedSoFar
<1>4. CASE Sent
  <2>1. /\ pc = "send" /\ sent = total /\ pc' = "idle" /\ UNCHANGED <<next, wire, received, peer>>
    BY <1>4 DEF Sent
  <2>2. Rest = << >>
    <3>1. PICK d : d = wrapper.data
      OBVIOUS
    <3>2. d \in Seq(Byte) /\ Rest = SubSeq(d, Len(d) + 1, Len(d))
      BY <2>1, <3>1, WrapperTyped DEF Rest, total, Size
    <3>3. SubSeq(d, Len(d) + 1, Len(d)) = << >>
      BY <3>2
    <3> QED BY <3>2, <3>3
  <2> QED BY <2>1, <2>2 DEF Out, Rest, FramedSoFar
<1>5. CASE UNCHANGED vars
  BY <1>5 DEF vars, Out, Rest, FramedSoFar, total, Size
<1> QED BY <1>1, <1>2, <1>3, <1>4, <1>5

\* Copy puts the frame of the packet on its way, which is complete or cut off
\* where memory ran out.
LEMMA CopyTells ==
  TypeOK /\ IInv /\ IInv' /\ Beginning /\ Copy =>
    /\ Out' = Out \o Framed(packet.data) /\ UNCHANGED <<received, peer>>
    /\ Short(packet.data) /\ Cut(next, packet.data)
    /\ next \in 1 .. Len(Posted) /\ FramedSoFar = next - 1 /\ FramedSoFar' = next
<1> SUFFICES ASSUME TypeOK, IInv, IInv', Beginning, Copy
             PROVE  /\ Out' = Out \o Framed(packet.data) /\ UNCHANGED <<received, peer>>
                    /\ Short(packet.data) /\ Cut(next, packet.data)
                    /\ next \in 1 .. Len(Posted) /\ FramedSoFar = next - 1 /\ FramedSoFar' = next
  OBVIOUS
<1>1. /\ pc = "header" /\ pc' = "send" /\ UNCHANGED <<next, peer, packet, wire, received>>
      /\ sent' = 0
  BY DEF Copy
<1>2. /\ packet.data \in Seq(Byte) /\ Size(packet) = packet.offset
      /\ packet.data = SubSeq(bytes, 1, packet.offset)
      /\ next \in 0 .. Len(Posted) /\ next # 0 /\ PacketIs
  BY <1>1, PacketSize DEF IInv, Sizes
<1>3. next \in 1 .. Len(Posted) /\ next \in DOMAIN Posted
  <2>1. Posted \in Seq([first : Nat \ {0}, bytes : Seq(Byte)])
    BY OutboundAssumption
  <2> QED BY <1>2, <2>1
<1>4. PICK p, f, o, whole : /\ p = packet.data /\ f = Framed(p) /\ o = packet.offset
                            /\ whole = Posted[next].bytes
  OBVIOUS
<1>5. /\ whole \in Seq(Byte) /\ Len(whole) \in Nat /\ Posted[next].first \in Nat
      /\ o \in 0 .. Len(whole) /\ p \in Seq(Byte) /\ Len(p) = o
      /\ p = SubSeq(whole, 1, o)
  BY <1>2, <1>4, PacketOf DEF Size, PacketIs, bytes
<1>6. Short(p)
  <2>1. PICK lim : lim = 2^(VARINT_BITS - 1)
    OBVIOUS
  <2>2. Len(whole) < lim
    BY <1>3, <1>4, <2>1, LengthAssumption
  <2>3. lim \in Nat
    <3>1. VARINT_BITS \in Nat \ {0} /\ VARINT_BITS \in EXPONENTS
      BY Widths, WidthAssumption DEF Width
    <3>2. PICK m : m = VARINT_BITS - 1
      OBVIOUS
    <3>3. m \in Nat /\ m <= VARINT_BITS
      BY <3>1, <3>2
    <3>4. m \in EXPONENTS
      BY <3>1, <3>3, PowerMonotone
    <3>5. 2^m \in Nat \ {0}
      BY <3>4, PowerPositive
    <3> QED BY <2>1, <3>2, <3>5
  <2>4. Len(p) < lim
    BY <1>5, <2>2, <2>3
  <2> QED BY <1>5, <2>1, <2>4 DEF Short
<1>7. Cut(next, p)
  <2>1. /\ packet.error \in BOOLEAN
        /\ packet.error => MemoryFails /\ Posted[next].first <= o
    BY <1>2, <1>4 DEF PacketIs
  <2>2. ~packet.error => o = Len(whole)
    BY <1>1, <1>4 DEF IInv, Ended, bytes
  <2>3. o \in Abstract!Cuts(Posted[next])
    <3>1. CASE packet.error
      <4>1. o \in Posted[next].first .. Len(whole) /\ MemoryFails
        BY <1>5, <2>1, <3>1
      <4> QED BY <1>4, <4>1 DEF Abstract!Cuts
    <3>2. CASE ~packet.error
      BY <1>4, <2>2, <3>2 DEF Abstract!Cuts
    <3> QED BY <3>1, <3>2
  <2> QED BY <1>4, <1>5, <2>3 DEF Cut
<1>8. wrapper'.data = f
  <2>1. WrapperIs(Header \o packet.data, Len(Header))'
    BY <1>1 DEF IInv, Copied
  <2>2. wrapper'.data = Header' \o packet'.data
    BY <2>1 DEF WrapperIs
  <2> QED BY <1>1, <1>4, <2>2 DEF Header, Framed, Size
<1>9. f \in Seq(Byte)
  BY <1>4, <1>6, FramedIs DEF Parts
<1>10. Rest = << >> /\ Rest' = f
  <2>1. Rest' = SubSeq(f, 1, Len(f))
    BY <1>1, <1>8 DEF Rest, total, Size
  <2>2. SubSeq(f, 1, Len(f)) = f
    BY <1>9
  <2> QED BY <1>1, <2>1, <2>2 DEF Rest
<1>11. Out' = Out \o f
  <2>1. PICK y : y = received \o wire
    OBVIOUS
  <2>2. y \in Seq(Byte)
    BY <2>1, ConcatProperties DEF TypeOK
  <2>3. y \o << >> = y
    BY <2>2, ConcatEmptySeq
  <2> QED BY <1>1, <1>10, <2>1, <2>3 DEF Out
<1> QED BY <1>1, <1>3, <1>4, <1>6, <1>7, <1>11 DEF FramedSoFar

\* Where the stream and what is read of it stay, so does what is told.
LEMMA ToldKept ==
  ASSUME NEW ps, NEW es, NEW k, NEW out, Told(ps, es, k, out),
         received' = received, Stands(ps, out)'
  PROVE  Told(ps, es, k, out)'
BY DEF Told, Cut, Abstract!Cuts

\* One packet more is told, and none more is read whole.
LEMMA ToldGrows ==
  ASSUME NEW ps, NEW es, NEW k, NEW out, Told(ps, es, k, out), Beginning,
         peer = "open", peer' = "open",
         NEW p, Short(p), Cut(next, p), next \in 1 .. Len(Posted),
         FramedSoFar = next - 1, FramedSoFar' = next,
         Out' = Out \o Framed(p), received' = received
  PROVE  \E qs, es2, out2 : Told(qs, es2, k, out2)'
<1>1. PICK n : n = Len(ps)
  OBVIOUS
<1>0. out = Out /\ Len(ps) = FramedSoFar
  BY DEF Told, Stands
<1>2. /\ FramesOf(ps, es, out) /\ n = next - 1 /\ \A i \in 1 .. n : Cut(i, ps[i])
      /\ k \in 0 .. n /\ es[k] <= Len(received) /\ (k < n => Len(received) < es[k + 1])
  BY <1>0, <1>1 DEF Told, WholeIn
<1>3. /\ out \in Seq(Byte) /\ Len(received) <= Len(out) /\ Len(received) \in Nat /\ Len(out) \in Nat
  BY <1>0 DEF Beginning, Begins
<1>4. PICK es2 : /\ FramesOf(Append(ps, p), es2, out \o Framed(p))
                 /\ \A i \in 0 .. n : es2[i] = es[i]
                 /\ Len(out) < es2[n + 1]
  <2>1. out \in Seq(Byte) /\ FramesOf(ps, es, out) /\ Short(p)
    BY <1>2, <1>3
  <2>2. Longer(ps, es, out, p)
    BY <2>1, StreamGrows, Zenon
  <2> QED BY <1>1, <2>2 DEF Longer
<1>5. PICK qs : qs = Append(ps, p)
  OBVIOUS
<1>6. ps \in Seq(Seq(Byte)) /\ p \in Seq(Byte) /\ n \in Nat
  BY <1>1, <1>2 DEF FramesOf, Short
<1>7. /\ Len(qs) = n + 1 /\ qs[n + 1] = p /\ qs \in Seq(Seq(Byte))
      /\ \A i \in 1 .. n : qs[i] = ps[i]
  BY <1>1, <1>5, <1>6
<1>8. \A i \in 1 .. Len(qs) : Cut(i, qs[i])
  <2> SUFFICES ASSUME NEW i \in 1 .. n + 1 PROVE Cut(i, qs[i])
    BY <1>7
  <2>1. CASE i = n + 1
    <3>1. i = next /\ qs[i] = p
      BY <1>2, <1>7, <2>1
    <3> QED BY <3>1
  <2>2. CASE i # n + 1
    <3>1. i \in 1 .. n
      BY <1>6, <2>2
    <3>2. qs[i] = ps[i] /\ Cut(i, ps[i])
      BY <1>2, <1>7, <3>1
    <3> QED BY <3>2
  <2> QED BY <2>1, <2>2
<1>9. WholeIn(es2, n + 1, k, Len(received))
  <2>1. k \in 0 .. n /\ k \in 0 .. n + 1 /\ es2[k] = es[k]
    BY <1>2, <1>4, <1>6
  <2>2. Len(received) < es2[k + 1]
    <3>1. CASE k = n
      <4>1. es2 \in [0 .. Len(qs) -> Nat]
        BY <1>4, <1>5 DEF FramesOf
      <4>2. n + 1 \in 0 .. Len(qs)
        BY <1>6, <1>7
      <4>3. es2[n + 1] \in Nat
        BY <4>1, <4>2
      <4> QED BY <1>3, <1>4, <3>1, <4>3
    <3>2. CASE k # n
      <4>1. k < n /\ k + 1 \in 0 .. n
        BY <1>2, <1>6, <3>2
      <4> QED BY <1>2, <1>4, <4>1
    <3> QED BY <3>1, <3>2
  <2> QED BY <1>2, <2>1, <2>2 DEF WholeIn
<1>10. PICK out2 : out2 = out \o Framed(p)
  OBVIOUS
<1>11. Told(qs, es2, k, out2)'
  <2>0. Out' = out2
    BY <1>0, <1>10
  <2>1. FramesOf(qs, es2, out2) /\ Len(qs) = FramedSoFar'
    BY <1>1, <1>2, <1>4, <1>5, <1>6, <1>7, <1>10
  <2>2. WholeIn(es2, Len(qs), k, Len(received'))
    BY <1>7, <1>9
  <2>3. Len(qs) <= Len(Posted)
    BY <1>2, <1>6, <1>7
  <2>4. Stands(qs, out2)'
    BY <2>0, <2>1 DEF Stands
  <2> QED BY <1>8, <2>1, <2>2, <2>3, <2>4 DEF Told, Cut, Abstract!Cuts
<1> QED BY <1>11

\* With a byte more, the client has got what it had, or the next packet too.
LEMMA ToldRead ==
  ASSUME NEW ps, NEW es, NEW k, NEW out, Told(ps, es, k, out), received \in Seq(Byte),
         Stands(ps, out)', NEW c \in Byte, received' = Append(received, c)
  PROVE  Told(ps, es, k, out)' \/ (k < Len(ps) /\ Told(ps, es, k + 1, out)')
<1>1. PICK n, m : n = Len(ps) /\ m = Len(received)
  OBVIOUS
<1>2. /\ FramesOf(ps, es, out) /\ ps \in Seq(Seq(Byte)) /\ n \in Nat /\ es \in [0 .. n -> Nat]
      /\ k \in 0 .. n /\ es[k] <= m /\ (k < n => m < es[k + 1])
  BY <1>1 DEF Told, WholeIn, FramesOf
<1>3. m \in Nat /\ Len(received') = m + 1
  BY <1>1
<1>4. ASSUME NEW l, WholeIn(es, n, l, m + 1) PROVE Told(ps, es, l, out)'
  BY <1>1, <1>3, <1>4 DEF Told, Cut, Abstract!Cuts
<1>5. es[k] \in Nat
  BY <1>2
<1>6. CASE k = n
  <2>1. WholeIn(es, n, k, m + 1)
    BY <1>2, <1>3, <1>5, <1>6 DEF WholeIn
  <2> QED BY <1>4, <2>1
<1>7. CASE k # n
  <2>1. PICK i : i = k + 1
    OBVIOUS
  <2>2. k < n /\ i \in 1 .. n /\ i \in 0 .. n
    BY <1>2, <1>7, <2>1
  <2>3. es[i] \in Nat /\ m < es[i]
    BY <1>2, <2>1, <2>2
  <2>4. CASE m + 1 < es[i]
    <3>1. WholeIn(es, n, k, m + 1)
      BY <1>2, <1>3, <1>5, <2>1, <2>4 DEF WholeIn
    <3> QED BY <1>4, <3>1
  <2>5. CASE ~(m + 1 < es[i])
    <3>1. es[i] = m + 1
      BY <1>3, <2>3, <2>5
    <3>2. i < n => m + 1 < es[i + 1]
      <4> SUFFICES ASSUME i < n PROVE m + 1 < es[i + 1]
        OBVIOUS
      <4>1. PICK j : j = i + 1
        OBVIOUS
      <4>2. j \in 1 .. Len(ps) /\ j - 1 = i
        BY <1>1, <1>2, <2>2, <4>1
      <4>3. es[j - 1] < es[j]
        BY <1>2, <4>2, EndsGrow
      <4> QED BY <3>1, <4>1, <4>2, <4>3
    <3>3. WholeIn(es, n, i, m + 1)
      BY <1>3, <2>2, <3>1, <3>2 DEF WholeIn
    <3> QED BY <1>1, <1>4, <2>1, <2>2, <3>3
  <2> QED BY <2>4, <2>5
<1> QED BY <1>6, <1>7

\* What the client has read begins the stream, lost or not.
LEMMA ReadBegins ==
  ASSUME NEW ps, NEW out, TypeOK, Beginning, Stands(ps, out)
  PROVE  Begins(received, out)
<1>1. CASE peer = "open"
  BY <1>1 DEF Stands, Beginning
<1>2. CASE peer # "open"
  <2>1. PICK x, y, z : x = received /\ y = wire /\ z = x \o y
    OBVIOUS
  <2>2. x \in Seq(Byte) /\ y \in Seq(Byte) /\ Begins(z, out)
    BY <1>2, <2>1 DEF TypeOK, Stands
  <2>3. /\ z \in Seq(Byte) /\ Len(z) = Len(x) + Len(y) /\ Len(x) \in Nat /\ Len(y) \in Nat
        /\ \A j \in 1 .. Len(x) : z[j] = x[j]
    BY <2>1, <2>2, ConcatProperties
  <2> QED BY <2>1, <2>2, <2>3 DEF Begins
<1> QED BY <1>1, <1>2

\* What is told is what the client finds.
Findings ==
  \A ps, es, k, out : Told(ps, es, k, out) =>
    /\ ps \in Seq(Seq(Byte)) /\ Len(ps) \in Nat /\ k \in 0 .. Len(ps)
    /\ Frames(received) = SubSeq(ps, 1, k)

LEMMA ToldFound == TypeOK /\ Beginning => Findings
<1> SUFFICES ASSUME TypeOK, Beginning, NEW ps, NEW es, NEW k, NEW out, Told(ps, es, k, out)
             PROVE  /\ ps \in Seq(Seq(Byte)) /\ Len(ps) \in Nat /\ k \in 0 .. Len(ps)
                    /\ Frames(received) = SubSeq(ps, 1, k)
  BY DEF Findings
<1>1. FramesOf(ps, es, out) /\ Begins(received, out) /\ WholeIn(es, Len(ps), k, Len(received))
  BY ReadBegins DEF Told
<1>2. Frames(received) = SubSeq(ps, 1, k)
  BY <1>1, FramesArePackets
<1> QED BY <1>1, <1>2 DEF FramesOf, WholeIn

\* What a step needs of the state.
Ready == TypeOK /\ IInv /\ Beginning /\ Findings

LEMMA ReadyAlways == TypeOK /\ IInv => Ready
BY ReadsTheStream, ToldFound DEF Ready

\* At first nothing is told.
LEMMA InitTold == Init => DInv /\ Abstract!Init
<1> SUFFICES ASSUME Init PROVE DInv /\ Abstract!Init
  OBVIOUS
<1>1. received = << >> /\ Out = << >> /\ FramedSoFar = 0 /\ peer = "open"
  <2>1. received = << >> /\ wire = << >> /\ pc = "idle" /\ next = 0 /\ peer = "open"
    BY DEF Init
  <2>2. << >> \o << >> = << >> /\ (<< >> \o << >>) \o << >> = << >>
    OBVIOUS
  <2> QED BY <2>1, <2>2 DEF Out, Rest, FramedSoFar
<1>2. PICK ps, es : ps = << >> /\ es = [i \in 0 .. 0 |-> 0]
  OBVIOUS
<1>3. ps \in Seq(Seq(Byte)) /\ Len(ps) = 0 /\ Len(received) = 0 /\ Len(Out) = 0
  BY <1>1, <1>2
<1>4. es \in [0 .. Len(ps) -> Nat] /\ es[0] = 0
  BY <1>2, <1>3
<1>5. FramesOf(ps, es, Out)
  BY <1>3, <1>4 DEF FramesOf
<1>6. WholeIn(es, Len(ps), 0, Len(received))
  BY <1>3, <1>4 DEF WholeIn
<1>7. Told(ps, es, 0, Out)
  <2>1. Len(ps) <= Len(Posted)
    BY <1>3, OutboundAssumption, LenProperties
  <2> QED BY <1>1, <1>3, <1>5, <1>6, <2>1 DEF Told, Stands
<1>8. Frames(received) = << >>
  <2>1. PICK x : x = received
    OBVIOUS
  <2>2. x \in Seq(Byte) /\ Len(x) = 0
    BY <1>1, <2>1
  <2>3. PICK g : Frames(x) = g[0] /\ FromIs(g, x, 0)
    BY <2>2, FramesFrom
  <2>4. ~FrameAt(x, 0).whole
    <3>1. ~FrameAt(x, Len(x)).whole
      BY <2>2, NoFrame
    <3> QED BY <2>2, <3>1
  <2>5. 0 \in 0 .. Len(x)
    BY <2>2
  <2> QED BY <2>1, <2>3, <2>4, <2>5 DEF FromIs
<1> QED BY <1>1, <1>7, <1>8 DEF DInv, Abstract!Init

\* A packet that has come whole is the next one Mailbox delivers.
LEMMA DeliversNext ==
  ASSUME NEW ps \in Seq(Seq(Byte)), NEW k \in 0 .. Len(ps), k < Len(ps),
         Len(ps) <= Len(Posted), \A i \in 1 .. Len(ps) : Cut(i, ps[i]),
         Frames(received) = SubSeq(ps, 1, k), Frames(received)' = SubSeq(ps, 1, k + 1)
  PROVE  Abstract!Deliver
<1>1. PICK i, x, y : i = k + 1 /\ x = SubSeq(ps, 1, k) /\ y = SubSeq(ps, 1, i)
  OBVIOUS
<1>2. k \in Nat /\ Len(ps) \in Nat /\ i \in 1 .. Len(ps)
  BY <1>1
<1>3. Len(x) = k /\ y = Append(x, ps[i])
  <2>1. x \in Seq(Seq(Byte)) /\ Len(x) = k
    BY <1>1, <1>2
  <2>2. y = Append(x, ps[i])
    BY <1>1, <1>2, PrefixGrows, SMTT(20)
  <2> QED BY <2>1, <2>2
<1>4. PICK c \in Abstract!Cuts(Posted[i]) : ps[i] = SubSeq(Posted[i].bytes, 1, c)
  BY <1>2 DEF Cut
<1>5. k < Len(Posted)
  BY <1>2, OutboundAssumption, LenProperties
<1>6. Frames(received) = x /\ Frames(received)' = y /\ Len(Frames(received)) + 1 = i
  BY <1>1, <1>3
<1> QED BY <1>1, <1>3, <1>4, <1>5, <1>6 DEF Abstract!Deliver

\* Every step tells as much as before or more, and is a delivery or none.
LEMMA StepDelivers ==
  IInv /\ Ready /\ IInv' /\ Ready' /\ DInv /\ [Next]_vars =>
    DInv' /\ [Abstract!Deliver]_(Frames(received))
<1> SUFFICES ASSUME IInv, Ready, IInv', Ready', DInv, [Next]_vars
             PROVE  DInv' /\ [Abstract!Deliver]_(Frames(received))
  OBVIOUS
<1>1. TypeOK /\ Beginning /\ Findings /\ Findings'
  BY DEF Ready
<1>2. PICK ps, es, k, out : Told(ps, es, k, out)
  BY DEF DInv
<1>3. /\ ps \in Seq(Seq(Byte)) /\ Len(ps) \in Nat /\ k \in 0 .. Len(ps) /\ k \in Nat
      /\ Frames(received) = SubSeq(ps, 1, k) /\ Stands(ps, out)
  BY <1>1, <1>2 DEF Findings, Told
<1>4. ASSUME received' = received, Stands(ps, out)'
      PROVE  DInv' /\ [Abstract!Deliver]_(Frames(received))
  <2>1. Told(ps, es, k, out)'
    BY <1>2, <1>4, ToldKept
  <2>2. Frames(received)' = Frames(received)
    BY <1>1, <1>3, <2>1 DEF Findings
  <2> QED BY <2>1, <2>2 DEF DInv
<1>5. CASE /\ NewPacket \/ WriteByte \/ Wrap \/ WriteHeader \/ SendSome \/ Sent \/ UNCHANGED vars
           /\ peer = "open"
  <2>1. Out' = Out /\ FramedSoFar' = FramedSoFar /\ UNCHANGED <<received, peer>>
    BY <1>1, <1>5, QuietSame DEF Ready
  <2> QED BY <1>3, <1>4, <1>5, <2>1 DEF Stands
<1>6. CASE /\ NewPacket \/ WriteByte \/ Wrap \/ WriteHeader \/ Copy \/ SendSome \/ Sent
              \/ SendFails \/ SendKills \/ UNCHANGED vars
           /\ peer # "open"
  <2>1. UNCHANGED <<received, wire>> /\ peer' # "open"
    BY <1>6 DEF NewPacket, WriteByte, Wrap, WriteHeader, Copy, SendSome, Sent, SendFails, SendKills,
                vars
  <2> QED BY <1>3, <1>4, <1>6, <2>1 DEF Stands
<1>7. CASE Reset
  <2>1. peer = "open" /\ peer' = "reset" /\ UNCHANGED <<received, wire>>
    BY <1>7 DEF Reset
  <2>2. Begins(received \o wire, out)
    BY <1>1, <1>3, <2>1 DEF Stands, Beginning
  <2> QED BY <1>4, <2>1, <2>2 DEF Stands
<1>8. CASE Copy /\ peer = "open"
  <2>1. PICK p : p = packet.data
    OBVIOUS
  <2>2. /\ Out' = Out \o Framed(p) /\ UNCHANGED <<received, peer>>
        /\ Short(p) /\ Cut(next, p)
        /\ next \in 1 .. Len(Posted) /\ FramedSoFar = next - 1 /\ FramedSoFar' = next
    BY <1>1, <1>8, <2>1, CopyTells
  <2>3. \E qs, es2, out2 : Told(qs, es2, k, out2)'
    BY <1>1, <1>2, <1>8, <2>2, ToldGrows
  <2>4. received' = received
    BY <2>2
  <2> QED BY <2>3, <2>4 DEF DInv
<1>9. CASE ClientReads
  <2>1. /\ Out' = Out /\ received' \o wire' = received \o wire
        /\ \E c \in Byte : received' = Append(received, c)
    BY <1>1, <1>9, ClientReadsSame
  <2>2. FramedSoFar' = FramedSoFar /\ peer' = peer
    BY <1>9 DEF ClientReads, FramedSoFar
  <2>3. Stands(ps, out)'
    BY <1>3, <2>1, <2>2 DEF Stands
  <2>4. Told(ps, es, k, out)' \/ (k < Len(ps) /\ Told(ps, es, k + 1, out)')
    <3>1. received \in Seq(Byte)
      BY <1>1 DEF TypeOK
    <3> QED BY <1>2, <2>1, <2>3, <3>1, ToldRead
  <2>5. CASE Told(ps, es, k, out)'
    <3>1. Frames(received)' = SubSeq(ps, 1, k)
      BY <1>1, <2>5 DEF Findings
    <3> QED BY <1>3, <2>5, <3>1 DEF DInv
  <2>6. CASE k < Len(ps) /\ Told(ps, es, k + 1, out)'
    <3>1. Frames(received)' = SubSeq(ps, 1, k + 1)
      BY <1>1, <2>6 DEF Findings
    <3>2. Len(ps) <= Len(Posted) /\ \A i \in 1 .. Len(ps) : Cut(i, ps[i])
      BY <1>2 DEF Told
    <3>3. Abstract!Deliver
      BY <1>3, <2>6, <3>1, <3>2, DeliversNext
    <3> QED BY <2>6, <3>3 DEF DInv
  <2> QED BY <2>4, <2>5, <2>6
<1>10. SendFails \/ SendKills => peer # "open"
  BY DEF SendFails, SendKills
<1> QED BY <1>5, <1>6, <1>7, <1>8, <1>9, <1>10 DEF Next, Sender

\* However the kernel cuts the sends, whichever realloc fails and wherever the
\* connection is lost, what the client finds in its bytes is the packets, in
\* order, each once and in a frame of its own: cut off at its end if memory ran
\* out after its first buffer was full, complete otherwise
\* (netbuf.c:58-78, 92-116).
THEOREM Delivers == Spec => ImplementsMailbox
<1>1. Init => DInv /\ Abstract!Init
  BY InitTold
<1>2. TypeOK /\ IInv => Ready
  BY ReadyAlways
<1>3. IInv /\ Ready /\ IInv' /\ Ready' /\ DInv /\ [Next]_vars
      => DInv' /\ [Abstract!Deliver]_(Frames(received))
  BY StepDelivers
<1> QED BY <1>1, <1>2, <1>3, Invariance, TypeCorrect, PTL DEF Spec, ImplementsMailbox, Abstract!Spec
=============================================================================
