-------------------------- MODULE ConnectionProofs --------------------------
(***************************************************************************)
(* Theorems about Connection for every value of its constants, in four     *)
(* parts: the types and the soundness of in_buf; the byte stream, of which *)
(* no byte is lost and each frame handled is one of the client's; how a    *)
(* session goes on and what its client is sent of the login; and that a    *)
(* client that stays and speaks the protocol is served as Session says.    *)
(***************************************************************************)
EXTENDS Serving, NetbufLemmas

-----------------------------------------------------------------------------
(* What readers and handlers leave alone *)

\* Where reads of b may leave it: inside the same bytes.
Inside(b, c) == /\ c \in Netbufs
                /\ c.data = b.data /\ c.capacity = b.capacity
                /\ c.offset <= Size(b)

\* Moving the offset within the buffer leaves the buffer the same bytes.
LEMMA OffsetAssigned ==
  ASSUME NEW b \in Netbufs, NEW o \in Nat, o <= Size(b)
  PROVE  Inside(b, [b EXCEPT !.offset = o]) /\ [b EXCEPT !.offset = o].offset = o
BY DEF Inside, Netbufs

\* Raising the error flag leaves the buffer the same bytes and offset.
LEMMA ErrorRaised ==
  ASSUME NEW b \in Netbufs, b.offset <= Size(b)
  PROVE  /\ Inside(b, [b EXCEPT !.error = TRUE])
         /\ [b EXCEPT !.error = TRUE].offset = b.offset
         /\ Fail(b).buf = [b EXCEPT !.error = TRUE]
BY DEF Inside, Netbufs, Fail

\* Two readers in a row read inside the buffer of the first.
LEMMA InsideTransitive ==
  ASSUME NEW b, NEW c, NEW d, Inside(b, c), Inside(c, d)
  PROVE  Inside(b, d)
BY DEF Inside, Size

\* A reader that starts inside the buffer ends inside it.
LEMMA InsideSound ==
  ASSUME NEW b, NEW c, Inside(b, c)
  PROVE  c \in Netbufs /\ c.offset <= Size(c) /\ Size(c) = Size(b)
BY DEF Inside, Size

\* A read of groups moves the offset forward and changes no byte.
LEMMA ReadGroupsInside ==
  ASSUME NEW b \in Netbufs, b.offset <= Size(b), NEW limit \in Nat, NEW bits
  PROVE  /\ Inside(b, ReadGroups(b, limit, bits).buf)
         /\ b.offset <= ReadGroups(b, limit, bits).buf.offset
<1>0. Size(b) \in Nat /\ b.offset \in Nat
  BY NetbufFields
<1>1. CASE b.error
  <2>1. ReadGroups(b, limit, bits).buf = b
    BY <1>1 DEF ReadGroups
  <2> QED BY <1>0, <2>1 DEF Inside
<1>2. CASE ~b.error /\ ReadEnds(b, limit) = {}
  <2>1. ReadGroups(b, limit, bits) = Fail([b EXCEPT !.offset = Size(b)])
    BY <1>2, Zenon DEF ReadGroups
  <2> DEFINE last == [b EXCEPT !.offset = Size(b)]
  <2>2. Inside(b, last) /\ last.offset = Size(b)
    BY <1>0, OffsetAssigned
  <2> HIDE DEF last
  <2>3. Inside(last, Fail(last).buf) /\ Fail(last).buf.offset = last.offset
    BY <2>2, InsideSound, ErrorRaised, Zenon
  <2>4. Inside(b, Fail(last).buf)
    BY <2>2, <2>3, InsideTransitive, Zenon
  <2> QED BY <1>0, <2>1, <2>2, <2>3, <2>4 DEF last
<1>3. CASE ~b.error /\ ReadEnds(b, limit) # {}
  <2> DEFINE n == Min(ReadEnds(b, limit))
             next == [b EXCEPT !.offset = b.offset + n]
  <2>1. n \in 1 .. limit + 1 /\ b.offset + n <= Size(b)
    BY <1>3, ReadEndsMin
  <2>2. /\ Inside(b, next) /\ Inside(b, Fail(next).buf)
        /\ b.offset <= next.offset /\ b.offset <= Fail(next).buf.offset
    <3>1. b.offset + n \in Nat
      BY <1>0, <2>1
    <3>2. Inside(b, next) /\ next.offset = b.offset + n
      <4> HIDE DEF n
      <4> QED BY <2>1, <3>1, OffsetAssigned
    <3>3. b.offset <= next.offset
      BY <1>0, <2>1, <3>2
    <3> HIDE DEF n, next
    <3>4. Inside(next, Fail(next).buf) /\ Fail(next).buf.offset = next.offset
      BY <3>2, InsideSound, ErrorRaised, Zenon
    <3> QED BY <3>2, <3>3, <3>4, InsideTransitive, Zenon
  <2>3. ReadGroups(b, limit, bits).buf \in {next, Fail(next).buf}
    <3> HIDE DEF n
    <3> QED BY <1>3, <2>1 DEF ReadGroups, n
  <2> QED BY <2>2, <2>3
<1> QED BY <1>1, <1>2, <1>3

\* read_varint (varint.c) reads inside the buffer.
LEMMA ReadVarintInside ==
  ASSUME NEW b \in Netbufs, b.offset <= Size(b)
  PROVE  Inside(b, read_varint[b].buf) /\ b.offset <= read_varint[b].buf.offset
<1>1. VARINT_BYTES \in Nat
  BY WidthAssumption
<1>2. read_varint[b] = ReadGroups(b, VARINT_BYTES, VARINT_BITS)
  BY Zenon DEF read_varint
<1> QED BY <1>1, <1>2, ReadGroupsInside, Zenon

\* read_varlong (varint.c) reads inside the buffer.
LEMMA ReadVarlongInside ==
  ASSUME NEW b \in Netbufs, b.offset <= Size(b)
  PROVE  Inside(b, read_varlong[b].buf)
<1>1. VARLONG_BYTES \in Nat
  BY WidthAssumption
<1>2. read_varlong[b] = ReadGroups(b, VARLONG_BYTES, VARLONG_BITS)
  BY Zenon DEF read_varlong
<1> QED BY <1>1, <1>2, ReadGroupsInside, Zenon

\* read_ushort (varint.c) reads inside the buffer.
LEMMA ReadUshortInside ==
  ASSUME NEW b \in Netbufs, b.offset <= Size(b)
  PROVE  Inside(b, read_ushort[b].buf)
<1>1. Size(b) \in Nat /\ b.offset \in Nat
  BY NetbufFields
<1>2. CASE b.error \/ b.offset + 2 > Size(b)
  <2>1. read_ushort[b] = Fail(b)
    BY <1>2, Zenon DEF read_ushort
  <2> QED BY <2>1, ErrorRaised, Zenon
<1>3. CASE ~(b.error \/ b.offset + 2 > Size(b))
  <2>1. read_ushort[b].buf = [b EXCEPT !.offset = b.offset + 2]
    BY <1>3 DEF read_ushort
  <2>2. b.offset + 2 \in Nat /\ b.offset + 2 <= Size(b)
    BY <1>1, <1>3
  <2> QED BY <2>1, <2>2, OffsetAssigned, Zenon
<1> QED BY <1>2, <1>3

\* A string lies within the bytes of the buffer, whatever its length field says.
LEMMA ReadStringInside ==
  ASSUME NEW b \in Netbufs, b.offset <= Size(b)
  PROVE  Inside(b, read_string[b].buf) /\ read_string[b].str \in Seq(Byte)
<1> DEFINE r == read_varint[b]
           end == r.buf.offset + r.val
<1>1. Inside(b, r.buf) /\ Size(b) \in Nat /\ b.data \in Seq(Byte)
  BY ReadVarintInside, NetbufFields DEF Netbufs
<1>2. CASE r.buf.error \/ end \notin 0 .. Size(b)
  <2>1. /\ read_string[b].buf = [r.buf EXCEPT !.error = TRUE]
        /\ read_string[b].str = << >>
    BY <1>2 DEF read_string
  <2> HIDE DEF r
  <2>2. Inside(r.buf, [r.buf EXCEPT !.error = TRUE])
    BY <1>1, InsideSound, ErrorRaised, Zenon
  <2> QED BY <1>1, <2>1, <2>2, InsideTransitive
<1>3. CASE ~(r.buf.error \/ end \notin 0 .. Size(b))
  <2>1. /\ read_string[b].buf = [r.buf EXCEPT !.offset = end]
        /\ read_string[b].str = SubSeq(b.data, r.buf.offset + 1, end)
    BY <1>3 DEF read_string
  <2>2. r.buf.offset \in Nat /\ end \in 0 .. Len(b.data)
    BY <1>1, <1>3, InsideSound, NetbufFields DEF Size
  <2> HIDE DEF r, end
  <2>3. SubSeq(b.data, r.buf.offset + 1, end) \in Seq(Byte)
    BY <1>1, <2>2
  <2>4. Size(r.buf) = Len(b.data) /\ r.buf \in Netbufs
    BY <1>1 DEF Inside, Size
  <2>5. Inside(r.buf, [r.buf EXCEPT !.offset = end])
    BY <2>2, <2>4, OffsetAssigned
  <2> QED BY <1>1, <2>1, <2>3, <2>5, InsideTransitive
<1> QED BY <1>2, <1>3

\* What C string and UUID a name gives are again bytes.
LEMMA NamesAreBytes ==
  ASSUME NEW name \in Seq(Byte)
  PROVE  CString(name) \in Seq(Byte) /\ OfflineUuid(name) \in Seq(Byte)
<1>1. CString(name) \in Seq(Byte)
  <2> DEFINE Zeros == {i \in 1 .. Len(name) : name[i] = 0}
  <2>1. CASE Zeros = {}
    BY <2>1 DEF CString
  <2>2. CASE Zeros # {}
    <3>1. Min(Zeros) \in Zeros
      BY <2>2, MinNat, SMTT(20)
    <3>2. Min(Zeros) - 1 \in 0 .. Len(name)
      BY <3>1
    <3>3. SubSeq(name, 1, Min(Zeros) - 1) \in Seq(Byte)
      <4> DEFINE m == Min(Zeros) - 1
      <4>1. m \in 0 .. Len(name)
        BY <3>2
      <4> HIDE DEF m
      <4>2. SubSeq(name, 1, m) \in Seq(Byte)
        BY <4>1
      <4> QED BY <4>2 DEF m
    <3> QED BY <2>2, <3>3 DEF CString
  <2> QED BY <2>1, <2>2
<1> DEFINE s == CString(name)
           l == Min({Len(s), UUID_BYTES})
<1> HIDE DEF s
<1>2. {Len(s), UUID_BYTES} \in SUBSET Nat
  BY <1>1, PacketsAssumption DEF s
<1>3. l \in {Len(s), UUID_BYTES} /\ l <= Len(s)
  BY <1>2, MinNat
<1>4. l \in 0 .. Len(s)
  BY <1>2, <1>3
<1> HIDE DEF l
<1>5. SubSeq(s, 1, l) \in Seq(Byte)
  BY <1>1, <1>4 DEF s
<1> QED BY <1>1, <1>5 DEF OfflineUuid, s, l

\* A capacity doubled to make room holds what was asked for.
LEMMA DoubledHolds ==
  ASSUME NEW cap \in Nat, NEW needed \in Nat, cap < needed, needed <= 2 * cap
  PROVE  Doubled(cap, needed) \in Nat /\ needed <= Doubled(cap, needed)
<1> DEFINE Reached(c) == \E k \in 1 .. needed - cap : c = cap * 2^k
<1>1. 2 * cap \in needed .. 2 * needed - 1
  OBVIOUS
<1>2. Reached(2 * cap)
  <2>1. 1 \in 1 .. needed - cap /\ 2 * cap = cap * 2^1
    OBVIOUS
  <2> QED BY <2>1
<1> HIDE DEF Reached
<1>3. (CHOOSE c \in needed .. 2 * needed - 1 : Reached(c)) \in needed .. 2 * needed - 1
  BY <1>1, <1>2
<1>4. Doubled(cap, needed) \in needed .. 2 * needed - 1
  BY <1>3 DEF Doubled, Reached
<1> QED BY <1>4
-----------------------------------------------------------------------------
(* Handlers *)

\* What every handler guarantees of the connection it leaves.
Leaves(c, r) == r.conn \in Conns /\ Inside(c.buf, r.conn.buf)

\* The fields of a connection.
LEMMA ConnFields ==
  ASSUME NEW c \in Conns
  PROVE  /\ c.buf \in Netbufs /\ c.state \in States
         /\ c.player_name \in Seq(Byte) \cup {NULL} /\ c.uuid \in Seq(Byte) \cup {NULL}
BY DEF Conns

\* A connection is well formed after an assignment to one of its fields.
LEMMA ConnUpdated ==
  ASSUME NEW c \in Conns, NEW b \in Netbufs
  PROVE  [c EXCEPT !.buf = b] \in Conns /\ [c EXCEPT !.buf = b].buf = b
BY DEF Conns

\* A handler that faults leaves the connection it was given.
LEMMA FaultLeaves ==
  ASSUME NEW c \in Conns, c.buf.offset <= Size(c.buf)
  PROVE  Leaves(c, Faulted(c))
BY ConnFields DEF Leaves, Faulted, Handled, Inside

\* handle_handshake reads inside the buffer and sets a known state.
LEMMA HandshakeLeaves ==
  ASSUME NEW c \in Conns, c.buf.offset <= Size(c.buf)
  PROVE  Leaves(c, handle_handshake(c))
<1> DEFINE version == read_varint[c.buf]
           addr    == read_string[version.buf]
           port    == read_ushort[addr.buf]
           next    == read_varint[port.buf]
           failed  == [next.buf EXCEPT !.error = TRUE]
<1>1. c.buf \in Netbufs
  BY ConnFields
<1>2. Inside(c.buf, version.buf)
  BY <1>1, ReadVarintInside, Zenon
<1>3. Inside(c.buf, addr.buf)
  BY <1>2, InsideSound, ReadStringInside, InsideTransitive, Zenon
<1>4. Inside(c.buf, port.buf)
  BY <1>3, InsideSound, ReadUshortInside, InsideTransitive, Zenon
<1>5. Inside(c.buf, next.buf)
  BY <1>4, InsideSound, ReadVarintInside, InsideTransitive, Zenon
<1>6. Inside(c.buf, failed)
  BY <1>5, InsideSound, ErrorRaised, InsideTransitive, Zenon
<1>7. CASE addr.ptr /\ addr.len < 0
  <2>1. handle_handshake(c) = Faulted(c)
    BY <1>7, Zenon DEF handle_handshake
  <2> QED BY <2>1, FaultLeaves
<1>8. CASE ~(addr.ptr /\ addr.len < 0) /\ next.val \in {STATE_STATUS, STATE_LOGIN}
  <2> DEFINE d == [c EXCEPT !.buf = next.buf, !.state = next.val]
  <2>1. handle_handshake(c) = Handled(d, << >>)
    BY <1>8, Zenon DEF handle_handshake
  <2>2. next.val \in States
    <3> HIDE DEF next, addr
    <3> QED BY <1>8 DEF States, STATE_HANDSHAKING, STATE_STATUS, STATE_LOGIN, STATE_PLAY
  <2>3. d \in Conns /\ d.buf = next.buf
    <3>1. next.buf \in Netbufs
      BY <1>5, InsideSound, Zenon
    <3> HIDE DEF next
    <3> QED BY <2>2, <3>1 DEF Conns
  <2>4. handle_handshake(c).conn = d
    <3> HIDE DEF d
    <3> QED BY <2>1 DEF Handled
  <2> QED BY <1>5, <2>3, <2>4, Zenon DEF Leaves
<1>9. CASE ~(addr.ptr /\ addr.len < 0) /\ next.val \notin {STATE_STATUS, STATE_LOGIN}
  <2> DEFINE d == [c EXCEPT !.buf = failed]
  <2>1. handle_handshake(c) = [Handled(d, << >>) EXCEPT !.refused = TRUE]
    BY <1>9, Zenon DEF handle_handshake
  <2>2. d \in Conns /\ d.buf = failed
    BY <1>1, <1>6, InsideSound, ConnFields, ConnUpdated, Zenon
  <2> HIDE DEF d, failed
  <2> QED BY <1>6, <2>1, <2>2 DEF Leaves, Handled
<1> QED BY <1>7, <1>8, <1>9

\* handle_ping reads inside the buffer.
LEMMA PingLeaves ==
  ASSUME NEW c \in Conns, c.buf.offset <= Size(c.buf)
  PROVE  Leaves(c, handle_ping(c))
<1> DEFINE payload == read_varlong[c.buf]
           d == [c EXCEPT !.buf = payload.buf]
<1>1. Inside(c.buf, payload.buf)
  BY ConnFields, ReadVarlongInside, Zenon
<1>2. d \in Conns /\ d.buf = payload.buf
  BY <1>1, InsideSound, ConnFields, ConnUpdated, Zenon
<1>3. handle_ping(c).conn = d
  BY DEF handle_ping, Handled
<1> QED BY <1>1, <1>2, <1>3, Zenon DEF Leaves

\* handle_login_start reads inside the buffer and stores bytes as name and UUID.
LEMMA LoginLeaves ==
  ASSUME NEW c \in Conns, c.buf.offset <= Size(c.buf)
  PROVE  Leaves(c, handle_login_start(c))
<1> DEFINE name == read_string[c.buf]
           joined == [buf |-> name.buf, state |-> STATE_PLAY, player_name |-> name.str,
                      uuid |-> OfflineUuid(name.str)]
<1>1. Inside(c.buf, name.buf) /\ name.str \in Seq(Byte)
  BY ConnFields, ReadStringInside, Zenon
<1>2. joined \in Conns /\ joined.buf = name.buf
  <2>1. name.buf \in Netbufs /\ OfflineUuid(name.str) \in Seq(Byte)
    BY <1>1, InsideSound, NamesAreBytes, Zenon
  <2> HIDE DEF name
  <2> QED BY <1>1, <2>1 DEF Conns, States, STATE_HANDSHAKING, STATE_PLAY
<1>3. handle_login_start(c).conn \in {c, joined}
  BY DEF handle_login_start, Handled, Faulted
<1>4. Leaves(c, Faulted(c))
  BY FaultLeaves
<1> HIDE DEF joined
<1> QED BY <1>1, <1>2, <1>3, <1>4 DEF Leaves, Faulted, Handled

\* Whatever a packet holds, its handler reads inside the buffer and leaves a
\* well-formed connection that owns the same bytes.
LEMMA HandlerLeaves ==
  ASSUME NEW c \in Conns, c.buf.offset <= Size(c.buf)
  PROVE  Leaves(c, handle_packet[c])
<1> DEFINE id == read_varint[c.buf]
           d  == [c EXCEPT !.buf = id.buf]
           r  == handle_packet[c]
<1>1. Inside(c.buf, id.buf)
  BY ConnFields, ReadVarintInside, Zenon
<1>2. d \in Conns /\ d.buf = id.buf /\ d.buf.offset <= Size(d.buf)
  BY <1>1, InsideSound, ConnFields, ConnUpdated, Zenon
<1>3. \/ r = handle_handshake(d) \/ r = handle_status_request(d)
      \/ r = handle_ping(d) \/ r = handle_login_start(d) \/ r = Handled(d, << >>)
  BY DEF handle_packet
<1>4. Leaves(d, Handled(d, << >>)) /\ Leaves(d, handle_status_request(d))
  BY <1>2, ConnFields DEF Leaves, Handled, handle_status_request, Inside
<1>5. Leaves(d, r)
  BY <1>2, <1>3, <1>4, HandshakeLeaves, PingLeaves, LoginLeaves, Zenon
<1> HIDE DEF d, id, r
<1>6. Leaves(c, r)
  BY <1>1, <1>2, <1>5, InsideTransitive, Zenon DEF Leaves
<1> QED BY <1>6 DEF r
-----------------------------------------------------------------------------
(* The buffer of a connection *)

\* What remains after netbuf_compact is what had not been read.
LEMMA CompactKeeps ==
  ASSUME NEW b \in Netbufs, b.offset <= Size(b)
  PROVE  LET c == netbuf_compact(b) IN
         /\ c \in Netbufs /\ c.offset = 0 /\ c.capacity = b.capacity
         /\ c.data = SubSeq(b.data, b.offset + 1, Size(b))
         /\ Size(c) = Size(b) - b.offset
<1> DEFINE rest == SubSeq(b.data, b.offset + 1, Size(b))
           c == netbuf_compact(b)
<1>1. Size(b) \in Nat /\ b.offset \in Nat /\ b.data \in Seq(Byte) /\ Size(b) = Len(b.data)
  BY NetbufFields DEF Size
<1>2. rest \in Seq(Byte) /\ Len(rest) = Size(b) - b.offset
  BY <1>1
<1> HIDE DEF rest
<1>3. c = [b EXCEPT !.data = rest, !.offset = 0]
  BY DEF netbuf_compact, rest
<1> HIDE DEF c
<1>4. c \in Netbufs /\ c.offset = 0 /\ c.capacity = b.capacity /\ c.data = rest
  BY <1>2, <1>3 DEF Netbufs
<1>5. Size(c) = Size(b) - b.offset
  BY <1>2, <1>4 DEF Size
<1> QED BY <1>4, <1>5 DEF c, rest

\* The types of all variables but the packets', which depend on the session
\* (Queues, below).
StateTyped ==
  /\ stream \in Seq(Byte) /\ unsent \in Seq(Byte) /\ net \in Seq(Byte)
  /\ peer \in {"open", "shut", "reset", "broken"} /\ edge \in BOOLEAN
  /\ pc \in {"wait", "recv", "parse", "send", "closed", "fault", "killed"}
  /\ conn \in Conns /\ done \in Nat /\ refused \in BOOLEAN

\* The strengthening: in_buf never shrinks below its first capacity, so that
\* one doubling makes the room the recv loop asks for.
CapacityKept == INIT_CAPACITY <= conn.buf.capacity
IInv == StateTyped /\ BufferSound /\ CapacityKept

\* Making room keeps the bytes and the offset and never shrinks the buffer.
LEMMA MadeRoom ==
  ASSUME IInv, NEW b \in MakeRoom
  PROVE  /\ b \in Netbufs /\ b.data = conn.buf.data /\ b.offset = conn.buf.offset
         /\ conn.buf.capacity <= b.capacity
<1> DEFINE a == conn.buf
           needed == Size(a) + MIN_SPACE
           cap == Doubled(a.capacity, needed)
<1>1. a \in Netbufs /\ Size(a) \in Nat /\ a.capacity \in Nat /\ a.data \in Seq(Byte)
      /\ a.offset \in Nat /\ a.error \in BOOLEAN
  BY ConnFields, NetbufFields DEF IInv, StateTyped
<1>2. Size(a) <= a.capacity /\ MIN_SPACE \in Nat /\ MIN_SPACE <= a.capacity
  BY <1>1, ConnectionAssumption DEF IInv, BufferSound, CapacityKept
<1>3. \/ b = a
      \/ b = [a EXCEPT !.error = TRUE]
      \/ ~(needed <= a.capacity) /\ b = [a EXCEPT !.capacity = cap]
  <2>1. MakeRoom \in {netbuf_expand(a, MIN_SPACE, ALLOC_FAILS), {a}}
    BY DEF MakeRoom
  <2>2. b \in netbuf_expand(a, MIN_SPACE, ALLOC_FAILS) \/ b = a
    BY <2>1
  <2> HIDE DEF a
  <2> QED BY <2>2, Zenon DEF netbuf_expand
<1>4. CASE b = a
  BY <1>1, <1>4
<1>5. CASE b = [a EXCEPT !.error = TRUE]
  <2>1. a.offset <= Size(a)
    BY DEF IInv, BufferSound
  <2> HIDE DEF a
  <2>2. Inside(a, b) /\ b.offset = a.offset
    BY <1>1, <1>5, <2>1, ErrorRaised
  <2>3. b \in Netbufs /\ b.data = a.data /\ b.offset = a.offset /\ a.capacity <= b.capacity
    BY <1>1, <2>2 DEF Inside
  <2> QED BY <2>3 DEF a
<1>6. CASE ~(needed <= a.capacity) /\ b = [a EXCEPT !.capacity = cap]
  <2> HIDE DEF a
  <2>1. needed \in Nat /\ a.capacity < needed /\ needed <= 2 * a.capacity
    BY <1>1, <1>2, <1>6
  <2> HIDE DEF needed
  <2>2. cap \in Nat /\ a.capacity <= cap
    BY <1>1, <2>1, DoubledHolds
  <2> HIDE DEF cap
  <2>3. b \in Netbufs /\ b.data = a.data /\ b.offset = a.offset /\ a.capacity <= b.capacity
    BY <1>1, <1>6, <2>2 DEF Netbufs
  <2> QED BY <2>3 DEF a
<1> QED BY <1>3, <1>4, <1>5, <1>6

\* The frame at the offset lies in the buffer.
LEMMA FrameInside ==
  ASSUME IInv
  PROVE  /\ Inside(conn.buf, Prefix.buf) /\ conn.buf.offset <= Prefix.buf.offset
         /\ Prefix.buf.offset \in Nat
         /\ FrameComplete => /\ FrameEnd \in Nat /\ FrameEnd <= Size(conn.buf)
                             /\ Prefix.buf.offset <= FrameEnd
<1> DEFINE a == conn.buf
           clean == [a EXCEPT !.error = FALSE]
<1>1. a \in Netbufs /\ Size(a) \in Nat /\ a.offset \in Nat /\ a.offset <= Size(a)
  BY ConnFields, NetbufFields DEF IInv, StateTyped, BufferSound
<1>2. Inside(a, clean) /\ clean.offset = a.offset
  <2> HIDE DEF a
  <2> QED BY <1>1 DEF Inside, Netbufs, Size
<1>3. Inside(clean, Prefix.buf) /\ clean.offset <= Prefix.buf.offset
  BY <1>2, InsideSound, ReadVarintInside, Zenon DEF Prefix
<1> HIDE DEF clean
<1>4. Inside(a, Prefix.buf) /\ a.offset <= Prefix.buf.offset
  BY <1>2, <1>3, InsideTransitive
<1>5. Prefix.buf.offset \in Nat
  BY <1>4, InsideSound, NetbufFields
<1>6. ASSUME FrameComplete
      PROVE  FrameEnd \in Nat /\ FrameEnd <= Size(a) /\ Prefix.buf.offset <= FrameEnd
  <2> DEFINE o == Prefix.buf.offset
             v == Prefix.val
  <2>1. v \in 0 .. Size(a) - o
    BY <1>6 DEF FrameComplete
  <2>2. FrameEnd = o + v /\ o \in Nat
    BY <1>5 DEF FrameEnd
  <2> HIDE DEF o, v, a
  <2>3. FrameEnd \in Nat /\ FrameEnd <= Size(a) /\ o <= FrameEnd
    BY <1>1, <2>1, <2>2
  <2> QED BY <2>3 DEF o
<1> QED BY <1>4, <1>5, <1>6
-----------------------------------------------------------------------------
(* Type correctness and soundness of in_buf *)

\* The three conjuncts of IInv, as facts about in_buf's fields.
LEMMA InvFields ==
  ASSUME IInv
  PROVE  /\ conn \in Conns /\ conn.buf \in Netbufs
         /\ Size(conn.buf) \in Nat /\ conn.buf.offset \in Nat /\ conn.buf.capacity \in Nat
         /\ conn.buf.offset <= Size(conn.buf) /\ Size(conn.buf) <= conn.buf.capacity
         /\ INIT_CAPACITY <= conn.buf.capacity
BY ConnFields, NetbufFields DEF IInv, StateTyped, BufferSound, CapacityKept

\* A step that gives the connection a buffer of the same capacity, with the
\* offset inside, keeps the conjuncts about the buffer.
LEMMA BufferReplaced ==
  ASSUME IInv, NEW b \in Netbufs, conn' \in Conns, conn'.buf = b,
         b.offset <= Size(b), Size(b) <= b.capacity, conn.buf.capacity <= b.capacity
  PROVE  BufferSound' /\ CapacityKept'
<1>1. INIT_CAPACITY <= conn.buf.capacity /\ conn.buf.capacity \in Nat /\ b.capacity \in Nat
  BY InvFields, NetbufFields
<1>2. INIT_CAPACITY <= b.capacity
  BY <1>1, ConnectionAssumption
<1> QED BY <1>2 DEF BufferSound, CapacityKept, Size

\* The initial buffer is empty and has the first capacity.
LEMMA InitInv == Init => IInv
<1> SUFFICES ASSUME Init PROVE IInv
  OBVIOUS
<1>1. netbuf_new(INIT_CAPACITY) \in Netbufs
  BY ConnectionAssumption DEF netbuf_new, Netbufs
<1>2. conn \in Conns
  BY <1>1 DEF Init, Conns, States, STATE_HANDSHAKING, STATE_PLAY
<1>3. stream \in Seq(Byte) /\ unsent \in Seq(Byte) /\ net \in Seq(Byte)
  BY ConnectionAssumption DEF Init
<1>6. StateTyped
  BY <1>2, <1>3 DEF Init, StateTyped
<1>4. conn.buf = netbuf_new(INIT_CAPACITY)
  BY DEF Init
<1>5. BufferSound /\ CapacityKept
  BY <1>4, ConnectionAssumption DEF BufferSound, CapacityKept, netbuf_new, Size
<1> QED BY <1>6, <1>5 DEF IInv

\* The client and the network do not touch the connection.
LEMMA ClientInv == IInv /\ Client => IInv'
<1> SUFFICES ASSUME IInv, Client PROVE IInv'
  OBVIOUS
<1>1. UNCHANGED <<stream, pc, conn, sendq, done, refused>>
  BY DEF Client, Deliver, Shut, Reset, serverVars, history
<1>2. unsent' \in Seq(Byte) /\ net' \in Seq(Byte) /\ edge' \in BOOLEAN
      /\ peer' \in {"open", "shut", "reset", "broken"}
  <2>1. CASE Deliver
    <3>1. PICK k \in 1 .. Len(unsent) :
            /\ net' = net \o SubSeq(unsent, 1, k)
            /\ unsent' = SubSeq(unsent, k + 1, Len(unsent))
      BY <2>1 DEF Deliver
    <3>2. unsent \in Seq(Byte) /\ net \in Seq(Byte)
      BY DEF IInv, StateTyped
    <3>3. SubSeq(unsent, 1, k) \in Seq(Byte) /\ SubSeq(unsent, k + 1, Len(unsent)) \in Seq(Byte)
      BY <3>2
    <3>4. net' \in Seq(Byte) /\ unsent' \in Seq(Byte)
      BY <3>1, <3>2, <3>3
    <3> QED BY <2>1, <3>4 DEF Deliver, IInv, StateTyped
  <2>2. CASE Shut
    BY <2>2 DEF Shut, IInv, StateTyped
  <2>3. CASE Reset
    BY <2>3 DEF Reset, IInv, StateTyped
  <2> QED BY <2>1, <2>2, <2>3 DEF Client
<1>3. StateTyped'
  BY <1>1, <1>2 DEF IInv, StateTyped
<1>4. BufferSound' /\ CapacityKept'
  BY <1>1 DEF IInv, BufferSound, CapacityKept, Size
<1> QED BY <1>3, <1>4 DEF IInv

\* A recv appends at most what there is room for.
LEMMA RecvBytesInv == IInv /\ RecvBytes => IInv'
<1> SUFFICES ASSUME IInv, RecvBytes PROVE IInv'
  OBVIOUS
<1>1. PICK b \in MakeRoom :
        LET n == Min({Room(b), Len(net)})
        IN  /\ ~BreaksOut(b) /\ Room(b) > 0
            /\ conn' = [conn EXCEPT !.buf = [b EXCEPT !.data = @ \o SubSeq(net, 1, n)]]
            /\ net' = SubSeq(net, n + 1, Len(net))
  BY DEF RecvBytes
<1> DEFINE n == Min({Room(b), Len(net)})
           data == b.data \o SubSeq(net, 1, n)
           c == [b EXCEPT !.data = data]
<1>2. /\ b \in Netbufs /\ b.data = conn.buf.data /\ b.offset = conn.buf.offset
      /\ conn.buf.capacity <= b.capacity
  BY MadeRoom
<1>3. /\ net \in Seq(Byte) /\ b.data \in Seq(Byte) /\ b.offset \in Nat /\ b.capacity \in Nat
      /\ Size(b) = Len(b.data) /\ Size(conn.buf) = Size(b)
  BY <1>2, NetbufFields DEF IInv, StateTyped, Size
<1>4. n \in {Room(b), Len(net)} /\ n <= Room(b) /\ n <= Len(net)
  <2>1. {Room(b), Len(net)} \in SUBSET Nat
    BY <1>1, <1>3 DEF Room
  <2> QED BY <2>1, MinNat
<1>5. n \in 0 .. Len(net) /\ Len(b.data) + n <= b.capacity
  BY <1>1, <1>3, <1>4, SMTT(20) DEF Room
<1>6. /\ conn' = [conn EXCEPT !.buf = c] /\ net' = SubSeq(net, n + 1, Len(net))
  BY <1>1
<1> HIDE DEF n
<1>7. /\ data \in Seq(Byte) /\ Len(data) = Len(b.data) + n
      /\ SubSeq(net, n + 1, Len(net)) \in Seq(Byte)
  <2>1. SubSeq(net, 1, n) \in Seq(Byte) /\ Len(SubSeq(net, 1, n)) = n
    BY <1>3, <1>5
  <2>2. SubSeq(net, n + 1, Len(net)) \in Seq(Byte)
    BY <1>3, <1>5
  <2> QED BY <1>3, <2>1, <2>2
<1> HIDE DEF data
<1>8. c \in Netbufs /\ c.data = data /\ c.offset = b.offset /\ c.capacity = b.capacity
  BY <1>2, <1>7 DEF Netbufs
<1> HIDE DEF c
<1>9. conn' \in Conns /\ conn'.buf = c
  BY <1>6, <1>8, InvFields, ConnUpdated
<1>10. StateTyped'
  <2>1. UNCHANGED <<stream, unsent, peer, edge, pc, done, refused>>
    BY DEF RecvBytes, history
  <2>2. net' \in Seq(Byte)
    BY <1>6, <1>7
  <2> QED BY <1>9, <2>1, <2>2 DEF IInv, StateTyped
<1>11. c.offset <= Size(c) /\ Size(c) <= c.capacity
  BY <1>2, <1>3, <1>5, <1>7, <1>8, InvFields DEF Size
<1>12. BufferSound' /\ CapacityKept'
  BY <1>2, <1>8, <1>9, <1>11, BufferReplaced
<1> QED BY <1>10, <1>12 DEF IInv

\* Ending the recv loop with room made, or with a failed expansion.
LEMMA RecvStopsInv == IInv /\ (RecvAgain \/ RecvBreak) => IInv'
<1> SUFFICES ASSUME IInv, RecvAgain \/ RecvBreak PROVE IInv'
  OBVIOUS
<1>1. PICK b \in MakeRoom : conn' = [conn EXCEPT !.buf = b]
  BY DEF RecvAgain, RecvBreak
<1>2. /\ b \in Netbufs /\ b.data = conn.buf.data /\ b.offset = conn.buf.offset
      /\ conn.buf.capacity <= b.capacity
  BY MadeRoom
<1>3. conn' \in Conns /\ conn'.buf = b
  BY <1>1, <1>2, InvFields, ConnUpdated
<1>4. StateTyped'
  BY <1>3 DEF RecvAgain, RecvBreak, clientVars, history, IInv, StateTyped
<1>5. b.capacity \in Nat /\ Size(b) = Size(conn.buf)
  BY <1>2, NetbufFields DEF Size
<1>6. b.offset <= Size(b) /\ Size(b) <= b.capacity
  BY <1>2, <1>5, InvFields
<1>7. BufferSound' /\ CapacityKept'
  BY <1>2, <1>3, <1>6, BufferReplaced
<1> QED BY <1>4, <1>7 DEF IInv

\* An incomplete frame is left for later: the offset goes back to its start.
LEMMA FrameIncompleteInv == IInv /\ FrameIncomplete => IInv'
<1> SUFFICES ASSUME IInv, FrameIncomplete PROVE IInv'
  OBVIOUS
<1> DEFINE b == [Prefix.buf EXCEPT !.offset = conn.buf.offset]
           c == netbuf_compact(b)
<1>1. Inside(conn.buf, Prefix.buf) /\ Prefix.buf \in Netbufs /\ Size(Prefix.buf) = Size(conn.buf)
  BY FrameInside, InsideSound
<1>2. Inside(Prefix.buf, b) /\ b.offset = conn.buf.offset
  BY <1>1, InvFields, OffsetAssigned, Zenon
<1> HIDE DEF b
<1>3. b \in Netbufs /\ b.offset <= Size(b) /\ Size(b) = Size(conn.buf)
      /\ b.capacity = conn.buf.capacity
  BY <1>1, <1>2, InsideSound DEF Inside
<1>4. c \in Netbufs /\ c.offset = 0 /\ c.capacity = b.capacity /\ Size(c) = Size(b) - b.offset
  BY <1>3, CompactKeeps
<1>5. conn' = [conn EXCEPT !.buf = c]
  BY DEF FrameIncomplete, b
<1> HIDE DEF c
<1>6. conn' \in Conns /\ conn'.buf = c
  BY <1>4, <1>5, InvFields, ConnUpdated
<1>7. StateTyped'
  BY <1>6 DEF FrameIncomplete, clientVars, history, IInv, StateTyped
<1>8. c.offset <= Size(c) /\ Size(c) <= c.capacity /\ conn.buf.capacity <= c.capacity
  BY <1>2, <1>3, <1>4, InvFields
<1>9. BufferSound' /\ CapacityKept'
  BY <1>4, <1>6, <1>8, BufferReplaced
<1> QED BY <1>7, <1>9 DEF IInv

\* A handled frame: the connection is the handler's, the offset the frame's end.
LEMMA HandleFrameInv == IInv /\ HandleFrame => IInv'
<1> SUFFICES ASSUME IInv, HandleFrame PROVE IInv'
  OBVIOUS
<1> DEFINE c == [conn EXCEPT !.buf = Prefix.buf]
           r == Reply
           b == Align(r.conn.buf, FrameEnd)
<1>1. Inside(conn.buf, Prefix.buf) /\ Prefix.buf \in Netbufs
  BY FrameInside, InsideSound
<1>2. c \in Conns /\ c.buf = Prefix.buf /\ c.buf.offset <= Size(c.buf)
  BY <1>1, InvFields, InsideSound, ConnUpdated, Zenon
<1>3. Leaves(c, r)
  BY <1>2, HandlerLeaves, Zenon DEF Reply
<1>4. Inside(conn.buf, r.conn.buf) /\ r.conn \in Conns
  BY <1>1, <1>2, <1>3, InsideTransitive, Zenon DEF Leaves
<1>5. FrameEnd \in Nat /\ FrameEnd <= Size(conn.buf) /\ conn.buf.offset <= FrameEnd
  BY FrameInside, InvFields DEF HandleFrame
<1>6. conn' = [r.conn EXCEPT !.buf = b] /\ refused' \in BOOLEAN
  BY DEF HandleFrame, Align, IInv, StateTyped
<1>7. refused' \in BOOLEAN
  BY <1>6
<1> HIDE DEF r, c
<1>8. r.conn.buf \in Netbufs /\ Size(r.conn.buf) = Size(conn.buf)
      /\ r.conn.buf.capacity = conn.buf.capacity
  BY <1>4, InsideSound DEF Inside
<1>9. Inside(r.conn.buf, b) /\ b.offset = FrameEnd
  BY <1>5, <1>8, OffsetAssigned DEF Align
<1>10. b \in Netbufs /\ Size(b) = Size(conn.buf) /\ b.capacity = conn.buf.capacity
  BY <1>8, <1>9, InsideSound DEF Inside
<1> HIDE DEF b
<1>11. conn' \in Conns /\ conn'.buf = b
  BY <1>4, <1>6, <1>10, ConnUpdated
<1>12. done' \in Nat
  <2>1. done' = done + (conn'.buf.offset - conn.buf.offset) /\ done \in Nat
    BY DEF HandleFrame, IInv, StateTyped
  <2> QED BY <1>5, <1>9, <1>11, <2>1, InvFields
<1>13. StateTyped'
  BY <1>7, <1>11, <1>12 DEF HandleFrame, clientVars, IInv, StateTyped
<1>14. b.offset <= Size(b) /\ Size(b) <= b.capacity /\ conn.buf.capacity <= b.capacity
  BY <1>5, <1>9, <1>10, InvFields
<1>15. BufferSound' /\ CapacityKept'
  BY <1>10, <1>11, <1>14, BufferReplaced
<1> QED BY <1>13, <1>15 DEF IInv

\* Back to the loop, or to epoll with the buffer compacted.
LEMMA NextFrameInv == IInv /\ NextFrame => IInv'
<1> SUFFICES ASSUME IInv, NextFrame PROVE IInv'
  OBVIOUS
<1>1. CASE UNCHANGED conn
  <2>1. StateTyped'
    BY <1>1 DEF NextFrame, clientVars, history, IInv, StateTyped
  <2> QED BY <1>1, <2>1 DEF IInv, BufferSound, CapacityKept, Size
<1>2. CASE conn' = [conn EXCEPT !.buf = netbuf_compact(conn.buf)]
  <2> DEFINE c == netbuf_compact(conn.buf)
  <2>1. c \in Netbufs /\ c.offset = 0 /\ c.capacity = conn.buf.capacity
        /\ Size(c) = Size(conn.buf) - conn.buf.offset
    BY InvFields, CompactKeeps
  <2> HIDE DEF c
  <2>2. conn' \in Conns /\ conn'.buf = c
    BY <1>2, <2>1, InvFields, ConnUpdated DEF c
  <2>3. StateTyped'
    BY <2>2 DEF NextFrame, clientVars, history, IInv, StateTyped
  <2>4. c.offset <= Size(c) /\ Size(c) <= c.capacity /\ conn.buf.capacity <= c.capacity
    BY <2>1, InvFields
  <2>5. BufferSound' /\ CapacityKept'
    BY <2>1, <2>2, <2>4, BufferReplaced
  <2> QED BY <2>3, <2>5 DEF IInv
<1> QED BY <1>1, <1>2 DEF NextFrame

\* Every step of the system keeps the invariant.
LEMMA StepInv == IInv /\ [Next]_vars => IInv'
<1> SUFFICES ASSUME IInv, [Next]_vars PROVE IInv'
  OBVIOUS
<1>1. CASE Client
  BY <1>1, ClientInv
<1>2. CASE PollDisconnect \/ PollReadable \/ PollNothing \/ RecvEnd \/ HandlerFaults \/ Send
  <2>1. StateTyped' /\ UNCHANGED conn
    BY <1>2 DEF PollDisconnect, PollReadable, PollNothing, RecvEnd, HandlerFaults, Send,
                clientVars, history, IInv, StateTyped
  <2> QED BY <2>1 DEF IInv, BufferSound, CapacityKept, Size
<1>3. CASE RecvBytes
  BY <1>3, RecvBytesInv
<1>4. CASE RecvAgain \/ RecvBreak
  BY <1>4, RecvStopsInv
<1>5. CASE FrameIncomplete
  BY <1>5, FrameIncompleteInv
<1>6. CASE HandleFrame
  BY <1>6, HandleFrameInv
<1>7. CASE NextFrame
  BY <1>7, NextFrameInv
<1>8. CASE UNCHANGED vars
  <2>1. StateTyped' /\ UNCHANGED conn
    BY <1>8 DEF vars, clientVars, serverVars, history, IInv, StateTyped
  <2> QED BY <2>1 DEF IInv, BufferSound, CapacityKept, Size
<1> QED BY <1>1, <1>2, <1>3, <1>4, <1>5, <1>6, <1>7, <1>8 DEF Next, Server

\* The strengthened invariant, on which the theorems about Connection rest,
\* holds in every state that process_client_packets and the client can reach.
THEOREM Invariance == Spec => []IInv
BY InitInv, StepInv, PTL DEF Spec

\* in_buf is sound for every stream, segmentation, capacity and allocation
\* failure: nothing is read below, or received above, what it owns
\* (main.c:77-97, netbuf.c:30-56, 81-90).
THEOREM BufferSafe == Spec => []BufferSound
<1>1. IInv => BufferSound
  BY DEF IInv
<1> QED BY <1>1, Invariance, PTL
-----------------------------------------------------------------------------
(* recv is never asked for nothing *)

\* "Ensure at least 128 bytes of remaining space" (main.c:76): unless the loop
\* breaks out, there is room for MIN_SPACE bytes when recv is called.
LEMMA RoomEnsured ==
  ASSUME IInv, NEW b \in MakeRoom, ~BreaksOut(b)
  PROVE  Room(b) >= MIN_SPACE
<1> DEFINE a == conn.buf
           needed == Size(a) + MIN_SPACE
           cap == Doubled(a.capacity, needed)
<1>1. a \in Netbufs /\ Size(a) \in Nat /\ a.capacity \in Nat
      /\ Size(a) <= a.capacity /\ MIN_SPACE \in Nat /\ MIN_SPACE <= a.capacity
  <2>1. INIT_CAPACITY <= a.capacity /\ a.capacity \in Nat
    BY InvFields
  <2> QED BY <2>1, InvFields, ConnectionAssumption
<1>2. CASE ~NeedsRoom
  <2>1. b = a /\ ~(a.capacity - Size(a) < MIN_SPACE)
    BY <1>2 DEF MakeRoom, NeedsRoom
  <2> QED BY <1>1, <2>1 DEF Room
<1>3. CASE NeedsRoom
  <2>1. b \in netbuf_expand(a, MIN_SPACE, ALLOC_FAILS) /\ ~b.error /\ a.capacity - Size(a) < MIN_SPACE
    BY <1>3 DEF MakeRoom, NeedsRoom, BreaksOut
  <2>2. a.capacity < needed /\ needed <= 2 * a.capacity /\ needed \in Nat
    BY <1>1, <2>1
  <2>3. ~(needed <= a.capacity)
    BY <1>1, <2>2
  <2>4. b \in {[a EXCEPT !.capacity = cap], [a EXCEPT !.error = TRUE]}
    <3> HIDE DEF a
    <3> QED BY <2>1, <2>3, Zenon DEF netbuf_expand
  <2>5. [a EXCEPT !.error = TRUE].error
    BY <1>1 DEF Netbufs
  <2>6. b = [a EXCEPT !.capacity = cap]
    BY <2>1, <2>4, <2>5
  <2>7. cap \in Nat /\ needed <= cap
    BY <1>1, <2>2, DoubledHolds
  <2> HIDE DEF cap, a
  <2>8. b.capacity = cap /\ b.data = a.data
    BY <1>1, <2>6 DEF Netbufs
  <2> QED BY <1>1, <2>7, <2>8 DEF Room, Size
<1> QED BY <1>2, <1>3

\* The server hangs up only on a client that has left: recv returns 0 for the
\* end of the stream and never for want of room (main.c:76-95, 178-180).
THEOREM HangsUpRightly == Spec => []HangsUpOnlyOnDeparture
<1>1. Init => HangsUpOnlyOnDeparture
  BY DEF Init, HangsUpOnlyOnDeparture
<1>2. IInv /\ HangsUpOnlyOnDeparture /\ [Next]_vars => HangsUpOnlyOnDeparture'
  <2> SUFFICES ASSUME IInv, HangsUpOnlyOnDeparture, [Next]_vars, pc' = "closed"
               PROVE  peer' # "open"
    BY DEF HangsUpOnlyOnDeparture
  <2>1. CASE RecvEnd
    <3>1. PICK b \in MakeRoom : ~BreaksOut(b) /\ (Room(b) = 0 \/ (net = << >> /\ peer # "open"))
      BY <2>1 DEF RecvEnd
    <3>2. Room(b) >= MIN_SPACE
      BY <3>1, RoomEnsured
    <3>3. peer # "open"
      BY <3>1, <3>2, ConnectionAssumption
    <3> QED BY <2>1, <3>3 DEF RecvEnd, clientVars
  <2>2. CASE PollDisconnect
    BY <2>2 DEF PollDisconnect
  <2>3. CASE UNCHANGED vars
    BY <2>3 DEF vars, clientVars, serverVars, HangsUpOnlyOnDeparture
  <2>4. CASE Client
    BY <2>4 DEF Client, Deliver, Shut, Reset, serverVars, Live
  <2>5. CASE \/ PollReadable \/ PollNothing \/ RecvBytes \/ RecvAgain \/ RecvBreak
             \/ FrameIncomplete \/ HandleFrame \/ HandlerFaults \/ Send \/ NextFrame
    BY <2>5 DEF PollReadable, PollNothing, RecvBytes, RecvAgain, RecvBreak,
                FrameIncomplete, HandleFrame, HandlerFaults, Send, NextFrame
  <2> QED BY <2>1, <2>2, <2>3, <2>4, <2>5 DEF Next, Server
<1> QED BY <1>1, <1>2, Invariance, PTL DEF Spec

\* What is left of s behind its first i elements.
Rest(s, i) == SubSeq(s, i + 1, Len(s))

-----------------------------------------------------------------------------
(* The byte stream: remainders of sequences *)

\* The length and the elements of a remainder.
LEMMA RestIs ==
  ASSUME NEW S, NEW s \in Seq(S), NEW i \in 0 .. Len(s)
  PROVE  /\ Rest(s, i) \in Seq(S) /\ Len(Rest(s, i)) = Len(s) - i
         /\ \A j \in 1 .. Len(s) - i : Rest(s, i)[j] = s[i + j]
<1> DEFINE m == i + 1
           n == Len(s)
<1>1. \A j \in m .. n : s[j] \in S
  BY ElementOfSeq
<1>2. m \in Int /\ n \in Int /\ n - m + 1 = n - i /\ (m <= n <=> i < n) /\ i \in Nat
  BY LenProperties
<1> HIDE DEF m, n
<1>3. /\ SubSeq(s, m, n) \in Seq(S)
      /\ Len(SubSeq(s, m, n)) = IF m <= n THEN n - m + 1 ELSE 0
      /\ \A j \in 1 .. n - m + 1 : SubSeq(s, m, n)[j] = s[m + j - 1]
  BY <1>1, <1>2, SubSeqProperties
<1>4. i <= n /\ m = i + 1
  BY <1>2 DEF m, n
<1>5. Len(SubSeq(s, m, n)) = n - i
  BY <1>2, <1>3, <1>4
<1>6. ASSUME NEW j \in 1 .. n - i PROVE SubSeq(s, m, n)[j] = s[i + j]
  <2>1. j \in 1 .. n - m + 1 /\ m + j - 1 = i + j
    BY <1>2, <1>4
  <2> QED BY <1>3, <2>1, Zenon
<1> QED BY <1>3, <1>5, <1>6 DEF Rest, m, n

\* Dropping in two steps is dropping at once.
LEMMA RestOfRest ==
  ASSUME NEW S, NEW s \in Seq(S), NEW i \in 0 .. Len(s), NEW d \in 0 .. Len(s) - i
  PROVE  Rest(Rest(s, i), d) = Rest(s, i + d)
<1> DEFINE r == Rest(s, i)
<1>1. /\ r \in Seq(S) /\ Len(r) = Len(s) - i /\ Len(s) \in Nat
      /\ \A j \in 1 .. Len(s) - i : r[j] = s[i + j]
  BY RestIs, LenProperties
<1> HIDE DEF r
<1>2. i + d \in 0 .. Len(s) /\ d \in 0 .. Len(r)
  BY <1>1
<1>3. /\ Rest(r, d) \in Seq(S) /\ Len(Rest(r, d)) = Len(r) - d
      /\ \A j \in 1 .. Len(r) - d : Rest(r, d)[j] = r[d + j]
  BY <1>1, <1>2, RestIs, ZenonT(30)
<1>4. /\ Rest(s, i + d) \in Seq(S) /\ Len(Rest(s, i + d)) = Len(s) - (i + d)
      /\ \A j \in 1 .. Len(s) - (i + d) : Rest(s, i + d)[j] = s[(i + d) + j]
  BY <1>2, RestIs
<1>5. Len(Rest(r, d)) = Len(Rest(s, i + d))
  <2>1. Len(r) = Len(s) - i /\ Len(s) \in Nat
    BY <1>1
  <2>2. Len(Rest(r, d)) = Len(r) - d /\ Len(Rest(s, i + d)) = Len(s) - (i + d)
    BY <1>3, <1>4, Zenon
  <2>3. (Len(s) - i) - d = Len(s) - (i + d)
    BY <2>1
  <2> QED BY <2>1, <2>2, <2>3, Zenon
<1>6. ASSUME NEW j \in 1 .. Len(Rest(r, d)) PROVE Rest(r, d)[j] = Rest(s, i + d)[j]
  <2>1. j \in 1 .. Len(r) - d /\ d + j \in 1 .. Len(s) - i /\ j \in 1 .. Len(s) - (i + d)
        /\ i + (d + j) = (i + d) + j
    BY <1>1, <1>3
  <2>2. Rest(r, d)[j] = r[d + j] /\ r[d + j] = s[i + (d + j)]
    BY <1>1, <1>3, <2>1, Zenon
  <2>3. Rest(s, i + d)[j] = s[(i + d) + j]
    BY <1>4, <2>1, Zenon
  <2> QED BY <2>1, <2>2, <2>3, Zenon
<1>7. Rest(r, d) = Rest(s, i + d)
  BY <1>3, <1>4, <1>5, <1>6, SeqEqual
<1> QED BY <1>7 DEF r

\* Dropping from the first of two sequences leaves the second alone.
LEMMA RestOfConcat ==
  ASSUME NEW S, NEW s \in Seq(S), NEW t \in Seq(S), NEW i \in 0 .. Len(s)
  PROVE  Rest(s \o t, i) = Rest(s, i) \o t
<1> DEFINE c == s \o t
           r == Rest(s, i)
<1>1. /\ c \in Seq(S) /\ Len(c) = Len(s) + Len(t) /\ Len(s) \in Nat /\ Len(t) \in Nat
      /\ \A j \in 1 .. Len(s) + Len(t) : c[j] = IF j <= Len(s) THEN s[j] ELSE t[j - Len(s)]
  BY ConcatProperties, LenProperties
<1>2. /\ r \in Seq(S) /\ Len(r) = Len(s) - i
      /\ \A j \in 1 .. Len(s) - i : r[j] = s[i + j]
  BY RestIs
<1> HIDE DEF c, r
<1>3. i \in 0 .. Len(c)
  BY <1>1
<1>4. /\ Rest(c, i) \in Seq(S) /\ Len(Rest(c, i)) = Len(c) - i
      /\ \A j \in 1 .. Len(c) - i : Rest(c, i)[j] = c[i + j]
  BY <1>1, <1>3, RestIs, ZenonT(30)
<1>5. /\ r \o t \in Seq(S) /\ Len(r \o t) = Len(r) + Len(t)
      /\ \A j \in 1 .. Len(r) + Len(t) : (r \o t)[j] = IF j <= Len(r) THEN r[j] ELSE t[j - Len(r)]
  BY <1>2, ConcatProperties
<1>6. Len(Rest(c, i)) = Len(r \o t)
  BY <1>1, <1>2, <1>4, <1>5
<1>7. ASSUME NEW j \in 1 .. Len(Rest(c, i)) PROVE Rest(c, i)[j] = (r \o t)[j]
  <2>1. /\ j \in 1 .. Len(c) - i /\ i + j \in 1 .. Len(s) + Len(t) /\ j \in 1 .. Len(r) + Len(t)
        /\ i + j <= Len(s) <=> j <= Len(r) /\ i + j - Len(s) = j - Len(r)
    BY <1>1, <1>2, <1>4
  <2>2. CASE j <= Len(r)
    BY <1>1, <1>2, <1>4, <1>5, <2>1, <2>2
  <2>3. CASE ~(j <= Len(r))
    BY <1>1, <1>2, <1>4, <1>5, <2>1, <2>3, SMTT(20)
  <2> QED BY <2>2, <2>3
<1>8. Rest(c, i) = r \o t
  BY <1>4, <1>5, <1>6, <1>7, SeqEqual
<1> QED BY <1>8 DEF c, r

\* What has been taken and what is left are the whole.
LEMMA TakenAndRest ==
  ASSUME NEW S, NEW s \in Seq(S), NEW n \in 0 .. Len(s)
  PROVE  /\ SubSeq(s, 1, n) \in Seq(S) /\ Rest(s, n) \in Seq(S)
         /\ SubSeq(s, 1, n) \o Rest(s, n) = s
<1>1. Len(s) \in Nat /\ n \in 1 - 1 .. Len(s) /\ 1 \in 1 .. Len(s) + 1 /\ Len(s) \in n .. Len(s)
  BY LenProperties
<1>2. SubSeq(s, 1, n) \o Rest(s, n) = SubSeq(s, 1, Len(s))
  BY <1>1, ConcatAdjacentSubSeq DEF Rest
<1>3. SubSeq(s, 1, Len(s)) = s
  BY SubSeqFull
<1>4. SubSeq(s, 1, n) \in Seq(S)
  BY <1>1
<1> QED BY <1>2, <1>3, <1>4, RestIs
-----------------------------------------------------------------------------
(* The byte stream: what is behind the frame loop *)

Pending == Rest(conn.buf.data, conn.buf.offset)

\* The strengthening: NoByteLost says what follows `done`, which must itself
\* be a position of the stream.
SInv == NoByteLost /\ done <= Len(stream)

\* The sequences the invariant speaks of.
LEMMA StreamFields ==
  ASSUME IInv
  PROVE  /\ stream \in Seq(Byte) /\ unsent \in Seq(Byte) /\ net \in Seq(Byte)
         /\ conn.buf.data \in Seq(Byte) /\ Pending \in Seq(Byte)
         /\ conn.buf.offset \in 0 .. Len(conn.buf.data) /\ done \in Nat
         /\ Len(Pending) = Len(conn.buf.data) - conn.buf.offset
<1>1. /\ stream \in Seq(Byte) /\ unsent \in Seq(Byte) /\ net \in Seq(Byte) /\ done \in Nat
  BY DEF IInv, StateTyped
<1>2. conn.buf.data \in Seq(Byte) /\ conn.buf.offset \in 0 .. Len(conn.buf.data)
  BY InvFields, NetbufFields DEF Size
<1>3. Pending \in Seq(Byte) /\ Len(Pending) = Len(conn.buf.data) - conn.buf.offset
  BY <1>2, RestIs DEF Pending
<1> QED BY <1>1, <1>2, <1>3

\* NoByteLost in the terms used here.
LEMMA NoByteLostIs == NoByteLost <=> Pending \o net \o unsent = Rest(stream, done)
BY DEF NoByteLost, Pending, Rest, Size

\* A step after which the pending bytes, the kernel's and the unsent ones read
\* the same together, and which passes no frame, keeps the invariant.
LEMMA SameBytes ==
  ASSUME SInv, UNCHANGED <<stream, done>>,
         Pending' \o net' \o unsent' = Pending \o net \o unsent
  PROVE  SInv'
<1>1. Pending \o net \o unsent = Rest(stream, done)
  BY NoByteLostIs DEF SInv
<1>2. Pending' \o net' \o unsent' = Rest(stream', done')
  BY <1>1 DEF Rest
<1>3. NoByteLost'
  BY <1>2 DEF NoByteLost, Pending, Rest, Size
<1> QED BY <1>3 DEF SInv

\* TCP hands over a prefix of what is unsent.
LEMMA DeliverKeeps == IInv /\ SInv /\ Deliver => SInv'
<1> SUFFICES ASSUME IInv, SInv, Deliver PROVE SInv'
  OBVIOUS
<1>1. PICK k \in 1 .. Len(unsent) :
        net' = net \o SubSeq(unsent, 1, k) /\ unsent' = Rest(unsent, k)
  BY DEF Deliver, Rest
<1> DEFINE taken == SubSeq(unsent, 1, k)
<1>2. k \in 0 .. Len(unsent)
  OBVIOUS
<1>3. taken \in Seq(Byte) /\ Rest(unsent, k) \in Seq(Byte) /\ taken \o Rest(unsent, k) = unsent
  BY <1>2, StreamFields, TakenAndRest
<1> HIDE DEF taken
<1>4. Pending \in Seq(Byte) /\ net \in Seq(Byte)
  BY StreamFields
<1>5. Pending \o (net \o taken) = (Pending \o net) \o taken
  BY <1>3, <1>4, Associative, Zenon
<1>6. ((Pending \o net) \o taken) \o Rest(unsent, k) = (Pending \o net) \o (taken \o Rest(unsent, k))
  <2>1. Pending \o net \in Seq(Byte)
    BY <1>4, ConcatProperties
  <2> QED BY <1>3, <2>1, Associative, Zenon
<1>7. Pending' = Pending /\ UNCHANGED <<stream, done>>
  BY DEF Deliver, serverVars, history, Pending, Rest
<1>8. net' = net \o taken /\ unsent' = Rest(unsent, k)
  BY <1>1 DEF taken
<1>9. Pending' \o net' \o unsent' = Pending \o net \o unsent
  BY <1>3, <1>5, <1>6, <1>7, <1>8, Zenon
<1> QED BY <1>7, <1>9, SameBytes

\* A recv moves a prefix of the kernel's bytes behind the pending ones.
LEMMA RecvBytesKeeps == IInv /\ SInv /\ RecvBytes => SInv'
<1> SUFFICES ASSUME IInv, SInv, RecvBytes PROVE SInv'
  OBVIOUS
<1>1. PICK b \in MakeRoom :
        LET n == Min({Room(b), Len(net)})
        IN  /\ ~BreaksOut(b) /\ Room(b) > 0
            /\ conn' = [conn EXCEPT !.buf = [b EXCEPT !.data = @ \o SubSeq(net, 1, n)]]
            /\ net' = SubSeq(net, n + 1, Len(net))
  BY DEF RecvBytes
<1> DEFINE n == Min({Room(b), Len(net)})
           taken == SubSeq(net, 1, n)
           data == b.data \o taken
           c == [b EXCEPT !.data = data]
<1>2. /\ b \in Netbufs /\ b.data = conn.buf.data /\ b.offset = conn.buf.offset
  BY MadeRoom
<1>3. n \in 0 .. Len(net)
  <2>1. Room(b) \in Nat /\ Len(net) \in Nat
    <3>1. Size(b) \in Nat /\ b.capacity \in Nat /\ net \in Seq(Byte) /\ Room(b) > 0
      BY <1>1, <1>2, NetbufFields, StreamFields, Zenon
    <3> QED BY <3>1, LenProperties DEF Room
  <2>2. n \in {Room(b), Len(net)} /\ \A y \in {Room(b), Len(net)} : n <= y
    BY <2>1, MinNat
  <2> HIDE DEF n
  <2> QED BY <2>1, <2>2
<1>4. /\ conn' = [conn EXCEPT !.buf = c] /\ net' = Rest(net, n)
  BY <1>1 DEF Rest
<1> HIDE DEF n
<1>5. /\ taken \in Seq(Byte) /\ Rest(net, n) \in Seq(Byte) /\ taken \o Rest(net, n) = net
  BY <1>3, StreamFields, TakenAndRest
<1> HIDE DEF taken
<1>6. data \in Seq(Byte) /\ b.data \in Seq(Byte)
  BY <1>2, <1>5, NetbufFields, ConcatProperties
<1>7. Rest(data, b.offset) = Rest(b.data, b.offset) \o taken
  BY <1>2, <1>5, <1>6, StreamFields, RestOfConcat
<1> HIDE DEF data
<1>8. c.data = data /\ c.offset = b.offset /\ conn'.buf = c
  <2>1. c \in Netbufs /\ c.data = data /\ c.offset = b.offset
    BY <1>2, <1>6 DEF Netbufs
  <2> HIDE DEF c
  <2>2. conn'.buf = c
    BY <1>4, <2>1, InvFields, ConnUpdated
  <2> QED BY <2>1, <2>2
<1> HIDE DEF c
<1>9. Pending' = Pending \o taken
  <2>1. Pending' = Rest(conn'.buf.data, conn'.buf.offset)
    BY DEF Pending, Rest
  <2> QED BY <1>2, <1>7, <1>8, <2>1, Zenon DEF Pending
<1>10. Pending \in Seq(Byte) /\ net \in Seq(Byte)
  BY StreamFields
<1>11. (Pending \o taken) \o Rest(net, n) = Pending \o (taken \o Rest(net, n))
  BY <1>5, <1>10, Associative, Zenon
<1>12. UNCHANGED <<stream, done, unsent>>
  BY DEF RecvBytes, history
<1>13. Pending' \o net' \o unsent' = Pending \o net \o unsent
  BY <1>4, <1>5, <1>9, <1>11, <1>12, Zenon
<1> QED BY <1>12, <1>13, SameBytes

\* A step that keeps the bytes and the offset of in_buf, or compacts them,
\* keeps what is pending.
LEMMA SamePending ==
  ASSUME IInv, NEW b, b = conn'.buf,
         \/ b.data = conn.buf.data /\ b.offset = conn.buf.offset
         \/ b.data = Rest(conn.buf.data, conn.buf.offset) /\ b.offset = 0
  PROVE  Pending' = Pending
<1> DEFINE data == conn.buf.data
           o == conn.buf.offset
<1>1. Pending' = Rest(b.data, b.offset)
  BY DEF Pending, Rest
<1>2. data \in Seq(Byte) /\ o \in 0 .. Len(data)
  BY StreamFields
<1> HIDE DEF data, o
<1>3. Rest(Rest(data, o), 0) = Rest(data, o)
  <2>1. 0 \in 0 .. Len(data) - o /\ o + 0 = o
    BY <1>2
  <2> QED BY <1>2, <2>1, RestOfRest
<1> QED BY <1>1, <1>3 DEF Pending, data, o

\* Making room, an incomplete frame and compaction pass no byte.
LEMMA QuietKeeps ==
  IInv /\ SInv /\ (RecvAgain \/ RecvBreak \/ FrameIncomplete \/ NextFrame) => SInv'
<1> SUFFICES ASSUME IInv, SInv, RecvAgain \/ RecvBreak \/ FrameIncomplete \/ NextFrame
             PROVE  SInv'
  OBVIOUS
<1>1. Pending' = Pending
  <2>1. CASE RecvAgain \/ RecvBreak
    <3>1. PICK b \in MakeRoom : conn' = [conn EXCEPT !.buf = b]
      BY <2>1 DEF RecvAgain, RecvBreak
    <3>2. b.data = conn.buf.data /\ b.offset = conn.buf.offset /\ b \in Netbufs
      BY MadeRoom
    <3>3. conn'.buf = b
      BY <3>1, <3>2, InvFields, ConnUpdated
    <3> QED BY <3>2, <3>3, SamePending
  <2>2. CASE FrameIncomplete
    <3> DEFINE a == [Prefix.buf EXCEPT !.offset = conn.buf.offset]
    <3>1. Inside(conn.buf, Prefix.buf) /\ Prefix.buf \in Netbufs
          /\ Size(Prefix.buf) = Size(conn.buf)
      BY FrameInside, InsideSound
    <3>2. Inside(Prefix.buf, a) /\ a.offset = conn.buf.offset
      BY <3>1, InvFields, OffsetAssigned, Zenon
    <3>3. a \in Netbufs /\ a.offset <= Size(a) /\ a.data = conn.buf.data
      BY <3>1, <3>2, InsideSound DEF Inside
    <3> HIDE DEF a
    <3>4. /\ netbuf_compact(a) \in Netbufs /\ netbuf_compact(a).offset = 0
          /\ netbuf_compact(a).data = Rest(a.data, a.offset)
      BY <3>3, CompactKeeps DEF Rest, Size
    <3>5. conn'.buf = netbuf_compact(a)
      BY <2>2, <3>4, InvFields, ConnUpdated DEF FrameIncomplete, a
    <3> QED BY <3>2, <3>3, <3>4, <3>5, SamePending, Zenon
  <2>3. CASE NextFrame
    <3>1. CASE UNCHANGED conn
      BY <3>1 DEF Pending, Rest
    <3>2. CASE conn' = [conn EXCEPT !.buf = netbuf_compact(conn.buf)]
      <4>1. /\ netbuf_compact(conn.buf) \in Netbufs /\ netbuf_compact(conn.buf).offset = 0
            /\ netbuf_compact(conn.buf).data = Rest(conn.buf.data, conn.buf.offset)
        BY InvFields, CompactKeeps DEF Rest, Size
      <4>2. conn'.buf = netbuf_compact(conn.buf)
        BY <3>2, <4>1, InvFields, ConnUpdated
      <4> QED BY <4>1, <4>2, SamePending, Zenon
    <3> QED BY <2>3, <3>1, <3>2 DEF NextFrame
  <2> QED BY <2>1, <2>2, <2>3
<1>2. UNCHANGED <<stream, done, net, unsent>>
  BY DEF RecvAgain, RecvBreak, FrameIncomplete, NextFrame, clientVars, history
<1> QED BY <1>1, <1>2, SameBytes

\* A handled frame moves the offset and `done` by the same number of bytes,
\* wherever the handler stopped reading.
LEMMA HandleFrameKeeps == IInv /\ SInv /\ HandleFrame => SInv'
<1> SUFFICES ASSUME IInv, SInv, HandleFrame PROVE SInv'
  OBVIOUS
<1> DEFINE c == [conn EXCEPT !.buf = Prefix.buf]
           r == Reply
           b == Align(r.conn.buf, FrameEnd)
           data == conn.buf.data
           o == conn.buf.offset
           d == FrameEnd - o
           tail == net \o unsent
<1>1. Inside(conn.buf, Prefix.buf) /\ Prefix.buf \in Netbufs
  BY FrameInside, InsideSound
<1>2. c \in Conns /\ c.buf = Prefix.buf /\ c.buf.offset <= Size(c.buf)
  BY <1>1, InvFields, InsideSound, ConnUpdated, Zenon
<1>3. Inside(conn.buf, r.conn.buf) /\ r.conn \in Conns
  <2>1. Leaves(c, r)
    BY <1>2, HandlerLeaves, Zenon DEF Reply
  <2> QED BY <1>1, <1>2, <2>1, InsideTransitive, Zenon DEF Leaves
<1>4. FrameEnd \in Nat /\ FrameEnd <= Size(conn.buf) /\ o <= FrameEnd /\ o \in Nat
  BY FrameInside, InvFields DEF HandleFrame
<1>5. b.data = data /\ b.offset = FrameEnd /\ conn'.buf = b
  <2>1. conn' = [r.conn EXCEPT !.buf = b]
    BY DEF HandleFrame, Align
  <2> HIDE DEF r
  <2>2. r.conn.buf \in Netbufs /\ Size(r.conn.buf) = Size(conn.buf)
    BY <1>3, InsideSound
  <2>3. Inside(r.conn.buf, b) /\ b.offset = FrameEnd
    BY <1>4, <2>2, OffsetAssigned DEF Align
  <2>4. b \in Netbufs /\ b.data = data
    BY <1>3, <2>3, InsideSound DEF Inside
  <2> HIDE DEF b
  <2> QED BY <1>3, <2>1, <2>3, <2>4, ConnUpdated
<1>6. UNCHANGED <<stream, net, unsent>> /\ done' = done + d
  BY <1>5 DEF HandleFrame, clientVars
<1> HIDE DEF b, r, c
<1>7. data \in Seq(Byte) /\ o \in 0 .. Len(data) /\ Size(conn.buf) = Len(data)
      /\ Pending \in Seq(Byte) /\ Len(Pending) = Len(data) - o
      /\ tail \in Seq(Byte) /\ stream \in Seq(Byte) /\ done \in Nat
  <2>1. net \o unsent \in Seq(Byte)
    BY StreamFields, ConcatProperties
  <2> QED BY <2>1, StreamFields DEF Size
<1>8. Pending \o tail = Rest(stream, done) /\ done <= Len(stream)
  <2>1. (Pending \o net) \o unsent = Pending \o (net \o unsent)
    BY StreamFields, Associative, Zenon
  <2> QED BY <2>1, NoByteLostIs DEF SInv
<1>9. Pending' = Rest(data, FrameEnd)
  BY <1>5 DEF Pending, Rest
<1> HIDE DEF tail, data
<1>10. d \in 0 .. Len(data) - o /\ o + d = FrameEnd
  BY <1>4, <1>7
<1> HIDE DEF d
<1>11. Rest(data, FrameEnd) = Rest(Pending, d)
  BY <1>7, <1>10, RestOfRest DEF Pending, data
<1>12. Rest(Pending \o tail, d) = Rest(Pending, d) \o tail
  BY <1>7, <1>10, RestOfConcat
<1>13. done \in 0 .. Len(stream) /\ d \in 0 .. Len(stream) - done
  <2>1. Len(Pending \o tail) = Len(Pending) + Len(tail) /\ Len(tail) \in Nat /\ Len(stream) \in Nat
    BY <1>7, ConcatProperties, LenProperties
  <2>2. done \in 0 .. Len(stream)
    BY <1>7, <1>8, <2>1
  <2>3. Len(Rest(stream, done)) = Len(stream) - done
    BY <1>7, <2>2, RestIs
  <2>4. Len(Pending) + Len(tail) = Len(stream) - done
    BY <1>8, <2>1, <2>3
  <2> QED BY <1>7, <1>10, <2>1, <2>2, <2>4, SMTT(20)
<1>14. Rest(Rest(stream, done), d) = Rest(stream, done + d)
  BY <1>7, <1>13, RestOfRest
<1>15. Pending' \o tail = Rest(stream, done')
  BY <1>6, <1>8, <1>9, <1>10, <1>11, <1>12, <1>14
<1>16. Pending' \o net' \o unsent' = Rest(stream', done')
  <2>1. Pending' \in Seq(Byte)
    BY <1>7, <1>9, <1>11, <1>10, RestIs
  <2>2. (Pending' \o net) \o unsent = Pending' \o (net \o unsent)
    BY <2>1, StreamFields, Associative, Zenon
  <2> QED BY <1>6, <1>15, <2>2 DEF tail
<1>17. NoByteLost'
  BY <1>16 DEF NoByteLost, Pending, Rest, Size
<1>18. done' <= Len(stream')
  BY <1>6, <1>10, <1>13
<1> QED BY <1>17, <1>18 DEF SInv

\* Nothing has been read or passed at first: all of the stream is unsent.
LEMMA InitKeeps == Init => SInv
<1> SUFFICES ASSUME Init PROVE SInv
  OBVIOUS
<1>1. IInv
  BY InitInv
<1>2. /\ conn.buf.data = << >> /\ conn.buf.offset = 0
      /\ net = << >> /\ unsent = stream /\ done = 0
  BY DEF Init, netbuf_new
<1>3. stream \in Seq(Byte) /\ Len(stream) \in Nat
  BY <1>1, StreamFields, LenProperties
<1>4. Pending = << >>
  <2>1. SubSeq(conn.buf.data, 1, 0) = << >>
    BY SubSeqEmpty
  <2> QED BY <1>2, <2>1 DEF Pending, Rest
<1>5. Rest(stream, 0) = stream
  BY <1>3, SubSeqFull DEF Rest
<1>6. Pending \o net \o unsent = Rest(stream, done)
  BY <1>2, <1>3, <1>4, <1>5
<1> QED BY <1>2, <1>3, <1>6, NoByteLostIs DEF SInv

\* Every step of the system keeps the byte stream.
LEMMA StepKeeps == IInv /\ SInv /\ [Next]_vars => SInv'
<1> SUFFICES ASSUME IInv, SInv, [Next]_vars PROVE SInv'
  OBVIOUS
<1>1. CASE Deliver
  BY <1>1, DeliverKeeps
<1>2. CASE RecvBytes
  BY <1>2, RecvBytesKeeps
<1>3. CASE RecvAgain \/ RecvBreak \/ FrameIncomplete \/ NextFrame
  BY <1>3, QuietKeeps
<1>4. CASE HandleFrame
  BY <1>4, HandleFrameKeeps
<1>5. CASE Shut \/ Reset \/ PollDisconnect \/ PollReadable \/ PollNothing \/ RecvEnd
           \/ HandlerFaults \/ Send \/ UNCHANGED vars
  <2>1. UNCHANGED <<stream, done, conn, net, unsent>>
    BY <1>5 DEF Shut, Reset, PollDisconnect, PollReadable, PollNothing, RecvEnd, HandlerFaults, Send,
                vars, clientVars, serverVars, history
  <2>2. UNCHANGED Pending
    BY <2>1 DEF Pending, Rest
  <2> QED BY <2>1, <2>2, SameBytes
<1> QED BY <1>1, <1>2, <1>3, <1>4, <1>5 DEF Next, Client, Server

\* No byte is lost, repeated or reordered between the client and the frame
\* loop, for every stream, segmentation, capacity, departure and allocation
\* failure (recv, "Force align", netbuf_compact, netbuf_expand).
THEOREM StreamKept == Spec => []NoByteLost
<1>1. SInv => NoByteLost
  BY DEF SInv
<1> QED BY <1>1, Invariance, InitKeeps, StepKeeps, PTL DEF Spec

\* The ends of frames are the function that its definition says.
LEMMA FrameEndsAre ==
  ASSUME NEW s, Len(s) \in Nat, NEW j \in 0 .. Len(s)
  PROVE  j \in FrameEnds(s) <=> (j = 0 \/ \E i \in FrameEnds(s) : i < j /\ IsFrame(s, i, j))
<1> DEFINE All == 0 .. Len(s)
           Starts(S, k) == k = 0 \/ \E i \in 0 .. k - 1 : IsFrame(s, i, k) /\ i \in S
           Closed(S) == \A k \in All : Starts(S, k) => k \in S
           Least == {k \in All : \A S \in SUBSET All : Closed(S) => k \in S}
           Is(f) == f = [k \in All |-> k = 0 \/ \E i \in 0 .. k - 1 : IsFrame(s, i, k) /\ f[i]]
           ends == CHOOSE f : Is(f)
           least == [k \in All |-> k \in Least]
<1>1. ASSUME NEW k \in All, Starts(Least, k) PROVE k \in Least
  <2> SUFFICES ASSUME NEW S \in SUBSET All, Closed(S) PROVE k \in S
    OBVIOUS
  <2>1. Starts(S, k)
    BY <1>1
  <2> QED BY <2>1
<1>2. ASSUME NEW k \in Least, ~Starts(Least, k) PROVE FALSE
  <2> DEFINE S == Least \ {k}
  <2>1. S \in SUBSET All
    OBVIOUS
  <2>2. ASSUME NEW m \in All, Starts(S, m) PROVE m \in S
    <3>1. Starts(Least, m)
      BY <2>2
    <3>2. m \in Least
      BY <1>1, <3>1
    <3>3. m # k
      BY <1>2, <3>1
    <3> QED BY <3>2, <3>3
  <2>3. Closed(S)
    BY <2>2
  <2>4. k \in S
    BY <2>1, <2>3
  <2> QED BY <2>4
<1>3. \A k \in All : k \in Least <=> Starts(Least, k)
  BY <1>1, <1>2
<1> HIDE DEF Least
<1>4. Is(least)
  <2>1. ASSUME NEW k \in All
        PROVE  least[k] = (k = 0 \/ \E i \in 0 .. k - 1 : IsFrame(s, i, k) /\ least[i])
    <3>1. \A i \in All : least[i] = (i \in Least)
      OBVIOUS
    <3>2. \A i \in 0 .. k - 1 : i \in All
      OBVIOUS
    <3> HIDE DEF least, All
    <3>3. (\E i \in 0 .. k - 1 : IsFrame(s, i, k) /\ least[i])
            <=> (\E i \in 0 .. k - 1 : IsFrame(s, i, k) /\ i \in Least)
      BY <3>1, <3>2, Zenon
    <3>4. (k \in Least) = (k = 0 \/ \E i \in 0 .. k - 1 : IsFrame(s, i, k) /\ least[i])
      BY <1>3, <3>3
    <3> QED BY <3>1, <3>4, Zenon
  <2> QED BY <2>1
<1>5. Is(ends)
  BY <1>4
<1>6. FrameEnds(s) = {k \in All : ends[k]}
  BY DEF FrameEnds
<1> HIDE DEF ends, Is
<1>7. ends[j] = (j = 0 \/ \E i \in 0 .. j - 1 : IsFrame(s, i, j) /\ ends[i])
  BY <1>5 DEF Is
<1>8. \A i : i \in 0 .. j - 1 <=> i \in All /\ i < j
  OBVIOUS
<1> HIDE DEF All
<1> QED BY <1>6, <1>7, <1>8 DEF All

\* The bytes that are pending are those of the stream behind `done`.
LEMMA PendingInStream ==
  ASSUME IInv, SInv, NEW i \in 1 .. Len(Pending)
  PROVE  /\ done + i \in 1 .. Len(stream)
         /\ stream[done + i] = conn.buf.data[conn.buf.offset + i]
<1> DEFINE tail == net \o unsent
           o == conn.buf.offset
           data == conn.buf.data
<1>1. /\ stream \in Seq(Byte) /\ tail \in Seq(Byte) /\ Pending \in Seq(Byte)
      /\ Len(stream) \in Nat /\ Len(Pending) \in Nat /\ Len(tail) \in Nat
      /\ data \in Seq(Byte) /\ o \in 0 .. Len(data) /\ Len(Pending) = Len(data) - o
  BY StreamFields, ConcatProperties, LenProperties
<1>2. done \in 0 .. Len(stream)
  BY <1>1, StreamFields DEF SInv
<1>3. Pending \o tail = Rest(stream, done)
  <2>1. (Pending \o net) \o unsent = Pending \o (net \o unsent)
    BY StreamFields, Associative, Zenon
  <2> QED BY <2>1, NoByteLostIs DEF SInv
<1> HIDE DEF tail, data, o
<1>4. Len(Pending \o tail) = Len(Pending) + Len(tail) /\ (Pending \o tail)[i] = Pending[i]
  <2>1. i \in 1 .. Len(Pending) + Len(tail) /\ i <= Len(Pending)
    BY <1>1
  <2> QED BY <1>1, <2>1, ConcatProperties
<1>5. Len(Rest(stream, done)) = Len(stream) - done
      /\ \A j \in 1 .. Len(stream) - done : Rest(stream, done)[j] = stream[done + j]
  BY <1>1, <1>2, RestIs
<1>6. i \in 1 .. Len(stream) - done
  BY <1>1, <1>2, <1>3, <1>4, <1>5
<1>7. Pending[i] = data[o + i]
  <2>1. \A j \in 1 .. Len(data) - o : Rest(data, o)[j] = data[o + j]
    BY <1>1, RestIs
  <2>2. i \in 1 .. Len(data) - o
    BY <1>1
  <2> QED BY <2>1, <2>2 DEF Pending, data, o
<1>8. done + i \in 1 .. Len(stream)
  BY <1>2, <1>6
<1>9. stream[done + i] = data[o + i]
  BY <1>3, <1>4, <1>5, <1>6, <1>7, Zenon
<1> QED BY <1>8, <1>9 DEF data, o

-----------------------------------------------------------------------------
(* The frame loop stays on the client's frame boundaries *)

\* The length that announces a frame is in the n bytes at offset o of data.
Announced(data, o, n) ==
  /\ o + n <= Len(data) /\ data[o + n] < More
  /\ \A m \in 1 .. n - 1 : ~(data[o + m] < More)
  /\ Prefix.buf.offset = o + n
  /\ Prefix.val = Decode(SubSeq(data, o + 1, o + n), VARINT_BITS)

\* The prefix of a complete frame is read from the bytes at the offset.
LEMMA PrefixTaken ==
  ASSUME IInv, FrameComplete, NEW o, o = conn.buf.offset, NEW data, data = conn.buf.data
  PROVE  \E n \in 1 .. VARINT_BYTES : Announced(data, o, n)
<1>0. PICK a : a = [conn.buf EXCEPT !.error = FALSE]
  OBVIOUS
<1>1. /\ a \in Netbufs /\ a.data = data /\ a.offset = o /\ ~a.error
      /\ a.offset <= Size(a) /\ Size(a) = Len(data)
  <2>1. /\ a \in Netbufs /\ a.data = data /\ a.offset = o /\ ~a.error
    BY <1>0, InvFields DEF Netbufs
  <2> QED BY <2>1, StreamFields, LenProperties DEF Size
<1>2. Prefix = ReadGroups(a, VARINT_BYTES, VARINT_BITS)
  BY <1>0, <1>1, Zenon DEF Prefix, read_varint
<1>3. ~Prefix.buf.error
  BY DEF FrameComplete
<1>4. VARINT_BYTES \in Nat
  BY WidthAssumption
<1>5. ~ReadGroups(a, VARINT_BYTES, VARINT_BITS).buf.error
  BY <1>2, <1>3
<1>6. PICK n \in 1 .. VARINT_BYTES :
        /\ Takes(a, VARINT_BYTES, n) /\ Prefix.buf.offset = a.offset + n
        /\ Prefix.val = Decode(SubSeq(a.data, a.offset + 1, a.offset + n), VARINT_BITS)
  BY <1>1, <1>2, <1>4, <1>5, ReadSucceeds
<1>7. n # VARINT_BYTES + 1
  BY <1>4
<1> QED BY <1>1, <1>6, <1>7 DEF Takes, Announced

\* Where a handled frame leaves the connection.
LEMMA HandledTo ==
  ASSUME IInv, HandleFrame
  PROVE  conn'.buf.offset = FrameEnd /\ conn'.state = Reply.conn.state
<1> DEFINE c == [conn EXCEPT !.buf = Prefix.buf]
           r == Reply
           b == Align(r.conn.buf, FrameEnd)
<1>1. FrameEnd \in Nat /\ FrameEnd <= Size(conn.buf)
  BY FrameInside DEF HandleFrame
<1>2. Inside(conn.buf, Prefix.buf) /\ Prefix.buf \in Netbufs
  BY FrameInside, InsideSound
<1>3. c \in Conns /\ c.buf = Prefix.buf /\ c.buf.offset <= Size(c.buf)
  BY <1>2, InvFields, InsideSound, ConnUpdated, Zenon
<1>4. Inside(conn.buf, r.conn.buf) /\ r.conn \in Conns
  <2>1. Leaves(c, r)
    BY <1>3, HandlerLeaves, Zenon DEF Reply
  <2> QED BY <1>2, <1>3, <2>1, InsideTransitive, Zenon DEF Leaves
<1>5. conn' = [r.conn EXCEPT !.buf = b]
  BY DEF HandleFrame, Align
<1> HIDE DEF r
<1>6. r.conn.buf \in Netbufs /\ Size(r.conn.buf) = Size(conn.buf)
  BY <1>4, InsideSound
<1>7. Inside(r.conn.buf, b) /\ b.offset = FrameEnd
  BY <1>1, <1>6, OffsetAssigned DEF Align
<1>8. b \in Netbufs
  BY <1>7, InsideSound
<1> HIDE DEF b
<1>9. conn'.buf.offset = FrameEnd
  BY <1>4, <1>5, <1>7, <1>8, ConnUpdated
<1>10. conn'.state = r.conn.state
  BY <1>4, <1>5 DEF Conns
<1> QED BY <1>9, <1>10 DEF r

\* What a handled frame passes is one frame of the client's stream.
LEMMA HandledIsFrame ==
  ASSUME IInv, SInv, HandleFrame
  PROVE  IsFrame(stream, done, done') /\ done <= done'
<1> DEFINE o == conn.buf.offset
           data == conn.buf.data
<1>1. /\ data \in Seq(Byte) /\ o \in 0 .. Len(data) /\ Len(data) \in Nat
  BY StreamFields, LenProperties
<1>2. FrameComplete
  BY DEF HandleFrame
<1>3. Prefix.val \in 0 .. Size(conn.buf) - Prefix.buf.offset
  BY <1>2 DEF FrameComplete
<1>4. VARINT_BYTES \in Nat
  BY WidthAssumption
<1>5. PICK n \in 1 .. VARINT_BYTES :
        /\ o + n <= Len(data) /\ data[o + n] < More
        /\ \A m \in 1 .. n - 1 : ~(data[o + m] < More)
        /\ Prefix.buf.offset = o + n
        /\ Prefix.val = Decode(SubSeq(data, o + 1, o + n), VARINT_BITS)
  BY <1>2, PrefixTaken DEF Announced
<1>6. done \in Nat /\ Len(Pending) = Len(data) - o
  BY StreamFields
<1>7. ASSUME NEW i \in 1 .. n PROVE done + i \in 1 .. Len(stream) /\ stream[done + i] = data[o + i]
  <2>1. i \in Nat /\ 1 <= i /\ i <= n /\ n \in Nat
    BY <1>4, <1>5
  <2>2. o \in Nat /\ Len(data) \in Nat /\ o + n <= Len(data) /\ Len(Pending) = Len(data) - o
    BY <1>1, <1>5, <1>6
  <2> HIDE DEF o, data
  <2>3. i \in 1 .. Len(Pending)
    BY <2>1, <2>2
  <2> USE DEF o, data
  <2> QED BY <2>3, PendingInStream
<1>8. done' = done + (FrameEnd - o)
  BY HandledTo DEF HandleFrame
<1> DEFINE k == done + n
<1>9. done' = k + Prefix.val /\ Prefix.val \in Nat
  <2>1. o \in Nat /\ Prefix.val \in Nat
    <3>1. Size(conn.buf) \in Nat /\ Prefix.buf.offset \in Nat
      BY FrameInside, InvFields
    <3> QED BY <1>1, <1>3, <3>1
  <2> QED BY <1>4, <1>5, <1>6, <1>8, <2>1 DEF FrameEnd
<1>10. k \in done + 1 .. done' /\ k - done = n /\ n <= VARINT_BYTES /\ done' - k = Prefix.val
  BY <1>4, <1>5, <1>6, <1>9
<1>11. ASSUME NEW m \in done + 1 .. k PROVE stream[m] >= More <=> m < k
  <2>1. PICK i \in 1 .. n : m = done + i
    <3>1. m - done \in 1 .. n /\ m = done + (m - done)
      BY <1>4, <1>5, <1>6
    <3> QED BY <3>1
  <2>2. stream[m] = data[o + i] /\ data[o + i] \in Nat /\ More \in Nat
    <3>1. o + i \in 1 .. Len(data)
      BY <1>1, <1>4, <1>5, SMTT(20)
    <3>2. data[o + i] \in Byte
      BY <1>1, <3>1, ElementOfSeq
    <3>3. More \in Nat
      BY MorePositive
    <3> QED BY <1>7, <2>1, <3>2, <3>3, BytesAreNumbers
  <2>3. CASE i = n
    BY <1>4, <1>5, <1>6, <2>1, <2>2, <2>3
  <2>4. CASE i # n
    <3>1. i \in 1 .. n - 1 /\ m < k
      BY <1>4, <1>5, <1>6, <2>1, <2>4
    <3>2. ~(data[o + i] < More)
      BY <1>5, <3>1
    <3> QED BY <2>2, <3>1, <3>2
  <2> QED BY <2>3, <2>4
<1>12. SubSeq(stream, done + 1, k) = SubSeq(data, o + 1, o + n)
  <2> DEFINE u == SubSeq(stream, done + 1, k)
             v == SubSeq(data, o + 1, o + n)
  <2>1. done + n \in 1 .. Len(stream) /\ n \in 1 .. n
    BY <1>4, <1>5, <1>7
  <2>2. stream \in Seq(Byte) /\ data \in Seq(Byte)
    BY StreamFields
  <2>3. /\ u \in Seq(Byte) /\ Len(u) = n
        /\ \A i \in 1 .. n : u[i] = stream[done + i]
    <3> DEFINE p == done + 1
    <3>1. p \in 1 .. Len(stream) + 1 /\ k \in p - 1 .. Len(stream) /\ k - p + 1 = n
          /\ p <= k /\ p \in Int /\ k \in Int
      BY <1>4, <1>5, <1>6, <2>1
    <3>2. \A i \in p .. k : stream[i] \in Byte
      <4>1. \A i \in p .. k : i \in 1 .. Len(stream)
        BY <2>1, <3>1, <2>2, LenProperties
      <4> QED BY <2>2, <4>1, ElementOfSeq
    <3>3. \A i \in 1 .. n : p + i - 1 = done + i
      BY <1>6
    <3> HIDE DEF p, k
    <3>4. /\ SubSeq(stream, p, k) \in Seq(Byte) /\ Len(SubSeq(stream, p, k)) = k - p + 1
          /\ \A i \in 1 .. k - p + 1 : SubSeq(stream, p, k)[i] = stream[p + i - 1]
      BY <3>1, <3>2, SubSeqProperties
    <3> QED BY <3>1, <3>3, <3>4 DEF p
  <2>4. /\ v \in Seq(Byte) /\ Len(v) = n
        /\ \A i \in 1 .. n : v[i] = data[o + i]
    <3> DEFINE p == o + 1
               q == o + n
    <3> HIDE DEF data, o
    <3>0. o \in Nat /\ o + n <= Len(data) /\ n \in Nat /\ n >= 1 /\ Len(data) \in Nat
      BY <1>1, <1>4, <1>5
    <3>1. p \in 1 .. Len(data) + 1 /\ q \in p - 1 .. Len(data) /\ q - p + 1 = n
          /\ p <= q /\ p \in Int /\ q \in Int
      BY <3>0
    <3>2. \A i \in p .. q : data[i] \in Byte
      <4>1. \A i \in p .. q : i \in 1 .. Len(data)
        BY <3>0
      <4> QED BY <2>2, <4>1, ElementOfSeq
    <3>3. \A i \in 1 .. n : p + i - 1 = o + i
      BY <1>1
    <3> HIDE DEF p, q
    <3>4. /\ SubSeq(data, p, q) \in Seq(Byte) /\ Len(SubSeq(data, p, q)) = q - p + 1
          /\ \A i \in 1 .. q - p + 1 : SubSeq(data, p, q)[i] = data[p + i - 1]
      BY <3>1, <3>2, SubSeqProperties
    <3> QED BY <3>1, <3>3, <3>4 DEF p, q
  <2>5. \A i \in 1 .. n : u[i] = v[i]
    BY <1>7, <2>3, <2>4
  <2> HIDE DEF u, v
  <2>6. u = v
    BY <2>3, <2>4, <2>5, SeqEqual
  <2> QED BY <2>6 DEF u, v
<1>13. Decode(SubSeq(stream, done + 1, k), VARINT_BITS) = done' - k
  BY <1>5, <1>10, <1>12
<1> HIDE DEF k
<1>14. IsFrame(stream, done, done')
  <2>1. \A m \in done + 1 .. k : stream[m] >= More <=> m < k
    BY <1>11
  <2>2. k - done <= VARINT_BYTES
    BY <1>10
  <2> QED BY <1>10, <1>13, <2>1, <2>2, Zenon DEF IsFrame
<1> QED BY <1>14, <1>4, <1>5, <1>6, <1>9 DEF k

\* The frame loop is between two frames of a stream that is one of Streams.
FInv == stream \in Streams /\ done \in FrameEnds(stream)

\* Only a handled frame moves `done`.
LEMMA StepAligned == IInv /\ SInv /\ FInv /\ [Next]_vars => FInv'
<1> SUFFICES ASSUME IInv, SInv, FInv, [Next]_vars PROVE FInv'
  OBVIOUS
<1>1. CASE HandleFrame
  <2>1. stream' = stream /\ Len(stream) \in Nat
    BY <1>1, StreamFields, LenProperties DEF HandleFrame
  <2>2. SInv'
    BY StepKeeps
  <2>3. IsFrame(stream, done, done') /\ done <= done' /\ done \in Nat
    BY <1>1, HandledIsFrame, StreamFields
  <2>4. IInv'
    BY StepInv
  <2>5. done' \in 0 .. Len(stream)
    BY <2>1, <2>2, <2>4 DEF SInv, IInv, StateTyped
  <2>6. done' \in FrameEnds(stream)
    <3>1. CASE done = done'
      BY <3>1 DEF FInv
    <3>2. CASE done < done'
      BY <2>1, <2>3, <2>5, <3>2, FrameEndsAre DEF FInv
    <3> QED BY <2>3, <2>5, <3>1, <3>2
  <2> QED BY <2>1, <2>6 DEF FInv
<1>2. CASE Deliver \/ RecvBytes \/ RecvAgain \/ RecvBreak \/ FrameIncomplete \/ NextFrame
           \/ Shut \/ Reset \/ PollDisconnect \/ PollReadable \/ PollNothing \/ RecvEnd
           \/ HandlerFaults \/ Send \/ UNCHANGED vars
  <2>1. UNCHANGED <<stream, done>>
    BY <1>2 DEF Deliver, RecvBytes, RecvAgain, RecvBreak, FrameIncomplete, NextFrame, Shut, Reset,
                PollDisconnect, PollReadable, PollNothing, RecvEnd, HandlerFaults, Send, vars,
                clientVars, serverVars, history
  <2> QED BY <2>1 DEF FInv
<1> QED BY <1>1, <1>2 DEF Next, Client, Server

\* A client's stream and a position of 0.
LEMMA InitAligned == Init => FInv
<1> SUFFICES ASSUME Init PROVE FInv
  OBVIOUS
<1>1. stream \in Streams /\ done = 0 /\ IInv
  BY InitInv DEF Init
<1>2. Len(stream) \in Nat /\ 0 \in 0 .. Len(stream)
  BY <1>1, StreamFields, LenProperties
<1>3. 0 \in FrameEnds(stream)
  BY <1>2, FrameEndsAre
<1> QED BY <1>1, <1>3 DEF FInv

\* The framing theorem.
THEOREM FramesKept == Spec => []FramesAligned
<1>1. FInv => FramesAligned
  BY DEF FInv, FramesAligned, Ends
<1> QED BY <1>1, Invariance, InitKeeps, StepKeeps, InitAligned, StepAligned, PTL DEF Spec

\* The chunks around a new player, and the packet that must come behind them.
Chunks == {<<"chunk", x, z>> : x, z \in -1 .. 1}
IsEvent(p) == p[1] = "game_event"

-----------------------------------------------------------------------------
(* The session: the packets of a login *)

\* The packet that tells the client of c its name, the one that lists it, and
\* all packets of a login.
LoginSuccess(c) == <<"login_success", c.uuid, CString(c.player_name)>>
PlayerInfo(c) == <<"player_info", OfflineUuid(c.player_name), CString(c.player_name)>>
LoginPackets(c) == send_login_success(c) \o send_login_play \o send_world_loading(c)

\* q holds those packets in order, and they are all it can hold.
LoginSet(c) ==
  Chunks \cup {LoginSuccess(c), <<"login_play">>, <<"keep_alive">>, PlayerInfo(c),
               <<"chunk_center", 0, 0>>, <<"game_event", 13>>, <<"player_position">>}
LoginHas(q, c) ==
  /\ q \in Seq(LoginSet(c)) /\ Len(q) = 16 /\ DOMAIN q = 1 .. 16
  /\ q[1] = LoginSuccess(c) /\ q[2] = <<"login_play">>
  /\ q[3] = <<"keep_alive">> /\ q[4] = PlayerInfo(c)
  /\ \A i \in 1 .. 9 : q[4 + i] = SpawnChunks[i]
  /\ q[14] = <<"chunk_center", 0, 0>> /\ q[15] = <<"game_event", 13>>
  /\ q[16] = <<"player_position">>

\* x is s and behind it t.
Behind(S, s, t, x) ==
  /\ x \in Seq(S) /\ Len(x) = Len(s) + Len(t)
  /\ \A i \in 1 .. Len(s) : x[i] = s[i]
  /\ \A i \in 1 .. Len(t) : x[Len(s) + i] = t[i]

\* What concatenation gives.
LEMMA Joined ==
  ASSUME NEW S, NEW s \in Seq(S), NEW t \in Seq(S)
  PROVE  Behind(S, s, t, s \o t)
<1>1. Len(s) \in Nat /\ Len(t) \in Nat
  BY LenProperties
<1> QED BY <1>1, ConcatProperties DEF Behind

\* The nine chunks.
LEMMA NineChunks ==
  /\ \A p \in Chunks : \E i \in 1 .. 9 : SpawnChunks[i] = p
  /\ SpawnChunks \in Seq(Chunks) /\ Len(SpawnChunks) = 9
<1>1. \A i \in 1 .. 9 : ((i - 1) \div 3) - 1 \in -1 .. 1 /\ ((i - 1) % 3) - 1 \in -1 .. 1
  OBVIOUS
<1>2. \A x, z \in -1 .. 1 :
        LET i == 3 * (x + 1) + (z + 1) + 1
        IN  i \in 1 .. 9 /\ ((i - 1) \div 3) - 1 = x /\ ((i - 1) % 3) - 1 = z
  OBVIOUS
<1>3. \A p \in Chunks : \E i \in 1 .. 9 : SpawnChunks[i] = p
  <2> TAKE p \in Chunks
  <2>0. PICK x \in -1 .. 1, z \in -1 .. 1 : p = <<"chunk", x, z>>
    BY DEF Chunks
  <2> DEFINE i == 3 * (x + 1) + (z + 1) + 1
  <2>1. i \in 1 .. 9 /\ ((i - 1) \div 3) - 1 = x /\ ((i - 1) % 3) - 1 = z
    BY <1>2
  <2> HIDE DEF i
  <2>2. SpawnChunks[i] = <<"chunk", x, z>>
    BY <2>1 DEF SpawnChunks
  <2> QED BY <2>0, <2>1, <2>2
<1>4. SpawnChunks \in [1 .. 9 -> Chunks]
  BY <1>1 DEF SpawnChunks, Chunks
<1>5. SpawnChunks \in Seq(Chunks) /\ Len(SpawnChunks) = 9
  <2>1. SpawnChunks \in Seq(Chunks)
    BY <1>4, SeqDef
  <2>2. DOMAIN SpawnChunks = 1 .. 9
    BY <1>4
  <2> QED BY <2>1, <2>2, LenProperties
<1> QED BY <1>3, <1>5

\* The sixteen packets of a login.
LEMMA LoginIs ==
  ASSUME NEW c
  PROVE  LoginHas(LoginPackets(c), c)
<1> DEFINE A == send_login_success(c)
           B == send_login_play
           K == << <<"keep_alive">>,
                   <<"player_info", OfflineUuid(c.player_name), CString(c.player_name)>> >>
           L == << <<"chunk_center", 0, 0>>, <<"game_event", 13>>, <<"player_position">> >>
           S == LoginSet(c)
           q == LoginPackets(c)
<1>1. /\ A[1] = LoginSuccess(c) /\ B[1] = <<"login_play">>
      /\ K[1] = <<"keep_alive">> /\ K[2] = PlayerInfo(c)
      /\ L[1] = <<"chunk_center", 0, 0>> /\ L[2] = <<"game_event", 13>>
      /\ L[3] = <<"player_position">>
      /\ Len(A) = 1 /\ Len(B) = 1 /\ Len(K) = 2 /\ Len(L) = 3
  BY DEF send_login_success, send_login_play, LoginSuccess, PlayerInfo
<1>2. /\ A \in Seq({A[1]}) /\ B \in Seq({B[1]}) /\ K \in Seq({K[1], K[2]})
      /\ L \in Seq({L[1], L[2], L[3]})
  BY DEF send_login_success, send_login_play
<1>3. SpawnChunks \in Seq(Chunks) /\ Len(SpawnChunks) = 9
  BY NineChunks
<1>4. q = (A \o B) \o ((K \o SpawnChunks) \o L)
  BY DEF LoginPackets, send_world_loading
<1> HIDE DEF A, B, K, L, S, q
<1>5. /\ {A[1]} \in SUBSET S /\ {B[1]} \in SUBSET S /\ {K[1], K[2]} \in SUBSET S
      /\ {L[1], L[2], L[3]} \in SUBSET S /\ Chunks \in SUBSET S
  <2>1. \A x \in {A[1], B[1], K[1], K[2], L[1], L[2], L[3]} : x \in S
    BY <1>1, Zenon DEF S, LoginSet
  <2>2. Chunks \in SUBSET S
    BY DEF S, LoginSet
  <2> QED BY <2>1, <2>2
<1>6. /\ A \in Seq(S) /\ B \in Seq(S) /\ K \in Seq(S) /\ L \in Seq(S) /\ SpawnChunks \in Seq(S)
  BY <1>2, <1>3, <1>5, SeqMonotonic
<1> DEFINE u == A \o B
           v == K \o SpawnChunks
           w == v \o L
<1>7. u \in Seq(S) /\ Len(u) = 2 /\ u[1] = A[1] /\ u[2] = B[1]
  <2>1. Behind(S, A, B, u)
    BY <1>6, Joined
  <2> HIDE DEF u
  <2> QED BY <1>1, <2>1 DEF Behind
<1>8. /\ v \in Seq(S) /\ Len(v) = 11 /\ v[1] = K[1] /\ v[2] = K[2]
      /\ \A i \in 1 .. 9 : v[2 + i] = SpawnChunks[i]
  <2>1. Behind(S, K, SpawnChunks, v)
    BY <1>6, Joined
  <2> HIDE DEF v
  <2> QED BY <1>1, <1>3, <2>1 DEF Behind
<1>9. /\ w \in Seq(S) /\ Len(w) = 14
      /\ w[1] = K[1] /\ w[2] = K[2] /\ w[12] = L[1] /\ w[13] = L[2] /\ w[14] = L[3]
      /\ \A i \in 1 .. 9 : w[2 + i] = SpawnChunks[i]
  <2>1. Behind(S, v, L, w)
    BY <1>6, <1>8, Joined
  <2>2. \A i \in 1 .. 9 : 2 + i \in 1 .. 11
    OBVIOUS
  <2> HIDE DEF v, w
  <2>3. w[11 + 1] = L[1] /\ w[11 + 2] = L[2] /\ w[11 + 3] = L[3]
    BY <1>1, <1>8, <2>1 DEF Behind
  <2>4. w \in Seq(S) /\ Len(w) = 14 /\ \A i \in 1 .. 11 : w[i] = v[i]
    BY <1>1, <1>8, <2>1 DEF Behind
  <2>5. w[1] = K[1] /\ w[2] = K[2]
    BY <1>8, <2>4
  <2>6. \A i \in 1 .. 9 : w[2 + i] = SpawnChunks[i]
    BY <1>8, <2>2, <2>4
  <2> QED BY <2>3, <2>4, <2>5, <2>6
<1>10. /\ q \in Seq(S) /\ Len(q) = 16
       /\ q[1] = A[1] /\ q[2] = B[1] /\ q[3] = K[1] /\ q[4] = K[2]
       /\ q[14] = L[1] /\ q[15] = L[2] /\ q[16] = L[3]
       /\ \A i \in 1 .. 9 : q[4 + i] = SpawnChunks[i]
  <2>1. Behind(S, u, w, q)
    BY <1>4, <1>7, <1>9, Joined
  <2> HIDE DEF u, v, w
  <2>2. \A i \in 1 .. 14 : q[2 + i] = w[i]
    BY <1>7, <1>9, <2>1 DEF Behind
  <2>3. \A i \in 1 .. 9 : 2 + i \in 1 .. 14 /\ 2 + (2 + i) = 4 + i
    OBVIOUS
  <2>4. /\ q[2 + 1] = w[1] /\ q[2 + 2] = w[2] /\ q[2 + 12] = w[12]
        /\ q[2 + 13] = w[13] /\ q[2 + 14] = w[14]
    BY <2>2
  <2>5. \A i \in 1 .. 9 : q[4 + i] = w[2 + i]
    BY <2>2, <2>3
  <2> QED BY <1>7, <1>9, <2>1, <2>4, <2>5 DEF Behind
<1> HIDE DEF u, v, w
<1>11. DOMAIN q = 1 .. 16
  BY <1>10, LenProperties
<1>12. LoginHas(q, c)
  BY <1>1, <1>10, <1>11, Zenon DEF LoginHas, S
<1> QED BY <1>12 DEF q

\* The places of the sixteen packets: seven by themselves, nine chunks.
LEMMA LoginPlaces ==
  \A i \in 1 .. 16 : i \in {1, 2, 3, 4, 14, 15, 16} \/ \E k \in 1 .. 9 : i = 4 + k
<1>1. \A i \in 5 .. 13 : i - 4 \in 1 .. 9 /\ i = 4 + (i - 4)
  OBVIOUS
<1> QED BY <1>1

\* A client has all chunks before it is told to wait for them, and only the
\* first packet of the sixteen answers a request.
LEMMA LoginSequence ==
  ASSUME NEW c, NEW q, q = LoginPackets(c)
  PROVE  /\ \E S : q \in Seq(S)
         /\ \A i \in DOMAIN q : IsEvent(q[i]) =>
              \A p \in Chunks : \E j \in 1 .. i - 1 : q[j] = p
         /\ 1 \in DOMAIN q /\ q[1] = LoginSuccess(c)
         /\ \A i \in DOMAIN q : i # 1 => Answer(q[i]) = << >>
<1>1. LoginHas(q, c)
  BY LoginIs
<1>2. \A p \in Chunks : ~IsEvent(p) /\ Answer(p) = << >>
  BY DEF IsEvent, Chunks, Answer
<1>3. \A p \in {<<"login_play">>, <<"keep_alive">>, <<"chunk_center", 0, 0>>,
                <<"player_position">>} : ~IsEvent(p) /\ Answer(p) = << >>
  BY DEF IsEvent, Answer
<1>4. ~IsEvent(LoginSuccess(c)) /\ ~IsEvent(PlayerInfo(c)) /\ Answer(PlayerInfo(c)) = << >>
      /\ Answer(<<"game_event", 13>>) = << >>
  BY DEF LoginSuccess, PlayerInfo, IsEvent, Answer
<1>5. \A i \in 1 .. 9 : q[4 + i] \in Chunks
  BY <1>1, NineChunks, ElementOfSeq, ZenonT(30) DEF LoginHas
<1>6. \A i \in 1 .. 16 : (i # 15 => ~IsEvent(q[i])) /\ (i # 1 => Answer(q[i]) = << >>)
  <2> TAKE i \in 1 .. 16
  <2>1. CASE \E k \in 1 .. 9 : i = 4 + k
    BY <1>2, <1>5, <2>1
  <2>2. CASE i \in {1, 2, 3, 4, 14, 15, 16}
    BY <1>1, <1>3, <1>4, <2>2 DEF LoginHas
  <2> QED BY <2>1, <2>2, LoginPlaces
<1>7. \A p \in Chunks : \E j \in 1 .. 14 : q[j] = p
  <2> TAKE p \in Chunks
  <2>1. PICK i \in 1 .. 9 : SpawnChunks[i] = p
    BY NineChunks
  <2>2. 4 + i \in 1 .. 14
    OBVIOUS
  <2> QED BY <1>1, <2>1, <2>2 DEF LoginHas
<1> QED BY <1>1, <1>6, <1>7 DEF LoginHas

\* They are packets of the server when the name and the UUID are bytes.
LEMMA LoginTyped ==
  ASSUME NEW c, c.player_name \in Seq(Byte), c.uuid \in Seq(Byte)
  PROVE  LoginPackets(c) \in Seq(Outgoing)
<1>1. PICK n, u, v : n = CString(c.player_name) /\ u = OfflineUuid(c.player_name) /\ v = c.uuid
  OBVIOUS
<1>2. n \in Seq(Byte) /\ u \in Seq(Byte) /\ v \in Seq(Byte)
  BY <1>1, NamesAreBytes
<1>3. LoginSuccess(c) = <<"login_success", v, n>> /\ PlayerInfo(c) = <<"player_info", u, n>>
  BY <1>1 DEF LoginSuccess, PlayerInfo
<1>4. LoginSuccess(c) \in Outgoing /\ PlayerInfo(c) \in Outgoing
  BY <1>2, <1>3 DEF Outgoing
<1>5. Chunks \in SUBSET Outgoing
  BY DEF Chunks, Outgoing
<1>6. LoginSet(c) \in SUBSET Outgoing
  BY <1>4, <1>5 DEF LoginSet, Outgoing
<1> QED BY <1>6, LoginIs, SeqMonotonic DEF LoginHas

\* The i-th packet p of a login is of the i-th kind, and names c.
NamedAs(p, c, kind) ==
  /\ p[1] = kind
  /\ kind \in {"login_success", "player_info"} => p = <<kind, c.uuid, CString(c.player_name)>>

\* The kinds as LoginOnce lists them.
LEMMA KindsAre ==
  /\ Len(LoginKinds) = 16
  /\ LoginKinds[1] = "login_success" /\ LoginKinds[2] = "login_play"
  /\ LoginKinds[3] = "keep_alive" /\ LoginKinds[4] = "player_info"
  /\ \A i \in 1 .. 9 : LoginKinds[4 + i] = "chunk"
  /\ LoginKinds[14] = "chunk_center" /\ LoginKinds[15] = "game_event"
  /\ LoginKinds[16] = "player_position"
<1> DEFINE A == <<"login_success", "login_play", "keep_alive", "player_info">>
           N == [i \in 1 .. 9 |-> "chunk"]
           L == <<"chunk_center", "game_event", "player_position">>
           S == {"login_success", "login_play", "keep_alive", "player_info", "chunk",
                 "chunk_center", "game_event", "player_position"}
<1>1. /\ A \in Seq(S) /\ Len(A) = 4 /\ L \in Seq(S) /\ Len(L) = 3
      /\ A[1] = "login_success" /\ A[2] = "login_play" /\ A[3] = "keep_alive"
      /\ A[4] = "player_info"
      /\ L[1] = "chunk_center" /\ L[2] = "game_event" /\ L[3] = "player_position"
  OBVIOUS
<1>2. N \in Seq(S) /\ Len(N) = 9 /\ \A i \in 1 .. 9 : N[i] = "chunk"
  <2>1. N \in [1 .. 9 -> S] /\ \A i \in 1 .. 9 : N[i] = "chunk"
    OBVIOUS
  <2>2. N \in Seq(S) /\ DOMAIN N = 1 .. 9
    BY <2>1, SeqDef
  <2> QED BY <2>1, <2>2, LenProperties
<1>3. LoginKinds = A \o (N \o L)
  BY DEF LoginKinds
<1> HIDE DEF A, N, L, S
<1> DEFINE t == N \o L
           k == A \o t
<1>4. /\ t \in Seq(S) /\ Len(t) = 12 /\ \A i \in 1 .. 9 : t[i] = "chunk"
      /\ t[10] = L[1] /\ t[11] = L[2] /\ t[12] = L[3]
  <2>1. Behind(S, N, L, t)
    BY <1>1, <1>2, Joined
  <2> HIDE DEF t
  <2>2. t[9 + 1] = L[1] /\ t[9 + 2] = L[2] /\ t[9 + 3] = L[3]
    BY <1>1, <1>2, <2>1 DEF Behind
  <2> QED BY <1>1, <1>2, <2>1, <2>2 DEF Behind
<1>5. /\ Len(k) = 16 /\ \A i \in 1 .. 4 : k[i] = A[i]
      /\ \A i \in 1 .. 12 : k[4 + i] = t[i]
  <2>1. Behind(S, A, t, k)
    BY <1>1, <1>4, Joined
  <2> HIDE DEF t, k
  <2> QED BY <1>1, <1>4, <2>1 DEF Behind
<1> HIDE DEF t, k
<1>6. k[4 + 10] = t[10] /\ k[4 + 11] = t[11] /\ k[4 + 12] = t[12]
      /\ \A i \in 1 .. 9 : k[4 + i] = "chunk"
  BY <1>4, <1>5
<1>7. k[1] = A[1] /\ k[2] = A[2] /\ k[3] = A[3] /\ k[4] = A[4]
  BY <1>5
<1>8. LoginKinds = k
  BY <1>3 DEF k, t
<1> QED BY <1>1, <1>4, <1>5, <1>6, <1>7, <1>8

\* The packets of a login are of those kinds, and the two that name the player
\* agree when the connection's UUID is made of the connection's name.
LEMMA LoginNames ==
  ASSUME NEW c, c.uuid = OfflineUuid(c.player_name), NEW i \in 1 .. 16
  PROVE  NamedAs(LoginPackets(c)[i], c, LoginKinds[i])
<1>1. PICK q : q = LoginPackets(c)
  OBVIOUS
<1>2. LoginHas(q, c)
  BY <1>1, LoginIs
<1>3. CASE i \in {1, 4}
  <2>1. PICK n, u : n = CString(c.player_name) /\ u = c.uuid
    OBVIOUS
  <2>2. LoginSuccess(c) = <<"login_success", u, n>> /\ PlayerInfo(c) = <<"player_info", u, n>>
    BY <2>1 DEF LoginSuccess, PlayerInfo
  <2>3. q[1] = <<"login_success", u, n>> /\ q[4] = <<"player_info", u, n>>
    BY <1>2, <2>2 DEF LoginHas
  <2>4. NamedAs(q[1], c, "login_success") /\ NamedAs(q[4], c, "player_info")
    BY <2>1, <2>3 DEF NamedAs
  <2> QED BY <1>1, <1>3, <2>4, KindsAre
<1>4. CASE i \in {2, 3, 14, 15, 16}
  <2>1. /\ q[2] = <<"login_play">> /\ q[3] = <<"keep_alive">> /\ q[14] = <<"chunk_center", 0, 0>>
        /\ q[15] = <<"game_event", 13>> /\ q[16] = <<"player_position">>
    BY <1>2 DEF LoginHas
  <2>2. /\ NamedAs(q[2], c, "login_play") /\ NamedAs(q[3], c, "keep_alive")
        /\ NamedAs(q[14], c, "chunk_center") /\ NamedAs(q[15], c, "game_event")
        /\ NamedAs(q[16], c, "player_position")
    BY <2>1 DEF NamedAs
  <2> QED BY <1>1, <1>4, <2>2, KindsAre
<1>5. ASSUME NEW k \in 1 .. 9, i = 4 + k
      PROVE  NamedAs(q[i], c, LoginKinds[i])
  <2>1. q[4 + k] \in Chunks /\ LoginKinds[4 + k] = "chunk"
    BY <1>2, KindsAre, NineChunks, ElementOfSeq, ZenonT(30) DEF LoginHas
  <2>2. \A p \in Chunks : p[1] = "chunk"
    BY DEF Chunks
  <2> QED BY <1>5, <2>1, <2>2 DEF NamedAs
<1> QED BY <1>1, <1>3, <1>4, <1>5, LoginPlaces
-----------------------------------------------------------------------------
(* What a handler does to the session *)

\* The connection is in the same phase with the same name and UUID.
SameNames(c, d) == d.player_name = c.player_name /\ d.uuid = c.uuid
SameSession(c, d) == d.state = c.state /\ SameNames(c, d)

\* Packets that are no part of a login.
Plain(p) == p[1] \in {"status_response", "pong"}
Quiet(q) == q \in Seq(Outgoing) /\ \A i \in DOMAIN q : Plain(q[i])

\* A handler leaves the session, and answers in the status state only; or ends
\* the handshake; or logs in.
Advances(c, r) ==
  \/ /\ SameSession(c, r.conn) /\ Quiet(r.replies)
     /\ c.state # STATE_STATUS => r.replies = << >>
  \/ /\ c.state = STATE_HANDSHAKING /\ r.conn.state \in {STATE_STATUS, STATE_LOGIN}
     /\ SameNames(c, r.conn) /\ r.replies = << >>
  \/ /\ c.state = STATE_LOGIN /\ r.conn.state = STATE_PLAY
     /\ r.conn.player_name \in Seq(Byte) /\ r.conn.uuid \in Seq(Byte)
     /\ r.conn.uuid = OfflineUuid(r.conn.player_name)
     /\ r.replies = LoginPackets(r.conn)

\* An assignment to the buffer leaves the session.
LEMMA SameAfter ==
  ASSUME NEW c \in Conns, NEW b
  PROVE  SameSession(c, [c EXCEPT !.buf = b])
BY DEF Conns, SameSession, SameNames

\* No packet, or one that is no part of a login.
LEMMA QuietReplies ==
  /\ Quiet(<< >>)
  /\ Quiet(<< <<"status_response">> >>)
  /\ \A x \in Varlongs : Quiet(<< <<"pong", x>> >>)
<1>1. Quiet(<< >>)
  BY EmptySeq DEF Quiet
<1>2. ASSUME NEW p \in Outgoing, Plain(p)
      PROVE  Quiet(<<p>>)
  <2>1. <<p>> \in Seq(Outgoing)
    OBVIOUS
  <2>2. \A i \in DOMAIN <<p>> : <<p>>[i] = p
    OBVIOUS
  <2>3. \A i \in DOMAIN <<p>> : Plain(<<p>>[i])
    BY <1>2, <2>2, Zenon
  <2> QED BY <2>1, <2>3, Zenon DEF Quiet
<1>3. \A x \in Varlongs : <<"pong", x>> \in Outgoing /\ Plain(<<"pong", x>>)
  BY DEF Plain, Outgoing
<1>4. <<"status_response">> \in Outgoing /\ Plain(<<"status_response">>)
  BY DEF Plain, Outgoing
<1> QED BY <1>1, <1>2, <1>3, <1>4

\* handle_handshake ends the handshake or leaves the session.
LEMMA HandshakeAdvances ==
  ASSUME NEW c \in Conns, c.state = STATE_HANDSHAKING, ~handle_handshake(c).fault
  PROVE  Advances(c, handle_handshake(c))
<1> DEFINE version == read_varint[c.buf]
           addr    == read_string[version.buf]
           port    == read_ushort[addr.buf]
           next    == read_varint[port.buf]
           r       == handle_handshake(c)
<1>1. ~(addr.ptr /\ addr.len < 0)
  <2>1. Faulted(c).fault
    BY DEF Faulted, Handled
  <2> QED BY <2>1, Zenon DEF handle_handshake
<1>2. CASE next.val \in {STATE_STATUS, STATE_LOGIN}
  <2> DEFINE d == [c EXCEPT !.buf = next.buf, !.state = next.val]
  <2>1. r = Handled(d, << >>)
    BY <1>1, <1>2, Zenon DEF handle_handshake
  <2> HIDE DEF next
  <2>2. d.state = next.val /\ SameNames(c, d)
    BY DEF Conns, SameNames
  <2> HIDE DEF d, r
  <2>3. r.conn = d /\ r.replies = << >>
    BY <2>1 DEF Handled
  <2> QED BY <1>2, <2>2, <2>3 DEF Advances, r
<1>3. CASE next.val \notin {STATE_STATUS, STATE_LOGIN}
  <2> DEFINE d == [c EXCEPT !.buf = [next.buf EXCEPT !.error = TRUE]]
  <2>1. r = [Handled(d, << >>) EXCEPT !.refused = TRUE]
    BY <1>1, <1>3, Zenon DEF handle_handshake
  <2>2. SameSession(c, d)
    BY SameAfter
  <2> HIDE DEF d, r
  <2>3. r.conn = d /\ r.replies = << >>
    BY <2>1 DEF Handled
  <2> QED BY <2>2, <2>3, QuietReplies DEF Advances, r
<1> QED BY <1>2, <1>3

\* handle_login_start logs in, with a name and a UUID.
LEMMA LoginAdvances ==
  ASSUME NEW c \in Conns, c.buf.offset <= Size(c.buf), c.state = STATE_LOGIN,
         ~handle_login_start(c).fault
  PROVE  Advances(c, handle_login_start(c))
<1> DEFINE name   == read_string[c.buf]
           joined == [buf |-> name.buf, state |-> STATE_PLAY, player_name |-> name.str,
                      uuid |-> OfflineUuid(name.str)]
           r      == handle_login_start(c)
<1>1. name.str \in Seq(Byte) /\ OfflineUuid(name.str) \in Seq(Byte)
  BY ConnFields, ReadStringInside, NamesAreBytes, Zenon
<1>2. ~(name.len < 0 \/ (~name.ptr /\ name.len # 0))
  <2>1. Faulted(c).fault
    BY DEF Faulted, Handled
  <2> QED BY <2>1, Zenon DEF handle_login_start
<1>3. r = Handled(joined, LoginPackets(joined))
  BY <1>2, Zenon DEF handle_login_start, LoginPackets
<1> HIDE DEF name
<1>4. joined.state = STATE_PLAY /\ joined.player_name = name.str
      /\ joined.uuid = OfflineUuid(name.str)
  OBVIOUS
<1> HIDE DEF joined, r
<1>5. r.conn = joined /\ r.replies = LoginPackets(joined)
  BY <1>3 DEF Handled
<1> QED BY <1>1, <1>4, <1>5 DEF Advances, r

\* Whatever a packet holds, its handler advances the session if it does not fault.
LEMMA HandlerAdvances ==
  ASSUME NEW c \in Conns, c.buf.offset <= Size(c.buf), ~handle_packet[c].fault
  PROVE  Advances(c, handle_packet[c])
<1> DEFINE id == read_varint[c.buf]
           d  == [c EXCEPT !.buf = id.buf]
           r  == handle_packet[c]
<1>1. Inside(c.buf, id.buf)
  BY ConnFields, ReadVarintInside, Zenon
<1>2. d \in Conns /\ d.buf = id.buf /\ d.buf.offset <= Size(d.buf) /\ SameSession(c, d)
  BY <1>1, InsideSound, ConnFields, ConnUpdated, SameAfter, Zenon
<1>3. \/ c.state = STATE_HANDSHAKING /\ r = handle_handshake(d)
      \/ c.state = STATE_STATUS /\ (r = handle_status_request(d) \/ r = handle_ping(d))
      \/ c.state = STATE_LOGIN /\ r = handle_login_start(d)
      \/ r = Handled(d, << >>)
  BY DEF handle_packet
<1>4. /\ Advances(d, Handled(d, << >>))
      /\ d.state = STATE_STATUS => Advances(d, handle_status_request(d))
  <2>1. SameSession(d, d)
    BY DEF SameSession, SameNames
  <2> HIDE DEF d
  <2>2. /\ Handled(d, << >>).conn = d /\ Handled(d, << >>).replies = << >>
        /\ handle_status_request(d).conn = d
        /\ handle_status_request(d).replies = << <<"status_response">> >>
    BY DEF Handled, handle_status_request
  <2> QED BY <2>1, <2>2, QuietReplies DEF Advances
<1>5. d.state = STATE_STATUS => Advances(d, handle_ping(d))
  <2> DEFINE payload == read_varlong[d.buf]
  <2>1. SameSession(d, [d EXCEPT !.buf = payload.buf])
    BY <1>2, SameAfter
  <2>2. /\ handle_ping(d).conn = [d EXCEPT !.buf = payload.buf]
        /\ handle_ping(d).replies = << <<"pong", payload.val>> >>
    BY DEF handle_ping, Handled
  <2>3. payload.val \in Varlongs
    BY <1>2, ConnFields, VarlongValue, Zenon
  <2> HIDE DEF payload, d
  <2> QED BY <2>1, <2>2, <2>3, QuietReplies, Zenon DEF Advances
<1> HIDE DEF d
<1>6. Advances(d, r)
  <2>1. d.state = c.state /\ ~r.fault
    BY <1>2 DEF SameSession
  <2> HIDE DEF r
  <2> QED BY <1>2, <1>3, <1>4, <1>5, <2>1, HandshakeAdvances, LoginAdvances
<1> HIDE DEF r
<1>7. Advances(c, r)
  BY <1>2, <1>6 DEF Advances, SameSession, SameNames
<1> QED BY <1>7 DEF r

\* One frame handled: the session advances, and the replies wait to be sent.
LEMMA HandleFrameAdvances ==
  ASSUME IInv, HandleFrame
  PROVE  Advances(conn, [conn |-> conn', replies |-> sendq'])
<1> DEFINE c == [conn EXCEPT !.buf = Prefix.buf]
           r == Reply
           b == Align(r.conn.buf, FrameEnd)
<1>1. Inside(conn.buf, Prefix.buf) /\ Prefix.buf \in Netbufs
  BY FrameInside, InsideSound
<1>2. c \in Conns /\ c.buf = Prefix.buf /\ c.buf.offset <= Size(c.buf) /\ SameSession(conn, c)
  BY <1>1, InvFields, InsideSound, ConnUpdated, SameAfter, Zenon
<1>3. ~r.fault /\ conn' = [r.conn EXCEPT !.buf = b] /\ sendq' = r.replies
  BY DEF HandleFrame, Align
<1>4. Advances(c, r) /\ r.conn \in Conns
  BY <1>2, <1>3, HandlerAdvances, HandlerLeaves, Zenon DEF Reply, Leaves
<1>5. SameSession(r.conn, conn')
  BY <1>3, <1>4, SameAfter
<1> HIDE DEF c, r, b
<1>6. LoginPackets(conn') = LoginPackets(r.conn)
  BY <1>5 DEF SameSession, SameNames, LoginPackets, send_login_success, send_world_loading
<1> QED BY <1>2, <1>3, <1>4, <1>5, <1>6 DEF Advances, SameSession, SameNames

\* No other step touches the session.
LEMMA OthersKeepSession ==
  ASSUME IInv, [Next]_vars, ~HandleFrame
  PROVE  SameSession(conn, conn')
<1>1. conn \in Conns
  BY InvFields
<1>2. CASE UNCHANGED conn
  BY <1>2 DEF SameSession, SameNames
<1>3. CASE RecvBytes \/ RecvAgain \/ RecvBreak \/ FrameIncomplete \/ NextFrame
  <2>1. conn' = conn \/ \E b : conn' = [conn EXCEPT !.buf = b]
    BY <1>3, Zenon DEF RecvBytes, RecvAgain, RecvBreak, FrameIncomplete, NextFrame
  <2> QED BY <1>1, <1>2, <2>1, SameAfter
<1> QED BY <1>2, <1>3 DEF Next, Client, Server, Deliver, Shut, Reset, PollDisconnect, PollReadable,
           PollNothing, RecvEnd, HandlerFaults, Send, vars, serverVars
-----------------------------------------------------------------------------
(* The session: the invariant *)

\* The packets sent, and those still to be sent, are packets of the server.
Queues == sent \in Seq(Outgoing) /\ sendq \in Seq(Outgoing)

\* A client in play has a name and the UUID made of it, no other one has.
Named == IF conn.state = STATE_PLAY
         THEN /\ conn.player_name \in Seq(Byte) /\ conn.uuid \in Seq(Byte)
              /\ conn.uuid = OfflineUuid(conn.player_name)
         ELSE conn.player_name = NULL /\ conn.uuid = NULL

\* What a client has been told, by the phase it is in: nothing, answers to
\* status requests, or the login's packets as far as they have gone out.
Silent    == conn.state \in {STATE_HANDSHAKING, STATE_LOGIN} => sent = << >> /\ sendq = << >>
Answering == conn.state = STATE_STATUS => Quiet(sent) /\ Quiet(sendq)
LoggingIn == conn.state = STATE_PLAY =>
  /\ Len(sent) <= 16
  /\ \A i \in DOMAIN sent : sent[i] = LoginPackets(conn)[i]

\* While sends succeed, what is still to be sent of a login is the rest of it.
Behindhand == conn.state = STATE_PLAY /\ peer \in {"open", "shut"} =>
  \A i \in DOMAIN sendq : /\ Len(sent) + i \in 1 .. 16
                          /\ sendq[i] = LoginPackets(conn)[Len(sent) + i]

\* Packets wait only while they are being sent, or where SIGPIPE stopped that.
Idle == pc \notin {"send", "killed"} => sendq = << >>

SessInv == Queues /\ Idle /\ Named /\ Silent /\ Answering /\ LoggingIn /\ Behindhand

\* The packets of a login depend on the name and the UUID alone.
LEMMA SameLogin ==
  ASSUME NEW c, NEW d, SameNames(c, d)
  PROVE  LoginPackets(d) = LoginPackets(c)
BY DEF SameNames, LoginPackets, send_login_success, send_world_loading

\* A step that sends nothing and leaves the session.
LEMMA SilentKeeps ==
  ASSUME SessInv, UNCHANGED <<sent, sendq>>, SameSession(conn, conn'), Idle',
         peer' \in {"open", "shut"} => peer \in {"open", "shut"}
  PROVE  SessInv'
<1>1. LoginPackets(conn') = LoginPackets(conn)
  BY SameLogin DEF SameSession
<1>2. Queues' /\ Named' /\ Silent'
  BY DEF SessInv, Queues, Named, Silent, SameSession, SameNames
<1>3. Answering'
  BY DEF SessInv, Answering, Quiet, SameSession
<1>4. LoggingIn' /\ Behindhand'
  BY <1>1 DEF SessInv, LoggingIn, Behindhand, SameSession
<1> QED BY <1>2, <1>3, <1>4 DEF SessInv

\* A packet goes out, or is lost with the socket.
LEMMA SendKeeps ==
  ASSUME SessInv, Send
  PROVE  SessInv'
<1>1. PICK n, m, p, q : n = Len(sent) /\ m = Len(sendq) /\ p = Head(sendq) /\ q = LoginPackets(conn)
  OBVIOUS
<1>2. /\ sendq # << >> /\ sendq' = Tail(sendq) /\ UNCHANGED conn
      /\ IF peer \in {"open", "shut"} THEN sent' = Append(sent, p) /\ peer' = peer
         ELSE sent' = sent /\ peer' \notin {"open", "shut"}
  BY <1>1 DEF Send
<1>3. /\ p \in Outgoing /\ p = sendq[1] /\ sendq' \in Seq(Outgoing) /\ Len(sendq') = m - 1
      /\ \A i \in 1 .. m - 1 : sendq'[i] = sendq[i + 1]
      /\ m \in Nat \ {0} /\ n \in Nat
      /\ sent \in Seq(Outgoing) /\ sendq \in Seq(Outgoing)
  BY <1>1, <1>2, HeadTailProperties, EmptySeq, LenProperties DEF SessInv, Queues
<1>4. /\ DOMAIN sent = 1 .. n /\ DOMAIN sendq = 1 .. m /\ DOMAIN sendq' = 1 .. m - 1
  BY <1>1, <1>3, LenProperties
<1>5. \A i \in 1 .. m - 1 : i + 1 \in 1 .. m
  BY <1>3
<1>6. 1 \in 1 .. m
  BY <1>3
<1>7. Named' /\ Idle'
  BY <1>2 DEF SessInv, Named, Send, Idle
<1>8. Silent'
  BY <1>2 DEF SessInv, Silent
<1>9. Quiet(sendq) => Quiet(sendq') /\ Plain(p)
  BY <1>3, <1>4, <1>5, <1>6 DEF Quiet
<1>10. CASE peer \in {"open", "shut"}
  <2>1. /\ sent' \in Seq(Outgoing) /\ Len(sent') = n + 1 /\ sent'[n + 1] = p
        /\ \A i \in 1 .. n : sent'[i] = sent[i]
        /\ DOMAIN sent' = 1 .. n + 1
    <3>1. sent' = Append(sent, p)
      BY <1>2, <1>10
    <3>2. /\ sent' \in Seq(Outgoing) /\ Len(sent') = n + 1 /\ sent'[n + 1] = p
          /\ \A i \in 1 .. n : sent'[i] = sent[i]
      BY <1>1, <1>3, <3>1, AppendProperties
    <3>3. DOMAIN sent' = 1 .. Len(sent')
      BY <3>2, LenProperties
    <3> QED BY <3>2, <3>3
  <2>2. \A i \in 1 .. n + 1 : i \in 1 .. n \/ i = n + 1
    BY <1>3
  <2>3. Queues'
    BY <1>3, <2>1 DEF Queues
  <2>4. Answering'
    <3>1. Quiet(sent) /\ Plain(p) => Quiet(sent')
      BY <1>4, <2>1, <2>2 DEF Quiet
    <3> QED BY <1>2, <1>9, <3>1 DEF SessInv, Answering
  <2>5. conn.state = STATE_PLAY =>
          /\ n + 1 \in 1 .. 16 /\ p = q[n + 1]
          /\ \A i \in 1 .. m : n + i \in 1 .. 16 /\ sendq[i] = q[n + i]
    BY <1>1, <1>3, <1>4, <1>6, <1>10 DEF SessInv, Behindhand
  <2>6. LoggingIn'
    <3> SUFFICES ASSUME conn.state = STATE_PLAY
                 PROVE  Len(sent') <= 16 /\ \A i \in DOMAIN sent' : sent'[i] = q[i]
      BY <1>1, <1>2 DEF LoggingIn
    <3>1. \A i \in 1 .. n : sent[i] = q[i]
      BY <1>1, <1>4 DEF SessInv, LoggingIn
    <3> QED BY <1>3, <2>1, <2>2, <2>5, <3>1
  <2>7. Behindhand'
    <3> SUFFICES ASSUME conn.state = STATE_PLAY, NEW i \in 1 .. m - 1
                 PROVE  (n + 1) + i \in 1 .. 16 /\ sendq'[i] = q[(n + 1) + i]
      BY <1>1, <1>2, <1>4, <2>1 DEF Behindhand
    <3>1. n + (i + 1) = (n + 1) + i /\ i + 1 \in 1 .. m
      BY <1>3
    <3> QED BY <1>3, <2>5, <3>1
  <2> QED BY <1>7, <1>8, <2>3, <2>4, <2>6, <2>7 DEF SessInv
<1>11. CASE peer \notin {"open", "shut"}
  <2>1. sent' = sent /\ conn' = conn /\ peer' \notin {"open", "shut"}
    BY <1>2, <1>11
  <2>2. Queues'
    BY <1>3, <2>1 DEF Queues
  <2>3. Answering' /\ LoggingIn' /\ Behindhand'
    BY <1>9, <2>1 DEF SessInv, Answering, LoggingIn, Behindhand, Quiet
  <2> QED BY <1>7, <1>8, <2>2, <2>3 DEF SessInv
<1> QED BY <1>10, <1>11

\* The replies to a frame wait to be sent; nothing else does.
LEMMA HandleFrameKeepsSession ==
  ASSUME IInv, SessInv, HandleFrame
  PROVE  SessInv'
<1>1. Advances(conn, [conn |-> conn', replies |-> sendq'])
  BY HandleFrameAdvances
<1>2. UNCHANGED <<sent, peer>> /\ sent \in Seq(Outgoing)
  BY DEF HandleFrame, clientVars, SessInv, Queues
<1>3. << >> \in Seq(Outgoing) /\ Quiet(<< >>) /\ DOMAIN << >> = {}
  BY QuietReplies, EmptySeq
<1>3a. Idle'
  BY DEF HandleFrame, Idle
<1>4. STATE_HANDSHAKING = 0 /\ STATE_STATUS = 1 /\ STATE_LOGIN = 2 /\ STATE_PLAY = 3
  BY DEF STATE_HANDSHAKING, STATE_STATUS, STATE_LOGIN, STATE_PLAY
<1>5. CASE /\ SameSession(conn, conn') /\ Quiet(sendq')
           /\ conn.state # STATE_STATUS => sendq' = << >>
  <2>1. Queues'
    BY <1>2, <1>5 DEF Queues, Quiet
  <2>2. Named' /\ Silent'
    BY <1>2, <1>4, <1>5 DEF SessInv, Named, Silent, SameSession, SameNames
  <2>3. Answering'
    BY <1>2, <1>5 DEF SessInv, Answering, Quiet, SameSession
  <2>4. LoginPackets(conn') = LoginPackets(conn)
    BY <1>5, SameLogin DEF SameSession
  <2>5. LoggingIn' /\ Behindhand'
    BY <1>2, <1>3, <1>4, <1>5, <2>4 DEF SessInv, LoggingIn, Behindhand, SameSession
  <2> QED BY <1>3a, <2>1, <2>2, <2>3, <2>5 DEF SessInv
<1>6. CASE /\ conn.state = STATE_HANDSHAKING /\ conn'.state \in {STATE_STATUS, STATE_LOGIN}
           /\ SameNames(conn, conn') /\ sendq' = << >>
  <2>1. sent' = << >>
    BY <1>2, <1>6 DEF SessInv, Silent
  <2>2. Queues' /\ Silent' /\ Answering'
    BY <1>3, <1>6, <2>1 DEF Queues, Silent, Answering, Quiet
  <2>3. Named' /\ LoggingIn' /\ Behindhand'
    BY <1>4, <1>6 DEF SessInv, Named, SameNames, LoggingIn, Behindhand
  <2> QED BY <1>3a, <2>2, <2>3 DEF SessInv
<1>7. CASE /\ conn.state = STATE_LOGIN /\ conn'.state = STATE_PLAY
           /\ conn'.player_name \in Seq(Byte) /\ conn'.uuid \in Seq(Byte)
           /\ conn'.uuid = OfflineUuid(conn'.player_name)
           /\ sendq' = LoginPackets(conn')
  <2>1. sent' = << >> /\ Len(sent') = 0 /\ DOMAIN sent' = {}
    BY <1>2, <1>3, <1>7 DEF SessInv, Silent
  <2>2. Queues'
    BY <1>3, <1>7, <2>1, LoginTyped DEF Queues
  <2>3. Named'
    BY <1>7 DEF Named
  <2>4. Silent' /\ Answering'
    BY <1>4, <1>7 DEF Silent, Answering
  <2>5. LoggingIn'
    BY <2>1 DEF LoggingIn
  <2>6. DOMAIN sendq' = 1 .. 16
    BY <1>7, LoginIs DEF LoginHas
  <2>7. \A i \in 1 .. 16 : 0 + i = i
    OBVIOUS
  <2>8. Behindhand'
    BY <1>7, <2>1, <2>6, <2>7 DEF Behindhand
  <2> QED BY <1>3a, <2>2, <2>3, <2>4, <2>5, <2>8 DEF SessInv
<1> QED BY <1>1, <1>5, <1>6, <1>7 DEF Advances

\* Nothing has been said at first.
LEMMA InitSess == Init => SessInv
<1> SUFFICES ASSUME Init PROVE SessInv
  OBVIOUS
<1>1. sent = << >> /\ sendq = << >> /\ conn.state = STATE_HANDSHAKING
  BY DEF Init
<1>2. Queues /\ Idle /\ Silent
  BY <1>1, EmptySeq DEF Queues, Idle, Silent
<1>3. Named
  BY DEF Init, Named, STATE_HANDSHAKING, STATE_PLAY
<1>4. Answering /\ LoggingIn /\ Behindhand
  BY <1>1 DEF Answering, LoggingIn, Behindhand, STATE_HANDSHAKING, STATE_STATUS, STATE_PLAY
<1> QED BY <1>2, <1>3, <1>4 DEF SessInv

\* Every step keeps the invariant.
LEMMA StepSess == IInv /\ SessInv /\ [Next]_vars => SessInv'
<1> SUFFICES ASSUME IInv, SessInv, [Next]_vars PROVE SessInv'
  OBVIOUS
<1>1. CASE HandleFrame
  BY <1>1, HandleFrameKeepsSession
<1>2. CASE Send
  BY <1>2, SendKeeps
<1>3. CASE ~HandleFrame /\ ~Send
  <2>1. UNCHANGED <<sent, sendq>> /\ (peer' \in {"open", "shut"} => peer \in {"open", "shut"})
    BY <1>3 DEF Next, Client, Server, Deliver, Shut, Reset, PollDisconnect, PollReadable,
           PollNothing, RecvBytes, RecvAgain, RecvBreak, RecvEnd, FrameIncomplete,
           HandlerFaults, NextFrame, vars, clientVars, serverVars, history
  <2>2. Idle'
    BY <1>3 DEF Next, Client, Server, Deliver, Shut, Reset, PollDisconnect, PollReadable,
           PollNothing, RecvBytes, RecvAgain, RecvBreak, RecvEnd, FrameIncomplete,
           HandlerFaults, NextFrame, vars, clientVars, serverVars, history, SessInv, Idle
  <2> QED BY <1>3, <2>1, <2>2, OthersKeepSession, SilentKeeps
<1> QED BY <1>1, <1>2, <1>3
-----------------------------------------------------------------------------
(* The session: the theorems *)

\* Every variable keeps its type: whatever bytes arrive, the handlers leave a
\* connection whose state is one of the four and whose name and UUID are byte
\* strings or unset, and what waits to be sent, and what has been sent, are
\* packets of the server with fields of their types (main.c:71-135, packet.c,
\* handshake.c, login.c).
THEOREM TypeCorrect == Spec => []TypeOK
<1>1. IInv /\ SessInv => TypeOK
  BY DEF IInv, StateTyped, SessInv, Queues, TypeOK
<1> QED BY <1>1, Invariance, InitSess, StepSess, PTL DEF Spec

\* A session only moves forward, has a name and a UUID exactly in play, and
\* keeps them, for every stream and segmentation (packet.c:18-38, 65-88,
\* handshake.c:35-40).
THEOREM SessionMovesForward == Spec => SessionForward
<1>1. IInv /\ SessInv /\ SessInv' /\ [Next]_vars =>
        [ /\ conn'.state # conn.state =>
               <<conn.state, conn'.state>> \in {<<STATE_HANDSHAKING, STATE_STATUS>>,
                 <<STATE_HANDSHAKING, STATE_LOGIN>>, <<STATE_LOGIN, STATE_PLAY>>}
          /\ conn.player_name # NULL =>
               <<conn'.player_name, conn'.uuid>> = <<conn.player_name, conn.uuid>>
          /\ (conn'.state = STATE_PLAY) = (conn'.player_name # NULL /\ conn'.uuid # NULL)
        ]_vars
  <2> SUFFICES ASSUME IInv, SessInv, SessInv', [Next]_vars
               PROVE  /\ conn'.state # conn.state =>
                           <<conn.state, conn'.state>> \in {<<STATE_HANDSHAKING, STATE_STATUS>>,
                             <<STATE_HANDSHAKING, STATE_LOGIN>>, <<STATE_LOGIN, STATE_PLAY>>}
                      /\ conn.player_name # NULL =>
                           conn'.player_name = conn.player_name /\ conn'.uuid = conn.uuid
                      /\ (conn'.state = STATE_PLAY)
                           = (conn'.player_name # NULL /\ conn'.uuid # NULL)
    OBVIOUS
  <2>1. (conn'.state = STATE_PLAY) = (conn'.player_name # NULL /\ conn'.uuid # NULL)
    BY PacketsAssumption DEF SessInv, Named
  <2>2. conn.state # STATE_PLAY => conn.player_name = NULL
    BY DEF SessInv, Named
  <2>3. SameSession(conn, conn') \/ Advances(conn, [conn |-> conn', replies |-> sendq'])
    BY HandleFrameAdvances, OthersKeepSession
  <2> QED BY <2>1, <2>2, <2>3 DEF Advances, SameSession, SameNames, STATE_HANDSHAKING,
             STATE_STATUS, STATE_LOGIN, STATE_PLAY
<1> QED BY <1>1, Invariance, InitSess, StepSess, PTL DEF Spec, SessionForward

\* A client that is not in play has been told no part of a login.
LEMMA SaidOutsidePlay ==
  ASSUME IInv, SessInv, conn.state # STATE_PLAY
  PROVE  Quiet(sent)
<1>1. conn.state \in {STATE_HANDSHAKING, STATE_STATUS, STATE_LOGIN}
  BY InvFields DEF Conns, States, STATE_HANDSHAKING, STATE_STATUS, STATE_LOGIN, STATE_PLAY
<1> QED BY <1>1, QuietReplies DEF SessInv, Silent, Answering

\* A client gets answers to status requests, or the sixteen packets of one
\* login as far as its socket takes them, in order and with the name and the
\* UUID of its connection, whatever it sends behind them (packet.c:65-88,
\* login.c:141-166, 286-310, 412-436).
THEOREM LoginIsOnce == Spec => []LoginOnce
<1>1. IInv /\ SessInv => LoginOnce
  <2> SUFFICES ASSUME IInv, SessInv PROVE LoginOnce
    OBVIOUS
  <2>0. sent \in Seq(Outgoing)
    BY DEF SessInv, Queues
  <2>1. CASE conn.state = STATE_PLAY
    <3>1. PICK n : n = Len(sent)
      OBVIOUS
    <3>2. n \in Nat /\ n <= 16 /\ DOMAIN sent = 1 .. n
      BY <2>0, <2>1, <3>1, LenProperties DEF SessInv, LoggingIn
    <3>3. \A i \in 1 .. n : i \in 1 .. 16 /\ sent[i] = LoginPackets(conn)[i]
      BY <2>1, <3>2 DEF SessInv, LoggingIn
    <3>4. conn.uuid = OfflineUuid(conn.player_name)
      BY <2>1 DEF SessInv, Named
    <3>5. \A i \in 1 .. n : NamedAs(sent[i], conn, LoginKinds[i])
      BY <3>3, <3>4, LoginNames
    <3> QED BY <3>1, <3>2, <3>5, KindsAre DEF LoginOnce, NamedAs
  <2>2. CASE conn.state # STATE_PLAY
    <3>1. Quiet(sent)
      BY <2>2, SaidOutsidePlay
    <3> QED BY <3>1 DEF LoginOnce, Quiet, Plain
  <2> QED BY <2>1, <2>2
<1> QED BY <1>1, Invariance, InitSess, StepSess, PTL DEF Spec

\* "must be after the chunks" (login.c:429): the nine chunks have been sent
\* before the event that tells a client to wait for them.
THEOREM ChunksComeFirst == Spec => []ChunksBeforeEvent
<1>1. IInv /\ SessInv => ChunksBeforeEvent
  <2> SUFFICES ASSUME IInv, SessInv, NEW i \in DOMAIN sent, sent[i][1] = "game_event"
               PROVE  \A p \in Chunks : \E j \in 1 .. i - 1 : sent[j] = p
    BY DEF ChunksBeforeEvent, Chunks
  <2>1. CASE conn.state = STATE_PLAY
    <3>1. PICK n, q : n = Len(sent) /\ q = LoginPackets(conn)
      OBVIOUS
    <3>2. n \in Nat /\ n <= 16 /\ DOMAIN sent = 1 .. n /\ \A j \in 1 .. n : sent[j] = q[j]
      BY <2>1, <3>1, LenProperties DEF SessInv, Queues, LoggingIn
    <3>3. DOMAIN q = 1 .. 16
      BY <3>1, LoginIs DEF LoginHas
    <3>4. i \in 1 .. n /\ i \in DOMAIN q /\ IsEvent(q[i])
      BY <3>2, <3>3 DEF IsEvent
    <3>5. \A p \in Chunks : \E j \in 1 .. i - 1 : q[j] = p
      BY <3>1, <3>4, LoginSequence
    <3>6. \A j \in 1 .. i - 1 : j \in 1 .. n
      BY <3>2, <3>4
    <3> QED BY <3>2, <3>5, <3>6
  <2>2. CASE conn.state # STATE_PLAY
    <3>1. Quiet(sent)
      BY <2>2, SaidOutsidePlay
    <3> QED BY <3>1 DEF Quiet, Plain
  <2> QED BY <2>1, <2>2
<1> QED BY <1>1, Invariance, InitSess, StepSess, PTL DEF Spec
-----------------------------------------------------------------------------
(* The requests: reading the answers from the packets sent *)

\* The answers in the first packets of q, as Answers defines them.
AnswersIs(f, q, N) ==
  f = [i \in 0 .. N |-> IF i = 0 THEN << >> ELSE f[i - 1] \o Answer(q[i])]

\* They exist.
LEMMA AnswersExist ==
  ASSUME NEW q, NEW N \in Nat
  PROVE  \E f : AnswersIs(f, q, N)
<1> DEFINE T == {n \in Nat : \E f : AnswersIs(f, q, n)}
<1>1. T \in SUBSET Nat /\ 0 \in T
  <2> DEFINE f == [i \in 0 .. 0 |-> << >>]
  <2>1. AnswersIs(f, q, 0)
    BY DEF AnswersIs
  <2> QED BY <2>1
<1>2. ASSUME NEW n \in 0 .. N - 1, n \in T PROVE n + 1 \in T
  <2>1. PICK f : AnswersIs(f, q, n)
    BY <1>2
  <2>2. PICK t : t = [i \in 0 .. n + 1 |-> Answer(q[i])]
    OBVIOUS
  <2>3. f = [i \in 0 .. n |-> IF i = 0 THEN << >> ELSE f[i - 1] \o t[i]]
    <3>1. \A i \in 0 .. n : t[i] = Answer(q[i])
      BY <2>2
    <3> QED BY <2>1, <3>1 DEF AnswersIs
  <2> DEFINE g == [i \in 0 .. n + 1 |-> IF i <= n THEN f[i] ELSE f[n] \o t[n + 1]]
  <2>4. ASSUME NEW i \in 0 .. n + 1
        PROVE  g[i] = IF i = 0 THEN << >> ELSE g[i - 1] \o t[i]
    <3>1. CASE i = n + 1
      <4>1. i # 0 /\ i - 1 = n /\ n \in 0 .. n + 1 /\ ~(i <= n) /\ n <= n
        BY <3>1
      <4>2. g[i] = f[n] \o t[n + 1] /\ g[i - 1] = f[n]
        BY <4>1
      <4> QED BY <3>1, <4>1, <4>2
    <3>2. CASE i <= n
      <4>1. i \in 0 .. n /\ (i # 0 => i - 1 \in 0 .. n + 1 /\ i - 1 <= n)
        BY <3>2
      <4>2. g[i] = f[i] /\ (i # 0 => g[i - 1] = f[i - 1])
        BY <3>2, <4>1
      <4>3. f[i] = IF i = 0 THEN << >> ELSE f[i - 1] \o t[i]
        BY <2>3, <4>1, Zenon
      <4> QED BY <4>2, <4>3
    <3> QED BY <3>1, <3>2
  <2>5. g = [i \in 0 .. n + 1 |-> IF i = 0 THEN << >> ELSE g[i - 1] \o t[i]]
    BY <2>4
  <2> HIDE DEF g
  <2>6. AnswersIs(g, q, n + 1)
    <3>1. \A i \in 0 .. n + 1 : t[i] = Answer(q[i])
      BY <2>2
    <3> QED BY <2>5, <3>1 DEF AnswersIs
  <2> QED BY <2>6
<1> HIDE DEF T
<1>3. N \in 0 .. N /\ 0 .. N \subseteq T
  BY <1>1, <1>2, Induction
<1> QED BY <1>3 DEF T

\* Whatever satisfies the equation has the answers.
LEMMA AnswersAre ==
  ASSUME NEW q, NEW N \in Nat, N = Len(q), NEW g, AnswersIs(g, q, N)
  PROVE  Answers(q) = g[N]
<1> DEFINE h == CHOOSE f : f = [i \in 0 .. Len(q) |->
                             IF i = 0 THEN << >> ELSE f[i - 1] \o Answer(q[i])]
<1>1. Answers(q) = h[Len(q)]
  BY DEF Answers
<1>2. AnswersIs(h, q, N)
  <2>1. \E f : f = [i \in 0 .. Len(q) |-> IF i = 0 THEN << >> ELSE f[i - 1] \o Answer(q[i])]
    BY DEF AnswersIs
  <2>2. h = [i \in 0 .. Len(q) |-> IF i = 0 THEN << >> ELSE h[i - 1] \o Answer(q[i])]
    BY <2>1
  <2> HIDE DEF h
  <2> QED BY <2>2 DEF AnswersIs
<1> HIDE DEF h
<1> DEFINE T == {n \in 0 .. N : h[n] = g[n]}
<1>3. T \in SUBSET Nat /\ 0 \in T
  <2>1. 0 \in 0 .. N
    OBVIOUS
  <2>2. h[0] = << >> /\ g[0] = << >>
    BY <1>2, <2>1 DEF AnswersIs
  <2> QED BY <2>1, <2>2
<1>4. ASSUME NEW n \in 0 .. N - 1, n \in T PROVE n + 1 \in T
  <2>1. PICK m : m = n + 1
    OBVIOUS
  <2>2. m \in 0 .. N /\ m # 0 /\ m - 1 = n
    BY <2>1
  <2>3. h[m] = h[m - 1] \o Answer(q[m]) /\ g[m] = g[m - 1] \o Answer(q[m])
    BY <1>2, <2>2 DEF AnswersIs
  <2>4. h[n] = g[n]
    BY <1>4
  <2>5. h[m] = g[m]
    BY <2>2, <2>3, <2>4
  <2> QED BY <2>1, <2>2, <2>5
<1> HIDE DEF T
<1>5. 0 .. N \subseteq T
  BY <1>3, <1>4, Induction
<1>6. N \in T
  BY <1>5
<1> QED BY <1>1, <1>6 DEF T

\* An answer is at most one reply.
LEMMA AnswerTyped ==
  ASSUME NEW p, NEW R, p \in R, <<"joined", p[3]>> \in R
  PROVE  Answer(p) \in Seq(R)
BY DEF Answer

\* The answers in some packets are a sequence.
LEMMA AnswersTyped ==
  ASSUME NEW S, NEW q \in Seq(S), NEW N \in Nat, N = Len(q), NEW f, AnswersIs(f, q, N)
  PROVE  \E R : \A n \in 0 .. N : f[n] \in Seq(R)
<1>1. PICK R : R = S \cup {<<"joined", p[3]>> : p \in S}
  OBVIOUS
<1>2. \A p \in S : Answer(p) \in Seq(R)
  <2> TAKE p \in S
  <2>1. p \in R /\ <<"joined", p[3]>> \in R
    BY <1>1
  <2> QED BY <2>1, AnswerTyped
<1> DEFINE T == {n \in 0 .. N : f[n] \in Seq(R)}
<1>3. T \in SUBSET Nat /\ 0 \in T
  <2>1. 0 \in 0 .. N
    OBVIOUS
  <2>2. f[0] = << >> /\ << >> \in Seq(R)
    BY <2>1 DEF AnswersIs
  <2>3. f[0] \in Seq(R)
    BY <2>2, Zenon
  <2> QED BY <2>1, <2>3
<1>4. ASSUME NEW n \in 0 .. N - 1, n \in T PROVE n + 1 \in T
  <2>1. PICK m : m = n + 1
    OBVIOUS
  <2>2. m \in 0 .. N /\ m # 0 /\ m - 1 = n /\ m \in 1 .. N
    BY <2>1
  <2>3. f[m] = f[m - 1] \o Answer(q[m])
    BY <2>2 DEF AnswersIs
  <2>4. f[n] \in Seq(R) /\ Answer(q[m]) \in Seq(R)
    BY <1>2, <1>4, <2>2, ElementOfSeq
  <2>5. f[m] \in Seq(R)
    BY <2>2, <2>3, <2>4, ConcatProperties
  <2> QED BY <2>1, <2>2, <2>5
<1> HIDE DEF T
<1>5. 0 .. N \subseteq T
  BY <1>3, <1>4, Induction
<1> QED BY <1>5 DEF T

\* A reply whose first packet alone may answer adds that answer.
LEMMA AnswersGrow ==
  ASSUME NEW S, NEW s \in Seq(S), NEW t \in Seq(S), 1 \in DOMAIN t,
         \A i \in DOMAIN t : i # 1 => Answer(t[i]) = << >>
  PROVE  Answers(s \o t) = Answers(s) \o Answer(t[1])
<1>1. PICK n, m, x : n = Len(s) /\ m = Len(t) /\ x = s \o t
  OBVIOUS
<1>2. /\ n \in Nat /\ m \in Nat /\ DOMAIN t = 1 .. m /\ m >= 1
      /\ x \in Seq(S) /\ Len(x) = n + m
      /\ \A i \in 1 .. n : x[i] = s[i]
      /\ \A i \in 1 .. m : x[n + i] = t[i]
  <2>1. n \in Nat /\ m \in Nat /\ DOMAIN t = 1 .. m
    BY <1>1, LenProperties
  <2>2. Behind(S, s, t, x)
    BY <1>1, Joined
  <2> QED BY <1>1, <2>1, <2>2 DEF Behind
<1>3. PICK f : AnswersIs(f, s, n)
  BY <1>2, AnswersExist
<1>4. Answers(s) = f[n]
  BY <1>1, <1>2, <1>3, AnswersAre
<1>5. PICK R : \A k \in 0 .. n : f[k] \in Seq(R)
  BY <1>1, <1>2, <1>3, AnswersTyped
<1>6. PICK last, g : /\ last = f[n] \o Answer(t[1])
                     /\ g = [i \in 0 .. n + m |-> IF i <= n THEN f[i] ELSE last]
  OBVIOUS
<1>7. last \o << >> = last
  <2>1. PICK a, b : a = f[n] /\ b = Answer(t[1])
    OBVIOUS
  <2>2. PICK Q : a \in Seq(Q) /\ b \in Seq(Q)
    <3>1. n \in 0 .. n
      BY <1>2
    <3>2. a \in Seq(R)
      BY <1>5, <2>1, <3>1
    <3>3. PICK Q : Q = R \cup {t[1], <<"joined", t[1][3]>>}
      OBVIOUS
    <3>4. b \in Seq(Q)
      BY <2>1, <3>3, AnswerTyped
    <3>5. a \in Seq(Q)
      BY <3>2, <3>3, SeqMonotonic
    <3> QED BY <3>4, <3>5
  <2>3. last \in Seq(Q)
    BY <1>6, <2>1, <2>2, ConcatProperties
  <2> QED BY <2>3, ConcatEmptySeq
<1>8. ASSUME NEW i \in 0 .. n + m
      PROVE  g[i] = IF i = 0 THEN << >> ELSE g[i - 1] \o Answer(x[i])
  <2>1. CASE i <= n
    <3>1. i \in 0 .. n /\ (i # 0 => i \in 1 .. n /\ i - 1 \in 0 .. n + m /\ i - 1 <= n)
      BY <1>2, <2>1
    <3>2. g[i] = f[i] /\ (i # 0 => g[i - 1] = f[i - 1] /\ x[i] = s[i])
      BY <1>2, <1>6, <2>1, <3>1
    <3>3. f[i] = IF i = 0 THEN << >> ELSE f[i - 1] \o Answer(s[i])
      BY <1>3, <3>1 DEF AnswersIs
    <3> QED BY <3>2, <3>3
  <2>2. CASE i = n + 1
    <3>1. i # 0 /\ ~(i <= n) /\ i - 1 = n /\ n \in 0 .. n + m /\ n <= n /\ 1 \in 1 .. m
      BY <1>2, <2>2
    <3>2. g[i] = last /\ g[i - 1] = f[n] /\ x[i] = t[1]
      BY <1>2, <1>6, <2>2, <3>1
    <3> QED BY <1>6, <3>1, <3>2
  <2>3. CASE i > n + 1
    <3>1. PICK j : j = i - n
      OBVIOUS
    <3>2. /\ j \in 1 .. m /\ j # 1 /\ i = n + j /\ i # 0
          /\ ~(i <= n) /\ i - 1 \in 0 .. n + m /\ ~(i - 1 <= n)
      BY <1>2, <2>3, <3>1
    <3>3. g[i] = last
      BY <1>6, <3>2
    <3>4. g[i - 1] = last
      BY <1>6, <3>2
    <3>5. x[i] = t[j] /\ Answer(t[j]) = << >>
      BY <1>2, <3>2
    <3> QED BY <1>7, <3>2, <3>3, <3>4, <3>5
  <2> QED BY <1>2, <2>1, <2>2, <2>3
<1>9. AnswersIs(g, x, n + m)
  <2>1. g = [i \in 0 .. n + m |-> g[i]]
    BY <1>6
  <2>2. PICK z : z = [i \in 0 .. n + m |-> IF i = 0 THEN << >> ELSE g[i - 1] \o Answer(x[i])]
    OBVIOUS
  <2>3. \A i \in 0 .. n + m : z[i] = g[i]
    BY <1>8, <2>2
  <2>4. z = [i \in 0 .. n + m |-> z[i]]
    BY <2>2
  <2>5. g = z
    BY <2>1, <2>3, <2>4
  <2> QED BY <2>2, <2>5 DEF AnswersIs
<1>10. Answers(x) = g[n + m]
  <2>1. n + m \in Nat /\ n + m = Len(x)
    BY <1>2
  <2> QED BY <1>9, <2>1, AnswersAre
<1>11. g[n + m] = last
  <2>1. n + m \in 0 .. n + m /\ ~(n + m <= n)
    BY <1>2
  <2> QED BY <1>6, <2>1
<1> QED BY <1>1, <1>4, <1>6, <1>10, <1>11

-----------------------------------------------------------------------------
(* The requests: a request is read as it was written *)

\* The states and ids that requests carry are small numbers.
LEMMA SmallNumbers ==
  /\ 0 .. 4 \subseteq Varints
  /\ {1, 2, 3} \subseteq Byte
<1>1. 0 .. 4 \subseteq Varints
  <2> SUFFICES ASSUME NEW n \in 0 .. 4 PROVE n \in Varints
    OBVIOUS
  <2>1. PICK h : h = 2^(VARINT_BITS - 1)
    OBVIOUS
  <2>2. h \in Nat
    <3>1. VARINT_BITS \in EXPONENTS /\ VARINT_BITS > 0
      BY Widths, WidthAssumption DEF Width
    <3>2. VARINT_BITS - 1 \in EXPONENTS
      BY <3>1, Exponents DEF EXPONENTS
    <3> QED BY <2>1, <3>2, PowerPositive
  <2>3. n < h
    BY <2>1, <2>2, RequestsAssumption DEF BAD_STATE
  <2> QED BY <2>1, <2>3, Numbers
<1>2. More \in Nat /\ More >= 2
  <2>1. GROUP \in EXPONENTS /\ 1 \in Nat /\ 1 <= GROUP
    BY Exponents
  <2>2. 2^1 <= 2^GROUP
    BY <2>1, PowerMonotone
  <2>3. 2^1 = 2
    OBVIOUS
  <2> QED BY <2>2, <2>3, MorePositive DEF More
<1>3. {1, 2, 3} \subseteq Byte
  BY <1>2 DEF Byte
<1> QED BY <1>1, <1>3

\* The ids of the states.
LEMMA StatesAre ==
  /\ STATE_HANDSHAKING = 0 /\ STATE_STATUS = 1 /\ STATE_LOGIN = 2 /\ STATE_PLAY = 3
  /\ States = 0 .. 3 /\ BAD_STATE = 4
BY DEF STATE_HANDSHAKING, STATE_STATUS, STATE_LOGIN, STATE_PLAY, States, BAD_STATE

\* What a client may send at all.
IsRequest(r) == IsHandshake(r) \/ IsStatus(r) \/ IsPing(r) \/ IsJoin(r) \/ IsOther(r)

\* The packet of each kind of request.
LEMMA Bodies ==
  ASSUME NEW r
  PROVE  /\ IsHandshake(r) => Body(r) = Handshake(NextState(r)) /\ NextState(r) \in {1, 2, 4}
         /\ IsStatus(r) => Body(r) = write_varint(0)
         /\ IsPing(r)   => Body(r) = write_varint(1) \o write_varlong(r[2])
         /\ IsJoin(r)   => Body(r) = write_varint(0) \o write_string(r[2])
         /\ IsOther(r)  => Body(r) = write_varint(2)
<1>1. IsHandshake(r) => r[1] = "handshake" /\ NextState(r) \in {1, 2, 4}
  BY StatesAre DEF IsHandshake, NextState
<1>2. /\ IsStatus(r) => r[1] = "status"
      /\ IsPing(r)   => r[1] = "ping"
      /\ IsJoin(r)   => r[1] = "login"
      /\ IsOther(r)  => r[1] = "other"
  <2>1. \A x, y : << x, y >>[1] = x
    OBVIOUS
  <2> QED BY <2>1 DEF IsStatus, IsPing, IsJoin, IsOther
<1>3. /\ r[1] = "handshake" => Body(r) = Handshake(NextState(r))
      /\ r[1] = "status" => Body(r) = write_varint(0)
      /\ r[1] = "ping"   => Body(r) = write_varint(1) \o write_varlong(r[2])
      /\ r[1] = "login"  => Body(r) = write_varint(0) \o write_string(r[2])
      /\ r[1] = "other"  => Body(r) = write_varint(2)
  BY DEF Body
<1> QED BY <1>1, <1>2, <1>3

\* The fields of a handshake, each followed by the others.
Fields(next) ==
  [port    |-> <<1, 2>> \o write_varint(next),
   address |-> write_string(<<3>>) \o (<<1, 2>> \o write_varint(next)),
   version |-> write_varint(1) \o (write_string(<<3>>) \o (<<1, 2>> \o write_varint(next)))]

\* They are bytes, and so is every packet.
LEMMA FieldsTyped ==
  ASSUME NEW next \in Int
  PROVE  /\ write_varint(next) \in Seq(Byte)
         /\ <<1, 2>> \in Seq(Byte) /\ Fields(next).port \in Seq(Byte)
         /\ write_string(<<3>>) \in Seq(Byte) /\ Fields(next).address \in Seq(Byte)
         /\ write_varint(1) \in Seq(Byte) /\ Fields(next).version \in Seq(Byte)
         /\ write_varint(0) \in Seq(Byte) /\ Handshake(next) = write_varint(0) \o Fields(next).version
         /\ Handshake(next) \in Seq(Byte)
<1>1. PICK a, b, c, d, e : /\ a = write_varint(next) /\ b = <<1, 2>> /\ c = write_string(<<3>>)
                           /\ d = write_varint(1) /\ e = write_varint(0)
  OBVIOUS
<1>2. a \in Seq(Byte) /\ b \in Seq(Byte) /\ c \in Seq(Byte) /\ d \in Seq(Byte) /\ e \in Seq(Byte)
  <2>1. <<1, 2>> \in Seq(Byte) /\ <<3>> \in Seq(Byte)
    BY SmallNumbers
  <2>2. /\ write_varint(next) \in Seq(Byte) /\ write_varint(1) \in Seq(Byte)
        /\ write_varint(0) \in Seq(Byte)
    <3>1. 0 \in Int /\ 1 \in Int
      OBVIOUS
    <3> QED BY <3>1, Written, Zenon
  <2>3. write_string(<<3>>) \in Seq(Byte)
    BY <2>1, Written, Zenon
  <2> QED BY <1>1, <2>1, <2>2, <2>3, Zenon
<1>3. \A s, t \in Seq(Byte) : s \o t \in Seq(Byte)
  BY ConcatProperties
<1>4. /\ b \o a \in Seq(Byte) /\ c \o (b \o a) \in Seq(Byte)
      /\ d \o (c \o (b \o a)) \in Seq(Byte) /\ e \o (d \o (c \o (b \o a))) \in Seq(Byte)
  BY <1>2, <1>3
<1>5. /\ Fields(next).port = b \o a /\ Fields(next).address = c \o (b \o a)
      /\ Fields(next).version = d \o (c \o (b \o a))
      /\ Handshake(next) = e \o (d \o (c \o (b \o a)))
  BY <1>1 DEF Fields, Handshake
<1> QED BY <1>1, <1>2, <1>4, <1>5

\* Every packet is a sequence of bytes.
LEMMA BodyTyped ==
  ASSUME NEW r, IsRequest(r)
  PROVE  Body(r) \in Seq(Byte)
<1>1. CASE IsHandshake(r)
  <2>1. NextState(r) \in Int /\ Body(r) = Handshake(NextState(r))
    BY <1>1, Bodies
  <2> QED BY <2>1, FieldsTyped
<1>2. CASE IsStatus(r) \/ IsOther(r)
  BY <1>2, Bodies, Written
<1>3. CASE IsPing(r)
  <2>1. PICK a, b : a = write_varint(1) /\ b = write_varlong(r[2])
    OBVIOUS
  <2>2. r[2] \in Int
    BY <1>3, Numbers DEF IsPing, Varlongs
  <2>3. a \in Seq(Byte) /\ b \in Seq(Byte)
    <3>1. 1 \in Int
      OBVIOUS
    <3> QED BY <2>1, <2>2, <3>1, Written, Zenon
  <2>4. Body(r) = a \o b
    BY <1>3, <2>1, Bodies, Zenon
  <2> QED BY <2>3, <2>4, ConcatProperties
<1>4. CASE IsJoin(r)
  <2>1. PICK a, b : a = write_varint(0) /\ b = write_string(r[2])
    OBVIOUS
  <2>2. r[2] \in Seq(Byte)
    BY <1>4 DEF IsJoin
  <2>3. a \in Seq(Byte) /\ b \in Seq(Byte)
    <3>1. 0 \in Int
      OBVIOUS
    <3> QED BY <2>1, <2>2, <3>1, Written, Zenon
  <2>4. Body(r) = a \o b
    BY <1>4, <2>1, Bodies, Zenon
  <2> QED BY <2>3, <2>4, ConcatProperties
<1> QED BY <1>1, <1>2, <1>3, <1>4 DEF IsRequest

\* A request that leads on is one.
LEMMA LeadsIs ==
  ASSUME NEW p, NEW r, NEW q, Leads(p, r, q)
  PROVE  IsRequest(r)
BY DEF Leads, IsRequest

-----------------------------------------------------------------------------
(* The requests: a request is served as its state demands *)

\* The answer that is due to request r in state p.
Due(p, r) ==
  CASE p = STATE_STATUS /\ IsStatus(r) -> << <<"status_response">> >>
    [] p = STATE_STATUS /\ IsPing(r)   -> << <<"pong", r[2]>> >>
    [] p = STATE_LOGIN /\ IsJoin(r)    -> << <<"joined", CString(r[2])>> >>
    [] OTHER                           -> << >>

\* Packets t give answer a: with the first of them, if they give one at all.
Gives(t, a) ==
  /\ \E S : t \in Seq(S)
  /\ \/ t = << >> /\ a = << >>
     \/ /\ 1 \in DOMAIN t /\ Answer(t[1]) = a
        /\ \A i \in DOMAIN t : i # 1 => Answer(t[i]) = << >>

\* What a handler does that serves r in state p.
ServedBy(p, r, q, res) == ~res.fault /\ res.conn.state = q /\ Gives(res.replies, Due(p, r))

\* Nothing, and a single packet.
LEMMA GivesOne ==
  /\ Gives(<< >>, << >>)
  /\ \A p : Gives(<<p>>, Answer(p))
<1>1. << >> \in Seq({})
  OBVIOUS
<1>2. ASSUME NEW p PROVE Gives(<<p>>, Answer(p))
  <2>1. <<p>> \in Seq({p}) /\ DOMAIN <<p>> = {1} /\ <<p>>[1] = p
    OBVIOUS
  <2> QED BY <2>1 DEF Gives
<1> QED BY <1>1, <1>2 DEF Gives

\* The handler that an id selects.
LEMMA Dispatch ==
  ASSUME NEW c \in Conns, NEW b, NEW v, read_varint[c.buf] = [buf |-> b, val |-> v],
         NEW d, d = [c EXCEPT !.buf = b]
  PROVE  /\ c.state = 0 /\ v = 0 => handle_packet[c] = handle_handshake(d)
         /\ c.state = 1 /\ v = 0 => handle_packet[c] = handle_status_request(d)
         /\ c.state = 1 /\ v = 1 => handle_packet[c] = handle_ping(d)
         /\ c.state = 2 /\ v = 0 => handle_packet[c] = handle_login_start(d)
         /\ c.state = 3 \/ v = 2 => handle_packet[c] = Handled(d, << >>)
<1>1. PICK id : id = read_varint[c.buf]
  OBVIOUS
<1>2. id.buf = b /\ id.val = v
  BY <1>1
<1>3. handle_packet[c] =
        CASE c.state = STATE_HANDSHAKING /\ id.val = 0 -> handle_handshake([c EXCEPT !.buf = id.buf])
          [] c.state = STATE_STATUS /\ id.val = 0 -> handle_status_request([c EXCEPT !.buf = id.buf])
          [] c.state = STATE_STATUS /\ id.val = 1 -> handle_ping([c EXCEPT !.buf = id.buf])
          [] c.state = STATE_LOGIN /\ id.val = 0 -> handle_login_start([c EXCEPT !.buf = id.buf])
          [] OTHER -> Handled([c EXCEPT !.buf = id.buf], << >>)
  BY <1>1, Zenon DEF handle_packet
<1>4. PICK h, s, p, l, o : /\ h = handle_handshake(d) /\ s = handle_status_request(d)
                           /\ p = handle_ping(d) /\ l = handle_login_start(d)
                           /\ o = Handled(d, << >>)
  OBVIOUS
<1>5. handle_packet[c] =
        CASE c.state = 0 /\ v = 0 -> h
          [] c.state = 1 /\ v = 0 -> s
          [] c.state = 1 /\ v = 1 -> p
          [] c.state = 2 /\ v = 0 -> l
          [] OTHER -> o
  BY <1>2, <1>3, <1>4, StatesAre, Zenon
<1> QED BY <1>4, <1>5

\* What a handler returns that sends packets and goes on.
LEMMA HandledIs ==
  ASSUME NEW c, NEW t
  PROVE  Handled(c, t).conn = c /\ Handled(c, t).replies = t /\ ~Handled(c, t).fault
BY DEF Handled

\* The handshake is read field by field, and its next state is taken.
LEMMA HandshakeServed ==
  ASSUME NEW d \in Conns, NEW next \in {1, 2, 4}, Ahead(d.buf, Fields(next).version),
         NEW res, res = handle_handshake(d)
  PROVE  /\ ~res.fault /\ res.replies = << >>
         /\ next \in {1, 2} => res.conn.state = next
         /\ next = 4 => res.conn.state = d.state
<1>1. PICK s1, s2, s3, s4 : /\ s1 = write_varint(1) /\ s2 = write_string(<<3>>)
                            /\ s3 = <<1, 2>> /\ s4 = write_varint(next)
  OBVIOUS
<1>2. /\ s1 \in Seq(Byte) /\ s2 \in Seq(Byte) /\ s3 \in Seq(Byte) /\ s4 \in Seq(Byte)
      /\ s3 \o s4 \in Seq(Byte) /\ s2 \o (s3 \o s4) \in Seq(Byte)
  <2>1. next \in Int
    OBVIOUS
  <2> QED BY <1>1, <2>1, FieldsTyped, Zenon DEF Fields
<1>3. PICK b1, b2, b3, b4, b5 : /\ b1 = d.buf /\ b2 = Past(b1, Len(s1)) /\ b3 = Past(b2, Len(s2))
                                /\ b4 = Past(b3, Len(s3)) /\ b5 = Past(b4, Len(s4))
  OBVIOUS
<1>4. Ahead(b1, s1 \o (s2 \o (s3 \o s4)))
  BY <1>1, <1>3 DEF Fields
<1>5. Ahead(b1, s1) /\ Ahead(b2, s2 \o (s3 \o s4))
  BY <1>2, <1>3, <1>4, AheadParts
<1>6. Ahead(b2, s2) /\ Ahead(b3, s3 \o s4)
  BY <1>2, <1>3, <1>5, AheadParts
<1>7. Ahead(b3, s3) /\ Ahead(b4, s4)
  BY <1>2, <1>3, <1>6, AheadParts
<1>8. 1 \in Varints /\ next \in Varints
  BY SmallNumbers
<1>9. read_varint[b1] = [buf |-> b2, val |-> 1]
  BY <1>1, <1>3, <1>5, <1>8, VarintAhead, Zenon
<1>10. read_string[b2] = [buf |-> b3, len |-> 1, ptr |-> TRUE, str |-> <<3>>]
  <2>1. <<3>> \in Seq(Byte) /\ Len(<<3>>) = 1
    BY SmallNumbers
  <2> QED BY <1>1, <1>3, <1>6, <1>8, <2>1, StringAhead, Zenon
<1>11. read_ushort[b3].buf = b4
  <2>1. Len(s3) = 2
    BY <1>1
  <2> QED BY <1>3, <1>7, <2>1, UshortAhead, Zenon
<1>12. read_varint[b4] = [buf |-> b5, val |-> next]
  BY <1>1, <1>3, <1>7, <1>8, VarintAhead, Zenon
<1>13. PICK version, addr, port, last :
         /\ version = read_varint[d.buf] /\ addr = read_string[version.buf]
         /\ port = read_ushort[addr.buf] /\ last = read_varint[port.buf]
  OBVIOUS
<1>14. /\ addr.ptr = TRUE /\ ~(addr.len < 0) /\ last.val = next
  <2>1. version.buf = b2
    BY <1>3, <1>9, <1>13
  <2>2. addr = [buf |-> b3, len |-> 1, ptr |-> TRUE, str |-> <<3>>]
    BY <1>10, <1>13, <2>1, Zenon
  <2>3. addr.buf = b3 /\ addr.ptr = TRUE /\ addr.len = 1
    BY <2>2
  <2>4. last = [buf |-> b5, val |-> next]
    BY <1>11, <1>12, <1>13, <2>3, Zenon
  <2> QED BY <2>3, <2>4
<1>15. res = IF addr.ptr /\ addr.len < 0 THEN Faulted(d)
             ELSE IF last.val \in {STATE_STATUS, STATE_LOGIN}
             THEN Handled([d EXCEPT !.buf = last.buf, !.state = last.val], << >>)
             ELSE [Handled([d EXCEPT !.buf = [last.buf EXCEPT !.error = TRUE]], << >>)
                     EXCEPT !.refused = TRUE]
  BY <1>13, Zenon DEF handle_handshake
<1>16. CASE next \in {1, 2}
  <2>1. PICK e : e = [d EXCEPT !.buf = last.buf, !.state = last.val]
    OBVIOUS
  <2>2. res = Handled(e, << >>)
    BY <1>14, <1>15, <1>16, <2>1, StatesAre, Zenon
  <2>3. e.state = next
    BY <1>14, <2>1 DEF Conns
  <2> QED BY <1>16, <2>2, <2>3, HandledIs
<1>17. CASE next = 4
  <2>1. PICK x, e : x = [last.buf EXCEPT !.error = TRUE] /\ e = [d EXCEPT !.buf = x]
    OBVIOUS
  <2>2. next \notin {STATE_STATUS, STATE_LOGIN}
    BY <1>17, StatesAre
  <2>3. res = [Handled(e, << >>) EXCEPT !.refused = TRUE]
    BY <1>14, <1>15, <2>1, <2>2, Zenon
  <2>4. e.state = d.state
    BY <2>1 DEF Conns
  <2>5. res.conn = e /\ res.replies = << >> /\ ~res.fault
    BY <2>3 DEF Handled
  <2> QED BY <1>17, <2>4, <2>5
<1> QED BY <1>16, <1>17

\* A ping is answered with its payload.
LEMMA PingServed ==
  ASSUME NEW d \in Conns, NEW x \in Varlongs, Ahead(d.buf, write_varlong(x)),
         NEW res, res = handle_ping(d)
  PROVE  /\ ~res.fault /\ res.conn.state = d.state
         /\ Gives(res.replies, << <<"pong", x>> >>)
<1>1. PICK b : read_varlong[d.buf] = [buf |-> b, val |-> x]
  BY VarlongAhead
<1>2. PICK payload : payload = read_varlong[d.buf]
  OBVIOUS
<1>3. payload.buf = b /\ payload.val = x
  BY <1>1, <1>2
<1>4. PICK e : e = [d EXCEPT !.buf = b]
  OBVIOUS
<1>5. res = Handled(e, << <<"pong", x>> >>)
  BY <1>2, <1>3, <1>4, Zenon DEF handle_ping
<1>6. e.state = d.state
  BY <1>4 DEF Conns
<1>7. Answer(<<"pong", x>>) = << <<"pong", x>> >>
  BY DEF Answer
<1>8. Gives(<< <<"pong", x>> >>, << <<"pong", x>> >>)
  BY <1>7, GivesOne, Zenon
<1> QED BY <1>5, <1>6, <1>8, HandledIs

\* A login is answered with the login sequence, whose first packet says the
\* name that was sent.
LEMMA LoginServed ==
  ASSUME NEW d \in Conns, NEW name \in Seq(Byte), Len(name) \in Varints,
         Ahead(d.buf, write_string(name)), NEW res, res = handle_login_start(d)
  PROVE  /\ ~res.fault /\ res.conn.state = 3
         /\ Gives(res.replies, << <<"joined", CString(name)>> >>)
<1>1. PICK b, n : /\ b = Past(d.buf, Len(write_string(name)))
                  /\ n = read_string[d.buf]
  OBVIOUS
<1>2. n = [buf |-> b, len |-> Len(name), ptr |-> TRUE, str |-> name]
  BY <1>1, StringAhead, Zenon
<1>3. n.buf = b /\ n.len = Len(name) /\ n.ptr = TRUE /\ n.str = name
  BY <1>2
<1>4. ~(n.len < 0 \/ (~n.ptr /\ n.len # 0))
  <2>1. Len(name) \in Nat
    BY LenProperties
  <2> QED BY <1>3, <2>1
<1>5. PICK e : e = [buf |-> n.buf, state |-> STATE_PLAY, player_name |-> n.str,
                    uuid |-> OfflineUuid(n.str)]
  OBVIOUS
<1>6. res = Handled(e, LoginPackets(e))
  BY <1>1, <1>4, <1>5, Zenon DEF handle_login_start, LoginPackets
<1>7. e.state = 3 /\ e.player_name = name
  BY <1>3, <1>5, StatesAre
<1>8. Answer(LoginSuccess(e)) = << <<"joined", CString(name)>> >>
  <2>1. PICK u, s : u = e.uuid /\ s = CString(name)
    OBVIOUS
  <2>2. LoginSuccess(e) = <<"login_success", u, s>>
    BY <1>7, <2>1 DEF LoginSuccess
  <2>3. Answer(<<"login_success", u, s>>) = << <<"joined", s>> >>
    BY DEF Answer
  <2> QED BY <2>1, <2>2, <2>3
<1>9. Gives(LoginPackets(e), << <<"joined", CString(name)>> >>)
  <2>1. PICK t : t = LoginPackets(e)
    OBVIOUS
  <2>2. /\ \E S : t \in Seq(S)
        /\ 1 \in DOMAIN t /\ t[1] = LoginSuccess(e)
        /\ \A i \in DOMAIN t : i # 1 => Answer(t[i]) = << >>
    BY <2>1, LoginSequence, Zenon
  <2>3. Answer(t[1]) = << <<"joined", CString(name)>> >>
    BY <1>8, <2>2, Zenon
  <2> QED BY <2>1, <2>2, <2>3, Zenon DEF Gives
<1> QED BY <1>6, <1>7, <1>9, HandledIs

\* A request is of one kind.
LEMMA Kinds ==
  ASSUME NEW r
  PROVE  /\ IsHandshake(r) => r[1] = "handshake"
         /\ IsStatus(r) => r[1] = "status"
         /\ IsPing(r)   => r[1] = "ping"
         /\ IsJoin(r)   => r[1] = "login"
         /\ IsOther(r)  => r[1] = "other"
<1>1. IsHandshake(r) => r[1] = "handshake"
  BY DEF IsHandshake
<1>2. /\ IsStatus(r) => r[1] = "status"
      /\ IsPing(r)   => r[1] = "ping"
      /\ IsJoin(r)   => r[1] = "login"
      /\ IsOther(r)  => r[1] = "other"
  <2>1. \A x, y : << x, y >>[1] = x
    OBVIOUS
  <2> QED BY <2>1 DEF IsStatus, IsPing, IsJoin, IsOther
<1> QED BY <1>1, <1>2

\* The answers that are due, kind by kind.
LEMMA DueIs ==
  ASSUME NEW p, NEW r
  PROVE  /\ p = 1 /\ IsStatus(r) => Due(p, r) = << <<"status_response">> >>
         /\ p = 1 /\ IsPing(r) => Due(p, r) = << <<"pong", r[2]>> >>
         /\ p = 2 /\ IsJoin(r) => Due(p, r) = << <<"joined", CString(r[2])>> >>
         /\ IsOther(r) \/ IsHandshake(r) \/ p = 3 => Due(p, r) = << >>
<1>1. PICK s, g, j, x : /\ s = << <<"status_response">> >> /\ g = << <<"pong", r[2]>> >>
                        /\ j = << <<"joined", CString(r[2])>> >> /\ x = r[1]
  OBVIOUS
<1>2. Due(p, r) = CASE p = 1 /\ IsStatus(r) -> s
                    [] p = 1 /\ IsPing(r) -> g
                    [] p = 2 /\ IsJoin(r) -> j
                    [] OTHER -> << >>
  BY <1>1, StatesAre, Zenon DEF Due
<1>3. /\ IsHandshake(r) => x = "handshake"
      /\ IsStatus(r) => x = "status"
      /\ IsPing(r)   => x = "ping"
      /\ IsJoin(r)   => x = "login"
      /\ IsOther(r)  => x = "other"
  BY <1>1, Kinds, Zenon
<1> QED BY <1>1, <1>2, <1>3

\* The id of a packet is read, and what is behind it is ahead.
LEMMA IdRead ==
  ASSUME NEW c \in Conns, NEW v \in 0 .. 2, Ahead(c.buf, write_varint(v)),
         NEW b, b = Past(c.buf, Len(write_varint(v))), NEW d, d = [c EXCEPT !.buf = b]
  PROVE  /\ read_varint[c.buf] = [buf |-> b, val |-> v]
         /\ d \in Conns /\ d.buf = b /\ d.state = c.state
<1>1. v \in Varints /\ v \in Int
  BY SmallNumbers
<1>2. read_varint[c.buf] = [buf |-> b, val |-> v]
  BY <1>1, VarintAhead, Zenon
<1>3. Len(write_varint(v)) \in Nat
  BY <1>1, Written, WidthAssumption
<1>4. b \in Netbufs
  BY <1>3, ConnFields, PastIs
<1>5. d \in Conns /\ d.buf = b
  BY <1>4, ConnUpdated
<1>6. d.state = c.state
  BY DEF Conns
<1> QED BY <1>2, <1>5, <1>6

\* An id that other fields follow is read, and these are ahead.
LEMMA IdBefore ==
  ASSUME NEW c \in Conns, NEW v \in 0 .. 2, NEW t \in Seq(Byte), NEW w, Ahead(c.buf, w),
         w = write_varint(v) \o t, NEW b, b = Past(c.buf, Len(write_varint(v)))
  PROVE  Ahead(c.buf, write_varint(v)) /\ Ahead(b, t)
<1>1. PICK u : u = write_varint(v)
  OBVIOUS
<1>2. u \in Seq(Byte)
  <2>1. v \in Int
    OBVIOUS
  <2> QED BY <1>1, <2>1, Written, Zenon
<1>3. Ahead(c.buf, u \o t) /\ b = Past(c.buf, Len(u))
  BY <1>1
<1>4. Ahead(c.buf, u) /\ Ahead(b, t)
  <2>1. Ahead(c.buf, u) /\ Ahead(Past(c.buf, Len(u)), t)
    BY <1>2, <1>3, AheadParts
  <2> QED BY <1>3, <2>1
<1> QED BY <1>1, <1>4

\* Whatever a client of the protocol sends is served as the state demands.
LEMMA HandlerServes ==
  ASSUME NEW c \in Conns, NEW r, NEW q, Leads(c.state, r, q), Ahead(c.buf, Body(r)),
         Len(Body(r)) < 2^(VARINT_BITS - 1)
  PROVE  ServedBy(c.state, r, q, handle_packet[c])
<1>1. PICK res : res = handle_packet[c]
  OBVIOUS
<1>2. SUFFICES ServedBy(c.state, r, q, res)
  BY <1>1
<1>3. c.state \in 0 .. 3
  BY StatesAre DEF Conns
<1>4. 0 \in Int /\ 1 \in Int /\ 2 \in Int /\ 0 \in 0 .. 2 /\ 1 \in 0 .. 2 /\ 2 \in 0 .. 2
  OBVIOUS
<1>5. /\ write_varint(0) \in Seq(Byte) /\ write_varint(1) \in Seq(Byte)
      /\ write_varint(2) \in Seq(Byte)
  BY <1>4, Written, Zenon
<1>6. ASSUME NEW v \in 0 .. 2, Ahead(c.buf, write_varint(v)), c.state = 3 \/ v = 2
      PROVE  ~res.fault /\ res.conn.state = c.state /\ res.replies = << >>
  <2>1. PICK b : b = Past(c.buf, Len(write_varint(v)))
    OBVIOUS
  <2>2. PICK d : d = [c EXCEPT !.buf = b]
    OBVIOUS
  <2>3. read_varint[c.buf] = [buf |-> b, val |-> v] /\ d.state = c.state
    BY <1>6, <2>1, <2>2, IdRead
  <2>4. handle_packet[c] = Handled(d, << >>)
    BY <1>6, <2>2, <2>3, Dispatch
  <2> QED BY <1>1, <2>3, <2>4, HandledIs
<1>7. CASE IsOther(r)
  <2>1. q = c.state /\ Ahead(c.buf, write_varint(2))
    <3>1. r[1] = "other"
      BY <1>7, Kinds
    <3>2. Body(r) = write_varint(2)
      BY <1>7, Bodies
    <3>3. ~IsHandshake(r) /\ ~IsStatus(r) /\ ~IsPing(r) /\ ~IsJoin(r)
      BY <3>1, Kinds
    <3> QED BY <3>2, <3>3 DEF Leads
  <2>2. ~res.fault /\ res.conn.state = c.state /\ res.replies = << >>
    BY <1>4, <1>6, <2>1
  <2>3. Due(c.state, r) = << >>
    BY <1>7, DueIs
  <2> QED BY <2>1, <2>2, <2>3, GivesOne DEF ServedBy
<1>8. CASE c.state = 0 /\ IsHandshake(r)
  <2>1. PICK next : next = NextState(r)
    OBVIOUS
  <2>2. Body(r) = Handshake(next) /\ next \in {1, 2, 4}
    BY <1>8, <2>1, Bodies
  <2>3. PICK t : t = Fields(next).version
    OBVIOUS
  <2>4. t \in Seq(Byte) /\ Handshake(next) = write_varint(0) \o t
    <3>1. next \in Int
      BY <2>2
    <3> QED BY <2>3, <3>1, FieldsTyped, Zenon
  <2>5. PICK b : b = Past(c.buf, Len(write_varint(0)))
    OBVIOUS
  <2>6. PICK d : d = [c EXCEPT !.buf = b]
    OBVIOUS
  <2>7. Ahead(c.buf, write_varint(0)) /\ Ahead(b, t)
    BY <1>4, <2>2, <2>4, <2>5, IdBefore
  <2>8. /\ read_varint[c.buf] = [buf |-> b, val |-> 0]
        /\ d \in Conns /\ d.buf = b /\ d.state = c.state
    BY <1>4, <2>5, <2>6, <2>7, IdRead
  <2>9. handle_packet[c] = handle_handshake(d)
    BY <1>8, <2>6, <2>8, Dispatch
  <2>10. /\ ~res.fault /\ res.replies = << >>
         /\ next \in {1, 2} => res.conn.state = next
         /\ next = 4 => res.conn.state = d.state
    BY <1>1, <2>2, <2>3, <2>7, <2>8, <2>9, HandshakeServed
  <2>11. res.conn.state = q
    <3>1. PICK k : r = <<"handshake", k>> /\ k \in {"status", "login", "other"} /\ r[2] = k
      BY <1>8 DEF IsHandshake
    <3>2. next = IF k = "status" THEN 1 ELSE IF k = "login" THEN 2 ELSE 4
      BY <2>1, <3>1, StatesAre DEF NextState
    <3>3. q = (IF k = "other" THEN c.state ELSE next)
      <4>1. ~IsOther(r)
        BY <1>8, Kinds
      <4> QED BY <1>8, <2>1, <3>1, <4>1, StatesAre DEF Leads
    <3> QED BY <2>8, <2>10, <3>1, <3>2, <3>3
  <2>12. Due(c.state, r) = << >>
    BY <1>8, DueIs
  <2> QED BY <2>10, <2>11, <2>12, GivesOne DEF ServedBy
<1>9. CASE c.state = 1 /\ IsStatus(r)
  <2>1. q = c.state /\ Ahead(c.buf, write_varint(0))
    BY <1>9, StatesAre, Bodies, Kinds DEF Leads
  <2>2. PICK b : b = Past(c.buf, Len(write_varint(0)))
    OBVIOUS
  <2>3. PICK d : d = [c EXCEPT !.buf = b]
    OBVIOUS
  <2>4. read_varint[c.buf] = [buf |-> b, val |-> 0] /\ d.state = c.state
    BY <1>4, <2>1, <2>2, <2>3, IdRead
  <2>5. PICK p : p = <<"status_response">>
    OBVIOUS
  <2>6. res = Handled(d, <<p>>)
    <3>1. handle_packet[c] = handle_status_request(d)
      BY <1>9, <2>3, <2>4, Dispatch
    <3> QED BY <1>1, <2>5, <3>1, Zenon DEF handle_status_request
  <2>7. Answer(p) = <<p>>
    BY <2>5 DEF Answer
  <2>8. Due(c.state, r) = <<p>>
    BY <1>9, <2>5, DueIs
  <2>9. Gives(<<p>>, <<p>>)
    BY <2>7, GivesOne, Zenon
  <2> QED BY <2>1, <2>4, <2>6, <2>8, <2>9, HandledIs DEF ServedBy
<1>10. CASE c.state = 1 /\ IsPing(r)
  <2>1. PICK x, t : x = r[2] /\ t = write_varlong(x)
    OBVIOUS
  <2>2. x \in Varlongs /\ x \in Int
    <3>1. x \in Varlongs
      BY <1>10, <2>1 DEF IsPing, Varlongs
    <3> QED BY <3>1, Numbers
  <2>3. q = c.state /\ Body(r) = write_varint(1) \o t /\ t \in Seq(Byte)
    <3>1. q = c.state
      BY <1>10, StatesAre, Kinds DEF Leads
    <3>2. Body(r) = write_varint(1) \o t
      BY <1>10, <2>1, Bodies, Zenon
    <3> QED BY <2>1, <2>2, <3>1, <3>2, Written, Zenon
  <2>4. PICK b : b = Past(c.buf, Len(write_varint(1)))
    OBVIOUS
  <2>5. PICK d : d = [c EXCEPT !.buf = b]
    OBVIOUS
  <2>6. Ahead(c.buf, write_varint(1)) /\ Ahead(b, t)
    BY <1>4, <2>3, <2>4, IdBefore
  <2>7. /\ read_varint[c.buf] = [buf |-> b, val |-> 1]
        /\ d \in Conns /\ d.buf = b /\ d.state = c.state
    BY <1>4, <2>4, <2>5, <2>6, IdRead
  <2>8. res = handle_ping(d)
    BY <1>1, <1>10, <2>5, <2>7, Dispatch
  <2>9. /\ ~res.fault /\ res.conn.state = d.state
        /\ Gives(res.replies, << <<"pong", x>> >>)
    BY <2>1, <2>2, <2>6, <2>7, <2>8, PingServed
  <2>10. Due(c.state, r) = << <<"pong", x>> >>
    BY <1>10, <2>1, DueIs
  <2> QED BY <2>3, <2>7, <2>9, <2>10 DEF ServedBy
<1>11. CASE c.state = 2 /\ IsJoin(r)
  <2>1. PICK x, t : x = r[2] /\ t = write_string(x)
    OBVIOUS
  <2>2. x \in Seq(Byte)
    BY <1>11, <2>1 DEF IsJoin
  <2>3. q = 3 /\ Body(r) = write_varint(0) \o t /\ t \in Seq(Byte) /\ Len(x) <= Len(t)
    <3>1. q = 3
      BY <1>11, StatesAre, Kinds DEF Leads
    <3>2. Body(r) = write_varint(0) \o t
      BY <1>11, <2>1, Bodies, Zenon
    <3> QED BY <2>1, <2>2, <3>1, <3>2, Written, Zenon
  <2>4. PICK b : b = Past(c.buf, Len(write_varint(0)))
    OBVIOUS
  <2>5. PICK d : d = [c EXCEPT !.buf = b]
    OBVIOUS
  <2>6. Ahead(c.buf, write_varint(0)) /\ Ahead(b, t)
    BY <1>4, <2>3, <2>4, IdBefore
  <2>7. /\ read_varint[c.buf] = [buf |-> b, val |-> 0]
        /\ d \in Conns /\ d.buf = b /\ d.state = c.state
    BY <1>4, <2>4, <2>5, <2>6, IdRead
  <2>8. res = handle_login_start(d)
    BY <1>1, <1>11, <2>5, <2>7, Dispatch
  <2>9. Len(x) \in Varints
    <3>1. PICK h, w : h = 2^(VARINT_BITS - 1) /\ w = write_varint(0)
      OBVIOUS
    <3>2. Len(w \o t) < h /\ w \in Seq(Byte)
      BY <1>5, <2>3, <3>1, Zenon
    <3>3. Len(w \o t) = Len(w) + Len(t) /\ Len(w) \in Nat /\ Len(t) \in Nat /\ Len(x) \in Nat
      BY <2>2, <2>3, <3>2, ConcatProperties, LenProperties
    <3>4. h \in Nat
      <4>1. VARINT_BITS \in EXPONENTS /\ VARINT_BITS > 0
        BY Widths, WidthAssumption DEF Width
      <4>2. VARINT_BITS - 1 \in EXPONENTS
        BY <4>1, Exponents DEF EXPONENTS
      <4> QED BY <3>1, <4>2, PowerPositive
    <3>5. Len(x) < h
      BY <2>3, <3>2, <3>3, <3>4
    <3> QED BY <3>1, <3>3, <3>5, Numbers, Zenon
  <2>10. /\ ~res.fault /\ res.conn.state = 3
         /\ Gives(res.replies, << <<"joined", CString(x)>> >>)
    BY <2>1, <2>2, <2>6, <2>7, <2>8, <2>9, LoginServed
  <2>11. Due(c.state, r) = << <<"joined", CString(x)>> >>
    BY <1>11, <2>1, DueIs
  <2> QED BY <2>3, <2>10, <2>11 DEF ServedBy
<1>12. CASE c.state = 3 /\ ~IsOther(r)
  <2>1. q = c.state /\ (IsHandshake(r) \/ IsStatus(r) \/ IsPing(r) \/ IsJoin(r))
    BY <1>12, StatesAre DEF Leads
  <2>2. \E v \in 0 .. 2 : Ahead(c.buf, write_varint(v))
    <3>1. CASE IsHandshake(r)
      <4>1. PICK next : next = NextState(r)
        OBVIOUS
      <4>2. Body(r) = Handshake(next) /\ next \in Int
        BY <3>1, <4>1, Bodies
      <4>3. PICK t : t = Fields(next).version
        OBVIOUS
      <4>4. t \in Seq(Byte) /\ Handshake(next) = write_varint(0) \o t
        BY <4>2, <4>3, FieldsTyped, Zenon
      <4>5. Ahead(c.buf, write_varint(0))
        BY <1>4, <4>2, <4>4, IdBefore
      <4> QED BY <1>4, <4>5
    <3>2. CASE IsStatus(r)
      <4>1. Ahead(c.buf, write_varint(0))
        BY <3>2, Bodies
      <4> QED BY <1>4, <4>1
    <3>3. CASE IsPing(r)
      <4>1. PICK t : t = write_varlong(r[2])
        OBVIOUS
      <4>2. r[2] \in Int
        BY <3>3, Numbers DEF IsPing, Varlongs
      <4>3. Body(r) = write_varint(1) \o t /\ t \in Seq(Byte)
        BY <3>3, <4>1, <4>2, Bodies, Written, Zenon
      <4>4. Ahead(c.buf, write_varint(1))
        BY <1>4, <4>3, IdBefore
      <4> QED BY <1>4, <4>4
    <3>4. CASE IsJoin(r)
      <4>1. PICK t : t = write_string(r[2])
        OBVIOUS
      <4>2. r[2] \in Seq(Byte)
        BY <3>4 DEF IsJoin
      <4>3. Body(r) = write_varint(0) \o t /\ t \in Seq(Byte)
        BY <3>4, <4>1, <4>2, Bodies, Written, Zenon
      <4>4. Ahead(c.buf, write_varint(0))
        BY <1>4, <4>3, IdBefore
      <4> QED BY <1>4, <4>4
    <3> QED BY <2>1, <3>1, <3>2, <3>3, <3>4
  <2>3. ~res.fault /\ res.conn.state = c.state /\ res.replies = << >>
    BY <1>6, <1>12, <2>2
  <2>4. Due(c.state, r) = << >>
    BY <1>12, DueIs
  <2> QED BY <2>1, <2>3, <2>4, GivesOne DEF ServedBy
<1> QED BY <1>7, <1>8, <1>9, <1>10, <1>11, <1>12, StatesAre DEF Leads

-----------------------------------------------------------------------------
(* The requests: the frames of a dialogue, one behind the other *)

\* The states a dialogue goes through.
Course(d) == CHOOSE c \in [0 .. Len(d) -> States] : IsCourse(c, d)

\* A dialogue has a length and a course.
LEMMA CourseIs ==
  ASSUME NEW d, Speaks(d)
  PROVE  /\ Len(d) \in Nat /\ DOMAIN d = 1 .. Len(d)
         /\ Course(d) \in [0 .. Len(d) -> States] /\ IsCourse(Course(d), d)
<1>1. d \in Seq(Range(d))
  BY DEF Speaks
<1>2. Len(d) \in Nat /\ DOMAIN d = 1 .. Len(d)
  <2>1. PICK R : R = Range(d)
    OBVIOUS
  <2>2. d \in Seq(R)
    BY <1>1, <2>1
  <2> QED BY <2>2, LenProperties
<1>3. Course(d) \in [0 .. Len(d) -> States] /\ IsCourse(Course(d), d)
  <2>1. \E c \in [0 .. Len(d) -> States] : IsCourse(c, d)
    BY DEF Speaks
  <2> QED BY <2>1, Zenon DEF Course
<1> QED BY <1>2, <1>3

\* The frame of a request is its packet behind the packet's length.
LEMMA FrameIs ==
  ASSUME NEW r, IsRequest(r), NEW body, body = Body(r),
         NEW prefix, prefix = write_varint(Len(body))
  PROVE  /\ body \in Seq(Byte) /\ Len(body) \in Nat
         /\ prefix \in Seq(Byte) /\ Len(prefix) \in Nat /\ Len(prefix) >= 1
         /\ Frame(body) = prefix \o body /\ Len(Frame(body)) = Len(prefix) + Len(body)
<1>1. body \in Seq(Byte) /\ Len(body) \in Nat
  BY BodyTyped, LenProperties
<1>2. prefix \in Seq(Byte) /\ Len(prefix) \in 1 .. VARINT_BYTES
  <2>1. Len(body) \in Int
    BY <1>1
  <2> QED BY <2>1, Written, Zenon
<1>3. Len(prefix) \in Nat /\ Len(prefix) >= 1
  BY <1>2, WidthAssumption
<1>4. Frame(body) = prefix \o body
  BY DEF Frame
<1>5. Len(prefix \o body) = Len(prefix) + Len(body)
  BY <1>1, <1>2, ConcatProperties
<1> QED BY <1>1, <1>2, <1>3, <1>4, <1>5

\* The running sum of the lengths of the frames.
PlacesIs(p, d, N) ==
  p = [k \in 0 .. N |-> IF k = 0 THEN 0 ELSE p[k - 1] + Len(Frame(Body(d[k])))]

\* It exists and is the function of the places.
LEMMA PlacesAre ==
  ASSUME NEW d, NEW N \in Nat, N = Len(d)
  PROVE  PlacesIs(Places(d), d, N)
<1> DEFINE at == CHOOSE f : f = [k \in 0 .. Len(d) |->
                              IF k = 0 THEN 0 ELSE f[k - 1] + Len(Frame(Body(d[k])))]
<1>1. Places(d) = at
  BY DEF Places
<1>2. PICK t : t = [k \in 0 .. N |-> Len(Frame(Body(d[k])))]
  OBVIOUS
<1>3. PICK f : f = [k \in 0 .. N |-> IF k = 0 THEN 0 ELSE f[k - 1] + t[k]]
  BY RunningSum
<1>4. \A k \in 0 .. N : t[k] = Len(Frame(Body(d[k])))
  BY <1>2
<1>5. \E g : g = [k \in 0 .. Len(d) |->
               IF k = 0 THEN 0 ELSE g[k - 1] + Len(Frame(Body(d[k])))]
  <2>1. f = [k \in 0 .. N |-> IF k = 0 THEN 0 ELSE f[k - 1] + Len(Frame(Body(d[k])))]
    BY <1>3, <1>4
  <2> QED BY <2>1
<1>6. at = [k \in 0 .. Len(d) |->
              IF k = 0 THEN 0 ELSE at[k - 1] + Len(Frame(Body(d[k])))]
  BY <1>5
<1> HIDE DEF at
<1> QED BY <1>1, <1>6 DEF PlacesIs

\* They begin at 0, and a frame lies between each and the next.
LEMMA PlacesStep ==
  ASSUME NEW d, Speaks(d), NEW N, N = Len(d), NEW p, p = Places(d)
  PROVE  /\ N \in Nat /\ p[0] = 0
         /\ \A k \in 1 .. N : /\ IsRequest(d[k])
                              /\ p[k] = p[k - 1] + Len(Frame(Body(d[k])))
                              /\ Len(Frame(Body(d[k]))) \in Nat \ {0}
<1>1. N \in Nat
  BY CourseIs
<1>2. p = [k \in 0 .. N |-> IF k = 0 THEN 0 ELSE p[k - 1] + Len(Frame(Body(d[k])))]
  <2>1. PlacesIs(p, d, N)
    BY <1>1, PlacesAre
  <2> QED BY <2>1 DEF PlacesIs
<1>3. p[0] = 0
  <2>1. 0 \in 0 .. N
    BY <1>1
  <2> QED BY <1>2, <2>1
<1>4. ASSUME NEW k \in 1 .. N
      PROVE  /\ IsRequest(d[k]) /\ p[k] = p[k - 1] + Len(Frame(Body(d[k])))
             /\ Len(Frame(Body(d[k]))) \in Nat \ {0}
  <2>1. k \in 0 .. N /\ k # 0
    BY <1>1
  <2>2. p[k] = p[k - 1] + Len(Frame(Body(d[k])))
    BY <1>2, <2>1
  <2>3. IsRequest(d[k])
    BY CourseIs, LeadsIs DEF IsCourse
  <2>4. Len(Frame(Body(d[k]))) \in Nat \ {0}
    BY <2>3, FrameIs
  <2> QED BY <2>2, <2>3, <2>4
<1> QED BY <1>1, <1>3, <1>4

\* They are positions that grow.
LEMMA PlacesGrow ==
  ASSUME NEW d, Speaks(d), NEW N, N = Len(d), NEW p, p = Places(d)
  PROVE  /\ \A k \in 0 .. N : p[k] \in Nat
         /\ \A j \in 0 .. N : \A i \in 0 .. j - 1 : p[i] < p[j]
<1>1. N \in Nat
  BY CourseIs
<1>2. PICK t : t = [k \in 1 .. N |-> Len(Frame(Body(d[k])))]
  OBVIOUS
<1>3. p[0] = 0 /\ \A k \in 1 .. N : p[k] = p[k - 1] + t[k] /\ t[k] \in Nat /\ t[k] > 0
  BY <1>2, PlacesStep
<1> DEFINE T == {j \in Nat : p[j] \in Nat /\ \A i \in 0 .. j - 1 : p[i] \in Nat /\ p[i] < p[j]}
<1>4. T \in SUBSET Nat /\ 0 \in T
  BY <1>3
<1>5. ASSUME NEW n \in 0 .. N - 1, n \in T PROVE n + 1 \in T
  <2>1. PICK m : m = n + 1
    OBVIOUS
  <2>2. m \in 1 .. N /\ m - 1 = n /\ m \in Nat
    BY <1>1, <2>1
  <2>3. p[m] = p[n] + t[m] /\ t[m] \in Nat /\ t[m] > 0
    BY <1>3, <2>2
  <2>4. p[n] \in Nat /\ \A i \in 0 .. n - 1 : p[i] \in Nat /\ p[i] < p[n]
    BY <1>5
  <2>5. p[m] \in Nat /\ p[n] < p[m]
    BY <2>3, <2>4
  <2>6. ASSUME NEW i \in 0 .. m - 1 PROVE p[i] \in Nat /\ p[i] < p[m]
    <3>1. i = n \/ i \in 0 .. n - 1
      BY <2>1
    <3> QED BY <2>4, <2>5, <3>1
  <2> QED BY <2>1, <2>2, <2>5, <2>6
<1> HIDE DEF T
<1>6. 0 .. N \subseteq T
  BY <1>1, <1>4, <1>5, Induction
<1> QED BY <1>6 DEF T

\* What a client that stays has to send is the dialogue chosen for it.
LEMMA DialogueIs ==
  ASSUME Stays, NEW s \in Streams, NEW d, d = DialogueOf[s]
  PROVE  d \in Dialogues /\ Says(d, s) /\ Speaks(d) /\ PlacesOf[d] = Places(d)
<1>1. \E x \in Dialogues : Says(x, s)
  BY DEF Stays
<1>2. d = CHOOSE x \in Dialogues : Says(x, s)
  BY DEF DialogueOf
<1>3. d \in Dialogues /\ Says(d, s)
  BY <1>1, <1>2
<1>4. Speaks(d) /\ PlacesOf[d] = Places(d)
  BY <1>3, DialoguesAssumption DEF PlacesOf
<1> QED BY <1>3, <1>4

\* The elements of s behind the first a are those of w.
Holds(s, a, w) == \A i \in 1 .. Len(w) : s[a + i] = w[i]

\* The bytes between two places are those of the frame.
LEMMA SaidBytes ==
  ASSUME NEW d, Speaks(d), NEW s \in Seq(Byte), Says(d, s), NEW N, N = Len(d),
         NEW p, p = Places(d), NEW k \in 1 .. N, NEW w, w = Frame(Body(d[k]))
  PROVE  /\ p[k - 1] \in Nat /\ p[k] = p[k - 1] + Len(w) /\ p[k] <= p[N] /\ p[N] = Len(s)
         /\ Holds(s, p[k - 1], w)
<1>1. N \in Nat /\ p[k] = p[k - 1] + Len(w) /\ Len(w) \in Nat
  BY PlacesStep
<1>2. k \in 0 .. N /\ k - 1 \in 0 .. N /\ N \in 0 .. N /\ (k # N => k \in 0 .. N - 1)
  BY <1>1
<1>3. p[k - 1] \in Nat /\ p[k] \in Nat /\ p[N] \in Nat /\ (k # N => p[k] < p[N])
  BY <1>2, PlacesGrow
<1>4. p[k] <= p[N]
  BY <1>3
<1>5. p[N] = Len(s) /\ SubSeq(s, p[k - 1] + 1, p[k]) = w
  BY DEF Says
<1>6. PICK a, n : a = p[k - 1] /\ n = Len(w)
  OBVIOUS
<1>7. a \in Nat /\ n \in Nat /\ a + n <= Len(s) /\ w = SubSeq(s, a + 1, a + n)
  BY <1>1, <1>3, <1>4, <1>5, <1>6
<1>8. \A j \in 1 .. n : w[j] = s[a + j]
  BY <1>7, Stretch
<1>9. Holds(s, p[k - 1], w)
  BY <1>6, <1>8 DEF Holds
<1> QED BY <1>1, <1>3, <1>4, <1>5, <1>9

\* Behind a complete frame there was more of the stream.
LEMMA MoreBehind ==
  ASSUME IInv, SInv, FrameComplete
  PROVE  done < Len(stream)
<1>1. PICK o, data : o = conn.buf.offset /\ data = conn.buf.data
  OBVIOUS
<1>2. PICK n \in 1 .. VARINT_BYTES : o + n <= Len(data)
  BY <1>1, PrefixTaken DEF Announced
<1>3. /\ o \in 0 .. Len(data) /\ Len(data) \in Nat /\ Len(Pending) = Len(data) - o
      /\ done \in Nat /\ Len(stream) \in Nat
  BY <1>1, StreamFields, LenProperties
<1>4. 1 \in 1 .. Len(Pending)
  <2>1. n >= 1 /\ n \in Nat
    BY <1>2, WidthAssumption
  <2> QED BY <1>2, <1>3, <2>1
<1>5. done + 1 \in 1 .. Len(stream)
  BY <1>4, PendingInStream
<1> QED BY <1>3, <1>5

\* A complete frame is the one that the client sent: what is behind its length
\* is the packet, and the frame ends where the packet does.
LEMMA FrameHere ==
  ASSUME IInv, SInv, FrameComplete, NEW body \in Seq(Byte), NEW len, len = Len(body),
         len \in Varints, NEW prefix, prefix = write_varint(len), NEW w, w = prefix \o body,
         Holds(stream, done, w)
  PROVE  Ahead(Prefix.buf, body) /\ FrameEnd = conn.buf.offset + Len(w)
<1>0. \A i \in 1 .. Len(w) : stream[done + i] = w[i]
  BY DEF Holds
<1>1. PICK o, data : o = conn.buf.offset /\ data = conn.buf.data
  OBVIOUS
<1>2. PICK n \in 1 .. VARINT_BYTES :
        /\ o + n <= Len(data) /\ data[o + n] < More
        /\ \A m \in 1 .. n - 1 : ~(data[o + m] < More)
        /\ Prefix.buf.offset = o + n
        /\ Prefix.val = Decode(SubSeq(data, o + 1, o + n), VARINT_BITS)
  <2>1. PICK n \in 1 .. VARINT_BYTES : Announced(data, o, n)
    BY <1>1, PrefixTaken, Zenon
  <2> QED BY <2>1 DEF Announced
<1>3. /\ n \in Nat /\ n >= 1
      /\ data \in Seq(Byte) /\ o \in 0 .. Len(data) /\ Len(data) \in Nat /\ o \in Nat
      /\ Len(Pending) = Len(data) - o /\ done \in Nat /\ len \in Nat
  <2>1. /\ data \in Seq(Byte) /\ o \in 0 .. Len(data) /\ Len(data) \in Nat
        /\ Len(Pending) = Len(data) - o /\ done \in Nat
    BY <1>1, StreamFields, LenProperties
  <2>2. n \in Nat /\ n >= 1
    BY WidthAssumption
  <2>3. len \in Nat
    BY LenProperties
  <2> QED BY <2>1, <2>2, <2>3
<1>4. ASSUME NEW i \in 1 .. Len(data) - o
      PROVE  stream[done + i] = data[o + i]
  <2>1. i \in 1 .. Len(Pending)
    BY <1>3
  <2> QED BY <1>1, <2>1, PendingInStream
<1>5. /\ prefix \in Seq(Byte) /\ Len(prefix) \in 1 .. VARINT_BYTES
      /\ \A i \in 1 .. Len(prefix) : prefix[i] < More <=> i = Len(prefix)
  <2>1. PICK u : u = len % 2^VARINT_BITS
    OBVIOUS
  <2>2. prefix = Encode(len, VARINT_BYTES, VARINT_BITS)
    BY DEF write_varint
  <2>3. len \in Int
    BY <1>3
  <2> QED BY <2>1, <2>2, <2>3, Widths, EncodeIs
<1>6. PICK m : m = Len(prefix)
  OBVIOUS
<1>7. /\ m \in Nat /\ m >= 1 /\ Len(w) = m + len
      /\ \A i \in 1 .. m : w[i] = prefix[i]
      /\ \A j \in 1 .. len : w[m + j] = body[j]
  <2>1. m \in Nat /\ m >= 1
    BY <1>5, <1>6, WidthAssumption
  <2>2. Behind(Byte, prefix, body, w)
    BY <1>5, Joined
  <2> QED BY <1>6, <2>1, <2>2 DEF Behind
<1>8. n = m
  <2>1. ASSUME n < m PROVE FALSE
    <3>1. n \in 1 .. m /\ n \in 1 .. Len(w) /\ n \in 1 .. Len(data) - o /\ n # m
      BY <1>2, <1>3, <1>7, <2>1
    <3>2. data[o + n] = prefix[n]
      BY <1>0, <1>4, <1>7, <3>1
    <3>3. ~(prefix[n] < More)
      BY <1>5, <1>6, <3>1
    <3> QED BY <1>2, <3>2, <3>3
  <2>2. ASSUME m < n PROVE FALSE
    <3>1. m \in 1 .. m /\ m \in 1 .. Len(w) /\ m \in 1 .. Len(data) - o /\ m \in 1 .. n - 1
      BY <1>2, <1>3, <1>7, <2>2
    <3>2. data[o + m] = prefix[m]
      BY <1>0, <1>4, <1>7, <3>1
    <3>3. prefix[m] < More
      BY <1>5, <1>6, <3>1
    <3> QED BY <1>2, <3>1, <3>2, <3>3
  <2> QED BY <1>3, <1>7, <2>1, <2>2
<1>9. SubSeq(data, o + 1, o + n) = prefix
  <2>1. PICK t : t = SubSeq(data, o + 1, o + n)
    OBVIOUS
  <2>2. /\ data \in Seq(Byte) /\ o \in Nat /\ n \in Nat /\ o + n <= Len(data)
        /\ Len(w) = n + len /\ len \in Nat /\ Len(data) \in Nat
    BY <1>2, <1>3, <1>7, <1>8
  <2>3. t \in Seq(Byte) /\ Len(t) = n /\ \A j \in 1 .. n : t[j] = data[o + j]
    BY <2>1, <2>2, Stretch
  <2>4. ASSUME NEW j \in 1 .. n PROVE t[j] = prefix[j]
    <3>1. j \in 1 .. m /\ j \in 1 .. Len(w) /\ j \in 1 .. Len(data) - o
      BY <1>8, <2>2
    <3> QED BY <1>0, <1>4, <1>7, <2>3, <3>1
  <2>5. t = prefix
    BY <1>5, <1>6, <1>8, <2>3, <2>4, SeqEqual
  <2> QED BY <2>1, <2>5
<1>10. Prefix.val = len
  <2>1. PICK bits : bits = VARINT_BITS
    OBVIOUS
  <2>2. bits \in EXPONENTS /\ bits > 0 /\ len \in -(2^(bits - 1)) .. 2^(bits - 1) - 1
    BY <2>1, Widths, WidthAssumption DEF Width, Varints
  <2>3. Signed(len % 2^bits, bits) = len
    BY <2>2, SignedValue
  <2>4. len \in Int
    BY <1>3
  <2>5. Decode(Encode(len, VARINT_BYTES, VARINT_BITS), VARINT_BITS)
          = Signed(len % 2^VARINT_BITS, VARINT_BITS)
    BY <2>4, Widths, DecodeOfEncode
  <2> QED BY <1>2, <1>9, <2>1, <2>3, <2>5 DEF write_varint
<1>11. FrameEnd = o + Len(w) /\ FrameEnd <= Len(data)
  <2>1. FrameEnd = Prefix.buf.offset + Prefix.val
    BY DEF FrameEnd
  <2>2. FrameEnd <= Size(conn.buf)
    BY FrameInside
  <2>3. FrameEnd = o + Len(w)
    BY <1>2, <1>3, <1>7, <1>8, <1>10, <2>1
  <2> QED BY <1>1, <2>2, <2>3 DEF Size
<1>12. /\ Prefix.buf \in Netbufs /\ Prefix.buf.data = data /\ Size(Prefix.buf) = Len(data)
       /\ ~Prefix.buf.error
  <2>1. Inside(conn.buf, Prefix.buf)
    BY FrameInside
  <2> QED BY <1>1, <2>1, InsideSound DEF Inside, FrameComplete, Size
<1>13. ASSUME NEW j \in 1 .. len
       PROVE  data[(o + n) + j] = body[j]
  <2>1. PICK i : i = n + j
    OBVIOUS
  <2>2. i \in 1 .. Len(w) /\ i \in 1 .. Len(data) - o /\ (o + n) + j = o + i /\ i = m + j
    BY <1>3, <1>7, <1>8, <1>11, <2>1
  <2>3. stream[done + i] = data[o + i] /\ stream[done + i] = w[i]
    BY <1>0, <1>4, <2>2
  <2>4. w[m + j] = body[j]
    BY <1>7
  <2> QED BY <2>2, <2>3, <2>4
<1>14. Ahead(Prefix.buf, body)
  <2>1. (o + n) + len <= Len(data)
    BY <1>3, <1>7, <1>8, <1>11
  <2> QED BY <1>2, <1>12, <1>13, <2>1 DEF Ahead
<1> QED BY <1>1, <1>11, <1>14

-----------------------------------------------------------------------------
(* The requests: a client that stays is between two requests of its dialogue *)

\* k requests are behind the frame loop, and the session is where they lead.
AtFrame(k) == done = Places(Dialogue)[k] /\ conn.state = Course(Dialogue)[k]

\* The invariant: the client is there, no handler has faulted, and replies wait
\* only while they are being sent.
TInv ==
  /\ stream \in Streams /\ peer = "open" /\ pc # "fault"
  /\ pc # "send" => sendq = << >>
  /\ \E k \in 0 .. Len(Dialogue) : AtFrame(k)

\* A place is the end of one frame only.
LEMMA ServedIs ==
  ASSUME Stays, NEW s \in Streams, NEW d, d = DialogueOf[s],
         NEW k \in 0 .. Len(d), NEW x, x = Places(d)[k]
  PROVE  FramesTo(d, x) = k
<1>1. PICK N, p : N = Len(d) /\ p = Places(d)
  OBVIOUS
<1>2. Speaks(d) /\ PlacesOf[d] = p
  BY <1>1, DialogueIs
<1>3. N \in Nat
  BY <1>1, <1>2, PlacesStep
<1>4. \A j \in 0 .. N : p[j] \in Nat /\ \A i \in 0 .. j - 1 : p[i] < p[j]
  BY <1>1, <1>2, PlacesGrow
<1>5. PICK j : j = FramesTo(d, x)
  OBVIOUS
<1>6. k \in 0 .. N /\ p[k] = x /\ x \in Nat
  BY <1>1, <1>4
<1>7. \A i \in k + 1 .. N : x < p[i]
  <2>1. \A i \in k + 1 .. N : i \in 0 .. N /\ k \in 0 .. i - 1
    BY <1>3, <1>6
  <2> QED BY <1>4, <1>6, <2>1
<1>8. j \in 0 .. N /\ p[j] <= x /\ \A i \in j + 1 .. N : x < p[i]
  <2>1. j = CHOOSE m \in 0 .. N : p[m] <= x /\ \A i \in m + 1 .. N : x < p[i]
    BY <1>1, <1>2, <1>5, Zenon DEF FramesTo
  <2>2. p[k] <= x
    BY <1>6
  <2> QED BY <1>6, <1>7, <2>1, <2>2
<1>9. ~(j < k) /\ ~(k < j)
  <2>1. j < k => k \in j + 1 .. N
    BY <1>3, <1>6, <1>8
  <2>2. k < j => k \in 0 .. j - 1
    BY <1>3, <1>6, <1>8
  <2>3. p[j] \in Nat
    BY <1>4, <1>8
  <2> QED BY <1>4, <1>6, <1>8, <2>1, <2>2, <2>3
<1>10. j = k
  BY <1>3, <1>6, <1>8, <1>9
<1> QED BY <1>5, <1>10

\* The next complete frame is the next request, and its handler serves it.
LEMMA NextServed ==
  ASSUME Stays, IInv, SInv, TInv, FrameComplete, NEW d, d = Dialogue,
         NEW k \in 0 .. Len(d), AtFrame(k), NEW r, r = d[k + 1]
  PROVE  /\ k + 1 \in 1 .. Len(d)
         /\ Leads(conn.state, r, Course(d)[k + 1])
         /\ ServedBy(conn.state, r, Course(d)[k + 1], Reply)
         /\ done + (FrameEnd - conn.buf.offset) = Places(d)[k + 1]
<1>1. PICK N, p : N = Len(d) /\ p = Places(d)
  OBVIOUS
<1>2. stream \in Streams /\ stream \in Seq(Byte)
  BY StreamFields DEF TInv
<1>3. d \in Dialogues /\ Says(d, stream) /\ Speaks(d)
  BY <1>2, DialogueIs DEF Dialogue
<1>4. N \in Nat /\ p[N] = Len(stream) /\ p[k] = done /\ done \in Nat
  BY <1>1, <1>3, PlacesStep, StreamFields DEF Says, AtFrame
<1>5. k + 1 \in 1 .. N /\ (k + 1) - 1 = k
  <2>1. done < Len(stream)
    BY MoreBehind
  <2>2. k # N
    BY <1>4, <2>1
  <2> QED BY <1>1, <1>4, <2>2
<1>6. PICK body, len, prefix, w :
        /\ body = Body(r) /\ len = Len(body) /\ prefix = write_varint(len) /\ w = Frame(body)
  OBVIOUS
<1>7. IsRequest(r)
  BY <1>1, <1>3, <1>5, PlacesStep
<1>8. /\ body \in Seq(Byte) /\ len \in Nat /\ w = prefix \o body
  BY <1>6, <1>7, FrameIs
<1>9. p[k + 1] = done + Len(w) /\ Holds(stream, done, w)
  <2>1. PICK j : j = k + 1
    OBVIOUS
  <2>2. j \in 1 .. Len(d) /\ j - 1 = k /\ w = Frame(Body(d[j]))
    BY <1>1, <1>5, <1>6, <2>1
  <2>3. p[j] = p[j - 1] + Len(w) /\ Holds(stream, p[j - 1], w)
    BY <1>1, <1>2, <1>3, <2>2, SaidBytes, SMTT(30)
  <2> QED BY <1>4, <2>1, <2>2, <2>3
<1>10. len < 2^(VARINT_BITS - 1) /\ len \in Varints
  <2>1. len < 2^(VARINT_BITS - 1)
    BY <1>1, <1>3, <1>5, <1>6 DEF Speaks
  <2> QED BY <1>8, <2>1, Numbers
<1>11. Ahead(Prefix.buf, body) /\ FrameEnd = conn.buf.offset + Len(w)
  BY <1>6, <1>8, <1>9, <1>10, FrameHere, Zenon
<1>12. done + (FrameEnd - conn.buf.offset) = p[k + 1]
  <2>1. conn.buf.offset \in Nat /\ Len(w) \in Nat
    BY <1>6, <1>7, FrameIs, InvFields
  <2> QED BY <1>4, <1>9, <1>11, <2>1
<1>13. Leads(conn.state, r, Course(d)[k + 1])
  <2>1. IsCourse(Course(d), d) /\ conn.state = Course(d)[k]
    BY <1>3, CourseIs DEF AtFrame
  <2>2. Leads(Course(d)[(k + 1) - 1], d[k + 1], Course(d)[k + 1])
    BY <1>1, <1>5, <2>1 DEF IsCourse
  <2> QED BY <1>5, <2>1, <2>2
<1>14. PICK c : c = [conn EXCEPT !.buf = Prefix.buf]
  OBVIOUS
<1>15. c \in Conns /\ c.buf = Prefix.buf /\ c.state = conn.state
  <2>1. Prefix.buf \in Netbufs
    BY FrameInside, InsideSound
  <2>2. c \in Conns /\ c.buf = Prefix.buf
    BY <1>14, <2>1, InvFields, ConnUpdated
  <2>3. c.state = conn.state
    BY <1>14, InvFields, SameAfter DEF SameSession
  <2> QED BY <2>2, <2>3
<1>16. ServedBy(conn.state, r, Course(d)[k + 1], Reply)
  <2>1. PICK q : q = Course(d)[k + 1]
    OBVIOUS
  <2>2. Leads(c.state, r, q) /\ Ahead(c.buf, Body(r)) /\ Len(Body(r)) < 2^(VARINT_BITS - 1)
    BY <1>6, <1>10, <1>11, <1>13, <1>15, <2>1
  <2>3. ServedBy(c.state, r, q, handle_packet[c])
    BY <1>15, <2>2, HandlerServes
  <2>4. Reply = handle_packet[c]
    BY <1>14 DEF Reply
  <2> QED BY <1>15, <2>1, <2>3, <2>4
<1> QED BY <1>1, <1>5, <1>12, <1>13, <1>16

\* A handled frame is the next request served.
LEMMA RequestHandled ==
  ASSUME Stays, IInv, SInv, TInv, HandleFrame, NEW d, d = Dialogue,
         NEW k \in 0 .. Len(d), AtFrame(k)
  PROVE  /\ k + 1 \in 1 .. Len(d) /\ Dialogue' = d
         /\ done' = Places(d)[k + 1] /\ conn'.state = Course(d)[k + 1]
         /\ Leads(conn.state, d[k + 1], conn'.state)
         /\ Gives(sendq', Due(conn.state, d[k + 1]))
<1>1. PICK r, q : r = d[k + 1] /\ q = Course(d)[k + 1]
  OBVIOUS
<1>2. FrameComplete
  BY DEF HandleFrame
<1>3. /\ k + 1 \in 1 .. Len(d) /\ Leads(conn.state, r, q)
      /\ ServedBy(conn.state, r, q, Reply)
      /\ done + (FrameEnd - conn.buf.offset) = Places(d)[k + 1]
  BY <1>1, <1>2, NextServed
<1>4. conn'.buf.offset = FrameEnd /\ conn'.state = Reply.conn.state
  BY HandledTo
<1>5. conn'.state = q /\ Gives(Reply.replies, Due(conn.state, r))
  BY <1>3, <1>4 DEF ServedBy
<1>6. sendq' = Reply.replies /\ done' = done + (conn'.buf.offset - conn.buf.offset)
      /\ stream' = stream
  BY DEF HandleFrame
<1>7. Dialogue' = d
  BY <1>6 DEF Dialogue
<1> QED BY <1>1, <1>3, <1>4, <1>5, <1>6, <1>7

\* The handlers do not fault on the requests of a dialogue.
LEMMA HandlersServe ==
  ASSUME Stays, IInv, SInv, TInv
  PROVE  ~HandlerFaults
<1> SUFFICES ASSUME HandlerFaults PROVE FALSE
  OBVIOUS
<1>1. PICK d : d = Dialogue
  OBVIOUS
<1>2. PICK k \in 0 .. Len(d) : AtFrame(k)
  BY <1>1 DEF TInv
<1>3. FrameComplete /\ Reply.fault
  BY DEF HandlerFaults
<1>4. ServedBy(conn.state, d[k + 1], Course(d)[k + 1], Reply)
  BY <1>1, <1>2, <1>3, NextServed
<1> QED BY <1>3, <1>4 DEF ServedBy

\* A dialogue begins at 0, before any request.
LEMMA InitStands == Stays /\ Init => TInv /\ AtFrame(0)
<1> SUFFICES ASSUME Stays, Init PROVE TInv /\ AtFrame(0)
  OBVIOUS
<1>1. stream \in Streams /\ peer = "open" /\ pc = "wait" /\ sendq = << >> /\ done = 0
      /\ conn.state = STATE_HANDSHAKING
  BY DEF Init
<1>2. PICK d : d = Dialogue
  OBVIOUS
<1>3. Speaks(d)
  BY <1>1, <1>2, DialogueIs DEF Dialogue
<1>4. Len(d) \in Nat /\ IsCourse(Course(d), d) /\ Places(d)[0] = 0
  BY <1>3, CourseIs, PlacesStep
<1>5. AtFrame(0) /\ 0 \in 0 .. Len(Dialogue)
  BY <1>1, <1>2, <1>4 DEF AtFrame, IsCourse
<1> QED BY <1>1, <1>5 DEF TInv

\* Every step keeps the invariant.
LEMMA StepStands == Stays /\ IInv /\ SInv /\ TInv /\ [Next]_vars => TInv'
<1> SUFFICES ASSUME Stays, IInv, SInv, TInv, [Next]_vars PROVE TInv'
  OBVIOUS
<1>1. PICK d : d = Dialogue
  OBVIOUS
<1>2. PICK k \in 0 .. Len(d) : AtFrame(k)
  BY <1>1 DEF TInv
<1>3. stream \in Streams /\ peer = "open" /\ pc # "fault" /\ (pc # "send" => sendq = << >>)
  BY DEF TInv
<1>4. CASE HandleFrame
  <2>1. /\ k + 1 \in 1 .. Len(d) /\ Dialogue' = d
        /\ done' = Places(d)[k + 1] /\ conn'.state = Course(d)[k + 1]
    BY <1>1, <1>2, <1>4, RequestHandled
  <2>2. stream' = stream /\ peer' = peer /\ pc' = "send"
    BY <1>4 DEF HandleFrame, clientVars
  <2>3. \E j \in 0 .. Len(Dialogue') :
          done' = Places(Dialogue')[j] /\ conn'.state = Course(Dialogue')[j]
    <3>1. k + 1 \in 0 .. Len(d)
      BY <2>1
    <3> QED BY <2>1, <3>1
  <2> QED BY <1>3, <2>2, <2>3 DEF TInv, AtFrame
<1>5. CASE ~HandleFrame
  <2>1. Departures = {} /\ ~HandlerFaults
    BY HandlersServe DEF Stays
  <2>2. stream' = stream /\ peer' = peer /\ pc' # "fault" /\ (pc' # "send" => sendq' = << >>)
        /\ done' = done
    BY <1>3, <1>5, <2>1 DEF Next, Client, Server, Deliver, Shut, Reset, PollDisconnect,
           PollReadable, PollNothing, RecvBytes, RecvAgain, RecvBreak, RecvEnd,
           FrameIncomplete, Send, NextFrame, vars, clientVars, serverVars, history
  <2>3. conn'.state = conn.state
    BY <1>5, OthersKeepSession DEF SameSession
  <2>4. Dialogue' = d
    BY <1>1, <2>2 DEF Dialogue
  <2>5. \E j \in 0 .. Len(Dialogue') :
          done' = Places(Dialogue')[j] /\ conn'.state = Course(Dialogue')[j]
    BY <1>1, <1>2, <2>2, <2>3, <2>4 DEF AtFrame
  <2> QED BY <1>3, <2>2, <2>5 DEF TInv, AtFrame
<1> QED BY <1>4, <1>5

\* No handler faults on what a client that speaks the protocol sends, however
\* TCP cuts it (main.c:71-135, handshake.c:7-41, packet.c:18-88).
THEOREM NeverFaults ==
  ASSUME Stays
  PROVE  Spec => []NoFault
<1>1. TInv => NoFault
  BY DEF TInv, NoFault
<1>2. Init => TInv
  BY InitStands
<1>3. IInv /\ SInv /\ TInv /\ [Next]_vars => TInv'
  BY StepStands
<1> QED BY <1>1, <1>2, <1>3, Invariance, InitKeeps, StepKeeps, PTL DEF Spec

-----------------------------------------------------------------------------
(* The requests: a client that stays is served as Session says *)

\* The phase of a state, the requests still to be served and the answers given.
Phase(p) == <<"handshaking", "status", "login", "play">>[p + 1]
Waiting  == SubSeq(Understood(Dialogue), Served + 1, Len(Dialogue))
Answered == Answers(sent \o sendq)

\* A request as the server understands it.
Meant(r) == IF r[1] = "login" THEN <<"login", CString(r[2])>> ELSE r

\* The phases, one by one.
LEMMA Phases ==
  Phase(0) = "handshaking" /\ Phase(1) = "status" /\ Phase(2) = "login" /\ Phase(3) = "play"
BY DEF Phase

\* What is understood of a dialogue, request by request.
LEMMA UnderstoodIs ==
  ASSUME NEW d, Speaks(d), NEW u, u = Understood(d)
  PROVE  /\ \E S : u \in Seq(S)
         /\ Len(u) = Len(d) /\ \A k \in 1 .. Len(d) : u[k] = Meant(d[k])
<1>1. PICK N : N = Len(d)
  OBVIOUS
<1>2. N \in Nat /\ DOMAIN d = 1 .. N
  BY <1>1, CourseIs
<1>3. u = [k \in 1 .. N |-> Meant(d[k])]
  BY <1>2, Zenon DEF Understood, Meant
<1>4. PICK S : S = {Meant(d[k]) : k \in 1 .. N}
  OBVIOUS
<1>5. u \in Seq(S) /\ Len(u) = N /\ \A k \in 1 .. N : u[k] = Meant(d[k])
  BY <1>2, <1>3, <1>4
<1> QED BY <1>1, <1>5

\* The first of what is left, and what is left behind it.
LEMMA FirstOfRest ==
  ASSUME NEW S, NEW u \in Seq(S), NEW N, N = Len(u), NEW k \in 0 .. N, k + 1 \in 1 .. N,
         NEW x, x = SubSeq(u, k + 1, N)
  PROVE  x # << >> /\ Head(x) = u[k + 1] /\ Tail(x) = SubSeq(u, (k + 1) + 1, N)
<1>1. N \in Nat /\ x = Rest(u, k)
  BY LenProperties DEF Rest
<1>2. /\ x \in Seq(S) /\ Len(x) = N - k
      /\ \A j \in 1 .. N - k : x[j] = u[k + j]
  BY <1>1, RestIs
<1>3. x # << >> /\ Head(x) = u[k + 1]
  <2>1. 1 \in 1 .. N - k
    BY <1>1
  <2>2. x[1] = u[k + 1] /\ Len(x) # 0
    BY <1>1, <1>2, <2>1
  <2>3. x # << >>
    BY <2>2
  <2>4. Head(x) = x[1]
    BY <1>2, <2>3, HeadTailProperties
  <2> QED BY <2>2, <2>3, <2>4
<1>4. Tail(x) = Rest(x, 1)
  BY <1>2, <1>3 DEF Rest
<1>5. Rest(Rest(u, k), 1) = Rest(u, k + 1)
  <2>1. 1 \in 0 .. N - k /\ k \in 0 .. Len(u)
    BY <1>1
  <2> QED BY <2>1, RestOfRest
<1> QED BY <1>1, <1>3, <1>4, <1>5 DEF Rest

\* The answers in some packets, and in none behind them.
LEMMA AnswersGive ==
  ASSUME NEW S, NEW s \in Seq(S), NEW t, NEW a, Gives(t, a)
  PROVE  Answers(s \o t) = Answers(s) \o a
<1>1. PICK T : t \in Seq(T)
  BY DEF Gives
<1>2. PICK U : s \in Seq(U) /\ t \in Seq(U)
  <2>1. s \in Seq(S \cup T) /\ t \in Seq(S \cup T)
    BY <1>1, SeqMonotonic
  <2> QED BY <2>1
<1>3. CASE t = << >> /\ a = << >>
  <2>1. s \o t = s
    BY <1>2, <1>3, ConcatEmptySeq
  <2>2. PICK n : n = Len(s) /\ n \in Nat
    BY LenProperties
  <2>3. PICK f : AnswersIs(f, s, n)
    BY <2>2, AnswersExist
  <2>4. Answers(s) = f[n]
    BY <2>2, <2>3, AnswersAre
  <2>5. PICK R : \A k \in 0 .. n : f[k] \in Seq(R)
    BY <2>2, <2>3, AnswersTyped
  <2>6. Answers(s) \in Seq(R)
    <3>1. n \in 0 .. n
      BY <2>2
    <3> QED BY <2>4, <2>5, <3>1
  <2> QED BY <1>3, <2>1, <2>6, ConcatEmptySeq
<1>4. CASE 1 \in DOMAIN t /\ Answer(t[1]) = a /\ \A i \in DOMAIN t : i # 1 => Answer(t[i]) = << >>
  BY <1>2, <1>4, AnswersGrow
<1> QED BY <1>3, <1>4 DEF Gives

\* One request served is a step of Session.
LEMMA SessionStep ==
  ASSUME NEW p, p = conn.state, NEW q, q = conn'.state, NEW r, Leads(p, r, q),
         Waiting # << >>, Head(Waiting) = Meant(r), Waiting' = Tail(Waiting),
         Answered' = Answered \o Due(p, r), p \in 0 .. 3
  PROVE  Abstract!Next
<1>1. ASSUME NEW from, from = Phase(p), NEW kind, kind = r[1], NEW to, to = Phase(q),
             NEW replies, replies = Due(p, r)
      PROVE  Abstract!Serve(from, kind, to, replies)
  <2>1. Meant(r)[1] = r[1]
    BY DEF Meant
  <2>2. Head(Waiting)[1] = kind
    BY <1>1, <2>1
  <2> QED BY <1>1, <2>2 DEF Abstract!Serve, Phase, Waiting, Answered
<1>2. CASE IsOther(r) /\ q = p
  <2>1. r[1] = "other" /\ Due(p, r) = << >>
    BY <1>2, Kinds, DueIs
  <2>2. \E f \in {"handshaking", "status", "login", "play"} : f = Phase(p) /\ f = Phase(q)
    BY <1>2, Phases
  <2>3. \E f \in {"handshaking", "status", "login", "play"} : Abstract!Serve(f, "other", f, << >>)
    BY <1>1, <2>1, <2>2
  <2> QED BY <2>3 DEF Abstract!Next, Abstract!Ignore
<1>3. CASE p = 0 /\ IsHandshake(r)
  <2>1. PICK k \in {"status", "login", "other"} : r = <<"handshake", k>> /\ r[2] = k
    BY <1>3 DEF IsHandshake
  <2>2. r[1] = "handshake" /\ Due(p, r) = << >> /\ ~IsOther(r)
    BY <1>3, Kinds, DueIs
  <2>3. q = IF k = "status" THEN 1 ELSE IF k = "login" THEN 2 ELSE 0
    BY <1>3, <2>1, <2>2, StatesAre DEF Leads, NextState
  <2>4. Head(Waiting)[2] = k
    BY <2>1, <2>2 DEF Meant
  <2>5. Abstract!Serve("handshaking", "handshake", Phase(q), << >>)
    BY <1>1, <1>3, <2>2, Phases
  <2>6. CASE k = "other"
    <3>1. Phase(q) = "handshaking"
      BY <2>3, <2>6, Phases
    <3>2. Abstract!Refuse
      BY <2>4, <2>5, <2>6, <3>1 DEF Abstract!Refuse, Waiting
    <3> QED BY <3>2 DEF Abstract!Next
  <2>7. CASE k \in {"status", "login"}
    <3>1. Phase(q) = k
      BY <2>3, <2>7, Phases
    <3>2. Abstract!Handshake
      BY <2>4, <2>5, <2>7, <3>1 DEF Abstract!Handshake, Waiting
    <3> QED BY <3>2 DEF Abstract!Next
  <2> QED BY <2>6, <2>7
<1>4. CASE p = 1 /\ IsStatus(r) /\ q = p
  <2>1. r[1] = "status" /\ Due(p, r) = << <<"status_response">> >>
    BY <1>4, Kinds, DueIs
  <2>2. Abstract!Serve("status", "status", "status", << <<"status_response">> >>)
    BY <1>1, <1>4, <2>1, Phases
  <2> QED BY <2>2 DEF Abstract!Next, Abstract!Status
<1>5. CASE p = 1 /\ IsPing(r) /\ q = p
  <2>1. r[1] = "ping" /\ Due(p, r) = << <<"pong", r[2]>> >>
    BY <1>5, Kinds, DueIs
  <2>2. Head(Waiting)[2] = r[2]
    BY <2>1 DEF Meant
  <2>3. Abstract!Serve("status", "ping", "status", << <<"pong", r[2]>> >>)
    BY <1>1, <1>5, <2>1, Phases
  <2> QED BY <2>2, <2>3 DEF Abstract!Next, Abstract!Ping, Waiting
<1>6. CASE p = 2 /\ IsJoin(r) /\ q = 3
  <2>1. PICK name : name = CString(r[2])
    OBVIOUS
  <2>2. r[1] = "login" /\ Due(p, r) = << <<"joined", name>> >>
    BY <1>6, <2>1, Kinds, DueIs
  <2>3. Head(Waiting)[2] = name
    BY <2>1, <2>2 DEF Meant
  <2>4. Abstract!Serve("login", "login", "play", << <<"joined", name>> >>)
    BY <1>1, <1>6, <2>2, Phases
  <2> QED BY <2>3, <2>4 DEF Abstract!Next, Abstract!Login, Waiting
<1>7. CASE p = 3 /\ (IsHandshake(r) \/ IsStatus(r) \/ IsPing(r) \/ IsJoin(r)) /\ q = p
  <2>1. r[1] \in {"handshake", "status", "ping", "login"}
    BY <1>7, Kinds
  <2>2. Due(p, r) = << >>
    BY <1>7, DueIs
  <2>3. \E k \in {"handshake", "status", "ping", "login"} :
          Abstract!Serve("play", k, "play", << >>)
    BY <1>1, <1>7, <2>1, <2>2, Phases
  <2> QED BY <2>3 DEF Abstract!Next, Abstract!Ignore
<1> QED BY <1>2, <1>3, <1>4, <1>5, <1>6, <1>7, StatesAre DEF Leads

\* What a step that sends nothing and handles nothing leaves of Session.
LEMMA SameServed ==
  ASSUME UNCHANGED <<stream, done>>, conn'.state = conn.state,
         sent' \o sendq' = sent \o sendq
  PROVE  UNCHANGED Abstract!vars
<1>1. Dialogue' = Dialogue
  BY DEF Dialogue
<1>2. Served' = Served
  BY <1>1 DEF Served
<1> QED BY <1>1, <1>2 DEF Abstract!vars

\* A packet that is sent joins the packets that were.
LEMMA SentOne ==
  ASSUME NEW S, NEW s \in Seq(S), NEW t \in Seq(S), t # << >>
  PROVE  Append(s, Head(t)) \o Tail(t) = s \o t
<1>1. PICK h, r : h = Head(t) /\ r = Tail(t)
  OBVIOUS
<1>2. /\ Len(s) \in Nat /\ Len(t) \in Nat /\ Len(t) > 0
      /\ h \in S /\ h = t[1] /\ r \in Seq(S) /\ Len(r) = Len(t) - 1
      /\ \A i \in 1 .. Len(r) : r[i] = t[i + 1]
  BY <1>1
<1>3. PICK a : a = Append(s, h)
  OBVIOUS
<1>4. /\ a \in Seq(S) /\ Len(a) = Len(s) + 1 /\ a[Len(s) + 1] = h
      /\ \A i \in 1 .. Len(s) : a[i] = s[i]
  BY <1>2, <1>3
<1>5. PICK x, y : x = a \o r /\ y = s \o t
  OBVIOUS
<1>6. Behind(S, a, r, x) /\ Behind(S, s, t, y)
  BY <1>2, <1>4, <1>5, Joined
<1>7. /\ x \in Seq(S) /\ y \in Seq(S)
      /\ Len(x) = Len(s) + Len(t) /\ Len(y) = Len(s) + Len(t)
      /\ \A i \in 1 .. Len(s) + 1 : x[i] = a[i]
      /\ \A i \in 1 .. Len(t) - 1 : x[Len(s) + 1 + i] = r[i]
      /\ \A i \in 1 .. Len(s) : y[i] = s[i]
      /\ \A i \in 1 .. Len(t) : y[Len(s) + i] = t[i]
  BY <1>2, <1>4, <1>6 DEF Behind
<1>8. ASSUME NEW i \in 1 .. Len(s) + Len(t)
      PROVE  x[i] = y[i]
  <2>1. CASE i \in 1 .. Len(s)
    BY <1>4, <1>7, <2>1
  <2>2. CASE i = Len(s) + 1
    BY <1>2, <1>4, <1>7, <2>2
  <2>3. CASE i > Len(s) + 1
    <3>1. PICK j : j = i - Len(s) - 1
      OBVIOUS
    <3>2. /\ j \in 1 .. Len(t) - 1 /\ j \in 1 .. Len(r) /\ i = Len(s) + 1 + j
          /\ j + 1 \in 1 .. Len(t) /\ Len(s) + (j + 1) = i
      BY <1>2, <2>3, <3>1
    <3>3. x[i] = r[j] /\ y[i] = t[j + 1] /\ r[j] = t[j + 1]
      BY <1>2, <1>7, <3>2
    <3> QED BY <3>3
  <2>4. i \in 1 .. Len(s) \/ i = Len(s) + 1 \/ i > Len(s) + 1
    <3>1. Len(s) \in Nat /\ Len(t) \in Nat
      BY <1>2
    <3> QED BY <3>1
  <2> QED BY <2>1, <2>2, <2>3, <2>4
<1>9. x = y
  BY <1>7, <1>8, SeqEqual
<1> QED BY <1>1, <1>3, <1>5, <1>9

\* Every step is one of Session or leaves its state.
LEMMA StepServes ==
  Stays /\ IInv /\ SInv /\ SessInv /\ TInv /\ [Next]_vars
    => [Abstract!Next]_(Abstract!vars)
<1> SUFFICES ASSUME Stays, IInv, SInv, SessInv, TInv, [Next]_vars
             PROVE  Abstract!Next \/ UNCHANGED Abstract!vars
  OBVIOUS
<1>1. PICK S : S = Outgoing /\ sent \in Seq(S) /\ sendq \in Seq(S)
  BY DEF SessInv, Queues
<1>2. CASE HandleFrame
  <2>1. PICK d, N : d = Dialogue /\ N = Len(d)
    OBVIOUS
  <2>2. PICK k \in 0 .. N : AtFrame(k)
    BY <2>1 DEF TInv
  <2>3. PICK r : r = d[k + 1]
    OBVIOUS
  <2>4. /\ k + 1 \in 1 .. N /\ Dialogue' = d /\ done' = Places(d)[k + 1]
        /\ Leads(conn.state, r, conn'.state) /\ Gives(sendq', Due(conn.state, r))
    BY <1>2, <2>1, <2>2, <2>3, RequestHandled
  <2>5. stream \in Streams /\ Speaks(d) /\ N \in Nat
    BY <2>1, DialogueIs, CourseIs DEF TInv, Dialogue
  <2>6. Served = k /\ Served' = k + 1
    <3>1. d = DialogueOf[stream] /\ k + 1 \in 0 .. N
      BY <2>1, <2>4, <2>5 DEF Dialogue
    <3>2. done = Places(d)[k]
      BY <2>1, <2>2 DEF AtFrame
    <3>3. FramesTo(d, done) = k
      BY <2>1, <2>5, <3>1, <3>2, ServedIs
    <3>4. FramesTo(d, done') = k + 1
      BY <2>1, <2>4, <2>5, <3>1, ServedIs
    <3> QED BY <2>1, <2>4, <3>3, <3>4 DEF Served
  <2>7. PICK u : u = Understood(d)
    OBVIOUS
  <2>8. PICK T : u \in Seq(T) /\ Len(u) = N /\ u[k + 1] = Meant(r)
    BY <2>1, <2>3, <2>4, <2>5, <2>7, UnderstoodIs
  <2>9. Waiting = SubSeq(u, k + 1, N) /\ Waiting' = SubSeq(u, (k + 1) + 1, N)
    BY <2>1, <2>4, <2>6, <2>7 DEF Waiting, Understood
  <2>10. Waiting # << >> /\ Head(Waiting) = Meant(r) /\ Waiting' = Tail(Waiting)
    BY <2>4, <2>8, <2>9, FirstOfRest
  <2>11. Answered' = Answered \o Due(conn.state, r)
    <3>1. sendq = << >> /\ sent' = sent
      BY <1>2 DEF HandleFrame, TInv
    <3>2. sent \o sendq = sent
      BY <1>1, <3>1, ConcatEmptySeq
    <3>3. Answers(sent \o sendq') = Answers(sent) \o Due(conn.state, r)
      BY <1>1, <2>4, AnswersGive
    <3>4. Answered' = Answers(sent \o sendq')
      BY <3>1 DEF Answered
    <3> QED BY <3>2, <3>3, <3>4 DEF Answered
  <2>12. conn.state \in 0 .. 3
    BY InvFields, StatesAre DEF Conns
  <2> QED BY <2>4, <2>10, <2>11, <2>12, SessionStep
<1>3. CASE ~HandleFrame
  <2>1. UNCHANGED <<stream, done>>
    BY <1>3 DEF Next, Client, Server, Deliver, Shut, Reset, PollDisconnect,
           PollReadable, PollNothing, RecvBytes, RecvAgain, RecvBreak, RecvEnd,
           FrameIncomplete, HandlerFaults, Send, NextFrame, vars, clientVars, serverVars, history
  <2>2. conn'.state = conn.state
    BY <1>3, OthersKeepSession DEF SameSession
  <2>3. sent' \o sendq' = sent \o sendq
    <3>1. CASE Send
      <4>1. sendq # << >> /\ sendq' = Tail(sendq) /\ sent' = Append(sent, Head(sendq))
        BY <3>1 DEF Send, TInv
      <4> QED BY <1>1, <4>1, SentOne
    <3>2. CASE ~Send
      BY <1>3, <3>2 DEF Next, Client, Server, Deliver, Shut, Reset, PollDisconnect,
           PollReadable, PollNothing, RecvBytes, RecvAgain, RecvBreak, RecvEnd,
           FrameIncomplete, HandlerFaults, NextFrame, vars, clientVars, serverVars, history
    <3> QED BY <3>1, <3>2
  <2> QED BY <2>1, <2>2, <2>3, SameServed
<1> QED BY <1>2, <1>3

\* A client that has sent nothing is at the start of a dialogue.
LEMMA InitServes == Stays /\ Init => Abstract!Init
<1> SUFFICES ASSUME Stays, Init PROVE Abstract!Init
  OBVIOUS
<1>1. PICK d, N : d = Dialogue /\ N = Len(d)
  OBVIOUS
<1>2. TInv /\ AtFrame(0)
  BY InitStands
<1>3. stream \in Streams /\ d = DialogueOf[stream] /\ done = Places(d)[0]
  BY <1>1, <1>2 DEF TInv, Dialogue, AtFrame
<1>4. d \in Dialogues /\ Speaks(d)
  BY <1>3, DialogueIs
<1>5. N \in Nat /\ 0 \in 0 .. N
  BY <1>1, <1>4, CourseIs
<1>6. Served = 0
  <2>1. FramesTo(d, done) = 0
    BY <1>1, <1>3, <1>5, ServedIs
  <2> QED BY <1>1, <2>1 DEF Served
<1>7. PICK u : u = Understood(d)
  OBVIOUS
<1>8. PICK S : u \in Seq(S) /\ Len(u) = N
  BY <1>1, <1>4, <1>7, UnderstoodIs
<1>9. SubSeq(Understood(Dialogue), Served + 1, Len(Dialogue)) = u
  <2>1. SubSeq(u, 1, N) = u
    BY <1>8, SubSeqFull
  <2> QED BY <1>1, <1>6, <1>7, <2>1
<1>10. u \in {Understood(x) : x \in Dialogues}
  BY <1>4, <1>7
<1>11. sent \o sendq = << >> /\ conn.state = 0
  BY StatesAre DEF Init
<1>12. Answers(<< >>) = << >>
  <2>1. PICK f : AnswersIs(f, << >>, 0)
    BY AnswersExist
  <2>2. f[0] = << >>
    BY <2>1 DEF AnswersIs
  <2>3. Answers(<< >>) = f[0]
    BY <2>1, AnswersAre
  <2> QED BY <2>2, <2>3
<1>13. Phase(conn.state) = "handshaking"
  BY <1>11, Phases
<1> QED BY <1>9, <1>10, <1>11, <1>12, <1>13 DEF Abstract!Init, Phase

\* A client that stays and speaks the protocol is served: its requests one at a
\* time, in the order it sent them, each in the phase its predecessors led to
\* and each exactly once, for all dialogues, however TCP cuts their bytes
\* (main.c:71-135, packet.c:18-88).
THEOREM ServesInOrder ==
  ASSUME Stays
  PROVE  Spec => ImplementsSession
<1>1. Init => TInv /\ Abstract!Init
  BY InitStands, InitServes
<1>2. IInv /\ SInv /\ TInv /\ [Next]_vars => TInv'
  BY StepStands
<1>3. IInv /\ SInv /\ SessInv /\ TInv /\ [Next]_vars => [Abstract!Next]_(Abstract!vars)
  BY StepServes
<1> QED BY <1>1, <1>2, <1>3, Invariance, InitKeeps, StepKeeps, InitSess, StepSess,
           PTL DEF Spec, ImplementsSession, Abstract!Spec
=============================================================================
