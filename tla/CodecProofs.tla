---------------------------- MODULE CodecProofs -----------------------------
(***************************************************************************)
(* Theorems about the varints of network/varint.c for every width, the     *)
(* code's 7-bit groups of 32 and 64 bits included: what is read does not   *)
(* change when more bytes arrive, and reader and writer agree.             *)
(***************************************************************************)
EXTENDS MCCodec, NetbufLemmas

\* The bytes that have arrived, as many as the instance lets arrive.
Arrived == bytes \in Seq(Byte) /\ Len(bytes) <= VARINT_BYTES + 2

\* What an assignment to the bytes of a buffer leaves.
LEMMA DataAssigned ==
  ASSUME NEW d, NEW k, NEW o, NEW e, NEW v,
         NEW b, b = [data |-> d, capacity |-> k, offset |-> o, error |-> e]
  PROVE  [b EXCEPT !.data = v] = [data |-> v, capacity |-> k, offset |-> o, error |-> e]
OBVIOUS

\* A fresh buffer that holds some bytes.
LEMMA HoldingIs ==
  ASSUME NEW data \in Seq(Byte)
  PROVE  /\ Holding(data) \in Netbufs /\ Holding(data).data = data
         /\ Holding(data).offset = 0 /\ ~Holding(data).error
         /\ Size(Holding(data)) = Len(data) /\ Len(data) \in Nat
         /\ Reading(data) = ReadGroups(Holding(data), VARINT_BYTES, VARINT_BITS)
<1>1. Holding(data) = [data |-> data, capacity |-> 0, offset |-> 0, error |-> FALSE]
  <2>1. PICK none, off, b : /\ none = << >> /\ off = FALSE
                            /\ b = [data |-> none, capacity |-> 0, offset |-> 0, error |-> off]
    OBVIOUS
  <2>2. [b EXCEPT !.data = data] = [data |-> data, capacity |-> 0, offset |-> 0, error |-> off]
    BY <2>1, DataAssigned
  <2>3. Holding(data) = [b EXCEPT !.data = data]
    BY <2>1, Zenon DEF Holding, netbuf_new
  <2> QED BY <2>1, <2>2, <2>3, Zenon
<1>2. Holding(data) \in Netbufs
  BY <1>1 DEF Netbufs
<1>3. Reading(data) = ReadGroups(Holding(data), VARINT_BYTES, VARINT_BITS)
  BY <1>2, Zenon DEF Reading, read_varint
<1> QED BY <1>1, <1>2, <1>3 DEF Size

\* What has arrived is bytes.
LEMMA ArrivedInv == Spec => []Arrived
<1>1. VARINT_BYTES \in Nat
  BY Exponents
<1>2. Init => Arrived
  BY <1>1 DEF Init, Arrived
<1>3. Arrived /\ [Arrive]_bytes => Arrived'
  BY <1>1, LenProperties DEF Arrived, Arrive
<1> QED BY <1>2, <1>3, PTL DEF Spec

\* More bytes do not change what a read takes.
LEMMA TakesLess ==
  ASSUME NEW d \in Seq(Byte), NEW x \in Byte, NEW n, Takes(Holding(d), VARINT_BYTES, n)
  PROVE  /\ Takes(Holding(Append(d, x)), VARINT_BYTES, n)
         /\ SubSeq(Append(d, x), 1, n) = SubSeq(d, 1, n)
<1> DEFINE e == Append(d, x)
<1>1. /\ e \in Seq(Byte) /\ Len(e) = Len(d) + 1 /\ Len(d) \in Nat /\ VARINT_BYTES \in Nat
      /\ \A i \in 1 .. Len(d) : e[i] = d[i]
  BY LenProperties, Exponents
<1> HIDE DEF e
<1>2. /\ Holding(d).data = d /\ Holding(d).offset = 0 /\ Size(Holding(d)) = Len(d)
      /\ Holding(e).data = e /\ Holding(e).offset = 0 /\ Size(Holding(e)) = Len(e)
  BY <1>1, HoldingIs
<1>3. /\ n \in 1 .. VARINT_BYTES + 1 /\ n \in 1 .. Len(d)
      /\ n = VARINT_BYTES + 1 \/ d[n] < More
      /\ \A m \in 1 .. n - 1 : ~(d[m] < More)
  <2>1. n \in 1 .. VARINT_BYTES + 1 /\ 0 + n <= Len(d)
    BY <1>2 DEF Takes
  <2>2. 0 + n = n /\ \A m \in 1 .. n - 1 : 0 + m = m
    BY <1>1, <2>1
  <2> QED BY <1>1, <1>2, <2>1, <2>2 DEF Takes
<1>4. Takes(Holding(e), VARINT_BYTES, n)
  <2>1. 0 + n = n /\ \A m \in 1 .. n - 1 : 0 + m = m /\ m \in 1 .. Len(d)
    BY <1>1, <1>3
  <2>2. n <= Len(e) /\ e[n] = d[n] /\ \A m \in 1 .. n - 1 : e[m] = d[m]
    BY <1>1, <1>3, <2>1
  <2> QED BY <1>2, <1>3, <2>1, <2>2 DEF Takes
<1>5. SubSeq(e, 1, n) = SubSeq(d, 1, n)
  <2>1. n \in Nat /\ n <= Len(d) /\ n <= Len(e)
    BY <1>1, <1>3
  <2>2. /\ SubSeq(d, 1, n) \in Seq(Byte) /\ Len(SubSeq(d, 1, n)) = n
        /\ \A i \in 1 .. n : SubSeq(d, 1, n)[i] = d[i]
    BY <2>1
  <2>3. /\ SubSeq(e, 1, n) \in Seq(Byte) /\ Len(SubSeq(e, 1, n)) = n
        /\ \A i \in 1 .. n : SubSeq(e, 1, n)[i] = e[i]
    BY <1>1, <2>1
  <2>4. \A i \in 1 .. n : i \in 1 .. Len(d)
    BY <1>1, <2>1
  <2> QED BY <1>1, <2>2, <2>3, <2>4, SeqEqual
<1> QED BY <1>4, <1>5 DEF e

\* A decided read has found its end.
LEMMA DecidedTakes ==
  ASSUME NEW d \in Seq(Byte), Decided(d)
  PROVE  \E n : Takes(Holding(d), VARINT_BYTES, n)
<1>1. /\ Holding(d) \in Netbufs /\ ~Holding(d).error /\ Holding(d).offset = 0
      /\ Size(Holding(d)) = Len(d) /\ Len(d) \in Nat
      /\ Reading(d) = ReadGroups(Holding(d), VARINT_BYTES, VARINT_BITS)
  BY HoldingIs
<1>2. VARINT_BYTES \in Nat
  BY Exponents
<1>3. ReadEnds(Holding(d), VARINT_BYTES) # {}
  <2>1. CASE ~Reading(d).buf.error
    BY <1>1, <1>2, <2>1, ReadStarved
  <2>2. CASE Len(d) > VARINT_BYTES
    <3>1. VARINT_BYTES + 1 \in ReadEnds(Holding(d), VARINT_BYTES)
      BY <1>1, <1>2, <2>2 DEF ReadEnds
    <3> QED BY <3>1
  <2> QED BY <2>1, <2>2 DEF Decided
<1> QED BY <1>1, <1>2, <1>3, ReadTakes

\* The value and the end of a read depend on the bytes it takes alone.
LEMMA ReadingIs ==
  ASSUME NEW d \in Seq(Byte), NEW n, Takes(Holding(d), VARINT_BYTES, n)
  PROVE  /\ Reading(d).buf.offset = n
         /\ n > VARINT_BYTES => Reading(d).val = 0 /\ Reading(d).buf.error
         /\ ~(n > VARINT_BYTES) =>
              Reading(d) = [buf |-> [Holding(d) EXCEPT !.offset = n],
                            val |-> Decode(SubSeq(d, 1, n), VARINT_BITS)]
<1>1. PICK b : b = Holding(d)
  OBVIOUS
<1>2. /\ b \in Netbufs /\ ~b.error /\ b.data = d /\ b.offset = 0
      /\ Reading(d) = ReadGroups(b, VARINT_BYTES, VARINT_BITS)
  BY <1>1, HoldingIs
<1>3. VARINT_BYTES \in Nat /\ n \in Nat
  BY Exponents DEF Takes
<1>4. PICK next, val : /\ next = [b EXCEPT !.offset = b.offset + n]
                       /\ val = Decode(SubSeq(b.data, b.offset + 1, b.offset + n), VARINT_BITS)
  OBVIOUS
<1>5. /\ next \in Netbufs /\ next.offset = b.offset + n
      /\ n > VARINT_BYTES => Reading(d) = Fail(next)
      /\ ~(n > VARINT_BYTES) => Reading(d) = [buf |-> next, val |-> val]
  BY <1>1, <1>2, <1>3, <1>4, ReadOutcome
<1>6. b.offset + n = n /\ b.offset + 1 = 1
  BY <1>2, <1>3
<1>7. next = [Holding(d) EXCEPT !.offset = n] /\ val = Decode(SubSeq(d, 1, n), VARINT_BITS)
  BY <1>1, <1>2, <1>4, <1>6, Zenon
<1>8. CASE n > VARINT_BYTES
  BY <1>5, <1>6, <1>8, FailIs
<1>9. CASE ~(n > VARINT_BYTES)
  <2>1. Reading(d) = [buf |-> next, val |-> val]
    BY <1>5, <1>9
  <2>2. Reading(d).buf = next
    BY <2>1
  <2> QED BY <1>5, <1>6, <1>7, <1>9, <2>1, <2>2, Zenon
<1> QED BY <1>8, <1>9

\* Once a varint has been read it is never read differently, whatever arrives
\* behind it (read_varint and read_varlong, varint.c).
THEOREM ReadOnce == Spec => PrefixStable
<1>1. ASSUME Arrived, [Arrive]_bytes
      PROVE  [Decided(bytes) => /\ Reading(bytes').val = Reading(bytes).val
                                /\ Reading(bytes').buf.offset = Reading(bytes).buf.offset]_bytes
  <2>1. CASE UNCHANGED bytes
    BY <2>1
  <2>2. CASE Arrive
    <3> SUFFICES ASSUME Decided(bytes)
                 PROVE  /\ Reading(bytes').val = Reading(bytes).val
                        /\ Reading(bytes').buf.offset = Reading(bytes).buf.offset
      OBVIOUS
    <3>1. PICK d, e : d = bytes /\ e = bytes'
      OBVIOUS
    <3>2. PICK x \in Byte : e = Append(d, x)
      BY <2>2, <3>1 DEF Arrive
    <3>3. d \in Seq(Byte) /\ e \in Seq(Byte)
      BY <1>1, <3>1, <3>2 DEF Arrived
    <3>4. PICK n : Takes(Holding(d), VARINT_BYTES, n)
      BY <3>1, <3>3, DecidedTakes
    <3>5. Takes(Holding(e), VARINT_BYTES, n) /\ SubSeq(e, 1, n) = SubSeq(d, 1, n)
      BY <3>2, <3>3, <3>4, TakesLess
    <3>6. Reading(e).val = Reading(d).val /\ Reading(e).buf.offset = Reading(d).buf.offset
      <4>1. PICK val : val = Decode(SubSeq(d, 1, n), VARINT_BITS)
        OBVIOUS
      <4>2. ASSUME NEW s \in {d, e}
            PROVE  /\ Reading(s).buf.offset = n
                   /\ n > VARINT_BYTES => Reading(s).val = 0
                   /\ ~(n > VARINT_BYTES) => Reading(s).val = val
        <5>1. /\ Reading(s).buf.offset = n
              /\ n > VARINT_BYTES => Reading(s).val = 0
              /\ ~(n > VARINT_BYTES) =>
                   Reading(s) = [buf |-> [Holding(s) EXCEPT !.offset = n], val |-> val]
          BY <3>3, <3>4, <3>5, <4>1, ReadingIs
        <5> QED BY <5>1
      <4> QED BY <4>2
    <3> QED BY <3>1, <3>6
  <2> QED BY <1>1, <2>1, <2>2
<1> QED BY <1>1, ArrivedInv, PTL DEF Spec, PrefixStable

\* Every value of a varint's width is written in bytes that are read back as
\* the value, to their end, and in no more of them than it needs (varint.c).
THEOREM WrittenIsRead ==
  ASSUME NEW u \in 0 .. 2^VARINT_BITS - 1, NEW v, v = Signed(u, VARINT_BITS)
  PROVE  LET w == write_varint(v)
         IN  /\ Len(w) \in 1 .. VARINT_BYTES
             /\ \A k \in 1 .. VARINT_BYTES : u < 2^(GROUP * k) => Len(w) <= k
             /\ Reading(w) = [buf |-> [Holding(w) EXCEPT !.offset = Len(w)], val |-> v]
<1>1. PICK w : w = write_varint(v)
  OBVIOUS
<1>2. /\ Width(VARINT_BYTES, VARINT_BITS) /\ VARINT_BITS \in EXPONENTS
      /\ 2^VARINT_BITS \in Nat \ {0} /\ VARINT_BYTES \in Nat
  BY Widths, PowerPositive, Exponents DEF Width
<1>3. v \in Int /\ v % 2^VARINT_BITS = u
  BY <1>2, SignedOfCut
<1>4. w = Encode(v, VARINT_BYTES, VARINT_BITS)
  BY <1>1 DEF write_varint
<1>5. /\ w \in Seq(Byte) /\ Len(w) \in 1 .. VARINT_BYTES
      /\ \A i \in 1 .. Len(w) : w[i] < More <=> i = Len(w)
      /\ \A k \in 1 .. VARINT_BYTES : u < 2^(GROUP * k) => Len(w) <= k
  BY <1>2, <1>3, <1>4, EncodeIs
<1>6. Decode(w, VARINT_BITS) = v
  BY <1>2, <1>3, <1>4, DecodeOfEncode
<1>7. Takes(Holding(w), VARINT_BYTES, Len(w))
  <2>1. Holding(w).data = w /\ Holding(w).offset = 0 /\ Size(Holding(w)) = Len(w)
    BY <1>5, HoldingIs
  <2>2. 0 + Len(w) = Len(w) /\ \A m \in 1 .. Len(w) - 1 : 0 + m = m /\ m \in 1 .. Len(w) /\ m # Len(w)
    BY <1>5
  <2>3. Len(w) \in 1 .. VARINT_BYTES + 1 /\ Len(w) <= Len(w) /\ Len(w) \in 1 .. Len(w)
    BY <1>2, <1>5
  <2> QED BY <1>5, <2>1, <2>2, <2>3 DEF Takes
<1>8. ~(Len(w) > VARINT_BYTES) /\ SubSeq(w, 1, Len(w)) = w
  BY <1>2, <1>5
<1>9. Reading(w) = [buf |-> [Holding(w) EXCEPT !.offset = Len(w)], val |-> v]
  BY <1>5, <1>6, <1>7, <1>8, ReadingIs
<1> QED BY <1>1, <1>5, <1>9

\* Reader and writer agree on every varint that can arrive: what is read is
\* written in no more bytes, and these are read as the same value.
THEOREM ReaderWriterAgree == Spec => []Canonical
<1>1. Arrived => Canonical
  <2> SUFFICES ASSUME Arrived, ~Reading(bytes).buf.error
               PROVE  LET w == write_varint(Reading(bytes).val)
                      IN  /\ Len(w) <= Reading(bytes).buf.offset
                          /\ Reading(w) = [buf |-> [Holding(w) EXCEPT !.offset = Len(w)],
                                           val |-> Reading(bytes).val]
    BY DEF Canonical
  <2>1. PICK d : d = bytes
    OBVIOUS
  <2>2. d \in Seq(Byte) /\ Decided(d)
    BY <2>1 DEF Arrived, Decided
  <2>3. PICK n : Takes(Holding(d), VARINT_BYTES, n)
    BY <2>2, DecidedTakes
  <2>4. /\ Reading(d).buf.offset = n /\ n \in 1 .. VARINT_BYTES
        /\ Reading(d).val = Decode(SubSeq(d, 1, n), VARINT_BITS)
    <3>1. ~(n > VARINT_BYTES)
      BY <2>1, <2>2, <2>3, ReadingIs
    <3>2. n \in 1 .. VARINT_BYTES + 1 /\ VARINT_BYTES \in Nat
      BY <2>3, Exponents DEF Takes
    <3>3. /\ Reading(d).buf.offset = n
          /\ Reading(d) = [buf |-> [Holding(d) EXCEPT !.offset = n],
                           val |-> Decode(SubSeq(d, 1, n), VARINT_BITS)]
      BY <2>2, <2>3, <3>1, ReadingIs
    <3>4. Reading(d).val = Decode(SubSeq(d, 1, n), VARINT_BITS)
      BY <3>3
    <3> QED BY <3>1, <3>2, <3>3, <3>4
  <2>5. SubSeq(d, 1, n) \in Seq(Byte) /\ Len(SubSeq(d, 1, n)) = n
    <3>1. n <= Len(d) /\ n \in Nat
      <4>1. Size(Holding(d)) = Len(d) /\ Holding(d).offset = 0 /\ Holding(d).offset + n <= Size(Holding(d))
        BY <2>2, <2>3, HoldingIs DEF Takes
      <4> QED BY <2>4, <4>1
    <3> QED BY <2>2, <3>1
  <2>6. VARINT_BITS \in EXPONENTS /\ n \in 0 .. GROUPS
    BY <2>4, Widths, Exponents DEF Width
  <2>7. PICK u \in 0 .. 2^VARINT_BITS - 1 :
          Reading(d).val = Signed(u, VARINT_BITS) /\ u < 2^(GROUP * n)
    BY <2>4, <2>5, <2>6, DecodedValue
  <2>8. PICK w : w = write_varint(Reading(d).val)
    OBVIOUS
  <2>9. Len(w) <= n /\ Reading(w) = [buf |-> [Holding(w) EXCEPT !.offset = Len(w)],
                                     val |-> Reading(d).val]
    BY <2>4, <2>7, <2>8, WrittenIsRead
  <2> QED BY <2>1, <2>4, <2>8, <2>9
<1> QED BY <1>1, ArrivedInv, PTL
=============================================================================
