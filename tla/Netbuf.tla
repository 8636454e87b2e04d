------------------------------- MODULE Netbuf -------------------------------
(***************************************************************************)
(* The byte buffer of network/netbuf.c and the readers and writers of      *)
(* network/varint.c that work on it.                                       *)
(*                                                                         *)
(* A netbuf is the record [data, capacity, offset, error]; its C field     *)
(* size is Len(data), because only the bytes below size are ever read.     *)
(* A reader returns the buffer it leaves behind together with the value,   *)
(* as the C functions do through their pointer argument and their result.  *)
(*                                                                         *)
(* A byte carries GROUP payload bits below one continuation bit (7 and     *)
(* 0x80 in the code).  The widths are parameters so that TLC can enumerate *)
(* every byte and every varint of a narrow instance.                       *)
(***************************************************************************)
EXTENDS Integers, Sequences, FiniteSetsExt

CONSTANTS GROUP,          \* payload bits of a byte: 7
          VARINT_BITS,    \* width of varint: 32
          VARINT_BYTES,   \* bytes read_varint accepts: 5
          VARLONG_BITS,   \* width of varlong: 64
          VARLONG_BYTES   \* bytes read_varlong accepts: 10

ASSUME WidthAssumption ==
  /\ {GROUP, VARINT_BITS, VARINT_BYTES, VARLONG_BITS, VARLONG_BYTES} \subseteq Nat \ {0}
  /\ GROUP * (VARINT_BYTES - 1) < VARINT_BITS /\ VARINT_BITS <= GROUP * VARINT_BYTES
  /\ GROUP * (VARLONG_BYTES - 1) < VARLONG_BITS /\ VARLONG_BITS <= GROUP * VARLONG_BYTES

\* Arithmetic, not a condition on the code: a power of two doubles when its
\* exponent grows.  It is written down for the exponents of the codec because
\* the provers know nothing of a power whose exponent is a variable.
ASSUME PowerAssumption ==
  \A n \in 0 .. GROUP * (VARINT_BYTES + VARLONG_BYTES) : 2^(n + 1) = 2 * 2^n

More == 2^GROUP             \* the continuation bit, 0x80
Byte == 0 .. 2 * More - 1
Size(b) == Len(b.data)

\* What a varlong holds.
Varlongs == -(2^(VARLONG_BITS - 1)) .. 2^(VARLONG_BITS - 1) - 1

Netbufs == [data : Seq(Byte), capacity : Nat, offset : Nat, error : BOOLEAN]

netbuf_new(cap) == [data |-> << >>, capacity |-> cap, offset |-> 0, error |-> FALSE]

\* Where the doubling loop stops, for cap < needed: at the one multiple of cap
\* by a power of two below twice `needed` that holds the bytes (and it takes
\* at most needed - cap doublings).
Doubled(cap, needed) ==
  CHOOSE c \in needed .. 2 * needed - 1 : \E k \in 1 .. needed - cap : c = cap * 2^k

\* The buffers netbuf_expand may leave: realloc succeeds, or (when the
\* instance lets it) fails and raises the error flag.
netbuf_expand(b, extra, mayFail) ==
  LET needed == Size(b) + extra
  IN  IF needed <= b.capacity THEN {b}
      ELSE {[b EXCEPT !.capacity = Doubled(b.capacity, needed)]}
             \cup {x \in {[b EXCEPT !.error = TRUE]} : mayFail}

\* The buffers write_byte may leave.  The byte goes to the offset, which is the
\* end in a buffer that is being written; a full buffer doubles first.
write_byte(b, byte, mayFail) ==
  LET put(c) == [c EXCEPT !.offset = @ + 1,
                          !.data = Append(SubSeq(@, 1, c.offset), byte)
                                     \o SubSeq(@, c.offset + 2, Len(@))]
  IN  IF b.error THEN {b}
      ELSE IF b.offset < b.capacity THEN {put(b)}
      ELSE {put([b EXCEPT !.capacity = 2 * @])}
             \cup {x \in {[b EXCEPT !.error = TRUE]} : mayFail}

\* Mutant: the rest is not moved to the front.
netbuf_compact_Unmoved(b) ==
  [b EXCEPT !.data = SubSeq(b.data, 1, Size(b) - b.offset), !.offset = 0]

\* Drop what has been read and move the rest to the front.
netbuf_compact(b) ==
  [b EXCEPT !.data = SubSeq(b.data, b.offset + 1, Size(b)), !.offset = 0]
-----------------------------------------------------------------------------
(* Readers *)

Fail(b) == [buf |-> [b EXCEPT !.error = TRUE], val |-> 0]

Signed(u, bits) == IF u >= 2^(bits - 1) THEN u - 2^bits ELSE u

\* The groups of `bytes`, least significant first, cut to `bits` bits.
Decode(bytes, bits) ==
  LET upTo[i \in 0 .. Len(bytes)] ==
        IF i = 0 THEN 0 ELSE upTo[i - 1] + (bytes[i] % More) * 2^(GROUP * (i - 1))
  IN  Signed(upTo[Len(bytes)] % 2^bits, bits)

\* How many bytes a read that starts at the offset may consume: up to the
\* first byte without continuation bit, or limit+1 bytes (a violation).
ReadEnds(b, limit) ==
  {n \in 1 .. limit + 1 : /\ b.offset + n <= Size(b)
                          /\ n = limit + 1 \/ b.data[b.offset + n] < More}

\* Mutant: the end of the data also ends the varint.
ReadGroups_Partial(b, limit, bits) ==
  LET ends == ReadEnds(b, limit)
      n    == IF ends = {} THEN Size(b) - b.offset ELSE Min(ends)
  IN  [buf |-> [b EXCEPT !.offset = b.offset + n],
       val |-> Decode(SubSeq(b.data, b.offset + 1, b.offset + n), bits)]

ReadGroups(b, limit, bits) ==
  LET upTo[n \in 1 .. limit + 1] ==
        LET next == [b EXCEPT !.offset = b.offset + n]
        IN  IF n > limit THEN Fail(next)
            ELSE [buf |-> next,
                  val |-> Decode(SubSeq(b.data, b.offset + 1, b.offset + n), bits)]
  IN  IF b.error THEN [buf |-> b, val |-> 0]
      ELSE IF ReadEnds(b, limit) = {} THEN Fail([b EXCEPT !.offset = Size(b)])
      ELSE upTo[Min(ReadEnds(b, limit))]

read_varint[b \in Netbufs]  == ReadGroups(b, VARINT_BYTES, VARINT_BITS)
read_varlong[b \in Netbufs] == ReadGroups(b, VARLONG_BYTES, VARLONG_BITS)

read_ushort[b \in Netbufs] ==
  IF b.error \/ b.offset + 2 > Size(b) THEN Fail(b)
  ELSE [buf |-> [b EXCEPT !.offset = b.offset + 2],
        val |-> 2 * More * b.data[b.offset + 1] + b.data[b.offset + 2]]

\* `ptr` says whether the result is non-NULL and `str` is what it points at.
\* The code adds the signed length to a size_t and compares with the size: a
\* negative length passes as long as the sum does not drop below zero.
read_string[b \in Netbufs] ==
  LET r   == read_varint[b]
      end == r.buf.offset + r.val
  IN  IF r.buf.error \/ end \notin 0 .. Size(b)
      THEN [buf |-> [r.buf EXCEPT !.error = TRUE], len |-> r.val, ptr |-> FALSE,
            str |-> << >>]
      ELSE [buf |-> [r.buf EXCEPT !.offset = end], len |-> r.val, ptr |-> TRUE,
            str |-> SubSeq(b.data, r.buf.offset + 1, end)]
-----------------------------------------------------------------------------
(* Writers, as the bytes they append *)

\* Mutant: the first value of the next size is written too short.
Encode_OffByOne(value, limit, bits) ==
  LET u == value % 2^bits
      n == Min({k \in 1 .. limit : k = limit \/ u <= 2^(GROUP * k)})
  IN  [i \in 1 .. n |-> ((u \div 2^(GROUP * (i - 1))) % More)
                           + (IF i < n THEN More ELSE 0)]

Encode(value, limit, bits) ==
  LET u == value % 2^bits
      n == Min({k \in 1 .. limit : k = limit \/ u < 2^(GROUP * k)})
  IN  [i \in 1 .. n |-> ((u \div 2^(GROUP * (i - 1))) % More)
                           + (IF i < n THEN More ELSE 0)]

write_varint(value)  == Encode(value, VARINT_BYTES, VARINT_BITS)
write_varlong(value) == Encode(value, VARLONG_BYTES, VARLONG_BITS)
write_string(str)    == write_varint(Len(str)) \o str
=============================================================================
