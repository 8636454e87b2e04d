----------------------------- MODULE NbtProofs ------------------------------
(***************************************************************************)
(* Proofs about the debug dump of Nbt, for every sequence of bytes and     *)
(* every script of the writers.                                            *)
(***************************************************************************)
EXTENDS Nbt, WellFoundedInduction, SequenceTheorems, TLAPS

-----------------------------------------------------------------------------
(* Induction over an interval, and what the readers return *)

\* A set of numbers that holds 0, and n + 1 with n up to N, holds 0 .. N.
LEMMA Induction ==
  ASSUME NEW N \in Nat, NEW T \in SUBSET Nat, 0 \in T,
         \A n \in 0 .. N - 1 : n \in T => n + 1 \in T
  PROVE  0 .. N \subseteq T
<1> SUFFICES ASSUME 0 .. N \ T # {} PROVE FALSE
  OBVIOUS
<1> DEFINE Less == {ss \in Nat \X Nat : ss[1] < ss[2]}
           S == 0 .. N \ T
<1>1. IsWellFoundedOn(Less, Nat)
  BY NatLessThanWellFounded, Zenon DEF OpToRel
<1>0. S \in SUBSET Nat
  OBVIOUS
<1>2. \A x, y \in Nat : y < x => <<y, x>> \in Less
  <2> SUFFICES ASSUME NEW x \in Nat, NEW y \in Nat, y < x PROVE <<y, x>> \in Less
    OBVIOUS
  <2> DEFINE p == <<y, x>>
  <2>1. p \in Nat \X Nat /\ p[1] = y /\ p[2] = x
    OBVIOUS
  <2> QED BY <2>1, Zenon
<1> HIDE DEF Less
<1>3. PICK m \in S : \A y \in S : <<y, m>> \notin Less
  BY <1>0, <1>1, WFMin, Zenon
<1>4. PICK k : k = m - 1
  OBVIOUS
<1>5. k \in 0 .. N - 1 /\ k \in 0 .. N /\ k + 1 = m /\ k < m /\ k \in Nat /\ m \in Nat
  BY <1>3, <1>4
<1>6. k \notin S
  BY <1>2, <1>3, <1>5, Zenon
<1>7. k \in T
  BY <1>5, <1>6
<1>8. m \in T
  BY <1>5, <1>7
<1> QED BY <1>3, <1>8

\* A byte is a number, and reading one moves on unless the data end.
LEMMA ByteRead ==
  ASSUME data \in Seq(Char), NEW p \in 0 .. size
  PROVE  /\ dbg_read_byte(p).val \in Nat /\ dbg_read_byte(p).pos \in p .. size
         /\ p < size => dbg_read_byte(p).pos = p + 1
         /\ size \in Nat
<1>1. size \in Nat /\ DOMAIN data = 1 .. size
  BY DEF size
<1>2. Char \subseteq Nat
  BY NbtAssumption DEF Char
<1>3. CASE p >= size
  BY <1>1, <1>3 DEF dbg_read_byte
<1>4. CASE ~(p >= size)
  <2>1. data[p + 1] \in Char
    BY <1>1, <1>4
  <2>2. dbg_read_byte(p) = [val |-> data[p + 1], pos |-> p + 1]
    BY <1>4 DEF dbg_read_byte
  <2>3. dbg_read_byte(p).val = data[p + 1] /\ dbg_read_byte(p).pos = p + 1
    BY <2>2
  <2>4. p + 1 \in p .. size
    BY <1>1, <1>4
  <2> QED BY <1>1, <1>2, <2>1, <2>3, <2>4
<1> QED BY <1>3, <1>4

\* One byte more of a number.
NextByte(u) ==
  LET b == dbg_read_byte(u.pos) IN [val |-> u.val * BASE + b.val, pos |-> b.pos]

NumberIs(f, p, n) == f = [i \in 0 .. n |-> IF i = 0 THEN [val |-> 0, pos |-> p] ELSE NextByte(f[i - 1])]

\* The recursion of dbg_read_number has a solution.
LEMMA NumberExists ==
  ASSUME NEW p, NEW N \in Nat
  PROVE  \E f : NumberIs(f, p, N)
<1> DEFINE T == {n \in Nat : \E f : NumberIs(f, p, n)}
           z == [val |-> 0, pos |-> p]
<1>1. T \in SUBSET Nat /\ 0 \in T
  <2> DEFINE f == [i \in 0 .. 0 |-> z]
  <2>1. NumberIs(f, p, 0)
    BY DEF NumberIs
  <2> QED BY <2>1
<1>2. ASSUME NEW n \in 0 .. N - 1, n \in T PROVE n + 1 \in T
  <2>1. PICK f : NumberIs(f, p, n)
    BY <1>2
  <2> HIDE DEF z
  <2>3. f = [i \in 0 .. n |-> IF i = 0 THEN z ELSE NextByte(f[i - 1])]
    BY <2>1 DEF NumberIs, z
  <2> DEFINE g == [i \in 0 .. n + 1 |-> IF i <= n THEN f[i] ELSE NextByte(f[n])]
  <2>4. ASSUME NEW i \in 0 .. n + 1
        PROVE  g[i] = IF i = 0 THEN z ELSE NextByte(g[i - 1])
    <3>1. CASE i = n + 1
      <4>1. i # 0 /\ i - 1 = n /\ n \in 0 .. n + 1 /\ ~(i <= n) /\ n <= n
        BY <3>1
      <4>2. g[i] = NextByte(f[n]) /\ g[i - 1] = f[n]
        BY <4>1
      <4> QED BY <3>1, <4>1, <4>2, Zenon
    <3>2. CASE i <= n
      <4>1. i \in 0 .. n /\ (i # 0 => i - 1 \in 0 .. n + 1 /\ i - 1 <= n)
        BY <3>2
      <4>2. g[i] = f[i] /\ (i # 0 => g[i - 1] = f[i - 1])
        BY <3>2, <4>1
      <4>3. f[i] = IF i = 0 THEN z ELSE NextByte(f[i - 1])
        BY <2>3, <4>1, Zenon
      <4> HIDE DEF g
      <4> QED BY <4>2, <4>3
    <3> QED BY <3>1, <3>2
  <2>5. g = [i \in 0 .. n + 1 |-> IF i = 0 THEN z ELSE NextByte(g[i - 1])]
    <3>1. g = [i \in 0 .. n + 1 |-> g[i]]
      OBVIOUS
    <3> HIDE DEF g
    <3> QED BY <2>4, <3>1, Zenon
  <2> HIDE DEF g
  <2>6. NumberIs(g, p, n + 1)
    BY <2>5 DEF NumberIs, z
  <2> QED BY <2>6
<1> HIDE DEF T
<1>3. N \in 0 .. N /\ 0 .. N \subseteq T
  BY <1>1, <1>2, Induction
<1> QED BY <1>3 DEF T

\* A number of n bytes is a number, whatever is left of the data, and reading
\* it moves on unless the data end.
LEMMA NumberRead ==
  ASSUME data \in Seq(Char), NEW p \in 0 .. size, NEW n \in 1 .. SHORT + 2 * INT
  PROVE  /\ dbg_read_number(p, n).val \in Int /\ dbg_read_number(p, n).pos \in p .. size
         /\ p < size => p + 1 <= dbg_read_number(p, n).pos
<1> DEFINE f == CHOOSE f : f = [i \in 0 .. n |->
                  IF i = 0 THEN [val |-> 0, pos |-> p]
                  ELSE LET b == dbg_read_byte(f[i - 1].pos)
                       IN  [val |-> f[i - 1].val * BASE + b.val, pos |-> b.pos]]
<1>0. n \in Nat /\ BASE \in Nat /\ size \in Nat /\ n \in 0 .. SHORT + 2 * INT
  BY NbtAssumption, ByteRead
<1>1. dbg_read_number(p, n) = [f[n] EXCEPT !.val = Signed(@, n)]
  BY DEF dbg_read_number
<1>2. \E h : h = [i \in 0 .. n |->
                  IF i = 0 THEN [val |-> 0, pos |-> p]
                  ELSE LET b == dbg_read_byte(h[i - 1].pos)
                       IN  [val |-> h[i - 1].val * BASE + b.val, pos |-> b.pos]]
  <2>1. PICK h : NumberIs(h, p, n)
    BY <1>0, NumberExists
  <2>2. h = [i \in 0 .. n |->
                  IF i = 0 THEN [val |-> 0, pos |-> p]
                  ELSE LET b == dbg_read_byte(h[i - 1].pos)
                       IN  [val |-> h[i - 1].val * BASE + b.val, pos |-> b.pos]]
    BY <2>1, Zenon DEF NumberIs, NextByte
  <2> QED BY <2>2, Zenon
<1>3. NumberIs(f, p, n)
  BY <1>2 DEF NumberIs, NextByte
<1> HIDE DEF f
<1> DEFINE Good(k) == /\ f[k] = [val |-> f[k].val, pos |-> f[k].pos]
                      /\ f[k].val \in Int /\ f[k].pos \in p .. size
                      /\ k > 0 /\ p < size => p + 1 <= f[k].pos
           T == {k \in 0 .. n : Good(k)}
<1>4. T \in SUBSET Nat /\ 0 \in T
  <2>1. f[0] = [val |-> 0, pos |-> p] /\ 0 \in 0 .. n
    BY <1>0, <1>3 DEF NumberIs
  <2> QED BY <1>0, <2>1
<1>5. ASSUME NEW k \in 0 .. n - 1, k \in T PROVE k + 1 \in T
  <2>1. PICK j : j = k + 1
    OBVIOUS
  <2>2. j \in 0 .. n /\ j # 0 /\ j - 1 = k /\ j > 0
    BY <1>0, <2>1
  <2>3. f[j] = NextByte(f[k])
    BY <1>3, <2>2 DEF NumberIs
  <2>4. PICK u, q : u = f[k].val /\ q = f[k].pos
    OBVIOUS
  <2>5. u \in Int /\ q \in p .. size /\ q \in 0 .. size
    BY <1>0, <1>5, <2>4
  <2>6. PICK b : b = dbg_read_byte(q)
    OBVIOUS
  <2>7. b.val \in Nat /\ b.pos \in q .. size /\ (q < size => b.pos = q + 1)
    BY <2>5, <2>6, ByteRead
  <2>8. f[j] = [val |-> u * BASE + b.val, pos |-> b.pos]
    BY <2>3, <2>4, <2>6 DEF NextByte
  <2>9. u * BASE \in Int
    BY <1>0, <2>5
  <2>10. p < size => p + 1 <= b.pos
    BY <1>0, <2>5, <2>7
  <2>11. f[j].val = u * BASE + b.val /\ f[j].pos = b.pos
    BY <2>8
  <2>12. f[j].val \in Int /\ f[j].pos \in p .. size
    BY <1>0, <2>5, <2>7, <2>9, <2>11
  <2> QED BY <2>1, <2>2, <2>8, <2>10, <2>11, <2>12
<1> HIDE DEF T
<1>6. n \in 0 .. n /\ 0 .. n \subseteq T
  BY <1>0, <1>4, <1>5, Induction
<1>7. Good(n) /\ n > 0
  BY <1>0, <1>6 DEF T
<1>8. PICK v, q : v = f[n].val /\ q = f[n].pos
  OBVIOUS
<1>9. f[n] = [val |-> v, pos |-> q] /\ v \in Int /\ q \in p .. size /\ (p < size => p + 1 <= q)
  BY <1>7, <1>8
<1>10. dbg_read_number(p, n) = [val |-> Signed(v, n), pos |-> q]
  BY <1>1, <1>9
<1>11. Signed(v, n) \in Int
  <2>1. BASE^n \in Nat
    BY <1>0, WeightAssumption
  <2> QED BY <1>9, <2>1 DEF Signed
<1> QED BY <1>9, <1>10, <1>11

\* The widths of numbers are among those WeightAssumption speaks of.
LEMMA Widths ==
  /\ {SHORT, INT, 1} \subseteq 1 .. SHORT + 2 * INT
  /\ \A type \in Numbers : Width[type] \in 1 .. SHORT + 2 * INT
<1>1. SHORT \in Nat \ {0} /\ INT \in Nat \ {0}
  BY NbtAssumption
<1>2. {SHORT, INT, 2 * INT, 1} \subseteq 1 .. SHORT + 2 * INT
  BY <1>1
<1>3. ASSUME NEW type \in Numbers PROVE Width[type] \in {SHORT, INT, 2 * INT, 1}
  BY <1>3 DEF Width, Numbers, TAG_Byte, TAG_Short, TAG_Int, TAG_Long, TAG_Float, TAG_Double
<1> QED BY <1>2, <1>3

\* A string's end is in the data: a length beyond it, or a negative one, moves
\* nothing, so the cast to size_t does no harm.
LEMMA StringRead ==
  ASSUME data \in Seq(Char), NEW p \in 0 .. size, NEW most
  PROVE  /\ dbg_read_string(p, most).pos \in p .. size
         /\ p < size => p + 1 <= dbg_read_string(p, most).pos
<1>1. PICK len : len = dbg_read_number(p, SHORT)
  OBVIOUS
<1>2. len.val \in Int /\ len.pos \in p .. size /\ (p < size => p + 1 <= len.pos) /\ size \in Nat
  <2>1. SHORT \in 1 .. SHORT + 2 * INT
    BY Widths
  <2> QED BY <1>1, <2>1, NumberRead, ByteRead
<1>3. CASE len.val <= 0 \/ len.pos + len.val > size
  BY <1>1, <1>2, <1>3 DEF dbg_read_string
<1>4. CASE ~(len.val <= 0 \/ len.pos + len.val > size)
  <2>1. dbg_read_string(p, most).pos = len.pos + len.val
    BY <1>1, <1>4 DEF dbg_read_string
  <2> QED BY <1>2, <1>4, <2>1
<1> QED BY <1>3, <1>4

-----------------------------------------------------------------------------
(* What the writers append *)

\* A number is written as bytes.
LEMMA BigEndianBytes ==
  ASSUME NEW value \in Int, NEW n \in 1 .. SHORT + 2 * INT
  PROVE  BigEndian(value, n) \in Seq(Char)
<1>1. n \in Nat /\ BASE \in Nat \ {0} /\ SHORT + 2 * INT \in Nat
  BY NbtAssumption
<1>2. ASSUME NEW i \in 1 .. n PROVE (value \div BASE^(n - i)) % BASE \in Char
  <2>1. PICK w : w = BASE^(n - i)
    OBVIOUS
  <2>2. w \in Nat \ {0}
    <3>1. n - i \in 0 .. SHORT + 2 * INT
      BY <1>1
    <3> QED BY <2>1, <3>1, WeightAssumption
  <2>3. PICK q : q = value \div w
    OBVIOUS
  <2>4. q \in Int
    BY <2>2, <2>3
  <2>5. q % BASE \in Char
    BY <1>1, <2>4 DEF Char
  <2> QED BY <2>1, <2>3, <2>5
<1> QED BY <1>1, <1>2 DEF BigEndian

\* A text is written as bytes, and not beyond its end.
LEMMA TextBytes ==
  ASSUME NEW s \in Seq(Char)
  PROVE  Text(s) \in Seq(Char)
<1>1. PICK len : len = Len(s) % BASE^SHORT
  OBVIOUS
<1>2. len \in 0 .. Len(s) /\ len \in Int
  <2>1. PICK m, w : m = Len(s) /\ w = BASE^SHORT
    OBVIOUS
  <2>2. m \in Nat
    BY <2>1
  <2>3. w \in Nat \ {0}
    <3>1. SHORT \in 0 .. SHORT + 2 * INT
      BY NbtAssumption
    <3> QED BY <2>1, <3>1, WeightAssumption
  <2>4. (m % w) \in 0 .. m
    BY <2>2, <2>3
  <2> QED BY <1>1, <2>1, <2>2, <2>4
<1>3. SubSeq(s, 1, len) \in Seq(Char)
  BY <1>2
<1>4. BigEndian(len, SHORT) \in Seq(Char)
  BY <1>2, Widths, BigEndianBytes
<1> QED BY <1>1, <1>3, <1>4, ConcatProperties DEF Text

\* Every call appends bytes.
LEMMA WrittenBytes ==
  ASSUME NEW c \in Calls
  PROVE  Written(c) \in Seq(Char)
<1>1. /\ c.writes \in Numbers \cup {TAG_String, TAG_List, TAG_Compound, TAG_End}
      /\ c.name = NULL \/ c.name \in Seq(Char)
      /\ c.value \in Seq(Int)
  BY DEF Calls
<1>2. /\ c.writes \in Numbers => Len(c.value) = 1
      /\ c.writes = TAG_String => c.value \in Seq(Char)
      /\ c.writes = TAG_List => Len(c.value) = 2 /\ c.value[1] \in Char
  BY DEF Calls, Numbers, TAG_Byte, TAG_Short, TAG_Int, TAG_Long, TAG_Float, TAG_Double,
         TAG_String, TAG_List
<1>3. c.writes \in Char
  <2>1. Numbers \cup {TAG_String, TAG_List, TAG_Compound, TAG_End} \subseteq 0 .. 12
    BY DEF Numbers, TAG_Byte, TAG_Short, TAG_Int, TAG_Long, TAG_Float, TAG_Double, TAG_String,
           TAG_List, TAG_Compound, TAG_End
  <2>2. 0 .. 12 \subseteq Char
    BY NbtAssumption DEF Char
  <2> QED BY <1>1, <2>1, <2>2, Zenon
<1>4. nbt_write_header(c.writes, c.name) \in Seq(Char)
  <2>1. << >> \in Seq(Char) /\ <<c.writes>> \in Seq(Char)
    BY <1>3
  <2>2. c.name # NULL => Text(c.name) \in Seq(Char)
    BY <1>1, TextBytes
  <2>3. c.name # NULL => <<c.writes>> \o Text(c.name) \in Seq(Char)
    BY <2>1, <2>2, ConcatProperties
  <2> QED BY <2>1, <2>3 DEF nbt_write_header
<1>5. Payload(c) \in Seq(Char)
  <2>1. CASE c.writes \in Numbers
    <3>1. c.value[1] \in Int
      BY <1>1, <1>2, <2>1
    <3>2. Payload(c) = BigEndian(c.value[1], Width[c.writes])
      BY <2>1 DEF Payload, Numbers, TAG_Byte, TAG_Short, TAG_Int, TAG_Long, TAG_Float,
                  TAG_Double, TAG_String, TAG_List, TAG_Compound, TAG_End
    <3> QED BY <2>1, <3>1, <3>2, Widths, BigEndianBytes
  <2>2. CASE c.writes = TAG_String
    <3>1. Payload(c) = Text(c.value)
      BY <2>2 DEF Payload, Numbers, TAG_Byte, TAG_Short, TAG_Int, TAG_Long, TAG_Float,
                  TAG_Double, TAG_String, TAG_List, TAG_Compound, TAG_End
    <3> QED BY <1>2, <2>2, <3>1, TextBytes
  <2>3. CASE c.writes = TAG_List
    <3>1. Payload(c) = <<c.value[1]>> \o BigEndian(c.value[2], INT)
      BY <2>3 DEF Payload, Numbers, TAG_Byte, TAG_Short, TAG_Int, TAG_Long, TAG_Float,
                  TAG_Double, TAG_String, TAG_List, TAG_Compound, TAG_End
    <3>2. <<c.value[1]>> \in Seq(Char) /\ c.value[2] \in Int
      BY <1>1, <1>2, <2>3
    <3>3. BigEndian(c.value[2], INT) \in Seq(Char)
      BY <3>2, Widths, BigEndianBytes
    <3> QED BY <3>1, <3>2, <3>3, ConcatProperties
  <2>4. CASE c.writes \in {TAG_Compound, TAG_End}
    <3>1. Payload(c) \in {<< >>, <<c.writes>>}
      BY <2>4 DEF Payload, Numbers, TAG_Byte, TAG_Short, TAG_Int, TAG_Long, TAG_Float,
                  TAG_Double, TAG_String, TAG_List, TAG_Compound, TAG_End
    <3>2. << >> \in Seq(Char) /\ <<c.writes>> \in Seq(Char)
      BY <1>3
    <3> QED BY <3>1, <3>2, Zenon
  <2> QED BY <1>1, <2>1, <2>2, <2>3, <2>4
<1> QED BY <1>4, <1>5, ConcatProperties DEF Written

-----------------------------------------------------------------------------
(* The invariant *)

Frames == [of : {"compound"}] \cup [of : {"list"}, elem : Int, left : Int]

Typed ==
  /\ data \in Seq(Char) /\ script \in Seq(Calls)
  /\ stack \in Seq(Frames) /\ pos \in 0 .. size
  /\ phase = "write" => pos = 0 /\ stack = << >>

\* A compound that is an element of a list takes no byte of its own: the list
\* has read more than one before an element can follow.
ListsPaid == InLoop("list") /\ pos < size => Len(stack) + 1 <= pos

IInv == Typed /\ Len(stack) <= pos /\ ListsPaid

\* The invariant holds at first.
LEMMA InitInv == Init => IInv
<1> SUFFICES ASSUME Init PROVE IInv
  OBVIOUS
<1>1. data \in Seq(Char) /\ script \in Seq(Calls)
  <2>1. << >> \in Seq(Char) /\ << >> \in Seq(Calls)
    OBVIOUS
  <2>2. \/ script \in Scripts /\ data = << >>
        \/ script = << >> /\ data \in Inputs
    BY DEF Init
  <2> QED BY <2>1, <2>2, NbtAssumption, Zenon
<1>2. pos = 0 /\ stack = << >> /\ size \in Nat
  BY <1>1 DEF Init, size
<1>3. stack \in Seq(Frames) /\ Len(stack) = 0
  BY <1>2
<1> QED BY <1>1, <1>2, <1>3 DEF IInv, Typed, ListsPaid, InLoop

-----------------------------------------------------------------------------
(* Steps *)

\* The invariant after a step of the dump that leaves the data alone.
StandsAt(st, p) ==
  /\ st \in Seq(Frames) /\ p \in 0 .. size /\ Len(st) <= p
  /\ st # << >> /\ st[Len(st)].of = "list" /\ p < size => Len(st) + 1 <= p

LEMMA Stands ==
  ASSUME IInv, data' = data, script' = script, phase' # "write", StandsAt(stack', pos')
  PROVE  IInv'
BY DEF IInv, Typed, ListsPaid, InLoop, StandsAt, size

\* Whatever the tag is, its payload is read inside the data; a compound or list
\* goes on the stack, in which it has a byte to itself.
LEMMA SwitchStands ==
  ASSUME data \in Seq(Char), NEW type, NEW name, NEW p \in 0 .. size,
         NEW rest \in Seq(Frames), Len(rest) + 1 <= p,
         Switch(type, name, p, rest)
  PROVE  StandsAt(stack', pos')
<1>0. size \in Nat /\ p \in Nat /\ Len(rest) \in Nat
  BY ByteRead
<1>1. ASSUME stack' = rest, pos' \in p .. size
      PROVE  StandsAt(stack', pos')
  BY <1>0, <1>1 DEF StandsAt
<1>2. CASE Number(type, name, p, rest)
  <2>1. type \in Numbers /\ pos' = dbg_read_number(p, Width[type]).pos /\ stack' = rest
    BY <1>2 DEF Number
  <2>2. Width[type] \in 1 .. SHORT + 2 * INT
    BY <2>1, Widths
  <2> QED BY <1>1, <2>1, <2>2, NumberRead
<1>3. CASE String(type, name, p, rest)
  <2>1. pos' = dbg_read_string(p, STRING_MAX).pos /\ stack' = rest
    BY <1>3 DEF String
  <2> QED BY <1>1, <2>1, StringRead
<1>4. CASE Compound(type, name, p, rest)
  <2>1. pos' = p /\ stack' = Append(rest, [of |-> "compound"])
    BY <1>4 DEF Compound
  <2>2. [of |-> "compound"] \in Frames
    BY DEF Frames
  <2>3. /\ stack' \in Seq(Frames) /\ Len(stack') = Len(rest) + 1
        /\ stack'[Len(stack')] = [of |-> "compound"]
    BY <2>1, <2>2
  <2>4. stack'[Len(stack')].of # "list"
    BY <2>3
  <2> QED BY <1>0, <2>1, <2>3, <2>4 DEF StandsAt
<1>5. CASE List(type, name, p, rest)
  <2>1. PICK elem, count : /\ elem = dbg_read_byte(p) /\ count = dbg_read_number(elem.pos, INT)
                           /\ pos' = count.pos
                           /\ stack' = Append(rest, [of |-> "list", elem |-> elem.val,
                                                    left |-> count.val])
    BY <1>5 DEF List
  <2>2. /\ elem.val \in Nat /\ elem.pos \in p .. size /\ (p < size => elem.pos = p + 1)
    BY <2>1, ByteRead
  <2>3. /\ count.val \in Int /\ count.pos \in elem.pos .. size
        /\ elem.pos < size => elem.pos + 1 <= count.pos
    <3>1. elem.pos \in 0 .. size /\ INT \in 1 .. SHORT + 2 * INT
      BY <1>0, <2>2, Widths
    <3> QED BY <2>1, <3>1, NumberRead
  <2>4. PICK frame : frame = [of |-> "list", elem |-> elem.val, left |-> count.val]
    OBVIOUS
  <2>5. frame \in Frames
    BY <2>2, <2>3, <2>4 DEF Frames
  <2>6. stack' \in Seq(Frames) /\ Len(stack') = Len(rest) + 1
    BY <2>1, <2>4, <2>5
  <2>7. pos' \in p .. size /\ (pos' < size => p + 2 <= pos')
    BY <1>0, <2>1, <2>2, <2>3
  <2> QED BY <1>0, <2>6, <2>7 DEF StandsAt
<1>6. CASE Unsupported(type, name, p, rest)
  <2>1. pos' = p /\ stack' = rest
    BY <1>6 DEF Unsupported
  <2> QED BY <1>0, <1>1, <2>1
<1> QED BY <1>2, <1>3, <1>4, <1>5, <1>6 DEF Switch

\* A tag with a name begins with a byte of its own.
LEMMA NamedStands ==
  ASSUME IInv, pos < size, Named(stack)
  PROVE  StandsAt(stack', pos')
<1>1. data \in Seq(Char) /\ stack \in Seq(Frames) /\ pos \in 0 .. size /\ Len(stack) <= pos
  BY DEF IInv, Typed
<1>2. PICK type, name : /\ type = dbg_read_byte(pos) /\ name = dbg_read_string(type.pos, NAME_MAX)
                        /\ Switch(type.val, name.val, name.pos, stack)
  BY DEF Named
<1>3. type.pos = pos + 1 /\ size \in Nat /\ pos + 1 \in 0 .. size
  BY <1>1, <1>2, ByteRead
<1>4. name.pos \in pos + 1 .. size
  BY <1>1, <1>2, <1>3, StringRead
<1>5. name.pos \in 0 .. size /\ Len(stack) + 1 <= name.pos
  BY <1>1, <1>3, <1>4
<1> QED BY <1>1, <1>2, <1>5, SwitchStands

\* What a call leaves behind when it returns.
LEMMA CallersStand ==
  ASSUME IInv, stack # << >>, NEW p \in pos .. size
  PROVE  StandsAt(Callers, p) /\ Callers \in Seq(Frames) /\ Len(Callers) + 1 = Len(stack)
<1>1. /\ data \in Seq(Char) /\ stack \in Seq(Frames) /\ pos \in 0 .. size /\ size \in Nat
      /\ Len(stack) <= pos
  BY ByteRead DEF IInv, Typed
<1>2. Len(stack) \in Nat /\ Len(stack) >= 1
  BY <1>1
<1>3. Callers \in Seq(Frames) /\ Len(Callers) = Len(stack) - 1
  <2>1. PICK n : n = Len(stack) - 1
    OBVIOUS
  <2>2. n \in Nat /\ n <= Len(stack) /\ n + 1 = Len(stack)
    BY <1>2, <2>1
  <2>3. SubSeq(stack, 1, n) \in Seq(Frames) /\ Len(SubSeq(stack, 1, n)) = n
    BY <1>1, <2>2
  <2> QED BY <2>1, <2>3 DEF Callers
<1> QED BY <1>1, <1>2, <1>3 DEF StandsAt

\* Every step keeps the invariant.
LEMMA StepInv == IInv /\ [Next]_vars => IInv'
<1> SUFFICES ASSUME IInv, [Next]_vars PROVE IInv'
  OBVIOUS
<1>0. /\ data \in Seq(Char) /\ script \in Seq(Calls) /\ stack \in Seq(Frames)
      /\ pos \in 0 .. size /\ size \in Nat /\ Len(stack) <= pos
  BY ByteRead DEF IInv, Typed
<1>1. CASE Write
  <2>1. /\ phase = "write" /\ script # << >> /\ script' = Tail(script)
        /\ data' = data \o Written(Head(script)) /\ UNCHANGED <<phase, pos, stack>>
    BY <1>1 DEF Write, dump
  <2>2. Head(script) \in Calls /\ Tail(script) \in Seq(Calls)
    BY <1>0, <2>1
  <2>3. data' \in Seq(Char)
    BY <1>0, <2>1, <2>2, WrittenBytes, ConcatProperties
  <2>4. pos' = 0 /\ stack' = << >> /\ size' \in Nat
    BY <2>1, <2>3 DEF IInv, Typed, size
  <2>5. stack' \in Seq(Frames) /\ Len(stack') = 0
    BY <2>4
  <2> QED BY <2>1, <2>2, <2>3, <2>4, <2>5 DEF IInv, Typed, ListsPaid, InLoop
<1>2. CASE StartDump
  BY <1>2 DEF StartDump, dump, IInv, Typed, ListsPaid, InLoop, size
<1>3. CASE Done
  BY <1>3 DEF Done, dump, IInv, Typed, ListsPaid, InLoop, size
<1>4. ASSUME Dumping, StandsAt(stack', pos')
      PROVE  IInv'
  BY <1>4, Stands DEF Dumping
<1>5. CASE TopTag \/ CompoundTag
  BY <1>4, <1>5, NamedStands DEF TopTag, CompoundTag
<1>6. CASE TopEnd
  <2>1. stack = << >> /\ pos < size /\ pos' = pos + 1 /\ stack' = stack /\ Dumping
    BY <1>6 DEF TopEnd
  <2>2. StandsAt(stack', pos')
    BY <1>0, <2>1 DEF StandsAt
  <2> QED BY <1>4, <2>1, <2>2
<1>7. CASE CompoundEnd \/ CompoundCutOff \/ ListEnd
  <2>1. stack # << >> /\ stack' = Callers /\ pos' \in pos .. size /\ Dumping
    BY <1>0, <1>7 DEF CompoundEnd, CompoundCutOff, ListEnd, InLoop
  <2> QED BY <1>4, <2>1, CallersStand
<1>8. CASE ListElement
  <2>1. PICK list : /\ list = stack[Len(stack)] /\ stack # << >> /\ list.of = "list" /\ Dumping
                    /\ pos < size
                    /\ Switch(list.elem, << >>, pos, Append(Callers, [list EXCEPT !.left = @ - 1]))
    BY <1>8 DEF ListElement, InLoop
  <2>2. Callers \in Seq(Frames) /\ Len(Callers) + 1 = Len(stack)
    <3>1. pos \in pos .. size
      BY <1>0
    <3> QED BY <2>1, <3>1, CallersStand
  <2>3. [list EXCEPT !.left = @ - 1] \in Frames
    <3>1. list \in Frames
      BY <1>0, <2>1
    <3>2. list \in [of : {"list"}, elem : Int, left : Int]
      BY <2>1, <3>1 DEF Frames
    <3> QED BY <3>2 DEF Frames
  <2>4. PICK rest : rest = Append(Callers, [list EXCEPT !.left = @ - 1])
    OBVIOUS
  <2>5. rest \in Seq(Frames) /\ Len(rest) = Len(stack)
    BY <1>0, <2>2, <2>3, <2>4
  <2>6. Len(rest) + 1 <= pos
    BY <2>1, <2>5 DEF IInv, ListsPaid, InLoop
  <2>7. StandsAt(stack', pos')
    BY <1>0, <2>1, <2>4, <2>5, <2>6, SwitchStands
  <2> QED BY <1>4, <2>1, <2>7
<1>9. CASE UNCHANGED vars
  BY <1>9 DEF vars, dump, IInv, Typed, ListsPaid, InLoop, size
<1> QED BY <1>1, <1>2, <1>3, <1>5, <1>6, <1>7, <1>8, <1>9 DEF Next, Dump

THEOREM Invariance == Spec => []IInv
BY InitInv, StepInv, PTL DEF Spec

\* The dump stays within its bytes, whatever they are, and its recursion is
\* never deeper than what it has read (nbt.c:159-312): neither a length that
\* is negative or too large nor a nesting leads it out.
THEOREM StaysInside == Spec => []PosInside
<1>1. IInv => PosInside
  BY DEF IInv, Typed, PosInside
<1> QED BY Invariance, <1>1, PTL
=============================================================================
