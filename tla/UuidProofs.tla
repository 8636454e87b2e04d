----------------------------- MODULE UuidProofs -----------------------------
(***************************************************************************)
(* Proofs about Uuid, for every length of a UUID, every place of dashes,   *)
(* and every UUID printed.                                                 *)
(***************************************************************************)
EXTENDS Uuid, FiniteSetTheorems, TLAPS

-----------------------------------------------------------------------------
(* Where the characters of a byte are in the text *)

DashesBefore(k) == Cardinality({d \in DASHES : d < k})

\* The place at which the characters of byte k begin, and those of its digits.
Start(k)  == 2 * k + DashesBefore(k)
Digits(k) == IF k \in DASHES THEN Start(k) + 1 ELSE Start(k)

LEMMA DashesFinite == IsFiniteSet(DASHES) /\ DASHES \subseteq Index /\ BYTES \in Nat \ {0}
<1>1. BYTES \in Nat \ {0} /\ DASHES \subseteq Index
  BY UuidAssumption
<1>2. IsFiniteSet(Index)
  <2>1. BYTES - 1 \in Int /\ 0 \in Int
    BY <1>1
  <2> QED BY <2>1, FS_Interval DEF Index
<1> QED BY <1>1, <1>2, FS_Subset

\* The dashes before a byte are counted by a number.
LEMMA DashesCounted ==
  ASSUME NEW k \in 0 .. BYTES
  PROVE  /\ IsFiniteSet({d \in DASHES : d < k}) /\ DashesBefore(k) \in Nat
         /\ Start(k) \in Nat /\ Digits(k) \in Nat
<1>1. IsFiniteSet({d \in DASHES : d < k})
  BY DashesFinite, FS_Subset
<1>2. DashesBefore(k) \in Nat
  BY <1>1, FS_CardinalityType DEF DashesBefore
<1> QED BY <1>1, <1>2 DEF Start, Digits

\* The next byte's characters begin behind the two digits.
LEMMA NextStart ==
  ASSUME NEW k \in Index
  PROVE  Start(k + 1) = Digits(k) + 2
<1> DEFINE S == {d \in DASHES : d < k}
           T == {d \in DASHES : d < k + 1}
<1>1. k \in 0 .. BYTES /\ k + 1 \in 0 .. BYTES
  BY DashesFinite DEF Index
<1>2. IsFiniteSet(S) /\ DashesBefore(k) \in Nat /\ DashesBefore(k + 1) \in Nat
  BY <1>1, DashesCounted
<1>3. CASE k \in DASHES
  <2>0. \A d \in DASHES : d < k + 1 <=> d < k \/ d = k
    BY <1>1, DashesFinite DEF Index
  <2>1. T = S \cup {k} /\ k \notin S
    <3>1. ~(k < k)
      BY <1>1
    <3> QED BY <1>3, <2>0, <3>1, Zenon
  <2>2. Cardinality(T) = Cardinality(S) + 1
    BY <1>2, <2>1, FS_AddElement
  <2>3. DashesBefore(k + 1) = DashesBefore(k) + 1
    BY <2>2 DEF DashesBefore
  <2> QED BY <1>1, <1>2, <1>3, <2>3 DEF Start, Digits
<1>4. CASE k \notin DASHES
  <2>0. \A d \in DASHES : d < k + 1 <=> d < k
    BY <1>1, <1>4, DashesFinite DEF Index
  <2>1. T = S
    BY <2>0, Zenon
  <2>2. DashesBefore(k + 1) = DashesBefore(k)
    BY <2>1 DEF DashesBefore
  <2> QED BY <1>1, <1>2, <1>4, <2>2 DEF Start, Digits
<1> QED BY <1>3, <1>4

\* The places grow with the bytes.
LEMMA StartsGrow ==
  ASSUME NEW k \in 0 .. BYTES, NEW l \in 0 .. BYTES, k <= l
  PROVE  Start(k) <= Start(l)
<1>1. {d \in DASHES : d < k} \in SUBSET {d \in DASHES : d < l}
  <2>1. \A d \in DASHES : d < k => d < l
    BY DashesFinite DEF Index
  <2> QED BY <2>1, Zenon
<1>2. DashesBefore(k) <= DashesBefore(l)
  BY <1>1, DashesCounted, FS_Subset DEF DashesBefore
<1>3. DashesBefore(k) \in Nat /\ DashesBefore(l) \in Nat
  BY DashesCounted
<1> QED BY <1>2, <1>3 DEF Start

\* The first byte begins the text, and the last one ends it.
LEMMA TextEnds == Start(0) = 0 /\ Start(BYTES) = TextLen /\ TextLen \in Nat
<1>1. {d \in DASHES : d < 0} = {} /\ {d \in DASHES : d < BYTES} = DASHES
  <2>1. \A d \in DASHES : ~(d < 0) /\ d < BYTES
    BY DashesFinite DEF Index
  <2> QED BY <2>1, Zenon
<1>2. Cardinality({}) = 0 /\ Cardinality(DASHES) \in Nat
  BY FS_EmptySet, FS_CardinalityType, DashesFinite
<1>3. DashesBefore(0) = 0 /\ DashesBefore(BYTES) = Cardinality(DASHES)
  BY <1>1, <1>2 DEF DashesBefore
<1> QED BY <1>2, <1>3, DashesFinite DEF Start, TextLen

\* The digits of a byte are in the text, before the characters of later bytes.
LEMMA DigitsInside ==
  ASSUME NEW k \in Index
  PROVE  /\ Start(k) \in Nat /\ Digits(k) \in Nat
         /\ Start(k) <= Digits(k) /\ Digits(k) <= Start(k) + 1 /\ Digits(k) + 2 <= TextLen
         /\ {Start(k), Digits(k), Digits(k) + 1} \subseteq Place
         /\ \A l \in 0 .. BYTES : k < l => Digits(k) + 2 <= Start(l)
<1>1. k \in 0 .. BYTES /\ k + 1 \in 0 .. BYTES /\ BYTES \in Nat
  BY DashesFinite DEF Index
<1>2. Start(k) \in Nat /\ Digits(k) \in Nat
  BY <1>1, DashesCounted
<1>3. Start(k) <= Digits(k) /\ Digits(k) <= Start(k) + 1
  BY <1>2 DEF Digits
<1>4. ASSUME NEW l \in 0 .. BYTES, k < l PROVE Digits(k) + 2 <= Start(l)
  <2>1. k + 1 <= l
    BY <1>1, <1>4
  <2>2. Start(k + 1) <= Start(l)
    BY <1>1, <2>1, StartsGrow
  <2> QED BY <2>2, NextStart
<1>5. Digits(k) + 2 <= TextLen /\ TextLen \in Nat
  <2>1. BYTES \in 0 .. BYTES /\ k < BYTES
    BY <1>1 DEF Index
  <2>2. Digits(k) + 2 <= Start(BYTES)
    BY <1>4, <2>1
  <2> QED BY <2>2, TextEnds
<1> QED BY <1>2, <1>3, <1>4, <1>5 DEF Place

-----------------------------------------------------------------------------
(* The invariant *)

\* Byte k of a UUID is written in the text t.
Written(t, g, k) ==
  /\ k \in DASHES => t[Start(k)] = DASH
  /\ t[Digits(k)] = g[k] \div 16
  /\ t[Digits(k) + 1] = g[k] % 16

Typed ==
  /\ phase \in {"unparse", "parse", "done"} /\ j \in 0 .. BYTES /\ i \in Nat
  /\ text \in [Place -> 0 .. 18] /\ uuid \in [Index -> Int]

\* What is printed so far is in the text, and the index is behind it.
Unparsing ==
  phase = "unparse" => /\ given \in [Index -> 0 .. 255] /\ i = Start(j)
                       /\ \A k \in 0 .. j - 1 : Written(text, given, k)

\* What is parsed so far of a printed UUID is its beginning, and the index is
\* at the next byte's characters: at its dash, or at its digits.
Parsing ==
  phase # "unparse" /\ given[0] # UNSET =>
    /\ given \in [Index -> 0 .. 255]
    /\ \A k \in Index : Written(text, given, k)
    /\ \A k \in 0 .. j - 1 : uuid[k] = given[k]
    /\ i = Start(j) \/ (j < BYTES /\ i = Digits(j))

IInv == Typed /\ Unparsing /\ Parsing /\ (phase = "done" => ~Looping)

-----------------------------------------------------------------------------
(* Initial states *)

\* A generated UUID consists of bytes.
LEMMA GeneratedBytes ==
  ASSUME NEW g \in Uuids \cup Generated
  PROVE  g \in [Index -> 0 .. 255]
<1>1. CASE g \in Uuids
  BY <1>1, UuidAssumption
<1>2. CASE g \in Generated
  <2>1. PICK rnd \in [0 .. (BYTES \div RAND_LENGTH) - 1 -> Randoms] : g = uuid_generate_random(rnd)
    BY <1>2 DEF Generated
  <2>2. PICK L, Q : L = RAND_LENGTH /\ Q = BYTES \div RAND_LENGTH
    OBVIOUS
  <2>3. /\ L \in Nat \ {0} /\ BYTES \in Nat \ {0} /\ Q = BYTES \div L /\ BYTES % L = 0
        /\ Q \in Nat
    BY <2>2, UuidAssumption
  <2>4. BYTES = L * Q
    BY <2>3
  <2>5. ASSUME NEW k \in Index
        PROVE  k \div L \in 0 .. Q - 1 /\ k % L \in 0 .. L - 1
    <3>1. k \in Nat /\ k < BYTES
      BY <2>3 DEF Index
    <3>2. PICK a, r : a = k \div L /\ r = k % L
      OBVIOUS
    <3>3. a \in Nat /\ r \in 0 .. L - 1 /\ k = L * a + r
      BY <2>3, <3>1, <3>2
    <3>4. \A x, y, l \in Nat : y <= x => l * y <= l * x
      OBVIOUS
    <3>5. Q <= a => FALSE
      <4>1. Q <= a => L * Q <= L * a
        BY <2>3, <3>3, <3>4
      <4>2. L * Q \in Nat /\ L * a \in Nat
        BY <2>3, <3>3
      <4> QED BY <2>4, <3>1, <3>3, <4>1, <4>2
    <3> QED BY <2>3, <3>2, <3>3, <3>5
  <2>6. ASSUME NEW k \in Index
        PROVE  (rnd[k \div L] \div 256^(k % L)) % 256 \in 0 .. 255
    <3>1. rnd[k \div L] \in Nat
      BY <2>1, <2>2, <2>5, UuidAssumption
    <3>2. 256^(k % L) \in Nat \ {0}
      BY <2>2, <2>5, ShiftAssumption
    <3>3. PICK x, y : x = rnd[k \div L] /\ y = 256^(k % L)
      OBVIOUS
    <3>4. PICK z : z = x \div y
      OBVIOUS
    <3>5. z \in Int
      BY <3>1, <3>2, <3>3, <3>4
    <3>6. z % 256 \in 0 .. 255
      BY <3>5
    <3> QED BY <3>3, <3>4, <3>6
  <2>7. ASSUME NEW k \in Index
        PROVE  uuid_generate_random(rnd)[k] \in 0 .. 255
    <3>1. PICK byte : byte = (rnd[k \div RAND_LENGTH] \div 256^(k % RAND_LENGTH)) % 256
      OBVIOUS
    <3>2. byte \in 0 .. 255
      BY <2>2, <2>6, <3>1
    <3>3. uuid_generate_random(rnd)[k] = CASE k = 6 -> 64 + (byte % 16)
                                           [] k = 8 -> 160 + (byte % 16)
                                           [] OTHER -> byte
      BY <3>1 DEF uuid_generate_random
    <3>4. PICK low : low = byte % 16
      OBVIOUS
    <3>5. low \in 0 .. 15
      BY <3>2, <3>4
    <3>6. 64 + low \in 0 .. 255 /\ 160 + low \in 0 .. 255
      BY <3>5
    <3> QED BY <3>2, <3>3, <3>4, <3>6
  <2> QED BY <2>1, <2>7 DEF uuid_generate_random
<1> QED BY <1>1, <1>2

\* The invariant holds at first.
LEMMA InitInv == Init => IInv
<1> SUFFICES ASSUME Init PROVE IInv
  OBVIOUS
<1>1. i = 0 /\ j = 0 /\ uuid = [k \in Index |-> UNSET] /\ phase \in {"unparse", "parse"}
  BY DEF Init
<1>2. 0 \in Index /\ 0 \in 0 .. BYTES /\ Start(0) = 0
  BY DashesFinite, TextEnds DEF Index
<1>3. text \in [Place -> 0 .. 18]
  BY UuidAssumption DEF Init, LETTER
<1>4. phase = "unparse" => given \in [Index -> 0 .. 255]
  BY GeneratedBytes DEF Init
<1>5. phase = "parse" => given[0] = UNSET
  BY <1>1, <1>2 DEF Init
<1>6. uuid \in [Index -> Int]
  BY <1>1 DEF UNSET
<1> QED BY <1>1, <1>2, <1>3, <1>4, <1>5, <1>6 DEF IInv, Typed, Unparsing, Parsing

-----------------------------------------------------------------------------
(* Steps *)

\* The next byte is printed behind the ones before.
LEMMA UnparseKeeps == IInv /\ Unparse => IInv'
<1> SUFFICES ASSUME IInv, Unparse PROVE IInv'
  OBVIOUS
<1>1. /\ phase = "unparse" /\ phase' = phase /\ j \in Index /\ j' = j + 1
      /\ given' = given /\ uuid' = uuid /\ j + 1 \in 0 .. BYTES
  BY DashesFinite DEF IInv, Typed, Unparse, Index
<1>2. /\ text \in [Place -> 0 .. 18] /\ uuid \in [Index -> Int] /\ i = Start(j)
      /\ given \in [Index -> 0 .. 255] /\ \A k \in 0 .. j - 1 : Written(text, given, k)
  BY <1>1 DEF IInv, Typed, Unparsing
<1>3. /\ text' = [text EXCEPT ![i] = DASH, ![Digits(j)] = given[j] \div 16,
                             ![Digits(j) + 1] = given[j] % 16]
      /\ i' = Digits(j) + 2
  BY <1>1, <1>2 DEF Unparse, Digits
<1>4. /\ Start(j) \in Nat /\ Digits(j) \in Nat /\ Start(j) <= Digits(j)
      /\ {Start(j), Digits(j), Digits(j) + 1} \subseteq Place
  BY <1>1, DigitsInside
<1>5. given[j] \div 16 \in 0 .. 15 /\ given[j] % 16 \in 0 .. 15
  <2>1. given[j] \in 0 .. 255
    BY <1>1, <1>2
  <2> QED BY <2>1
<1>6. text' \in [Place -> 0 .. 18]
  BY <1>2, <1>3, <1>4, <1>5 DEF DASH
<1>7. i' = Start(j + 1) /\ i' \in Nat
  BY <1>1, <1>3, <1>4, NextStart
<1>8. ASSUME NEW k \in 0 .. j PROVE Written(text', given, k)
  <2>1. CASE k = j
    <3>1. /\ text'[Digits(j)] = given[j] \div 16 /\ text'[Digits(j) + 1] = given[j] % 16
          /\ Start(j) # Digits(j) => text'[Start(j)] = DASH
      BY <1>2, <1>3, <1>4
    <3>2. j \in DASHES => Start(j) # Digits(j)
      BY <1>4 DEF Digits
    <3> QED BY <2>1, <3>1, <3>2 DEF Written
  <2>2. CASE k # j
    <3>1. k \in 0 .. j - 1 /\ k \in Index /\ k < j /\ j \in 0 .. BYTES
      BY <1>1, <2>2, DashesFinite DEF Index
    <3>2. /\ Start(k) \in Nat /\ Digits(k) \in Nat /\ Start(k) <= Digits(k)
          /\ Digits(k) + 2 <= Start(j)
          /\ {Start(k), Digits(k), Digits(k) + 1} \subseteq Place
      BY <3>1, DigitsInside
    <3>3. \A p \in {Start(k), Digits(k), Digits(k) + 1} :
            p \notin {i, Digits(j), Digits(j) + 1}
      BY <1>2, <1>4, <3>2
    <3>4. \A p \in {Start(k), Digits(k), Digits(k) + 1} : text'[p] = text[p]
      BY <1>2, <1>3, <3>2, <3>3
    <3> QED BY <1>2, <3>1, <3>4 DEF Written
  <2> QED BY <2>1, <2>2
<1>9. j' \in 0 .. BYTES /\ (\A k \in 0 .. j' - 1 : Written(text', given, k))
  <2>1. (j + 1) - 1 = j
    BY <1>1 DEF Index
  <2> QED BY <1>1, <1>8, <2>1
<1> QED BY <1>1, <1>2, <1>6, <1>7, <1>9 DEF IInv, Typed, Unparsing, Parsing

\* A whole text is what the parser begins with.
LEMMA UnparsedKeeps == IInv /\ Unparsed => IInv'
<1> SUFFICES ASSUME IInv, Unparsed PROVE IInv'
  OBVIOUS
<1>1. /\ phase = "unparse" /\ phase' = "parse" /\ i' = 0 /\ j' = 0 /\ j = BYTES
      /\ given' = given /\ uuid' = uuid /\ text' = [text EXCEPT ![TextLen] = NUL]
  BY DEF Unparsed
<1>2. /\ text \in [Place -> 0 .. 18] /\ uuid \in [Index -> Int]
      /\ given \in [Index -> 0 .. 255] /\ \A k \in 0 .. BYTES - 1 : Written(text, given, k)
  BY <1>1 DEF IInv, Typed, Unparsing
<1>3. text' \in [Place -> 0 .. 18] /\ 0 \in 0 .. BYTES /\ Start(0) = 0
  <2>1. 17 \in 0 .. 18
    OBVIOUS
  <2>2. text' \in [Place -> 0 .. 18]
    BY <1>1, <1>2, <2>1 DEF NUL
  <2> QED BY <2>2, TextEnds, DashesFinite
<1>4. ASSUME NEW k \in Index PROVE Written(text', given, k)
  <2>1. /\ Start(k) \in Nat /\ Digits(k) \in Nat /\ Start(k) <= Digits(k)
        /\ Digits(k) + 2 <= TextLen
        /\ {Start(k), Digits(k), Digits(k) + 1} \subseteq Place
    BY DigitsInside
  <2>2. \A p \in {Start(k), Digits(k), Digits(k) + 1} : text'[p] = text[p]
    BY <1>1, <1>2, <2>1, TextEnds
  <2>3. Written(text, given, k)
    BY <1>2 DEF Index
  <2> QED BY <2>2, <2>3 DEF Written
<1>5. \A k \in 0 .. j' - 1 : uuid'[k] = given'[k]
  BY <1>1
<1> QED BY <1>1, <1>2, <1>3, <1>4, <1>5 DEF IInv, Typed, Unparsing, Parsing

\* A dash is passed over only where the printer put it.
LEMMA ParseDashKeeps == IInv /\ ParseDash => IInv'
<1> SUFFICES ASSUME IInv, ParseDash PROVE IInv'
  OBVIOUS
<1>1. /\ phase = "parse" /\ j \in Index /\ i' = i + 1 /\ text[i] = DASH
      /\ UNCHANGED <<phase, given, text, uuid, j>>
  BY DashesFinite DEF IInv, Typed, ParseDash, Looping, Index
<1>2. Typed'
  BY <1>1 DEF IInv, Typed
<1>3. ASSUME given[0] # UNSET
      PROVE  i' = Digits(j)
  <2>1. /\ given \in [Index -> 0 .. 255] /\ Written(text, given, j)
        /\ i = Start(j) \/ i = Digits(j)
    BY <1>1, <1>3 DEF IInv, Parsing
  <2>2. text[Digits(j)] \in 0 .. 15
    <3>1. given[j] \in 0 .. 255
      BY <1>1, <2>1
    <3> QED BY <2>1, <3>1 DEF Written
  <2>3. i # Digits(j)
    BY <1>1, <2>2 DEF DASH
  <2> QED BY <1>1, <2>1, <2>3 DEF Digits
<1>4. j < BYTES
  BY <1>1, DashesFinite DEF Index
<1> QED BY <1>1, <1>2, <1>3, <1>4 DEF IInv, Unparsing, Parsing

\* The two digits of a byte are its value again.
LEMMA ParseByteKeeps == IInv /\ ParseByte => IInv'
<1> SUFFICES ASSUME IInv, ParseByte PROVE IInv'
  OBVIOUS
<1> DEFINE value == Joined(hex2dec(text[i]), hex2dec(text[i + 1]))
<1>1. /\ phase = "parse" /\ j \in Index /\ j' = j + 1 /\ i' = i + 2 /\ text[i] # DASH
      /\ UNCHANGED <<phase, given, text>> /\ uuid' = [uuid EXCEPT ![j] = value]
      /\ i \in Nat /\ i < TextLen
  BY DashesFinite DEF IInv, Typed, ParseByte, Looping, Index
<1>2. text \in [Place -> 0 .. 18] /\ uuid \in [Index -> Int]
  BY DEF IInv, Typed
<1>3. value \in Int
  <2>1. i \in Place /\ i + 1 \in Place
    BY <1>1, TextEnds DEF Place
  <2>2. text[i] \in 0 .. 18 /\ text[i + 1] \in 0 .. 18
    BY <1>2, <2>1
  <2>3. hex2dec(text[i]) \in -1 .. 15 /\ hex2dec(text[i + 1]) \in -1 .. 15
    BY <2>2 DEF hex2dec
  <2> QED BY <2>3 DEF Joined
<1>4. Typed'
  <2>1. j' \in 0 .. BYTES /\ i' \in Nat
    BY <1>1, DashesFinite DEF Index
  <2>2. uuid' \in [Index -> Int]
    BY <1>1, <1>2, <1>3
  <2> QED BY <1>1, <1>2, <2>1, <2>2 DEF Typed
<1>5. ASSUME given[0] # UNSET
      PROVE  i' = Start(j + 1) /\ (\A k \in 0 .. j : uuid'[k] = given[k])
  <2>1. /\ given \in [Index -> 0 .. 255] /\ Written(text, given, j)
        /\ i = Start(j) \/ i = Digits(j)
        /\ \A k \in 0 .. j - 1 : uuid[k] = given[k]
    BY <1>1, <1>5 DEF IInv, Parsing
  <2>2. i = Digits(j)
    BY <1>1, <2>1 DEF Written, Digits
  <2>3. value = given[j]
    <3>1. given[j] \in 0 .. 255
      BY <1>1, <2>1
    <3>2. text[i] = given[j] \div 16 /\ text[i + 1] = given[j] % 16
      BY <2>1, <2>2 DEF Written
    <3>3. PICK g, hi, lo : g = given[j] /\ hi = g \div 16 /\ lo = g % 16
      OBVIOUS
    <3>4. hi \in 0 .. 15 /\ lo \in 0 .. 15 /\ g = 16 * hi + lo
      <4>1. g \in 0 .. 255
        BY <3>1, <3>3
      <4> QED BY <3>3, <4>1
    <3>5. Joined(hex2dec(hi), hex2dec(lo)) = 16 * hi + lo
      BY <3>4 DEF Joined, hex2dec
    <3> QED BY <3>2, <3>3, <3>4, <3>5
  <2>4. i' = Start(j + 1)
    BY <1>1, <2>2, NextStart
  <2>5. ASSUME NEW k \in 0 .. j PROVE uuid'[k] = given[k]
    <3>1. k \in Index
      BY <1>1, DashesFinite DEF Index
    <3>2. CASE k = j
      BY <1>1, <1>2, <2>3, <3>1, <3>2
    <3>3. CASE k # j
      <4>1. k \in 0 .. j - 1
        BY <1>1, <3>3 DEF Index
      <4> QED BY <1>1, <1>2, <2>1, <3>1, <3>3, <4>1
    <3> QED BY <3>2, <3>3
  <2> QED BY <2>4, <2>5
<1>6. j' - 1 = j
  BY <1>1 DEF Index
<1>7. Parsing'
  <2>1. given[0] # UNSET => /\ given \in [Index -> 0 .. 255]
                            /\ \A k \in Index : Written(text, given, k)
    BY <1>1 DEF IInv, Parsing
  <2> QED BY <1>1, <1>5, <1>6, <2>1 DEF Parsing
<1> QED BY <1>1, <1>4, <1>7 DEF IInv, Unparsing

\* Every step keeps the invariant.
LEMMA StepInv == IInv /\ [Next]_vars => IInv'
<1> SUFFICES ASSUME IInv, [Next]_vars PROVE IInv'
  OBVIOUS
<1>1. CASE Unparse
  BY <1>1, UnparseKeeps
<1>2. CASE Unparsed
  BY <1>2, UnparsedKeeps
<1>3. CASE ParseDash
  BY <1>3, ParseDashKeeps
<1>4. CASE ParseByte
  BY <1>4, ParseByteKeeps
<1>5. CASE Parsed
  BY <1>5 DEF Parsed, IInv, Typed, Unparsing, Parsing, Looping
<1>6. CASE UNCHANGED vars
  BY <1>6 DEF vars, IInv, Typed, Unparsing, Parsing, Looping
<1> QED BY <1>1, <1>2, <1>3, <1>4, <1>5, <1>6 DEF Next

THEOREM Invariance == Spec => []IInv
BY InitInv, StepInv, PTL DEF Spec

-----------------------------------------------------------------------------
(* The properties *)

\* A printed UUID is parsed to itself, wherever its dashes are
\* (uuid.c:43-86): the loop ends only at the last byte.
THEOREM PrintedIsParsed == Spec => []ParsesBack
<1>1. IInv => ParsesBack
  <2> SUFFICES ASSUME IInv, phase = "done", given[0] # UNSET PROVE uuid = given
    BY DEF ParsesBack
  <2>1. /\ given \in [Index -> 0 .. 255] /\ uuid \in [Index -> Int] /\ j \in 0 .. BYTES
        /\ \A k \in 0 .. j - 1 : uuid[k] = given[k]
        /\ i = Start(j) \/ (j < BYTES /\ i = Digits(j))
        /\ ~(j < BYTES /\ i < TextLen)
    BY DEF IInv, Typed, Parsing, Looping
  <2>2. j = BYTES
    <3> SUFFICES ASSUME j # BYTES PROVE FALSE
      OBVIOUS
    <3>1. j \in Index /\ j < BYTES
      BY <2>1, DashesFinite DEF Index
    <3>2. /\ Start(j) \in Nat /\ Digits(j) \in Nat /\ Start(j) <= Digits(j)
          /\ Digits(j) + 2 <= TextLen
      BY <3>1, DigitsInside
    <3> QED BY <2>1, <3>1, <3>2, TextEnds
  <2>3. \A k \in Index : uuid[k] = given[k]
    BY <2>1, <2>2 DEF Index
  <2> QED BY <2>1, <2>3
<1> QED BY Invariance, <1>1, PTL
=============================================================================
