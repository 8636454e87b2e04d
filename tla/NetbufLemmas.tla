---------------------------- MODULE NetbufLemmas ----------------------------
(***************************************************************************)
(* Lemmas about the buffers of Netbuf that several proofs cite: parts of   *)
(* sequences, what one write leaves, what a read takes, and that a value   *)
(* that is written as a varint is read back.                               *)
(***************************************************************************)
EXTENDS Netbuf, WellFoundedInduction, SequenceTheorems, TLAPS

-----------------------------------------------------------------------------
(* Minima of sets of natural numbers *)

\* The least element of a nonempty set of natural numbers exists and is Min.
LEMMA MinNat ==
  ASSUME NEW S \in SUBSET Nat, S # {}
  PROVE  Min(S) \in S /\ \A y \in S : Min(S) <= y
<1> DEFINE Less == {ss \in Nat \X Nat : ss[1] < ss[2]}
<1>1. IsWellFoundedOn(Less, Nat)
  BY NatLessThanWellFounded, Zenon DEF OpToRel
<1>2. \A x, y \in Nat : y < x => <<y, x>> \in Less
  <2> SUFFICES ASSUME NEW x \in Nat, NEW y \in Nat, y < x PROVE <<y, x>> \in Less
    OBVIOUS
  <2> DEFINE p == <<y, x>>
  <2>1. p \in Nat \X Nat /\ p[1] = y /\ p[2] = x
    OBVIOUS
  <2> QED BY <2>1, Zenon
<1> HIDE DEF Less
<1>3. PICK x \in S : \A y \in S : <<y, x>> \notin Less
  BY <1>1, WFMin, Zenon
<1>4. \A y \in S : x <= y
  <2> SUFFICES ASSUME NEW y \in S, ~(x <= y) PROVE FALSE
    OBVIOUS
  <2>1. x \in Nat /\ y \in Nat /\ y < x
    OBVIOUS
  <2> QED BY <2>1, <1>3, <1>2, Zenon
<1> QED BY <1>4 DEF Min

\* The bytes a read takes: between one and limit + 1, and all in the buffer.
LEMMA ReadEndsMin ==
  ASSUME NEW b \in Netbufs, NEW limit \in Nat, ReadEnds(b, limit) # {}
  PROVE  /\ Min(ReadEnds(b, limit)) \in 1 .. limit + 1
         /\ b.offset + Min(ReadEnds(b, limit)) <= Size(b)
<1>1. ReadEnds(b, limit) \in SUBSET Nat
  BY DEF ReadEnds
<1>2. Min(ReadEnds(b, limit)) \in ReadEnds(b, limit)
  BY <1>1, MinNat, Zenon
<1> QED BY <1>2 DEF ReadEnds

\* A value is written into at least one byte and at most `limit`.
LEMMA EncodeLength ==
  ASSUME NEW value, NEW limit \in Nat \ {0}, NEW bits
  PROVE  \E S : /\ Encode(value, limit, bits) \in Seq(S)
                /\ Len(Encode(value, limit, bits)) \in 1 .. limit
<1> DEFINE u == value % 2^bits
           K == {k \in 1 .. limit : k = limit \/ u < 2^(GROUP * k)}
           n == Min(K)
           f == [i \in 1 .. n |-> ((u \div 2^(GROUP * (i - 1))) % More)
                                    + (IF i < n THEN More ELSE 0)]
           S == {f[i] : i \in 1 .. n}
<1>1. K \in SUBSET Nat /\ limit \in K
  OBVIOUS
<1>2. n \in 1 .. limit
  <2>1. n \in K
    BY <1>1, MinNat, Zenon
  <2> QED BY <2>1
<1>3. Encode(value, limit, bits) = f
  BY DEF Encode
<1>4. f \in [1 .. n -> S]
  OBVIOUS
<1> HIDE DEF f, n, S
<1>5. f \in Seq(S) /\ Len(f) = n
  BY <1>2, <1>4
<1> QED BY <1>2, <1>3, <1>5
-----------------------------------------------------------------------------
(* Parts of sequences *)

\* A stretch of n bytes behind the first a.
LEMMA Stretch ==
  ASSUME NEW S, NEW s \in Seq(S), NEW a \in Nat, NEW n \in Nat, a + n <= Len(s),
         NEW t, t = SubSeq(s, a + 1, a + n)
  PROVE  t \in Seq(S) /\ Len(t) = n /\ \A j \in 1 .. n : t[j] = s[a + j]
<1>1. PICK from, to : from = a + 1 /\ to = a + n
  OBVIOUS
<1>2. /\ from \in Nat /\ to \in Nat /\ 1 <= from /\ to <= Len(s) /\ from <= to + 1
      /\ to - from + 1 = n /\ Len(s) \in Nat
  BY <1>1
<1>3. t \in Seq(S) /\ Len(t) = to - from + 1
  <2>1. t = SubSeq(s, from, to)
    BY <1>1
  <2> QED BY <1>2, <2>1
<1>4. ASSUME NEW j \in 1 .. n PROVE t[j] = s[a + j]
  <2>1. t[j] = s[from + j - 1]
    BY <1>1, <1>2, <1>3
  <2>2. from + j - 1 = a + j
    BY <1>1
  <2> QED BY <2>1, <2>2
<1> QED BY <1>2, <1>3, <1>4

\* An element before a stretch.
LEMMA Prepended ==
  ASSUME NEW S, NEW s \in Seq(S), NEW k \in 0 .. Len(s), NEW i \in 1 .. k
  PROVE  <<s[i]>> \o SubSeq(s, i + 1, k) = SubSeq(s, i, k)
<1>1. Len(s) \in Nat /\ i \in 1 .. Len(s) /\ s[i] \in S
  OBVIOUS
<1>2. PICK t, u, n : t = SubSeq(s, i + 1, k) /\ u = SubSeq(s, i, k) /\ n = k - i
  OBVIOUS
<1>3. n \in Nat /\ i + n = k /\ i - 1 \in Nat /\ (i - 1) + 1 = i /\ (i - 1) + (n + 1) = k /\ k <= Len(s)
  BY <1>1, <1>2
<1>4. t \in Seq(S) /\ Len(t) = n /\ \A j \in 1 .. n : t[j] = s[i + j]
  BY <1>1, <1>2, <1>3, Stretch
<1>5. u \in Seq(S) /\ Len(u) = n + 1 /\ \A j \in 1 .. n + 1 : u[j] = s[(i - 1) + j]
  <2>1. PICK c, m : c = i - 1 /\ m = n + 1
    OBVIOUS
  <2>2. c \in Nat /\ m \in Nat /\ c + m <= Len(s) /\ u = SubSeq(s, c + 1, c + m)
    BY <1>2, <1>3, <2>1
  <2>3. u \in Seq(S) /\ Len(u) = m /\ \A j \in 1 .. m : u[j] = s[c + j]
    BY <2>2, Stretch
  <2> QED BY <2>1, <2>3
<1>6. PICK v : v = <<s[i]>> \o t
  OBVIOUS
<1>7. v \in Seq(S) /\ Len(v) = n + 1 /\ v[1] = s[i] /\ \A j \in 2 .. n + 1 : v[j] = t[j - 1]
  BY <1>1, <1>3, <1>4, <1>6, ConcatProperties
<1>8. ASSUME NEW j \in 1 .. n + 1 PROVE v[j] = u[j]
  <2>1. CASE j = 1
    <3>1. (i - 1) + 1 = i
      BY <1>3
    <3> QED BY <1>5, <1>7, <2>1, <3>1
  <2>2. CASE j # 1
    <3>1. j \in 2 .. n + 1 /\ j - 1 \in 1 .. n /\ i + (j - 1) = (i - 1) + j
      BY <1>3, <2>2
    <3> QED BY <1>4, <1>5, <1>7, <3>1
  <2> QED BY <2>1, <2>2
<1>9. u = v
  BY <1>5, <1>7, <1>8, SeqEqual
<1> QED BY <1>2, <1>6, <1>9

\* Concatenation of byte sequences may be regrouped.
LEMMA Associative == \A s, t, u \in Seq(Byte) : (s \o t) \o u = s \o (t \o u)
<1> TAKE s, t, u \in Seq(Byte)
<1> QED BY ONLY s \in Seq(Byte), t \in Seq(Byte), u \in Seq(Byte), ConcatAssociative

\* A part of a sequence and what follows it.
LEMMA PartAndRest ==
  ASSUME NEW S, NEW s \in Seq(S), NEW a \in Nat, NEW n \in Nat, a + n <= Len(s)
  PROVE  SubSeq(s, a + 1, a + n) \o SubSeq(s, a + n + 1, Len(s)) = SubSeq(s, a + 1, Len(s))
<1>1. PICK m, t, u, v, w : /\ m = Len(s) - (a + n) /\ t = SubSeq(s, a + 1, a + n)
                           /\ u = SubSeq(s, a + n + 1, Len(s)) /\ v = SubSeq(s, a + 1, Len(s))
                           /\ w = t \o u
  OBVIOUS
<1>2. m \in Nat /\ (a + n) + m = Len(s) /\ a + (n + m) = Len(s) /\ n + m \in Nat /\ a + n \in Nat
  BY <1>1
<1>3. t \in Seq(S) /\ Len(t) = n /\ \A j \in 1 .. n : t[j] = s[a + j]
  BY <1>1, Stretch
<1>4. u \in Seq(S) /\ Len(u) = m /\ \A j \in 1 .. m : u[j] = s[(a + n) + j]
  <2>1. PICK c : c = a + n
    OBVIOUS
  <2>2. c \in Nat /\ c + m <= Len(s) /\ u = SubSeq(s, c + 1, c + m)
    BY <1>1, <1>2, <2>1
  <2>3. u \in Seq(S) /\ Len(u) = m /\ \A j \in 1 .. m : u[j] = s[c + j]
    BY <1>2, <2>2, Stretch
  <2> QED BY <2>1, <2>3
<1>5. v \in Seq(S) /\ Len(v) = n + m /\ \A j \in 1 .. n + m : v[j] = s[a + j]
  <2>1. PICK c : c = n + m
    OBVIOUS
  <2>2. c \in Nat /\ a + c <= Len(s) /\ v = SubSeq(s, a + 1, a + c)
    BY <1>1, <1>2, <2>1
  <2>3. v \in Seq(S) /\ Len(v) = c /\ \A j \in 1 .. c : v[j] = s[a + j]
    <3>1. a \in Nat /\ c \in Nat /\ a + c <= Len(s) /\ v = SubSeq(s, a + 1, a + c)
      BY <2>2
    <3> QED BY <3>1, Stretch
  <2> QED BY <2>1, <2>3
<1>6. /\ w \in Seq(S) /\ Len(w) = n + m
      /\ \A j \in 1 .. n : w[j] = t[j]
      /\ \A j \in n + 1 .. n + m : w[j] = u[j - n]
  <2>1. t \in Seq(S) /\ u \in Seq(S) /\ Len(t) = n /\ Len(u) = m /\ w = t \o u
    BY <1>1, <1>3, <1>4
  <2>2. /\ w \in Seq(S) /\ Len(w) = Len(t) + Len(u)
        /\ \A j \in 1 .. Len(t) + Len(u) : w[j] = IF j <= Len(t) THEN t[j] ELSE u[j - Len(t)]
    BY <2>1, ConcatProperties
  <2>3. \A j \in 1 .. n + m : w[j] = IF j <= n THEN t[j] ELSE u[j - n]
    BY <2>1, <2>2
  <2> QED BY <1>2, <2>1, <2>2, <2>3
<1>7. ASSUME NEW j \in 1 .. n + m PROVE w[j] = v[j]
  <2>1. CASE j <= n
    BY <1>3, <1>5, <1>6, <2>1
  <2>2. CASE ~(j <= n)
    <3>1. j \in n + 1 .. n + m /\ j - n \in 1 .. m /\ (a + n) + (j - n) = a + j
      BY <1>2, <2>2
    <3> QED BY <1>4, <1>5, <1>6, <3>1
  <2> QED BY <2>1, <2>2
<1>8. w = v
  BY <1>5, <1>6, <1>7, SeqEqual
<1> QED BY <1>1, <1>8
-----------------------------------------------------------------------------
(* Writing at the end of a buffer *)

\* A prefix grows by the element behind it.
LEMMA PrefixGrows ==
  ASSUME NEW S, NEW s \in Seq(S), NEW i \in 0 .. Len(s) - 1
  PROVE  /\ SubSeq(s, 1, i) \in Seq(S) /\ Len(SubSeq(s, 1, i)) = i
         /\ Append(SubSeq(s, 1, i), s[i + 1]) = SubSeq(s, 1, i + 1)
OBVIOUS

\* A byte put at the end is appended.
LEMMA PutAtEnd ==
  ASSUME NEW S, NEW s \in Seq(S), NEW x \in S
  PROVE  Append(SubSeq(s, 1, Len(s)), x) \o SubSeq(s, Len(s) + 2, Len(s)) = Append(s, x)
<1> DEFINE n == Len(s)
<1>1. n \in Nat
  OBVIOUS
<1>2. SubSeq(s, 1, n) = s
  OBVIOUS
<1>3. SubSeq(s, n + 2, n) = << >>
  BY <1>1, SubSeqEmpty
<1>4. Append(s, x) \in Seq(S)
  OBVIOUS
<1>5. Append(s, x) \o << >> = Append(s, x)
  BY <1>4, ConcatEmptySeq
<1> QED BY <1>2, <1>3, <1>5

\* What an assignment to a field of a buffer leaves.
LEMMA Assigned ==
  ASSUME NEW d, NEW k, NEW o, NEW e, NEW v,
         NEW b, b = [data |-> d, capacity |-> k, offset |-> o, error |-> e]
  PROVE  [b EXCEPT !.capacity = v] = [data |-> d, capacity |-> v, offset |-> o, error |-> e]
OBVIOUS

\* What raising the error flag leaves.
LEMMA Raised ==
  ASSUME NEW d, NEW k, NEW o, NEW e,
         NEW b, b = [data |-> d, capacity |-> k, offset |-> o, error |-> e]
  PROVE  [b EXCEPT !.error = TRUE] = [data |-> d, capacity |-> k, offset |-> o, error |-> TRUE]
<1>1. PICK v : v = TRUE
  OBVIOUS
<1>2. [b EXCEPT !.error = v] = [data |-> d, capacity |-> k, offset |-> o, error |-> v]
  OBVIOUS
<1> QED BY <1>1, <1>2

\* What two assignments leave.
LEMMA AssignedTwo ==
  ASSUME NEW d, NEW k, NEW o, NEW e, NEW v, NEW w,
         NEW b, b = [data |-> d, capacity |-> k, offset |-> o, error |-> e]
  PROVE  [b EXCEPT !.offset = v, !.data = w]
           = [data |-> w, capacity |-> k, offset |-> v, error |-> e]
<1>1. PICK f : f = [b EXCEPT !.offset = v]
  OBVIOUS
<1>2. f = [data |-> d, capacity |-> k, offset |-> v, error |-> e]
  BY <1>1
<1>3. [b EXCEPT !.offset = v, !.data = w] = [f EXCEPT !.data = w]
  BY <1>1
<1> QED BY <1>2, <1>3

\* write_byte (netbuf.c:68-78) at the end of a buffer without error: the byte
\* is appended, in a buffer that has room for it, or the error is raised, which
\* takes a realloc that fails.
LEMMA WriteAtEnd ==
  ASSUME NEW S, NEW d \in Seq(S), NEW x \in S, NEW cap \in Nat \ {0}, Len(d) <= cap,
         NEW b, b = [data |-> d, capacity |-> cap, offset |-> Len(d), error |-> FALSE],
         NEW mayFail, NEW c \in write_byte(b, x, mayFail)
  PROVE  \/ /\ Len(d) < cap
            /\ c = [data |-> Append(d, x), capacity |-> cap, offset |-> Len(d) + 1, error |-> FALSE]
         \/ /\ Len(d) = cap
            /\ \/ c = [data |-> Append(d, x), capacity |-> 2 * cap, offset |-> Len(d) + 1, error |-> FALSE]
               \/ /\ mayFail
                  /\ c = [data |-> d, capacity |-> cap, offset |-> Len(d), error |-> TRUE]
<1> DEFINE put(a) == [a EXCEPT !.offset = @ + 1,
                               !.data = Append(SubSeq(@, 1, a.offset), x)
                                          \o SubSeq(@, a.offset + 2, Len(@))]
           splice == Append(SubSeq(d, 1, Len(d)), x) \o SubSeq(d, Len(d) + 2, Len(d))
<1>1. PICK twice : twice = [b EXCEPT !.capacity = 2 * @]
  OBVIOUS
<1>2. b.data = d /\ b.offset = Len(d) /\ b.capacity = cap /\ ~b.error
  OBVIOUS
<1>3. splice = Append(d, x) /\ Len(d) \in Nat
  <2>1. Len(d) \in Nat
    OBVIOUS
  <2> QED BY <2>1, PutAtEnd, Zenon
<1>4. IF Len(d) < cap THEN c = put(b)
      ELSE c \in {put(twice)} \cup {y \in {[b EXCEPT !.error = TRUE]} : mayFail}
  BY <1>1, <1>2, Zenon DEF write_byte
<1>5. twice = [data |-> d, capacity |-> 2 * cap, offset |-> Len(d), error |-> FALSE]
  <2>1. twice = [b EXCEPT !.capacity = 2 * cap]
    BY <1>1, <1>2, Zenon
  <2> QED BY <2>1, Assigned, Zenon
<1>6. twice.data = d /\ twice.offset = Len(d)
  BY <1>5
<1>7. /\ put(b) = [b EXCEPT !.offset = Len(d) + 1, !.data = splice]
      /\ put(twice) = [twice EXCEPT !.offset = Len(d) + 1, !.data = splice]
  BY <1>2, <1>6, Zenon
<1> HIDE DEF splice, put
<1>8. put(b) = [data |-> Append(d, x), capacity |-> cap, offset |-> Len(d) + 1, error |-> FALSE]
  BY <1>3, <1>7, AssignedTwo, Zenon
<1>9. put(twice) = [data |-> Append(d, x), capacity |-> 2 * cap, offset |-> Len(d) + 1, error |-> FALSE]
  BY <1>3, <1>5, <1>7, AssignedTwo, Zenon
<1>10. [b EXCEPT !.error = TRUE] = [data |-> d, capacity |-> cap, offset |-> Len(d), error |-> TRUE]
  BY Raised
<1>11. CASE Len(d) < cap
  BY <1>4, <1>8, <1>11, Zenon
<1>12. CASE Len(d) = cap
  <2>1. ~(Len(d) < cap)
    BY <1>3, <1>12
  <2>2. c = put(twice) \/ (mayFail /\ c = [b EXCEPT !.error = TRUE])
    BY <1>4, <2>1
  <2> QED BY <2>2, <1>9, <1>10, <1>12, Zenon
<1> QED BY <1>3, <1>11, <1>12

-----------------------------------------------------------------------------
(* Induction over an interval, and powers of two *)

\* A set of numbers that holds 0, and n + 1 with n up to N, holds 0 .. N.
LEMMA Induction ==
  ASSUME NEW N \in Nat, NEW T \in SUBSET Nat, 0 \in T,
         \A n \in 0 .. N - 1 : n \in T => n + 1 \in T
  PROVE  0 .. N \subseteq T
<1> SUFFICES ASSUME 0 .. N \ T # {} PROVE FALSE
  OBVIOUS
<1> DEFINE S == 0 .. N \ T
           m == Min(S)
<1>1. S \in SUBSET Nat
  OBVIOUS
<1>2. m \in S /\ \A y \in S : m <= y
  BY <1>1, MinNat, Zenon
<1> HIDE DEF m
<1>3. m - 1 \in 0 .. N - 1 /\ (m - 1) + 1 = m /\ ~(m <= m - 1)
  BY <1>1, <1>2
<1>4. m - 1 \in T
  BY <1>2, <1>3
<1> QED BY <1>2, <1>3, <1>4

\* The number of groups the codec may ever handle, and the exponents they need.
GROUPS    == VARINT_BYTES + VARLONG_BYTES
EXPONENTS == 0 .. GROUP * GROUPS

\* The exponents of the widths are among those PowerAssumption speaks of.
LEMMA Exponents ==
  /\ GROUP \in Nat \ {0} /\ GROUPS \in Nat /\ GROUP * GROUPS \in Nat
  /\ VARINT_BYTES \in 1 .. GROUPS /\ VARLONG_BYTES \in 1 .. GROUPS
  /\ \A k \in 0 .. GROUPS : GROUP * k \in EXPONENTS
  /\ GROUP \in EXPONENTS
<1>1. /\ GROUP \in Nat /\ GROUP > 0 /\ VARINT_BYTES \in Nat /\ VARINT_BYTES > 0
      /\ VARLONG_BYTES \in Nat /\ VARLONG_BYTES > 0
  BY WidthAssumption
<1>2. GROUPS \in Nat /\ VARINT_BYTES \in 1 .. GROUPS /\ VARLONG_BYTES \in 1 .. GROUPS
      /\ 1 \in 0 .. GROUPS
  BY <1>1 DEF GROUPS
<1>3. \A x, y, g \in Nat : g * x \in Nat /\ (x <= y => g * x <= g * y)
  OBVIOUS
<1>4. ASSUME NEW k \in 0 .. GROUPS PROVE GROUP * k \in EXPONENTS
  BY <1>1, <1>2, <1>3 DEF EXPONENTS
<1>5. GROUP * 1 = GROUP
  BY <1>1
<1> QED BY <1>1, <1>2, <1>3, <1>4, <1>5

\* The powers of two are positive.
LEMMA PowerPositive == \A n \in EXPONENTS : 2^n \in Nat \ {0}
<1> DEFINE N == GROUP * GROUPS
           T == {n \in 0 .. N : 2^n \in Nat \ {0}}
<1>1. N \in Nat
  BY Exponents
<1>2. T \in SUBSET Nat /\ 0 \in T
  <2>1. 2^0 = 1
    OBVIOUS
  <2> QED BY <1>1, <2>1
<1>3. ASSUME NEW n \in 0 .. N - 1, n \in T PROVE n + 1 \in T
  <2>1. 2^(n + 1) = 2 * 2^n
    <3>1. n \in 0 .. N
      BY <1>1
    <3> QED BY <3>1, PowerAssumption DEF GROUPS
  <2> QED BY <1>1, <1>3, <2>1
<1> HIDE DEF T, N
<1>4. 0 .. N \subseteq T
  BY <1>1, <1>2, <1>3, Induction
<1> QED BY <1>4 DEF T, N, EXPONENTS

\* Powers multiply when their exponents are added.
LEMMA PowerSum ==
  ASSUME NEW m \in Nat, NEW n \in Nat, m + n \in EXPONENTS
  PROVE  2^(m + n) = 2^m * 2^n
<1> DEFINE T == {k \in Nat : m + k \in EXPONENTS => 2^(m + k) = 2^m * 2^k}
<1>0. GROUP * GROUPS \in Nat
  BY Exponents
<1>1. T \in SUBSET Nat /\ 0 \in T
  <2>1. 2^0 = 1 /\ m + 0 = m
    OBVIOUS
  <2>2. m \in EXPONENTS
    BY <1>0 DEF EXPONENTS
  <2>3. 2^m * 1 = 2^m
    BY <2>2, PowerPositive
  <2> QED BY <2>1, <2>3
<1>2. ASSUME NEW k \in 0 .. n - 1, k \in T PROVE k + 1 \in T
  <2> SUFFICES ASSUME m + (k + 1) \in EXPONENTS PROVE 2^(m + (k + 1)) = 2^m * 2^(k + 1)
    OBVIOUS
  <2>1. m + k \in EXPONENTS /\ k \in EXPONENTS /\ m \in EXPONENTS /\ m + (k + 1) = (m + k) + 1
    BY <1>0 DEF EXPONENTS
  <2>2. 2^((m + k) + 1) = 2 * 2^(m + k) /\ 2^(k + 1) = 2 * 2^k
    BY <2>1, PowerAssumption DEF EXPONENTS, GROUPS
  <2>3. 2^(m + k) = 2^m * 2^k
    BY <1>2, <2>1
  <2>4. \A x, y \in Nat : 2 * (x * y) = x * (2 * y)
    OBVIOUS
  <2>5. 2^m \in Nat /\ 2^k \in Nat
    BY <2>1, PowerPositive
  <2> QED BY <2>1, <2>2, <2>3, <2>4, <2>5
<1> HIDE DEF T
<1>3. n \in 0 .. n /\ 0 .. n \subseteq T
  BY <1>1, <1>2, Induction
<1> QED BY <1>3 DEF T

\* A larger exponent gives no smaller power.
LEMMA PowerMonotone ==
  ASSUME NEW m \in Nat, NEW n \in EXPONENTS, m <= n
  PROVE  2^m <= 2^n /\ m \in EXPONENTS
<1>1. n \in Nat /\ n - m \in Nat /\ m + (n - m) = n /\ n - m \in EXPONENTS /\ m \in EXPONENTS
  BY Exponents DEF EXPONENTS
<1>2. 2^n = 2^m * 2^(n - m)
  BY <1>1, PowerSum
<1>3. 2^m \in Nat /\ 2^(n - m) \in Nat \ {0}
  BY <1>1, PowerPositive
<1>4. \A x \in Nat, y \in Nat \ {0} : x <= x * y
  OBVIOUS
<1> QED BY <1>1, <1>2, <1>3, <1>4

\* More, the continuation bit, is a positive number; so bytes are numbers.
LEMMA MorePositive == More \in Nat \ {0}
BY PowerPositive, Exponents DEF More

LEMMA BytesAreNumbers == Byte \subseteq Nat
BY MorePositive DEF Byte

\* The weight of a group: 1 for the first, More times as much for the next.
LEMMA GroupWeights ==
  /\ 2^(GROUP * 0) = 1
  /\ \A k \in 0 .. GROUPS : 2^(GROUP * k) \in Nat \ {0}
  /\ \A k \in 0 .. GROUPS - 1 : 2^(GROUP * (k + 1)) = 2^(GROUP * k) * More
<1>1. 2^(GROUP * 0) = 1
  <2>1. GROUP * 0 = 0 /\ 2^0 = 1
    BY Exponents
  <2> QED BY <2>1
<1>2. ASSUME NEW k \in 0 .. GROUPS PROVE 2^(GROUP * k) \in Nat \ {0}
  BY Exponents, PowerPositive
<1>3. ASSUME NEW k \in 0 .. GROUPS - 1 PROVE 2^(GROUP * (k + 1)) = 2^(GROUP * k) * More
  <2>1. k \in 0 .. GROUPS /\ k + 1 \in 0 .. GROUPS /\ k \in Nat /\ GROUP \in Nat
    BY Exponents
  <2>2. GROUP * (k + 1) = GROUP * k + GROUP
    BY <2>1
  <2>3. GROUP * k \in Nat /\ GROUP * k + GROUP \in EXPONENTS
    BY <2>1, <2>2, Exponents DEF EXPONENTS
  <2> QED BY <2>1, <2>2, <2>3, PowerSum DEF More
<1> QED BY <1>1, <1>2, <1>3

-----------------------------------------------------------------------------
(* What a varint decodes to *)

\* The running sum of the groups of `bytes`, as Decode defines it.
SumIs(f, bytes, N) ==
  f = [i \in 0 .. N |->
         IF i = 0 THEN 0 ELSE f[i - 1] + (bytes[i] % More) * 2^(GROUP * (i - 1))]

\* A running sum exists.
LEMMA RunningSum ==
  ASSUME NEW t, NEW N \in Nat
  PROVE  \E f : f = [i \in 0 .. N |-> IF i = 0 THEN 0 ELSE f[i - 1] + t[i]]
<1> DEFINE T == {n \in Nat : \E f : f = [i \in 0 .. n |-> IF i = 0 THEN 0 ELSE f[i - 1] + t[i]]}
<1>1. T \in SUBSET Nat /\ 0 \in T
  <2> DEFINE f == [i \in 0 .. 0 |-> 0]
  <2>1. f = [i \in 0 .. 0 |-> IF i = 0 THEN 0 ELSE f[i - 1] + t[i]]
    OBVIOUS
  <2> QED BY <2>1
<1>2. ASSUME NEW n \in 0 .. N - 1, n \in T PROVE n + 1 \in T
  <2>1. PICK f : f = [i \in 0 .. n |-> IF i = 0 THEN 0 ELSE f[i - 1] + t[i]]
    BY <1>2
  <2> DEFINE g == [i \in 0 .. n + 1 |-> IF i <= n THEN f[i] ELSE f[n] + t[n + 1]]
  <2>2. ASSUME NEW i \in 0 .. n + 1
        PROVE  g[i] = IF i = 0 THEN 0 ELSE g[i - 1] + t[i]
    <3>1. CASE i = n + 1
      <4>1. i # 0 /\ i - 1 = n /\ n \in 0 .. n + 1 /\ ~(i <= n) /\ n <= n
        BY <3>1
      <4>2. g[i] = f[n] + t[n + 1] /\ g[i - 1] = f[n]
        BY <4>1
      <4> QED BY <3>1, <4>1, <4>2
    <3>2. CASE i <= n
      <4>1. i \in 0 .. n /\ (i # 0 => i - 1 \in 0 .. n + 1 /\ i - 1 <= n)
        BY <3>2
      <4>2. g[i] = f[i] /\ (i # 0 => g[i - 1] = f[i - 1])
        BY <3>2, <4>1
      <4>3. f[i] = IF i = 0 THEN 0 ELSE f[i - 1] + t[i]
        BY <2>1, <4>1, Zenon
      <4> QED BY <4>2, <4>3
    <3> QED BY <3>1, <3>2
  <2>3. g = [i \in 0 .. n + 1 |-> IF i = 0 THEN 0 ELSE g[i - 1] + t[i]]
    BY <2>2
  <2> HIDE DEF g
  <2> QED BY <2>3
<1> HIDE DEF T
<1>3. N \in 0 .. N /\ 0 .. N \subseteq T
  BY <1>1, <1>2, Induction
<1> QED BY <1>3 DEF T

\* The running sum of the groups exists.
LEMMA SumExists ==
  ASSUME NEW bytes, NEW N \in Nat
  PROVE  \E f : SumIs(f, bytes, N)
<1>1. PICK t : t = [i \in 0 .. N |-> (bytes[i] % More) * 2^(GROUP * (i - 1))]
  OBVIOUS
<1>2. PICK f : f = [i \in 0 .. N |-> IF i = 0 THEN 0 ELSE f[i - 1] + t[i]]
  BY RunningSum
<1>3. \A i \in 0 .. N : t[i] = (bytes[i] % More) * 2^(GROUP * (i - 1))
  BY <1>1
<1> QED BY <1>2, <1>3 DEF SumIs

\* Decode returns the running sum at the last byte.
LEMMA DecodeIs ==
  ASSUME NEW bytes, Len(bytes) \in Nat, NEW bits
  PROVE  \E f : /\ SumIs(f, bytes, Len(bytes))
                /\ Decode(bytes, bits) = Signed(f[Len(bytes)] % 2^bits, bits)
<1> DEFINE upTo == CHOOSE f : f = [i \in 0 .. Len(bytes) |->
                     IF i = 0 THEN 0 ELSE f[i - 1] + (bytes[i] % More) * 2^(GROUP * (i - 1))]
<1>1. Decode(bytes, bits) = Signed(upTo[Len(bytes)] % 2^bits, bits)
  BY DEF Decode
<1>2. \E f : f = [i \in 0 .. Len(bytes) |->
                    IF i = 0 THEN 0 ELSE f[i - 1] + (bytes[i] % More) * 2^(GROUP * (i - 1))]
  BY SumExists DEF SumIs
<1>3. SumIs(upTo, bytes, Len(bytes))
  BY <1>2 DEF SumIs
<1> HIDE DEF upTo
<1> QED BY <1>1, <1>3

\* The equations of a running sum.
LEMMA SumSteps ==
  ASSUME NEW bytes, NEW N \in Nat, NEW f, SumIs(f, bytes, N)
  PROVE  /\ f[0] = 0
         /\ \A i \in 0 .. N - 1 : f[i + 1] = f[i] + (bytes[i + 1] % More) * 2^(GROUP * i)
<1>1. f[0] = 0
  BY DEF SumIs
<1>2. ASSUME NEW i \in 0 .. N - 1
      PROVE  f[i + 1] = f[i] + (bytes[i + 1] % More) * 2^(GROUP * i)
  <2>1. PICK j : j = i + 1
    OBVIOUS
  <2>2. j \in 0 .. N /\ j # 0 /\ j - 1 = i
    BY <2>1
  <2>3. f[j] = f[j - 1] + (bytes[j] % More) * 2^(GROUP * (j - 1))
    BY <2>2 DEF SumIs
  <2> QED BY <2>1, <2>2, <2>3
<1> QED BY <1>1, <1>2

\* The sum of k groups is a number of k groups.
LEMMA SumBounded ==
  ASSUME NEW bytes, NEW N \in 0 .. GROUPS, \A i \in 1 .. N : bytes[i] \in Int,
         NEW f, SumIs(f, bytes, N)
  PROVE  \A k \in 0 .. N : f[k] \in 0 .. 2^(GROUP * k) - 1
<1> DEFINE T == {k \in 0 .. N : f[k] \in 0 .. 2^(GROUP * k) - 1}
<1>0. GROUPS \in Nat /\ More \in Nat \ {0} /\ N \in Nat
  BY Exponents, MorePositive
<1>1. T \in SUBSET Nat /\ 0 \in T
  <2>1. f[0] = 0 /\ 2^(GROUP * 0) = 1 /\ 0 \in 0 .. N
    BY <1>0, SumSteps, GroupWeights
  <2> QED BY <1>0, <2>1
<1>2. ASSUME NEW k \in 0 .. N - 1, k \in T PROVE k + 1 \in T
  <2>1. k \in 0 .. GROUPS - 1 /\ k \in 0 .. GROUPS /\ k + 1 \in 0 .. N /\ k + 1 \in 1 .. N
    BY <1>0
  <2>2. PICK p : p = 2^(GROUP * k)
    OBVIOUS
  <2>3. p \in Nat /\ p > 0 /\ 2^(GROUP * (k + 1)) = p * More
    BY <2>1, <2>2, GroupWeights
  <2>4. PICK d : d = bytes[k + 1] % More
    OBVIOUS
  <2>5. d \in 0 .. More - 1
    BY <1>0, <2>1, <2>4
  <2>6. f[k + 1] = f[k] + d * p
    BY <1>0, <2>2, <2>4, SumSteps
  <2>7. f[k] \in 0 .. p - 1
    BY <1>2, <2>2
  <2>8. \A m \in Nat, e, q \in Nat : e <= m - 1 => e * q <= m * q - q /\ e * q \in Nat
    OBVIOUS
  <2>9. d * p <= More * p - p /\ d * p \in Nat /\ More * p = p * More /\ p * More \in Nat
    BY <1>0, <2>3, <2>5, <2>8
  <2>10. f[k] + d * p \in 0 .. p * More - 1
    BY <2>3, <2>7, <2>9
  <2> QED BY <2>1, <2>3, <2>6, <2>10
<1> HIDE DEF T
<1>3. 0 .. N \subseteq T
  BY <1>0, <1>1, <1>2, Induction
<1> QED BY <1>3 DEF T

\* The remainder by a product: what is left by the first factor, and the
\* digit above it.
LEMMA Digits ==
  ASSUME NEW u \in Nat, NEW p \in Nat \ {0}, NEW m \in Nat \ {0}
  PROVE  u % (p * m) = (u % p) + ((u \div p) % m) * p
<1>1. PICK q, r, e, d : q = u \div p /\ r = u % p /\ e = q \div m /\ d = q % m
  OBVIOUS
<1>2. q \in Nat /\ r \in 0 .. p - 1 /\ u = p * q + r
  BY <1>1
<1>3. e \in Nat /\ d \in 0 .. m - 1 /\ q = m * e + d
  <2>1. \A x \in Nat, y \in Nat \ {0} :
          x \div y \in Nat /\ x % y \in 0 .. y - 1 /\ x = y * (x \div y) + (x % y)
    OBVIOUS
  <2> QED BY <1>1, <1>2, <2>1
<1>4. u = (p * m) * e + (r + d * p)
  <2>1. \A x, y, z, w \in Int : x * (y * z + w) = (x * y) * z + w * x
    OBVIOUS
  <2>2. p * (m * e + d) = (p * m) * e + d * p
    BY <1>2, <1>3, <2>1
  <2>3. p * q = (p * m) * e + d * p
    BY <1>3, <2>2
  <2>4. (p * m) * e \in Nat /\ d * p \in Nat
    <3>1. \A x, y \in Nat : x * y \in Nat
      OBVIOUS
    <3>2. p * m \in Nat /\ d \in Nat
      BY <1>3, <3>1
    <3> QED BY <1>3, <3>1, <3>2
  <2> QED BY <1>2, <2>3, <2>4
<1>5. p * m \in Nat /\ p * m > 0 /\ r + d * p \in 0 .. p * m - 1
  <2>1. \A x \in Nat, y, z \in Nat : y <= x - 1 => y * z <= z * x - z /\ y * z \in Nat
    OBVIOUS
  <2>2. d * p <= p * m - p /\ d * p \in Nat
    BY <1>3, <2>1
  <2>3. p * m \in Nat
    OBVIOUS
  <2> QED BY <1>2, <2>2, <2>3
<1>6. \A a, b, c, x \in Nat : b > 0 /\ x \in 0 .. b - 1 /\ a = b * c + x => a % b = x
  OBVIOUS
<1>7. u % (p * m) = r + d * p
  <2>1. PICK b, x : b = p * m /\ x = r + d * p
    OBVIOUS
  <2>2. b \in Nat /\ b > 0 /\ x \in 0 .. b - 1 /\ x \in Nat /\ u = b * e + x
    BY <1>4, <1>5, <2>1
  <2>3. u % b = x
    BY <1>3, <1>6, <2>2
  <2> QED BY <2>1, <2>3
<1> QED BY <1>1, <1>7

\* The groups of u add up to its last k groups.
LEMMA SumOfGroups ==
  ASSUME NEW bytes, NEW N \in 0 .. GROUPS, NEW u \in Nat,
         \A i \in 1 .. N : bytes[i] % More = (u \div 2^(GROUP * (i - 1))) % More,
         NEW f, SumIs(f, bytes, N)
  PROVE  \A k \in 0 .. N : f[k] = u % 2^(GROUP * k)
<1> DEFINE T == {k \in 0 .. N : f[k] = u % 2^(GROUP * k)}
<1>0. GROUPS \in Nat /\ More \in Nat \ {0} /\ N \in Nat
  BY Exponents, MorePositive
<1>1. T \in SUBSET Nat /\ 0 \in T
  <2>1. f[0] = 0 /\ 2^(GROUP * 0) = 1 /\ 0 \in 0 .. N /\ u % 1 = 0
    BY <1>0, SumSteps, GroupWeights
  <2> QED BY <1>0, <2>1
<1>2. ASSUME NEW k \in 0 .. N - 1, k \in T PROVE k + 1 \in T
  <2>1. k \in 0 .. GROUPS - 1 /\ k \in 0 .. GROUPS /\ k + 1 \in 0 .. N /\ k + 1 \in 1 .. N
        /\ (k + 1) - 1 = k
    BY <1>0
  <2>2. PICK p : p = 2^(GROUP * k)
    OBVIOUS
  <2>3. p \in Nat \ {0} /\ 2^(GROUP * (k + 1)) = p * More
    BY <2>1, <2>2, GroupWeights
  <2>4. f[k + 1] = f[k] + (bytes[k + 1] % More) * p
    BY <1>0, <2>2, SumSteps
  <2>5. bytes[k + 1] % More = (u \div p) % More
    BY <2>1, <2>2
  <2>6. f[k] = u % p
    BY <1>2, <2>2
  <2>7. u % (p * More) = (u % p) + ((u \div p) % More) * p
    BY <1>0, <2>3, Digits
  <2> QED BY <2>1, <2>3, <2>4, <2>5, <2>6, <2>7
<1> HIDE DEF T
<1>3. 0 .. N \subseteq T
  BY <1>0, <1>1, <1>2, Induction
<1> QED BY <1>3 DEF T

-----------------------------------------------------------------------------
(* What a value is encoded to *)

\* A width of `bits` that `limit` groups hold.
Width(limit, bits) == limit \in 1 .. GROUPS /\ bits \in EXPONENTS /\ bits <= GROUP * limit

\* The two widths of the code.
LEMMA Widths == Width(VARINT_BYTES, VARINT_BITS) /\ Width(VARLONG_BYTES, VARLONG_BITS)
<1>1. /\ VARINT_BITS \in Nat /\ VARINT_BITS <= GROUP * VARINT_BYTES
      /\ VARLONG_BITS \in Nat /\ VARLONG_BITS <= GROUP * VARLONG_BYTES
  BY WidthAssumption
<1>2. GROUP * VARINT_BYTES \in EXPONENTS /\ GROUP * VARLONG_BYTES \in EXPONENTS
  BY Exponents
<1>3. VARINT_BITS \in EXPONENTS /\ VARLONG_BITS \in EXPONENTS
  BY <1>1, <1>2, Exponents DEF EXPONENTS
<1> QED BY <1>1, <1>3, Exponents DEF Width

\* Quotient and remainder of natural numbers.
LEMMA DivMod ==
  \A x \in Int, y \in Nat \ {0} :
    /\ x % y \in 0 .. y - 1 /\ x \div y \in Int /\ x = y * (x \div y) + (x % y)
    /\ x \in Nat => x \div y \in Nat
OBVIOUS

\* The bytes of a value: its groups, the continuation bit on all but the last,
\* and no more of them than hold it.
LEMMA EncodeIs ==
  ASSUME NEW value \in Int, NEW limit, NEW bits, Width(limit, bits),
         NEW u, u = value % 2^bits, NEW w, w = Encode(value, limit, bits)
  PROVE  /\ u \in 0 .. 2^bits - 1 /\ 2^bits \in Nat \ {0}
         /\ w \in Seq(Byte) /\ Len(w) \in 1 .. limit
         /\ \A i \in 1 .. Len(w) : /\ w[i] % More = (u \div 2^(GROUP * (i - 1))) % More
                                   /\ w[i] < More <=> i = Len(w)
         /\ u < 2^(GROUP * Len(w))
         /\ \A k \in 1 .. limit : u < 2^(GROUP * k) => Len(w) <= k
<1> DEFINE K == {k \in 1 .. limit : k = limit \/ u < 2^(GROUP * k)}
           n == Min(K)
           d(i) == (u \div 2^(GROUP * (i - 1))) % More
           f == [i \in 1 .. n |-> d(i) + (IF i < n THEN More ELSE 0)]
<1>1. /\ limit \in 1 .. GROUPS /\ limit \in Nat /\ bits \in EXPONENTS /\ bits \in Nat
      /\ bits <= GROUP * limit /\ More \in Nat \ {0} /\ GROUPS \in Nat
  BY Exponents, MorePositive DEF Width, EXPONENTS
<1>2. 2^bits \in Nat \ {0}
  BY <1>1, PowerPositive
<1>3. u \in 0 .. 2^bits - 1 /\ u \in Nat
  <2>1. PICK m : m = 2^bits
    OBVIOUS
  <2>2. u \in 0 .. m - 1 /\ m \in Nat
    BY <1>2, <2>1, DivMod
  <2>3. u \in Nat
    BY <2>2
  <2> QED BY <2>1, <2>2, <2>3
<1>4. n \in K /\ \A k \in K : n <= k
  <2>1. K \in SUBSET Nat /\ limit \in K
    BY <1>1
  <2> QED BY <2>1, MinNat, Zenon
<1>5. w = f
  BY DEF Encode
<1> HIDE DEF n
<1>6. n \in 1 .. limit /\ n \in Nat /\ (n = limit \/ u < 2^(GROUP * n))
  BY <1>1, <1>4
<1>7. u < 2^(GROUP * n)
  <2>1. CASE n = limit
    <3>1. limit \in 0 .. GROUPS
      BY <1>1
    <3>2. 2^bits <= 2^(GROUP * limit) /\ 2^(GROUP * limit) \in Nat
      BY <1>1, <3>1, PowerMonotone, PowerPositive, Exponents
    <3> QED BY <1>2, <1>3, <2>1, <3>2
  <2> QED BY <1>6, <2>1
<1>8. ASSUME NEW i \in 1 .. n
      PROVE  /\ d(i) \in 0 .. More - 1
             /\ f[i] \in Byte /\ f[i] % More = d(i) /\ (f[i] < More <=> i = n)
  <2>1. i - 1 \in 0 .. GROUPS
    BY <1>1, <1>6
  <2>2. 2^(GROUP * (i - 1)) \in Nat \ {0}
    BY <2>1, GroupWeights
  <2>3. d(i) \in 0 .. More - 1
    <3>1. PICK p : p = 2^(GROUP * (i - 1))
      OBVIOUS
    <3>2. p \in Nat \ {0} /\ u \in Int
      BY <1>3, <2>2, <3>1
    <3>3. u \div p \in Int
      BY <3>2, DivMod
    <3>4. (u \div p) % More \in 0 .. More - 1
      BY <1>1, <3>3, DivMod
    <3> QED BY <3>1, <3>4
  <2>4. f[i] = d(i) + (IF i < n THEN More ELSE 0)
    OBVIOUS
  <2> HIDE DEF d, f
  <2>5. \A m \in Nat, x \in Nat : x <= m - 1 => x % m = x /\ (x + m) % m = x
    OBVIOUS
  <2>6. PICK x, e, m : x = f[i] /\ e = d(i) /\ m = More
    OBVIOUS
  <2>7. /\ m \in Nat \ {0} /\ e \in Nat /\ e <= m - 1
        /\ (i < n => x = e + m) /\ (~(i < n) => x = e) /\ (~(i < n) <=> i = n)
    BY <1>1, <1>6, <2>3, <2>4, <2>6
  <2>8. x % m = e /\ x \in 0 .. 2 * m - 1 /\ (x < m <=> i = n)
    BY <2>5, <2>7
  <2> QED BY <2>3, <2>6, <2>8 DEF Byte
<1>9. f \in Seq(Byte) /\ Len(f) = n
  <2>1. f \in [1 .. n -> Byte]
    <3>1. \A i \in 1 .. n : f[i] \in Byte
      BY <1>8
    <3>2. DOMAIN f = 1 .. n /\ f = [i \in 1 .. n |-> f[i]]
      OBVIOUS
    <3> HIDE DEF f
    <3> QED BY <3>1, <3>2
  <2> HIDE DEF f
  <2> QED BY <1>6, <2>1
<1>10. ASSUME NEW k \in 1 .. limit, u < 2^(GROUP * k) PROVE n <= k
  BY <1>4, <1>10
<1> HIDE DEF f, K
<1> QED BY <1>2, <1>3, <1>5, <1>6, <1>7, <1>8, <1>9, <1>10

\* A value cut to its width is what its bytes decode to.
LEMMA DecodeOfEncode ==
  ASSUME NEW value \in Int, NEW limit, NEW bits, Width(limit, bits)
  PROVE  Decode(Encode(value, limit, bits), bits) = Signed(value % 2^bits, bits)
<1>1. PICK u, w : u = value % 2^bits /\ w = Encode(value, limit, bits)
  OBVIOUS
<1>2. /\ u \in 0 .. 2^bits - 1 /\ 2^bits \in Nat \ {0}
      /\ w \in Seq(Byte) /\ Len(w) \in 1 .. limit
      /\ \A i \in 1 .. Len(w) : w[i] % More = (u \div 2^(GROUP * (i - 1))) % More
      /\ u < 2^(GROUP * Len(w))
  BY <1>1, EncodeIs
<1>3. Len(w) \in 0 .. GROUPS /\ u \in Nat /\ Len(w) \in Nat /\ Len(w) \in 0 .. Len(w)
  BY <1>2, Exponents DEF Width
<1>4. PICK f : SumIs(f, w, Len(w)) /\ Decode(w, bits) = Signed(f[Len(w)] % 2^bits, bits)
  BY <1>3, DecodeIs
<1>5. f[Len(w)] = u % 2^(GROUP * Len(w))
  BY <1>2, <1>3, <1>4, SumOfGroups
<1>6. u % 2^(GROUP * Len(w)) = u /\ u % 2^bits = u
  <2>1. \A x, y \in Nat : x < y => x % y = x
    OBVIOUS
  <2>2. 2^(GROUP * Len(w)) \in Nat
    BY <1>3, GroupWeights
  <2> QED BY <1>2, <1>3, <2>1, <2>2
<1> QED BY <1>1, <1>4, <1>5, <1>6

\* A value of the width is itself when it is cut to the width.
LEMMA SignedOfCut ==
  ASSUME NEW bits, 2^bits \in Nat \ {0}, NEW u \in 0 .. 2^bits - 1
  PROVE  Signed(u, bits) \in Int /\ Signed(u, bits) % 2^bits = u
<1>1. PICK m : m = 2^bits
  OBVIOUS
<1>2. Signed(u, bits) = u \/ Signed(u, bits) = u - m
  BY <1>1 DEF Signed
<1>3. \A b \in Nat, x \in Nat : x <= b - 1 => x % b = x /\ (x - b) % b = x
  OBVIOUS
<1> QED BY <1>1, <1>2, <1>3

\* What has been decoded is a number of its width, and needs no more bytes
\* than it was decoded from.
LEMMA DecodedValue ==
  ASSUME NEW bytes \in Seq(Byte), NEW bits \in EXPONENTS, Len(bytes) \in 0 .. GROUPS
  PROVE  \E u \in 0 .. 2^bits - 1 :
           Decode(bytes, bits) = Signed(u, bits) /\ u < 2^(GROUP * Len(bytes))
<1> DEFINE n == Len(bytes)
<1>1. PICK f : SumIs(f, bytes, n) /\ Decode(bytes, bits) = Signed(f[n] % 2^bits, bits)
  BY DecodeIs, Exponents
<1>2. \A i \in 1 .. n : bytes[i] \in Int
  <2>1. \A i \in 1 .. n : bytes[i] \in Byte
    BY ElementOfSeq
  <2>2. \A x \in Byte : x \in Int
    BY BytesAreNumbers
  <2> HIDE DEF n
  <2> QED BY <2>1, <2>2
<1>3. f[n] \in 0 .. 2^(GROUP * n) - 1
  BY <1>1, <1>2, SumBounded, Exponents
<1>4. 2^bits \in Nat \ {0} /\ 2^(GROUP * n) \in Nat \ {0}
  BY PowerPositive, GroupWeights
<1>5. PICK s, u : s = f[n] /\ u = s % 2^bits
  OBVIOUS
<1>6. \A x \in Nat, y \in Nat \ {0} : x % y <= x /\ x % y \in 0 .. y - 1
  OBVIOUS
<1>7. u \in 0 .. 2^bits - 1 /\ u < 2^(GROUP * n)
  <2>1. PICK p, q : p = 2^bits /\ q = 2^(GROUP * n)
    OBVIOUS
  <2>2. u = s % p /\ s \in 0 .. q - 1 /\ p \in Nat \ {0} /\ q \in Nat
    BY <1>3, <1>4, <1>5, <2>1
  <2>3. s \in Nat /\ s < q
    BY <2>2
  <2>4. u \in 0 .. p - 1 /\ u <= s
    BY <1>6, <2>2, <2>3
  <2>5. u < q
    BY <2>2, <2>3, <2>4
  <2> QED BY <2>1, <2>4, <2>5
<1> QED BY <1>1, <1>5, <1>7

-----------------------------------------------------------------------------
(* Reading a number *)

\* The fields of a netbuf.
LEMMA NetbufFields ==
  ASSUME NEW b \in Netbufs
  PROVE  /\ Size(b) \in Nat /\ b.offset \in Nat /\ b.capacity \in Nat
         /\ b.data \in Seq(Byte) /\ b.error \in BOOLEAN
BY DEF Size, Netbufs

\* The n bytes a read of b takes: up to the first byte without continuation
\* bit, or one more than it accepts.
Takes(b, limit, n) ==
  /\ n \in 1 .. limit + 1 /\ b.offset + n <= Size(b)
  /\ n = limit + 1 \/ b.data[b.offset + n] < More
  /\ \A m \in 1 .. n - 1 : ~(b.data[b.offset + m] < More)

\* A read that finds an end takes the bytes up to the first.
LEMMA ReadTakes ==
  ASSUME NEW b \in Netbufs, b.offset <= Size(b), NEW limit \in Nat, ReadEnds(b, limit) # {}
  PROVE  \E n : Takes(b, limit, n)
<1> DEFINE ends == ReadEnds(b, limit)
           n == Min(ends)
<1>1. n \in ends /\ \A y \in ends : n <= y
  <2>1. ends \in SUBSET Nat
    BY DEF ReadEnds
  <2> QED BY <2>1, MinNat, Zenon
<1>2. Size(b) \in Nat /\ b.offset \in Nat
  BY NetbufFields
<1> HIDE DEF n
<1>3. /\ n \in 1 .. limit + 1 /\ b.offset + n <= Size(b)
      /\ n = limit + 1 \/ b.data[b.offset + n] < More
  BY <1>1 DEF ReadEnds
<1>4. ASSUME NEW m \in 1 .. n - 1 PROVE ~(b.data[b.offset + m] < More)
  <2>1. ~(n <= m) /\ m \in 1 .. limit + 1 /\ b.offset + m <= Size(b)
    BY <1>2, <1>3
  <2>2. m \notin ends
    BY <1>1, <2>1
  <2> QED BY <2>1, <2>2 DEF ReadEnds
<1>5. Takes(b, limit, n)
  BY <1>3, <1>4 DEF Takes
<1> QED BY <1>5

\* What a read does with the bytes it takes.
LEMMA ReadOutcome ==
  ASSUME NEW b \in Netbufs, ~b.error, NEW limit \in Nat, NEW bits, NEW n, Takes(b, limit, n),
         NEW next, next = [b EXCEPT !.offset = b.offset + n]
  PROVE  /\ next \in Netbufs /\ next.offset = b.offset + n /\ ~next.error
         /\ n > limit => ReadGroups(b, limit, bits) = Fail(next)
         /\ ~(n > limit) =>
              ReadGroups(b, limit, bits)
                = [buf |-> next, val |-> Decode(SubSeq(b.data, b.offset + 1, b.offset + n), bits)]
<1> DEFINE ends == ReadEnds(b, limit)
<1>1. /\ n \in 1 .. limit + 1 /\ b.offset + n <= Size(b) /\ n \in Nat
      /\ Size(b) \in Nat /\ b.offset \in Nat
  BY NetbufFields DEF Takes
<1>2. n \in ends
  BY DEF Takes, ReadEnds
<1>3. ASSUME NEW y \in ends PROVE n <= y
  <2>1. y \in 1 .. limit + 1 /\ (y = limit + 1 \/ b.data[b.offset + y] < More)
    BY DEF ReadEnds
  <2>2. y \notin 1 .. n - 1
    <3> SUFFICES ASSUME y \in 1 .. n - 1 PROVE FALSE
      OBVIOUS
    <3>1. y # limit + 1
      BY <1>1
    <3> QED BY <2>1, <3>1 DEF Takes
  <2> QED BY <1>1, <2>1, <2>2
<1>4. Min(ends) = n
  <2>1. ends \in SUBSET Nat
    BY DEF ReadEnds
  <2>2. Min(ends) \in ends /\ \A y \in ends : Min(ends) <= y
    BY <1>2, <2>1, MinNat, Zenon
  <2>3. Min(ends) <= n /\ n <= Min(ends) /\ Min(ends) \in Nat
    BY <1>2, <1>3, <2>1, <2>2
  <2> QED BY <1>1, <2>3
<1>5. ReadGroups(b, limit, bits)
        = IF n > limit THEN Fail(next)
          ELSE [buf |-> next, val |-> Decode(SubSeq(b.data, b.offset + 1, b.offset + n), bits)]
  BY <1>1, <1>2, <1>4 DEF ReadGroups
<1>6. next \in Netbufs /\ next.offset = b.offset + n /\ ~next.error
  BY <1>1 DEF Netbufs
<1> QED BY <1>5, <1>6

\* A read that finds no end raises the error flag.
LEMMA ReadStarved ==
  ASSUME NEW b \in Netbufs, ~b.error, NEW limit \in Nat, NEW bits, ReadEnds(b, limit) = {}
  PROVE  ReadGroups(b, limit, bits).buf.error
<1> DEFINE c == [b EXCEPT !.offset = Size(b)]
<1>1. c \in Netbufs
  BY NetbufFields DEF Netbufs
<1>2. ReadGroups(b, limit, bits) = Fail(c)
  BY DEF ReadGroups
<1> HIDE DEF c
<1>3. Fail(c).buf = [c EXCEPT !.error = TRUE]
  BY DEF Fail
<1>4. [c EXCEPT !.error = TRUE].error
  BY <1>1 DEF Netbufs
<1> QED BY <1>2, <1>3, <1>4

\* The error flag that a read of too many groups raises, and its result.
LEMMA FailIs ==
  ASSUME NEW c \in Netbufs
  PROVE  Fail(c).buf.error /\ Fail(c).buf.offset = c.offset /\ Fail(c).val = 0
<1>1. Fail(c).buf = [c EXCEPT !.error = TRUE] /\ Fail(c).val = 0
  BY DEF Fail
<1>2. [c EXCEPT !.error = TRUE].error /\ [c EXCEPT !.error = TRUE].offset = c.offset
  BY DEF Netbufs
<1> QED BY <1>1, <1>2

\* A read that raises no error has taken at most `limit` bytes, and returns
\* what they decode to.
LEMMA ReadSucceeds ==
  ASSUME NEW b \in Netbufs, b.offset <= Size(b), ~b.error, NEW limit \in Nat, NEW bits,
         ~ReadGroups(b, limit, bits).buf.error
  PROVE  \E n \in 1 .. limit :
           /\ Takes(b, limit, n)
           /\ ReadGroups(b, limit, bits).buf.offset = b.offset + n
           /\ ReadGroups(b, limit, bits).val
                = Decode(SubSeq(b.data, b.offset + 1, b.offset + n), bits)
<1> DEFINE r == ReadGroups(b, limit, bits)
<1>1. PICK n : Takes(b, limit, n)
  BY ReadStarved, ReadTakes
<1>2. PICK next, val : /\ next = [b EXCEPT !.offset = b.offset + n]
                       /\ val = Decode(SubSeq(b.data, b.offset + 1, b.offset + n), bits)
  OBVIOUS
<1>3. /\ next \in Netbufs /\ next.offset = b.offset + n
      /\ n > limit => r = Fail(next)
      /\ ~(n > limit) => r = [buf |-> next, val |-> val]
  BY <1>1, <1>2, ReadOutcome
<1>4. ~(n > limit)
  <2>1. ~r.buf.error
    OBVIOUS
  <2>2. Fail(next).buf.error
    BY <1>3, FailIs
  <2> QED BY <1>3, <2>1, <2>2
<1>5. n \in 1 .. limit
  BY <1>1, <1>4 DEF Takes
<1>6. r.buf = next /\ r.val = val
  <2>1. r = [buf |-> next, val |-> val]
    BY <1>3, <1>4
  <2> HIDE DEF r
  <2> QED BY <2>1
<1> QED BY <1>1, <1>2, <1>3, <1>5, <1>6 DEF r

\* Whatever the bytes are, what read_varlong returns is a varlong.
LEMMA VarlongValue ==
  ASSUME NEW b \in Netbufs, b.offset <= Size(b)
  PROVE  read_varlong[b].val \in Varlongs
<1>1. PICK bits, limit, h, m :
        /\ bits = VARLONG_BITS /\ limit = VARLONG_BYTES
        /\ h = 2^(bits - 1) /\ m = 2^bits
  OBVIOUS
<1>2. bits \in EXPONENTS /\ bits > 0 /\ limit \in 1 .. GROUPS /\ GROUPS \in Nat
  BY <1>1, Widths, WidthAssumption, Exponents DEF Width
<1>3. bits \in Nat /\ bits - 1 \in Nat /\ bits - 1 \in EXPONENTS
  BY <1>2, Exponents DEF EXPONENTS
<1>4. h \in Nat \ {0} /\ m = 2 * h
  <2>1. bits - 1 \in 0 .. GROUP * (VARINT_BYTES + VARLONG_BYTES)
    BY <1>3 DEF EXPONENTS, GROUPS
  <2>2. 2^((bits - 1) + 1) = 2 * 2^(bits - 1) /\ (bits - 1) + 1 = bits
    BY <1>3, <2>1, PowerAssumption
  <2> QED BY <1>1, <1>3, <2>2, PowerPositive
<1>5. Varlongs = -h .. h - 1 /\ 0 \in Varlongs
  BY <1>1, <1>4 DEF Varlongs
<1>6. PICK r : r = ReadGroups(b, limit, bits) /\ read_varlong[b] = r
  BY <1>1, Zenon DEF read_varlong
<1>7. CASE b.error
  <2>1. r = [buf |-> b, val |-> 0]
    BY <1>6, <1>7, Zenon DEF ReadGroups
  <2> QED BY <1>5, <1>6, <2>1
<1>8. CASE ~b.error /\ ReadEnds(b, limit) = {}
  <2>1. r = Fail([b EXCEPT !.offset = Size(b)])
    BY <1>6, <1>8, Zenon DEF ReadGroups
  <2>2. r.val = 0
    BY <2>1 DEF Fail
  <2> QED BY <1>5, <1>6, <2>2
<1>9. CASE ~b.error /\ ReadEnds(b, limit) # {}
  <2>0. limit \in Nat
    BY <1>2
  <2>1. PICK n : Takes(b, limit, n)
    BY <1>9, <2>0, ReadTakes
  <2>2. PICK next, val : /\ next = [b EXCEPT !.offset = b.offset + n]
                         /\ val = Decode(SubSeq(b.data, b.offset + 1, b.offset + n), bits)
    OBVIOUS
  <2>3. /\ next \in Netbufs
        /\ n > limit => r = Fail(next)
        /\ ~(n > limit) => r = [buf |-> next, val |-> val]
    BY <1>6, <1>9, <2>0, <2>1, <2>2, ReadOutcome
  <2>4. CASE n > limit
    <3>1. r.val = 0
      BY <2>3, <2>4 DEF Fail
    <3> QED BY <1>5, <1>6, <3>1
  <2>5. CASE ~(n > limit)
    <3>1. /\ n \in 1 .. limit /\ b.offset + n <= Size(b) /\ b.offset \in Nat
          /\ b.data \in Seq(Byte) /\ Size(b) = Len(b.data)
      BY <2>0, <2>1, <2>5, NetbufFields DEF Takes, Size
    <3>2. PICK w : w = SubSeq(b.data, b.offset + 1, b.offset + n)
      OBVIOUS
    <3>3. w \in Seq(Byte) /\ Len(w) = n
      <4>1. PICK o, d : o = b.offset /\ d = b.data
        OBVIOUS
      <4>2. o \in Nat /\ n \in Nat /\ d \in Seq(Byte) /\ o + n <= Len(d) /\ w = SubSeq(d, o + 1, o + n)
        BY <2>0, <3>1, <3>2, <4>1
      <4> QED BY <4>2
    <3>4. Len(w) \in 0 .. GROUPS
      BY <1>2, <2>0, <3>1, <3>3
    <3>5. PICK u \in 0 .. 2^bits - 1 : Decode(w, bits) = Signed(u, bits)
      BY <1>2, <3>3, <3>4, DecodedValue
    <3>6. val = IF u >= h THEN u - m ELSE u
      BY <1>1, <2>2, <3>2, <3>5 DEF Signed
    <3>7. u \in 0 .. m - 1
      BY <1>1, <3>5
    <3>8. val \in -h .. h - 1
      BY <1>4, <3>6, <3>7
    <3>9. r.val = val
      BY <2>3, <2>5
    <3> QED BY <1>5, <1>6, <3>8, <3>9
  <2> QED BY <2>4, <2>5
<1> QED BY <1>7, <1>8, <1>9

-----------------------------------------------------------------------------
(* Reading what was written *)

\* The next bytes of b are those of s, and b can be read.
Ahead(b, s) ==
  /\ b \in Netbufs /\ ~b.error /\ s \in Seq(Byte)
  /\ b.offset + Len(s) <= Size(b)
  /\ \A i \in 1 .. Len(s) : b.data[b.offset + i] = s[i]

\* What is left of b behind its next n bytes.
Past(b, n) == [b EXCEPT !.offset = b.offset + n]

\* The fields of a buffer after n bytes have been read.
LEMMA PastIs ==
  ASSUME NEW b \in Netbufs, NEW n \in Nat
  PROVE  /\ Past(b, n) \in Netbufs /\ Past(b, n).offset = b.offset + n
         /\ Past(b, n).data = b.data /\ Past(b, n).error = b.error
         /\ Past(b, n).capacity = b.capacity /\ Size(Past(b, n)) = Size(b)
<1>1. /\ Past(b, n) \in Netbufs /\ Past(b, n).offset = b.offset + n
      /\ Past(b, n).data = b.data /\ Past(b, n).error = b.error
      /\ Past(b, n).capacity = b.capacity
  BY DEF Netbufs, Past
<1> QED BY <1>1 DEF Size

\* The same of a buffer known to be what is left of b.
LEMMA PastFields ==
  ASSUME NEW b \in Netbufs, NEW n \in Nat, NEW c, c = Past(b, n)
  PROVE  /\ c \in Netbufs /\ c.offset = b.offset + n /\ c.data = b.data
         /\ c.error = b.error /\ Size(c) = Size(b)
BY PastIs

\* Two things ahead: the first is next, and the second is behind it.
LEMMA AheadParts ==
  ASSUME NEW b, NEW s \in Seq(Byte), NEW t \in Seq(Byte), Ahead(b, s \o t)
  PROVE  Ahead(b, s) /\ Ahead(Past(b, Len(s)), t)
<1>1. /\ b \in Netbufs /\ ~b.error /\ b.offset + Len(s \o t) <= Size(b)
      /\ \A i \in 1 .. Len(s \o t) : b.data[b.offset + i] = (s \o t)[i]
  BY DEF Ahead
<1>2. b.offset \in Nat /\ Size(b) \in Nat /\ Len(s) \in Nat /\ Len(t) \in Nat
  BY <1>1, NetbufFields, LenProperties
<1>3. /\ Len(s \o t) = Len(s) + Len(t)
      /\ \A i \in 1 .. Len(s) + Len(t) : (s \o t)[i] = IF i <= Len(s) THEN s[i] ELSE t[i - Len(s)]
  BY ConcatProperties
<1>4. ASSUME NEW i \in 1 .. Len(s) PROVE b.data[b.offset + i] = s[i]
  <2>1. i \in 1 .. Len(s) + Len(t) /\ i <= Len(s)
    BY <1>2
  <2> QED BY <1>1, <1>3, <2>1
<1>5. Ahead(b, s)
  <2>1. b.offset + Len(s) <= Size(b)
    BY <1>1, <1>2, <1>3
  <2>2. b \in Netbufs /\ ~b.error
    BY <1>1
  <2> QED BY <1>4, <2>1, <2>2 DEF Ahead
<1>6. PICK n, c : n = Len(s) /\ c = Past(b, n)
  OBVIOUS
<1>7. /\ c \in Netbufs /\ ~c.error /\ c.data = b.data
      /\ c.offset = b.offset + Len(s) /\ Size(c) = Size(b)
  <2>1. b \in Netbufs /\ ~b.error /\ n \in Nat
    BY <1>1, <1>2, <1>6
  <2>2. /\ c \in Netbufs /\ c.offset = b.offset + n /\ c.data = b.data
        /\ c.error = b.error /\ Size(c) = Size(b)
    BY <1>6, <2>1, PastFields
  <2> QED BY <1>6, <2>1, <2>2
<1>8. ASSUME NEW i \in 1 .. Len(t) PROVE c.data[c.offset + i] = t[i]
  <2>1. PICK j : j = Len(s) + i
    OBVIOUS
  <2>2. /\ j \in 1 .. Len(s) + Len(t) /\ ~(j <= Len(s)) /\ j - Len(s) = i
        /\ c.offset + i = b.offset + j
    BY <1>2, <1>7, <2>1
  <2>3. (s \o t)[j] = t[i]
    BY <1>3, <2>2
  <2>4. b.data[b.offset + j] = (s \o t)[j]
    BY <1>1, <1>3, <2>2
  <2> QED BY <1>7, <2>2, <2>3, <2>4
<1>9. Ahead(c, t)
  <2>1. c.offset + Len(t) <= Size(c)
    BY <1>1, <1>2, <1>3, <1>7
  <2> QED BY <1>7, <1>8, <2>1 DEF Ahead
<1> QED BY <1>5, <1>6, <1>9

\* A value that its width can hold is itself when it is cut to the width.
LEMMA SignedValue ==
  ASSUME NEW bits \in EXPONENTS, bits > 0, NEW v \in -(2^(bits - 1)) .. 2^(bits - 1) - 1
  PROVE  Signed(v % 2^bits, bits) = v
<1>1. bits \in Nat /\ bits - 1 \in Nat /\ bits - 1 \in EXPONENTS
  BY Exponents DEF EXPONENTS
<1>2. PICK h, m : h = 2^(bits - 1) /\ m = 2^bits
  OBVIOUS
<1>3. h \in Nat \ {0} /\ m = 2 * h
  <2>1. bits - 1 \in 0 .. GROUP * (VARINT_BYTES + VARLONG_BYTES)
    BY <1>1 DEF EXPONENTS, GROUPS
  <2>2. 2^((bits - 1) + 1) = 2 * 2^(bits - 1) /\ (bits - 1) + 1 = bits
    BY <1>1, <2>1, PowerAssumption
  <2> QED BY <1>1, <1>2, <2>2, PowerPositive
<1>4. v \in Int /\ -h <= v /\ v < h
  BY <1>2, <1>3
<1>5. PICK u : u = v % m
  OBVIOUS
<1>6. u = IF v >= 0 THEN v ELSE v + m
  <2>1. \A x \in Int, y \in Nat : x >= 0 /\ x < y => x % y = x
    OBVIOUS
  <2>2. \A x \in Int, y \in Nat : x < 0 /\ -y <= x /\ y > 0 => x % y = x + y
    OBVIOUS
  <2> QED BY <1>3, <1>4, <1>5, <2>1, <2>2
<1>7. Signed(u, bits) = IF u >= h THEN u - m ELSE u
  BY <1>2 DEF Signed
<1>8. Signed(u, bits) = v
  BY <1>3, <1>4, <1>6, <1>7
<1> QED BY <1>2, <1>5, <1>8

\* The bytes of a value are one read, whatever is behind them.
LEMMA GroupsAhead ==
  ASSUME NEW value \in Int, NEW limit, NEW bits, Width(limit, bits),
         NEW w, w = Encode(value, limit, bits), NEW b, Ahead(b, w)
  PROVE  ReadGroups(b, limit, bits)
           = [buf |-> Past(b, Len(w)), val |-> Signed(value % 2^bits, bits)]
<1>1. PICK u : u = value % 2^bits
  OBVIOUS
<1>2. /\ w \in Seq(Byte) /\ Len(w) \in 1 .. limit
      /\ \A i \in 1 .. Len(w) : w[i] < More <=> i = Len(w)
  BY <1>1, EncodeIs
<1>3. limit \in Nat
  BY Exponents DEF Width
<1>4. /\ b \in Netbufs /\ ~b.error /\ b.offset + Len(w) <= Size(b)
      /\ \A i \in 1 .. Len(w) : b.data[b.offset + i] = w[i]
  BY DEF Ahead
<1>5. b.offset \in Nat /\ Size(b) \in Nat /\ b.data \in Seq(Byte) /\ Len(w) \in Nat
  BY <1>2, <1>3, <1>4, NetbufFields
<1>6. Takes(b, limit, Len(w))
  <2>1. Len(w) \in 1 .. limit + 1 /\ Len(w) \in 1 .. Len(w)
    BY <1>2, <1>3
  <2>2. b.data[b.offset + Len(w)] < More
    BY <1>2, <1>4, <2>1
  <2>3. ASSUME NEW m \in 1 .. Len(w) - 1 PROVE ~(b.data[b.offset + m] < More)
    <3>1. m \in 1 .. Len(w) /\ m # Len(w)
      BY <1>5
    <3> QED BY <1>2, <1>4, <3>1
  <2> QED BY <1>4, <2>1, <2>2, <2>3 DEF Takes
<1>7. ~(Len(w) > limit)
  BY <1>2, <1>3
<1>8. PICK next, part : /\ next = Past(b, Len(w))
                        /\ part = SubSeq(b.data, b.offset + 1, b.offset + Len(w))
  OBVIOUS
<1>9. ReadGroups(b, limit, bits) = [buf |-> next, val |-> Decode(part, bits)]
  <2>1. next = [b EXCEPT !.offset = b.offset + Len(w)]
    BY <1>8 DEF Past
  <2>2. b \in Netbufs /\ ~b.error
    BY <1>4
  <2> QED BY <1>3, <1>6, <1>7, <1>8, <2>1, <2>2, ReadOutcome
<1>10. part = w
  <2>1. PICK n, o, d : n = Len(w) /\ o = b.offset /\ d = b.data
    OBVIOUS
  <2>2. n \in Nat /\ o \in Nat /\ d \in Seq(Byte) /\ o + n <= Len(d) /\ part = SubSeq(d, o + 1, o + n)
    BY <1>4, <1>5, <1>8, <2>1 DEF Size
  <2>3. part \in Seq(Byte) /\ Len(part) = n /\ \A j \in 1 .. n : part[j] = d[o + j]
    BY <2>2, Stretch
  <2>4. \A i \in 1 .. Len(part) : part[i] = w[i]
    BY <1>4, <2>1, <2>3
  <2>5. Len(part) = Len(w)
    BY <2>1, <2>3
  <2> QED BY <1>2, <2>3, <2>4, <2>5, SeqEqual
<1>11. Decode(w, bits) = Signed(value % 2^bits, bits)
  BY DecodeOfEncode, Zenon
<1> QED BY <1>8, <1>9, <1>10, <1>11

\* The numbers that a varint carries.
Varints == -(2^(VARINT_BITS - 1)) .. 2^(VARINT_BITS - 1) - 1

\* They are numbers, and the small ones are among them.
LEMMA Numbers ==
  /\ Varints \subseteq Int /\ Varlongs \subseteq Int
  /\ \A n \in Nat : n < 2^(VARINT_BITS - 1) => n \in Varints
<1>1. /\ VARINT_BITS - 1 \in Nat /\ VARINT_BITS - 1 \in EXPONENTS
      /\ VARLONG_BITS - 1 \in Nat /\ VARLONG_BITS - 1 \in EXPONENTS
  <2>1. /\ VARINT_BITS \in EXPONENTS /\ VARINT_BITS > 0
        /\ VARLONG_BITS \in EXPONENTS /\ VARLONG_BITS > 0
    BY Widths, WidthAssumption DEF Width
  <2> QED BY <2>1, Exponents DEF EXPONENTS
<1>2. PICK h, g : h = 2^(VARINT_BITS - 1) /\ g = 2^(VARLONG_BITS - 1)
  OBVIOUS
<1>3. h \in Nat /\ g \in Nat
  BY <1>1, <1>2, PowerPositive
<1>4. Varints = -h .. h - 1 /\ Varlongs = -g .. g - 1
  BY <1>2 DEF Varints, Varlongs
<1> QED BY <1>2, <1>3, <1>4

\* What the writers write.
LEMMA Written ==
  /\ \A v \in Int : write_varint(v) \in Seq(Byte) /\ Len(write_varint(v)) \in 1 .. VARINT_BYTES
  /\ \A v \in Int : write_varlong(v) \in Seq(Byte) /\ Len(write_varlong(v)) \in Nat
  /\ \A str \in Seq(Byte) : /\ write_string(str) \in Seq(Byte)
                            /\ Len(str) <= Len(write_string(str))
<1>1. ASSUME NEW v \in Int
      PROVE  write_varint(v) \in Seq(Byte) /\ Len(write_varint(v)) \in 1 .. VARINT_BYTES
  <2>1. PICK u, w : u = v % 2^VARINT_BITS /\ w = Encode(v, VARINT_BYTES, VARINT_BITS)
    OBVIOUS
  <2>2. w \in Seq(Byte) /\ Len(w) \in 1 .. VARINT_BYTES
    BY <2>1, Widths, EncodeIs
  <2> QED BY <2>1, <2>2 DEF write_varint
<1>2. ASSUME NEW v \in Int
      PROVE  write_varlong(v) \in Seq(Byte) /\ Len(write_varlong(v)) \in Nat
  <2>1. PICK u, w : u = v % 2^VARLONG_BITS /\ w = Encode(v, VARLONG_BYTES, VARLONG_BITS)
    OBVIOUS
  <2>2. w \in Seq(Byte)
    BY <2>1, Widths, EncodeIs
  <2> QED BY <2>1, <2>2, LenProperties DEF write_varlong
<1>3. ASSUME NEW str \in Seq(Byte)
      PROVE  write_string(str) \in Seq(Byte) /\ Len(str) <= Len(write_string(str))
  <2>1. PICK w : w = write_varint(Len(str))
    OBVIOUS
  <2>2. w \in Seq(Byte) /\ Len(w) \in Nat /\ Len(str) \in Nat
    BY <1>1, <2>1, LenProperties
  <2>3. w \o str \in Seq(Byte) /\ Len(w \o str) = Len(w) + Len(str)
    BY <2>2, ConcatProperties
  <2> QED BY <2>1, <2>2, <2>3 DEF write_string
<1> QED BY <1>1, <1>2, <1>3

\* A varint that is ahead is read.
LEMMA VarintAhead ==
  ASSUME NEW v \in Varints, NEW b, Ahead(b, write_varint(v))
  PROVE  read_varint[b] = [buf |-> Past(b, Len(write_varint(v))), val |-> v]
<1>1. b \in Netbufs /\ v \in Int
  BY Numbers DEF Ahead
<1>2. read_varint[b] = ReadGroups(b, VARINT_BYTES, VARINT_BITS)
  BY <1>1, Zenon DEF read_varint
<1>3. PICK w : w = Encode(v, VARINT_BYTES, VARINT_BITS)
  OBVIOUS
<1>4. w = write_varint(v) /\ Ahead(b, w)
  BY <1>3, Zenon DEF write_varint
<1>5. ReadGroups(b, VARINT_BYTES, VARINT_BITS)
        = [buf |-> Past(b, Len(w)), val |-> Signed(v % 2^VARINT_BITS, VARINT_BITS)]
  <2>1. PICK limit, bits : limit = VARINT_BYTES /\ bits = VARINT_BITS
    OBVIOUS
  <2>2. Width(limit, bits) /\ w = Encode(v, limit, bits)
    BY <1>3, <2>1, Widths
  <2>3. ReadGroups(b, limit, bits) = [buf |-> Past(b, Len(w)), val |-> Signed(v % 2^bits, bits)]
    BY <1>1, <1>4, <2>2, GroupsAhead
  <2> QED BY <2>1, <2>3
<1>6. Signed(v % 2^VARINT_BITS, VARINT_BITS) = v
  <2>1. VARINT_BITS \in EXPONENTS /\ VARINT_BITS > 0
    BY Widths, WidthAssumption DEF Width
  <2> QED BY <2>1, SignedValue DEF Varints
<1> QED BY <1>2, <1>4, <1>5, <1>6, Zenon

\* A varlong that is ahead is read.
LEMMA VarlongAhead ==
  ASSUME NEW v \in Varlongs, NEW b, Ahead(b, write_varlong(v))
  PROVE  read_varlong[b] = [buf |-> Past(b, Len(write_varlong(v))), val |-> v]
<1>1. b \in Netbufs /\ v \in Int
  BY Numbers DEF Ahead
<1>2. read_varlong[b] = ReadGroups(b, VARLONG_BYTES, VARLONG_BITS)
  BY <1>1, Zenon DEF read_varlong
<1>3. PICK w : w = Encode(v, VARLONG_BYTES, VARLONG_BITS)
  OBVIOUS
<1>4. w = write_varlong(v) /\ Ahead(b, w)
  BY <1>3, Zenon DEF write_varlong
<1>5. ReadGroups(b, VARLONG_BYTES, VARLONG_BITS)
        = [buf |-> Past(b, Len(w)), val |-> Signed(v % 2^VARLONG_BITS, VARLONG_BITS)]
  <2>1. PICK limit, bits : limit = VARLONG_BYTES /\ bits = VARLONG_BITS
    OBVIOUS
  <2>2. Width(limit, bits) /\ w = Encode(v, limit, bits)
    BY <1>3, <2>1, Widths
  <2>3. ReadGroups(b, limit, bits) = [buf |-> Past(b, Len(w)), val |-> Signed(v % 2^bits, bits)]
    BY <1>1, <1>4, <2>2, GroupsAhead
  <2> QED BY <2>1, <2>3
<1>6. Signed(v % 2^VARLONG_BITS, VARLONG_BITS) = v
  <2>1. VARLONG_BITS \in EXPONENTS /\ VARLONG_BITS > 0
    BY Widths, WidthAssumption DEF Width
  <2> QED BY <2>1, SignedValue DEF Varlongs
<1> QED BY <1>2, <1>4, <1>5, <1>6, Zenon

\* Two bytes that are ahead are read as an unsigned short.
LEMMA UshortAhead ==
  ASSUME NEW s, Len(s) = 2, NEW b, Ahead(b, s)
  PROVE  read_ushort[b].buf = Past(b, 2)
<1>1. b \in Netbufs /\ ~b.error /\ b.offset + 2 <= Size(b)
  BY DEF Ahead
<1>2. ~(b.offset + 2 > Size(b))
  BY <1>1, NetbufFields
<1> QED BY <1>1, <1>2 DEF read_ushort, Past

\* A string that is ahead is read.
LEMMA StringAhead ==
  ASSUME NEW str \in Seq(Byte), Len(str) \in Varints, NEW b, Ahead(b, write_string(str))
  PROVE  read_string[b] = [buf |-> Past(b, Len(write_string(str))), len |-> Len(str),
                           ptr |-> TRUE, str |-> str]
<1>1. PICK w, l : w = write_varint(Len(str)) /\ l = Len(str)
  OBVIOUS
<1>2. w \in Seq(Byte) /\ Len(w) \in Nat /\ l \in Nat /\ Len(w \o str) = Len(w) + l
  <2>1. w \in Seq(Byte)
    BY <1>1, Written
  <2> QED BY <1>1, <2>1, LenProperties, ConcatProperties
<1>3. Ahead(b, w \o str)
  BY <1>1, Zenon DEF write_string
<1>4. PICK n, c : n = Len(w) /\ c = Past(b, n)
  OBVIOUS
<1>5. Ahead(b, w) /\ Ahead(c, str)
  BY <1>2, <1>3, <1>4, AheadParts
<1>6. read_varint[b] = [buf |-> c, val |-> l]
  BY <1>1, <1>4, <1>5, VarintAhead, Zenon
<1>7. b \in Netbufs /\ ~b.error
  BY <1>5 DEF Ahead
<1>8. /\ c \in Netbufs /\ c.offset = b.offset + n /\ c.data = b.data
      /\ ~c.error /\ Size(c) = Size(b)
  <2>1. n \in Nat /\ c = Past(b, n)
    BY <1>2, <1>4
  <2>2. /\ c \in Netbufs /\ c.offset = b.offset + n /\ c.data = b.data
        /\ c.error = b.error /\ Size(c) = Size(b)
    BY <1>7, <2>1, PastFields
  <2> QED BY <1>7, <2>2
<1>9. /\ c.offset + l <= Size(b)
      /\ \A i \in 1 .. l : c.data[c.offset + i] = str[i]
  BY <1>1, <1>5, <1>8 DEF Ahead
<1>10. b.offset \in Nat /\ Size(b) \in Nat /\ b.data \in Seq(Byte)
  BY <1>7, NetbufFields
<1>11. PICK end, part : end = c.offset + l /\ part = SubSeq(b.data, c.offset + 1, end)
  OBVIOUS
<1>12. end \in 0 .. Size(b)
  <2>1. PICK o, z : o = c.offset /\ z = Size(b)
    OBVIOUS
  <2>2. o \in Nat /\ l \in Nat /\ z \in Nat /\ o + l <= z /\ end = o + l
    <3>1. l \in Nat /\ n \in Nat
      BY <1>2, <1>4
    <3>2. o = b.offset + n
      BY <1>8, <2>1
    <3>3. o \in Nat /\ z \in Nat
      BY <1>10, <2>1, <3>1, <3>2
    <3>4. o + l <= z /\ end = o + l
      BY <1>9, <1>11, <2>1
    <3> QED BY <3>1, <3>3, <3>4
  <2> QED BY <2>1, <2>2
<1>13. part = str
  <2>1. PICK o, d : o = c.offset /\ d = b.data
    OBVIOUS
  <2>2. o \in Nat /\ d \in Seq(Byte) /\ o + l <= Len(d) /\ part = SubSeq(d, o + 1, o + l)
    BY <1>2, <1>4, <1>8, <1>9, <1>10, <1>11, <2>1 DEF Size
  <2>3. part \in Seq(Byte) /\ Len(part) = l /\ \A j \in 1 .. l : part[j] = d[o + j]
    BY <1>2, <2>2, Stretch
  <2>4. \A i \in 1 .. Len(part) : part[i] = str[i]
    BY <1>8, <1>9, <2>1, <2>3
  <2>5. Len(part) = Len(str)
    BY <1>1, <2>3
  <2> QED BY <2>3, <2>4, <2>5, SeqEqual
<1>14. read_string[b] = [buf |-> [c EXCEPT !.offset = end], len |-> l, ptr |-> TRUE, str |-> part]
  <2>1. PICK r : r = read_varint[b]
    OBVIOUS
  <2>2. r.buf = c /\ r.val = l
    BY <1>6, <2>1
  <2>3. read_string[b]
          = IF r.buf.error \/ r.buf.offset + r.val \notin 0 .. Size(b)
            THEN [buf |-> [r.buf EXCEPT !.error = TRUE], len |-> r.val, ptr |-> FALSE, str |-> << >>]
            ELSE [buf |-> [r.buf EXCEPT !.offset = r.buf.offset + r.val], len |-> r.val, ptr |-> TRUE,
                  str |-> SubSeq(b.data, r.buf.offset + 1, r.buf.offset + r.val)]
    BY <1>7, <2>1, Zenon DEF read_string
  <2> QED BY <1>8, <1>11, <1>12, <2>2, <2>3
<1>15. [c EXCEPT !.offset = end] = Past(b, Len(w) + l)
  <2>1. PICK m, o : m = n + l /\ o = b.offset + m
    OBVIOUS
  <2>2. o = end /\ m = Len(w) + l
    <3>1. PICK p : p = b.offset
      OBVIOUS
    <3>2. p \in Nat /\ n \in Nat /\ l \in Nat /\ n = Len(w) /\ end = (p + n) + l
      BY <1>2, <1>4, <1>8, <1>10, <1>11, <3>1
    <3>3. m = n + l /\ o = p + m
      BY <2>1, <3>1
    <3> QED BY <3>2, <3>3
  <2>3. [[b EXCEPT !.offset = b.offset + n] EXCEPT !.offset = o] = [b EXCEPT !.offset = o]
    BY <1>7 DEF Netbufs
  <2>4. c = [b EXCEPT !.offset = b.offset + n] /\ Past(b, m) = [b EXCEPT !.offset = o]
    BY <1>4, <2>1, Zenon DEF Past
  <2> QED BY <2>2, <2>3, <2>4, Zenon
<1>16. Len(write_string(str)) = Len(w) + l
  BY <1>1, <1>2, Zenon DEF write_string
<1> QED BY <1>1, <1>13, <1>14, <1>15, <1>16, Zenon
=============================================================================
