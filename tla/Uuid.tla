-------------------------------- MODULE Uuid --------------------------------
(***************************************************************************)
(* misc/uuid.c: a UUID is printed as text and the text is parsed again, or *)
(* a text of 36 characters of any origin is parsed; shorter texts, which   *)
(* the parser does not expect, are left out.  The loops run step by step,  *)
(* with their indices i of the text and j of the UUID.                     *)
(***************************************************************************)
EXTENDS Integers, FiniteSets

CONSTANTS BYTES,        \* of a UUID: 16
          DASHES,       \* the bytes a dash precedes: 4, 6, 8, 10
          RAND_LENGTH,  \* bytes taken of a rand(): 4
          Randoms,      \* what rand() may return
          Uuids,        \* UUIDs to print
          Texts         \* texts to parse

TextLen == 2 * BYTES + Cardinality(DASHES)   \* 36
Index == 0 .. BYTES - 1
Place == 0 .. TextLen

\* Characters: the digits of the array hex as their values, and three others.
DASH == 16
NUL == 17
LETTER == 18
UNSET == -1   \* a byte the parser has not written

ASSUME UuidAssumption ==
  /\ {BYTES, RAND_LENGTH} \subseteq Nat \ {0} /\ DASHES \subseteq Index /\ 0 \notin DASHES
  /\ BYTES % RAND_LENGTH = 0 /\ Randoms \subseteq Nat
  /\ Uuids \subseteq [Index -> 0 .. 255] /\ Texts \subseteq [Place -> 0 .. 18]

\* Arithmetic that the provers lack: a power of a byte's values divides.
ASSUME ShiftAssumption == \A n \in 0 .. RAND_LENGTH - 1 : 256^n \in Nat \ {0}

VARIABLES phase,   \* "unparse", "parse", "done"
          given,   \* the UUID to print
          text, uuid,
          i, j     \* the loops' indices
vars == <<phase, given, text, uuid, i, j>>

\* The bytes of BYTES \div RAND_LENGTH calls of rand, with version and variant.
uuid_generate_random(rnd) ==
  [k \in Index |->
     LET byte == (rnd[k \div RAND_LENGTH] \div 256^(k % RAND_LENGTH)) % 256
     IN  CASE k = 6 -> 64 + (byte % 16) [] k = 8 -> 160 + (byte % 16) [] OTHER -> byte]
Generated == {uuid_generate_random(rnd) : rnd \in [0 .. (BYTES \div RAND_LENGTH) - 1 -> Randoms]}

Init ==
  /\ i = 0 /\ j = 0 /\ uuid = [k \in Index |-> UNSET]
  /\ \/ phase = "unparse" /\ given \in Uuids \cup Generated /\ text = [p \in Place |-> LETTER]
     \/ phase = "parse" /\ given = uuid /\ text \in Texts

\* One iteration of uuid_unparse.
Unparse ==
  /\ phase = "unparse" /\ j < BYTES
  /\ LET at == IF j \in DASHES THEN i + 1 ELSE i
     IN  /\ text' = [text EXCEPT ![i] = DASH, ![at] = given[j] \div 16, ![at + 1] = given[j] % 16]
         /\ i' = at + 2
  /\ j' = j + 1
  /\ UNCHANGED <<phase, given, uuid>>

Unparsed ==
  /\ phase = "unparse" /\ j = BYTES
  /\ text' = [text EXCEPT ![TextLen] = NUL]
  /\ phase' = "parse" /\ i' = 0 /\ j' = 0
  /\ UNCHANGED <<given, uuid>>

hex2dec(c) == IF c < 16 THEN c ELSE -1

\* Mutant: the digits are taken the other way round.
Joined_Swapped(hi, lo) == IF lo = -1 \/ hi = -1 THEN 255 ELSE 16 * lo + hi

\* (hi << 4) | lo, cut to a byte.
Joined(hi, lo) == IF lo = -1 THEN 255 ELSE IF hi = -1 THEN 240 + lo ELSE 16 * hi + lo

\* while (j < 16 && i < 36): before the first iteration it holds.
Looping == j < BYTES /\ i < TextLen

\* Mutant: the character after a dash is passed over too.
ParseDash_Two ==
  /\ phase = "parse" /\ Looping /\ text[i] = DASH
  /\ i' = i + 2 /\ UNCHANGED <<phase, given, text, uuid, j>>

ParseDash ==
  /\ phase = "parse" /\ Looping /\ text[i] = DASH
  /\ i' = i + 1 /\ UNCHANGED <<phase, given, text, uuid, j>>

ParseByte ==
  /\ phase = "parse" /\ Looping /\ text[i] # DASH
  /\ uuid' = [uuid EXCEPT ![j] = Joined(hex2dec(text[i]), hex2dec(text[i + 1]))]
  /\ i' = i + 2 /\ j' = j + 1
  /\ UNCHANGED <<phase, given, text>>

Parsed ==
  /\ phase = "parse" /\ ~Looping
  /\ phase' = "done" /\ UNCHANGED <<given, text, uuid, i, j>>

Next == Unparse \/ Unparsed \/ ParseDash \/ ParseByte \/ Parsed
Spec == Init /\ [][Next]_vars /\ WF_vars(Next)
-----------------------------------------------------------------------------
(* Properties *)

\* The text of a UUID is parsed to the same UUID (uuid.c:43-86).
ParsesBack == phase = "done" /\ given[0] # UNSET => uuid = given

FewDashes == Cardinality({p \in Place : text[p] = DASH}) <= Cardinality(DASHES)

\* Parsing ends, and a text with no more dashes than a UUID's fills the UUID:
\* the two ends of the loop agree (uuid.c:62).
Filled == <>(phase = "done" /\ (FewDashes => UNSET \notin {uuid[k] : k \in Index}))
=============================================================================
