------------------------------- MODULE MCUuid -------------------------------
(* Instances of Uuid for TLC.                                               *)
EXTENDS Uuid

\* Every byte value at each place, next to every other half.
Patterns == { [k \in Index |-> (b * (k + 1) + 17 * k) % 256] : b \in 0 .. 255 }
FewRandoms == {0, 19088743, 2147483647}

\* Texts with dashes or strange characters anywhere in a window: every text
\* of three kinds of character on the first eight places, then digits, dashes
\* or characters of one kind only.
Kinds == {10, DASH, LETTER}
AnyTexts == { [p \in Place |-> CASE p = TextLen -> NUL [] p < 8 -> t[p] [] OTHER -> rest] :
                t \in [0 .. 7 -> Kinds], rest \in Kinds }
=============================================================================
