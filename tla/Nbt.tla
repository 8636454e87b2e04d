-------------------------------- MODULE Nbt ---------------------------------
(***************************************************************************)
(* network/nbt.c: the tag writers, and nbt_debug_dump, the recursive       *)
(* reader that prints what a byte sequence holds.                          *)
(*                                                                         *)
(* A behaviour makes the calls of a script one after the other and dumps   *)
(* the bytes, or dumps bytes of any origin.  The C recursion of            *)
(* dbg_parse_tag is the variable stack.                                    *)
(***************************************************************************)
EXTENDS Integers, SequencesExt, TLC

CONSTANTS BASE,        \* values of a byte: 256
          SHORT, INT,  \* bytes of a short (2) and of an int (4); a long has two ints
          NAME_MAX,    \* characters of a name that the reader keeps: 255
          STRING_MAX,  \* characters of a string: 1023
          Scripts,     \* sequences of writer calls
          Inputs,      \* sequences of bytes
          NULL         \* no name: an element of a list

TAG_End == 0
TAG_Byte == 1
TAG_Short == 2
TAG_Int == 3
TAG_Long == 4
TAG_Float == 5
TAG_Double == 6
TAG_String == 8
TAG_List == 9
TAG_Compound == 10

Char == 0 .. BASE - 1

\* Bytes of a number's payload.
Numbers == {TAG_Byte, TAG_Short, TAG_Int, TAG_Long, TAG_Float, TAG_Double}
Width == [type \in Numbers |-> CASE type = TAG_Byte -> 1
                                 [] type = TAG_Short -> SHORT
                                 [] type \in {TAG_Int, TAG_Float} -> INT
                                 [] type \in {TAG_Long, TAG_Double} -> 2 * INT]

\* The calls of a writer: what it is to write, its name, and a value: the bits
\* of a number, the characters of a string, the type and the number of a list's
\* elements.
Calls ==
  { c \in [writes : Numbers \cup {TAG_String, TAG_List, TAG_Compound, TAG_End},
           name : {NULL} \cup Seq(Char), value : Seq(Int)] :
      CASE c.writes \in Numbers -> Len(c.value) = 1
        [] c.writes = TAG_String -> c.value \in Seq(Char)
        [] c.writes = TAG_List -> Len(c.value) = 2 /\ c.value[1] \in Char
        [] OTHER -> c.value = << >> }

ASSUME NbtAssumption ==
  /\ BASE \in Nat /\ BASE > 12 /\ {SHORT, INT, NAME_MAX, STRING_MAX} \subseteq Nat \ {0}
  /\ Inputs \subseteq Seq(Char) /\ Scripts \subseteq Seq(Calls)

\* Arithmetic that the provers lack: the powers of BASE are positive.
ASSUME WeightAssumption == \A n \in 0 .. SHORT + 2 * INT : BASE^n \in Nat \ {0}
-----------------------------------------------------------------------------
(* The writers, as the bytes they append *)

\* Big-endian, cut to n bytes.
BigEndian(value, n) == [i \in 1 .. n |-> (value \div BASE^(n - i)) % BASE]

\* A length and the characters, both cut to what a short can say.
Text(s) == LET len == Len(s) % BASE^SHORT IN BigEndian(len, SHORT) \o SubSeq(s, 1, len)

nbt_write_header(type, name) ==
  IF name = NULL THEN << >>
  ELSE IF type = TAG_End THEN <<type>>
  ELSE <<type>> \o Text(name)

Call(writes, name, value) == [writes |-> writes, name |-> name, value |-> value]
nbt_begin_root_compound == Call(TAG_Compound, << >>, << >>)
nbt_begin_compound(name) == Call(TAG_Compound, name, << >>)
nbt_end_compound == Call(TAG_End, NULL, << >>)
nbt_begin_list(name, type, count) == Call(TAG_List, name, <<type, count>>)
nbt_write_string(name, s) == Call(TAG_String, name, s)
nbt_write_string_value(s) == Call(TAG_String, NULL, s)
nbt_write_number(type, name, bits) == Call(type, name, <<bits>>)

Payload(c) ==
  CASE c.writes \in Numbers      -> BigEndian(c.value[1], Width[c.writes])
    [] c.writes = TAG_String     -> Text(c.value)
    [] c.writes = TAG_List       -> <<c.value[1]>> \o BigEndian(c.value[2], INT)
    [] c.writes = TAG_Compound   -> << >>
    [] c.writes = TAG_End        -> <<TAG_End>>

Written(c) == nbt_write_header(c.writes, c.name) \o Payload(c)
-----------------------------------------------------------------------------
VARIABLES
  phase,    \* "write", "dump", "done"
  script,   \* the calls still to be made
  data,     \* the bytes
  pos, indent,  \* of nbt_debug_ctx
  stack,    \* dbg_parse_tag's calls: compounds, and lists with what they lack
  lines,    \* what is printed
  open,     \* reference: 0 for each open compound, for a list what it lacks
  outline   \* reference: what should be printed

dump == <<pos, indent, stack, lines>>
vars == <<phase, script, data, dump, open, outline>>

Init ==
  /\ phase = "write" /\ pos = 0 /\ indent = 0 /\ stack = << >> /\ lines = << >>
  /\ open = << >> /\ outline = << >>
  /\ \/ script \in Scripts /\ data = << >>
     \/ script = << >> /\ data \in Inputs

\* Reference: an element is complete, and so is every list that lacked only it.
Complete(ctx) ==
  LET kept == Max({0} \cup {k \in DOMAIN ctx : ctx[k] # 1})
      upTo == SubSeq(ctx, 1, kept)
  IN  IF kept = 0 \/ ctx[kept] = 0 THEN upTo ELSE [upTo EXCEPT ![kept] = @ - 1]

AfterCall(ctx, c) ==
  CASE c.writes = TAG_Compound -> Append(ctx, 0)
    [] c.writes = TAG_List /\ c.value[2] > 0 -> Append(ctx, c.value[2])
    [] c.writes = TAG_End -> Complete(SubSeq(ctx, 1, Len(ctx) - 1))
    [] OTHER -> Complete(ctx)

Cut(s, most) == IF Len(s) <= most THEN s ELSE SubSeq(s, 1, most)

Shown(c) ==
  [at    |-> Len(open) - (IF c.writes = TAG_End THEN 1 ELSE 0),
   type  |-> c.writes,
   name  |-> IF c.name = NULL THEN << >> ELSE Cut(c.name, NAME_MAX),
   value |-> IF c.writes = TAG_String THEN Cut(c.value, STRING_MAX) ELSE c.value]

Write ==
  /\ phase = "write" /\ script # << >>
  /\ LET c == Head(script)
     IN  /\ data' = data \o Written(c)
         /\ open' = AfterCall(open, c) /\ outline' = Append(outline, Shown(c))
  /\ script' = Tail(script)
  /\ UNCHANGED <<phase, dump>>

StartDump ==
  /\ phase = "write" /\ script = << >> /\ phase' = "dump"
  /\ UNCHANGED <<script, data, dump, open, outline>>
-----------------------------------------------------------------------------
(* dbg_read_*: the value, and the position it leaves.  Past the end zeros    *)
(* are read.                                                                 *)

size == Len(data)
Signed(u, n) == IF 2 * u >= BASE^n THEN u - BASE^n ELSE u

dbg_read_byte(p) == IF p >= size THEN [val |-> 0, pos |-> p]
                    ELSE [val |-> data[p + 1], pos |-> p + 1]

dbg_read_number(p, n) ==
  LET upTo[i \in 0 .. n] ==
        IF i = 0 THEN [val |-> 0, pos |-> p]
        ELSE LET b == dbg_read_byte(upTo[i - 1].pos)
             IN  [val |-> upTo[i - 1].val * BASE + b.val, pos |-> b.pos]
  IN  [upTo[n] EXCEPT !.val = Signed(@, n)]

\* Mutant: the length is not compared with what is left.
dbg_read_string_Unchecked(p, most) ==
  LET len == dbg_read_number(p, SHORT)
  IN  IF len.val <= 0 THEN [val |-> << >>, pos |-> len.pos]
      ELSE [val |-> Cut(SubSeq(data, len.pos + 1, Min({len.pos + len.val, size})), most),
            pos |-> len.pos + len.val]

dbg_read_string(p, most) ==
  LET len == dbg_read_number(p, SHORT)
  IN  IF len.val <= 0 \/ len.pos + len.val > size THEN [val |-> << >>, pos |-> len.pos]
      ELSE [val |-> Cut(SubSeq(data, len.pos + 1, len.pos + len.val), most),
            pos |-> len.pos + len.val]
-----------------------------------------------------------------------------
(* dbg_parse_tag *)

Prints(type, name, value) ==
  lines' = Append(lines, [at |-> indent, type |-> type, name |-> name, value |-> value])

\* The switch, for a tag whose payload is at p; rest is the stack of the callers.
Number(type, name, p, rest) ==
  /\ type \in Numbers
  /\ \E n \in {dbg_read_number(p, Width[type])} :
       pos' = n.pos /\ Prints(type, name, <<n.val>>)
  /\ stack' = rest /\ UNCHANGED indent

String(type, name, p, rest) ==
  /\ type = TAG_String
  /\ \E s \in {dbg_read_string(p, STRING_MAX)} : pos' = s.pos /\ Prints(type, name, s.val)
  /\ stack' = rest /\ UNCHANGED indent

Compound(type, name, p, rest) ==
  /\ type = TAG_Compound
  /\ pos' = p /\ Prints(type, name, << >>) /\ indent' = indent + 1
  /\ stack' = Append(rest, [of |-> "compound"])

List(type, name, p, rest) ==
  /\ type = TAG_List
  /\ LET elem  == dbg_read_byte(p)
         count == dbg_read_number(elem.pos, INT)
     IN  /\ pos' = count.pos /\ Prints(type, name, <<elem.val, count.val>>)
         /\ stack' = Append(rest, [of |-> "list", elem |-> elem.val, left |-> count.val])
  /\ indent' = indent + 1

Unsupported(type, name, p, rest) ==
  /\ type \notin Numbers \cup {TAG_String, TAG_Compound, TAG_List}
  /\ pos' = p /\ Prints(type, name, << >>)
  /\ stack' = rest /\ UNCHANGED indent

Switch(type, name, p, rest) ==
  \/ Number(type, name, p, rest) \/ String(type, name, p, rest)
  \/ Compound(type, name, p, rest) \/ List(type, name, p, rest)
  \/ Unsupported(type, name, p, rest)

\* A tag with its type and name before it.
Named(rest) ==
  \E type \in {dbg_read_byte(pos)} : \E name \in {dbg_read_string(type.pos, NAME_MAX)} :
    type.val # TAG_End /\ Switch(type.val, name.val, name.pos, rest)

Dumping == phase = "dump" /\ UNCHANGED <<phase, script, data, open, outline>>
InLoop(of) == stack # << >> /\ stack[Len(stack)].of = of
Callers == SubSeq(stack, 1, Len(stack) - 1)

\* The loop of nbt_debug_dump.
TopTag == Dumping /\ stack = << >> /\ pos < size /\ Named(stack)
TopEnd ==
  /\ Dumping /\ stack = << >> /\ pos < size /\ data[pos + 1] = TAG_End
  /\ pos' = pos + 1 /\ Prints(TAG_End, << >>, << >>) /\ indent' = indent - 1
  /\ UNCHANGED stack
Done ==
  /\ phase = "dump" /\ stack = << >> /\ pos >= size /\ phase' = "done"
  /\ UNCHANGED <<script, data, dump, open, outline>>

\* The loop over a compound's tags.
CompoundTag == Dumping /\ InLoop("compound") /\ pos < size /\ Named(stack)

CompoundEnd ==
  /\ Dumping /\ InLoop("compound") /\ pos < size /\ data[pos + 1] = TAG_End
  /\ pos' = pos + 1 /\ indent' = indent - 1 /\ stack' = Callers
  /\ lines' = Append(lines, [at |-> indent - 1, type |-> TAG_End, name |-> << >>,
                             value |-> << >>])

\* Mutant: the loop waits for its TAG_End.
CompoundCutOff_Waits == Dumping /\ InLoop("compound") /\ pos >= size /\ UNCHANGED dump

\* The data end before the compound does.
CompoundCutOff ==
  /\ Dumping /\ InLoop("compound") /\ pos >= size
  /\ stack' = Callers /\ UNCHANGED <<pos, indent, lines>>

\* The loop over a list's elements, which have no name.
ListElement ==
  /\ Dumping /\ InLoop("list")
  /\ LET list == stack[Len(stack)]
     IN  /\ list.left > 0 /\ pos < size
         /\ Switch(list.elem, << >>, pos,
                   Append(Callers, [list EXCEPT !.left = @ - 1]))
ListEnd ==
  /\ Dumping /\ InLoop("list")
  /\ stack[Len(stack)].left <= 0 \/ pos >= size
  /\ indent' = indent - 1 /\ stack' = Callers
  /\ UNCHANGED <<pos, lines>>

Dump == \/ TopTag \/ TopEnd \/ Done \/ CompoundTag \/ CompoundEnd \/ CompoundCutOff
        \/ ListElement \/ ListEnd
Next == Write \/ StartDump \/ Dump
Spec == Init /\ [][Next]_vars /\ WF_vars(Next)
-----------------------------------------------------------------------------
(* Properties *)

\* Reading never leaves the bytes it was given, whatever they are, and the
\* recursion is never deeper than the bytes it has read (nbt.c:159-208).
PosInside == pos \in 0 .. size /\ Len(stack) <= pos

\* The dump comes to its end, whatever the bytes are (nbt.c:222-312).
DumpEnds == <>(phase = "done")

\* What the writers have written is read back call by call: each tag once, at
\* its depth, with its name and value; the lists have the lengths they declare
\* and every compound its end (nbt.c:17-94, 222-297).
RoundTrip ==
  phase = "done" /\ outline # << >> => lines = outline /\ indent = 0 /\ open = << >>
=============================================================================
