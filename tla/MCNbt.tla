------------------------------- MODULE MCNbt --------------------------------
(* Instances of Nbt for TLC.                                                *)
EXTENDS Registry

M == <<9, 2>>    \* a second name, which starts with the byte of a list

\* What may be a field of a compound (name M) or an element of a list (NULL),
\* without more than one level inside.
Scalars(name) == { <<nbt_write_number(TAG_Byte, name, -1)>>, <<nbt_write_number(TAG_Int, name, 10)>>,
                   <<nbt_write_number(TAG_Double, name, -300)>>, <<nbt_write_string(name, M)>>,
                   <<nbt_write_string(name, << >>)>> }
Compounds(name, bodies) ==
  { <<nbt_begin_compound(name)>> \o b \o Ends(1) : b \in bodies \cup {<< >>} }
Lists(name, type, elements) ==
  { <<nbt_begin_list(name, type, 0)>> }
    \cup { <<nbt_begin_list(name, type, 1)>> \o e : e \in elements }
    \cup { <<nbt_begin_list(name, type, 2)>> \o e \o f : e, f \in elements }
Strung   == { <<nbt_write_string_value(s)>> : s \in {<< >>, N, M} }
Floats   == { <<nbt_write_number(TAG_Float, NULL, 10)>> }
Level1(name) == Compounds(name, Scalars(M)) \cup Lists(name, TAG_String, Strung)
                  \cup Lists(name, TAG_Float, Floats)
Level2(name) ==
  Scalars(name) \cup Level1(name) \cup Compounds(name, Level1(N))
    \cup Lists(name, TAG_Compound, Compounds(NULL, Level1(N)))
    \cup Lists(name, TAG_List, Lists(NULL, TAG_String, Strung))

Rooted(body) == <<nbt_begin_root_compound>> \o body \o Ends(1)
WellNested == { Rooted(a \o b) : a \in Level2(M), b \in {<< >>} \cup Scalars(N) }

RoundTrips == {write_minimal_registry} \cup WellNested

\* Every sequence of up to five of the bytes that matter most to the reader.
AnyBytes == SeqOf({TAG_End, TAG_Byte, TAG_Float, TAG_String, TAG_List, TAG_Compound, 15}, 5)
=============================================================================
