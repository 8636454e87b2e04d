------------------------------ MODULE Registry ------------------------------
(***************************************************************************)
(* write_minimal_registry (network/login.c), as the sequence of its calls  *)
(* of the NBT writers.  Names and values are abstracted to one name and    *)
(* one value of each type; what is kept is which calls open, close and     *)
(* count what.                                                             *)
(***************************************************************************)
EXTENDS Nbt

CONSTANT DAMAGE_TYPES   \* entries of damage_types: 46

N == <<7>>   \* a name or a string of one character

Fields(types) == [i \in DOMAIN types |->
  IF types[i] = TAG_String THEN nbt_write_string(N, N) ELSE nbt_write_number(types[i], N, 1)]
Strings(k)  == Fields([i \in 1 .. k |-> TAG_String])
Open        == <<nbt_begin_compound(N)>>
Item        == <<nbt_begin_compound(NULL)>>
Ends(k)     == [i \in 1 .. k |-> nbt_end_compound]
ListOf(type, count) == <<nbt_begin_list(N, type, count)>>

\* The part of the three registries up to their one element.
OneElement == Open \o Strings(1) \o ListOf(TAG_Compound, 1)
                \o Item \o Fields(<<TAG_String, TAG_Int>>) \o Open

DimensionType ==
  OneElement
    \o Fields(<<TAG_Byte, TAG_Int, TAG_Int, TAG_Byte, TAG_Float, TAG_String, TAG_Byte,
                TAG_Byte, TAG_Byte, TAG_String, TAG_Byte, TAG_Int, TAG_Double, TAG_Int,
                TAG_Byte, TAG_Byte, TAG_Int>>)
    \o Ends(3)

Biome ==
  OneElement
    \o Fields(<<TAG_Byte, TAG_Float, TAG_Float, TAG_Float, TAG_Float, TAG_String>>)
    \o Open \o Fields(<<TAG_Int, TAG_Int, TAG_Int, TAG_Int>>)
    \o Open \o Fields(<<TAG_Double, TAG_Int, TAG_String, TAG_Int>>)
    \o Ends(5)

\* chat and narration: two parameters, as strings without names.
Decoration == Open \o Strings(1) \o ListOf(TAG_String, 2)
                \o <<nbt_write_string_value(N), nbt_write_string_value(N)>> \o Ends(1)

ChatType == OneElement \o Decoration \o Decoration \o Ends(3)

DamageType == Item \o Fields(<<TAG_String, TAG_Int>>)
                \o Open \o Fields(<<TAG_String, TAG_String, TAG_Float>>) \o Ends(2)

\* Mutant: one damage type is missing from the array.
DamageTypes_OneLess ==
  Open \o Strings(1) \o ListOf(TAG_Compound, DAMAGE_TYPES)
    \o FlattenSeq([i \in 1 .. DAMAGE_TYPES - 1 |-> DamageType]) \o Ends(1)

DamageTypes ==
  Open \o Strings(1) \o ListOf(TAG_Compound, DAMAGE_TYPES)
    \o FlattenSeq([i \in 1 .. DAMAGE_TYPES |-> DamageType]) \o Ends(1)

write_minimal_registry ==
  <<nbt_begin_root_compound>> \o DimensionType \o Biome \o ChatType \o DamageTypes \o Ends(1)
=============================================================================
