------------------------------- MODULE Pokedex -------------------------------
(***************************************************************************)
(* The bits of a Pokedex: lib/common/pokedex.c, one bit per Pokemon in a   *)
(* list, and lib/gen3/pokedex.c, where generation 3 keeps the list of the  *)
(* Pokemon seen three times and marks the national Pokedex in three words. *)
(*                                                                         *)
(* A list is the set of places <<byte, bit>> that are one, and a word the  *)
(* set of its one bits.                                                    *)
(***************************************************************************)
EXTENDS Integers

Place == (0..255) \X (0..7)

\* Wrong on purpose: bytes are counted from the number, bits from one less.
PokedexBitPosOffByOne(pokedex_num) ==
  IF pokedex_num = 0 THEN {}
  ELSE {<<(pokedex_num \div 8) % 256, (pokedex_num - 1) % 8>>}

\* _pksav_get_pokedex_bit_pos: the byte is cut to 8 bits.  For number 0 the
\* quotient -1 / 8 is 0 and the mask is 1/2, which cut to an integer is empty.
PokedexBitPos(pokedex_num) ==
  IF pokedex_num = 0 THEN {}
  ELSE {<<((pokedex_num - 1) \div 8) % 256, (pokedex_num - 1) % 8>>}

GetPokedexBit(list, pokedex_num) == list \cap PokedexBitPos(pokedex_num) # {}

SetPokedexBit(list, pokedex_num, set) ==
  IF set THEN list \cup PokedexBitPos(pokedex_num)
         ELSE list \ PokedexBitPos(pokedex_num)

-----------------------------------------------------------------------------
(* Generation 3.  Bits 0xB9 and 0x01DA, 1 << 6, 0x5862 and 0x0203.         *)

Games == {"RS", "EMERALD", "FRLG"}
SaveTypes == Games \cup {"NONE"}

Seen == {"seenA", "seenB", "seenC"}
Unlocked == {"unlockedA", "unlockedB", "unlockedC"}

FlagA(save_type) ==
  IF save_type = "FRLG" THEN {0, 3, 4, 5, 7} ELSE {1, 3, 4, 6, 7, 8}
FlagB == {6}
FlagC(save_type) ==
  IF save_type = "FRLG" THEN {1, 5, 6, 11, 12, 14} ELSE {0, 1, 9}

NationalFlags(save_type) ==
  [unlockedA |-> FlagA(save_type), unlockedB |-> FlagB,
   unlockedC |-> FlagC(save_type)]

Width(save_type) ==
  [unlockedA |-> IF save_type = "FRLG" THEN 0..7 ELSE 0..15,
   unlockedB |-> 0..7, unlockedC |-> 0..15]

\* The struct of pointers, as the memory it points at.  One of the two
\* pointers to unlockedA is NULL, by the save's game.
Gen3Pokedex(game) ==
  [seen : [Seen -> SUBSET Place], owned : SUBSET Place,
   flags : {f \in [Unlocked -> SUBSET (0..15)] :
              \A u \in Unlocked : f[u] \subseteq Width(game)[u]}]

\* Wrong on purpose: the third list is forgotten.
SeenTwice(pokedex, pokedex_num, has_seen) ==
  [pokedex EXCEPT !.seen =
     [list \in Seen |-> IF list = "seenC" THEN @[list]
                        ELSE SetPokedexBit(@[list], pokedex_num, has_seen)]]

\* pksav_gen3_pokedex_set_has_seen, past its checks
HasSeen(pokedex, pokedex_num, has_seen) ==
  [pokedex EXCEPT !.seen =
     [list \in Seen |-> SetPokedexBit(@[list], pokedex_num, has_seen)]]

\* Wrong on purpose: locking forgets which game's words they are.
NationalUnlockedAsRSE(pokedex, save_type, is_unlocked) ==
  [pokedex EXCEPT !.flags =
     [u \in Unlocked |-> IF is_unlocked
                         THEN @[u] \cup NationalFlags(save_type)[u]
                         ELSE @[u] \ NationalFlags("RS")[u]]]

\* pksav_gen3_pokedex_set_national_pokedex_unlocked, past its checks: NONE
\* is taken for Ruby, Sapphire or Emerald.
NationalUnlocked(pokedex, save_type, is_unlocked) ==
  [pokedex EXCEPT !.flags =
     [u \in Unlocked |-> IF is_unlocked
                         THEN @[u] \cup NationalFlags(save_type)[u]
                         ELSE @[u] \ NationalFlags(save_type)[u]]]
=============================================================================
