----------------------------- MODULE PackedFields -----------------------------
(***************************************************************************)
(* Small values packed in one word of a Pokemon: the individual values of  *)
(* lib/common/stats.c, the Pokerus of lib/common/pokerus.c and the caught  *)
(* data of lib/gen2/time.c.                                                *)
(*                                                                         *)
(* A word and a value are the sets of their one bits: v << k is Shift(v,k),*)
(* and v > 31 is that v has a bit above bit 4.                             *)
(***************************************************************************)
EXTENDS Integers

Word == SUBSET (0..31)
Value == SUBSET (0..7)     \* a uint8_t

Shift(value, k) == {bit + k : bit \in value}

Mask(offset, width) == offset..(offset + width - 1)

\* Wrong on purpose: a bit too many is let through.
InRangeByOne(value, width) == value \subseteq Mask(0, width + 1)

InRange(value, width) == value \subseteq Mask(0, width)

GetBits(word, offset, width) ==
  {bit - offset : bit \in word \cap Mask(offset, width)}

\* Wrong on purpose: the field is not cleared first.
OrBits(word, offset, width, value) == word \cup Shift(value, offset)

SetBits(word, offset, width, value) ==
  (word \ Mask(offset, width)) \cup Shift(value, offset)

-----------------------------------------------------------------------------
(* Game Boy: four values of four bits, and HP made of their lowest ones.   *)

GbStat == {"ATTACK", "DEFENSE", "SPEED", "SPECIAL", "HP"}
GbOrder == <<"ATTACK", "DEFENSE", "SPEED", "SPECIAL", "HP">>
GbOffset == [ATTACK |-> 12, DEFENSE |-> 8, SPEED |-> 4, SPECIAL |-> 0]

\* Bit b of HP is the lowest bit of a field: special, speed, defense, attack.
GbHP(word) == {bit \in 0..3 : 4 * bit \in word}

GbIV(word, stat) ==
  IF stat = "HP" THEN GbHP(word) ELSE GetBits(word, GbOffset[stat], 4)

\* pksav_get_gb_IVs: only what the buffer has room for is written.
GetGbIVs(word, IVs_out, IV_buffer_size) ==
  [i \in DOMAIN IVs_out |->
     IF i <= IV_buffer_size THEN GbIV(word, GbOrder[i]) ELSE IVs_out[i]]

\* pksav_set_gb_IV, past its checks
SetGbIV(word, stat, value) ==
  IF stat = "HP"
  THEN (word \ {0, 4, 8, 12}) \cup {4 * bit : bit \in value}
  ELSE SetBits(word, GbOffset[stat], 4, value)

-----------------------------------------------------------------------------
(* Generation 3: six values of five bits; bits 30 and 31 are the egg's and *)
(* the ability's.                                                          *)

Stat == {"ATTACK", "DEFENSE", "SPEED", "SPATK", "SPDEF", "HP"}
Order == <<"ATTACK", "DEFENSE", "SPEED", "SPATK", "SPDEF", "HP">>
Offset == [HP |-> 0, ATTACK |-> 5, DEFENSE |-> 10, SPEED |-> 15,
           SPATK |-> 20, SPDEF |-> 25]

IV(word, stat) == GetBits(word, Offset[stat], 5)

\* Wrong on purpose: the buffer has room for one more.
GetIVsTooMany(word, IVs_out, IV_buffer_size) ==
  [i \in DOMAIN IVs_out |->
     IF i <= IV_buffer_size + 1 THEN IV(word, Order[i]) ELSE IVs_out[i]]

\* pksav_get_IVs
GetIVs(word, IVs_out, IV_buffer_size) ==
  [i \in DOMAIN IVs_out |->
     IF i <= IV_buffer_size THEN IV(word, Order[i]) ELSE IVs_out[i]]

\* pksav_set_IV, past its checks
SetIV(word, stat, value) == SetBits(word, Offset[stat], 5, value)

-----------------------------------------------------------------------------
(* Pokerus: the strain in the high half of a byte, the days left in the    *)
(* low one.                                                                *)

Strains == SUBSET {0, 1}

\* strain % 4 + 1
DaysOf(strain) ==
  CASE strain = {}     -> {0}
    [] strain = {0}    -> {1}
    [] strain = {1}    -> {0, 1}
    [] strain = {0, 1} -> {2}

GetStrain(word) == GetBits(word, 4, 4) \cap {0, 1}
GetDuration(word) == word \cap Mask(0, 4)

SetStrain(strain) == Shift(strain, 4) \cup DaysOf(strain)

\* From 12 days on the strain is made to agree, days % 4.
Incompatible(duration) == {2, 3} \subseteq duration

\* Wrong on purpose: the strain is adjusted without being cleared.
AdjustsByOr(word, duration) ==
  SetBits(word, 0, 4, duration) \cup
    (IF Incompatible(duration) THEN Shift(duration \cap {0, 1}, 4) ELSE {})

SetDuration(word, duration) ==
  LET set == SetBits(word, 0, 4, duration)
  IN  IF Incompatible(duration)
      THEN SetBits(set, 4, 4, duration \cap {0, 1})
      ELSE set

-----------------------------------------------------------------------------
(* When a Pokemon was caught: two bits for the time of day, above level,   *)
(* gender and location.                                                    *)

TimeOfDay(word) == GetBits(word, 14, 2)

TimeOfHour(hour) ==
  CASE hour \in 2..8  -> {0}       \* PKSAV_GEN2_MORNING
    [] hour \in 9..16 -> {1}       \* PKSAV_GEN2_DAY
    [] OTHER          -> {0, 1}    \* PKSAV_GEN2_NIGHT

\* Wrong on purpose: the value is not shifted to its field.
SetCaughtTimeUnshifted(word, hour) ==
  (word \ Mask(14, 2)) \cup TimeOfHour(hour)

SetCaughtTime(word, hour) == SetBits(word, 14, 2, TimeOfHour(hour))
=============================================================================
