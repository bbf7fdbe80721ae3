---------------------------- MODULE FieldsProofs ----------------------------
(***************************************************************************)
(* Packed fields and Pokedex lists for any numbers, values and words: each *)
(* setter reaches its own bits and no others, so every property of Fields  *)
(* but the types is its own induction hypothesis, once reading is taken    *)
(* bit by bit.                                                             *)
(***************************************************************************)
EXTENDS Fields, TLAPS

-----------------------------------------------------------------------------
(* Bits.                                                                   *)

\* A bit of a shifted value is one of the value's, k places further down.
LEMMA ShiftBit ==
  ASSUME NEW value, value \subseteq Int, NEW k \in Int, NEW x \in Int
  PROVE  x \in Shift(value, k) <=> x - k \in value
<1>1. ASSUME x \in Shift(value, k) PROVE x - k \in value
  BY <1>1 DEF Shift
<1>2. ASSUME x - k \in value PROVE x \in Shift(value, k)
  <2>1. x = (x - k) + k
    OBVIOUS
  <2>. QED
    BY <1>2, <2>1 DEF Shift
<1>. QED
  BY <1>1, <1>2

\* A shifted value is made of numbers.
LEMMA ShiftType ==
  ASSUME NEW value, value \subseteq Int, NEW k \in Int
  PROVE  Shift(value, k) \subseteq Int
BY DEF Shift

\* A bit of a field is one of the word's, inside the mask.
LEMMA GetBit ==
  ASSUME NEW word_, NEW offset \in Nat, NEW width \in Nat, NEW x
  PROVE  x \in GetBits(word_, offset, width)
           <=> x \in 0..(width - 1) /\ x + offset \in word_
<1>1. ASSUME x \in GetBits(word_, offset, width)
      PROVE  x \in 0..(width - 1) /\ x + offset \in word_
  BY <1>1 DEF GetBits, Mask
<1>2. ASSUME x \in 0..(width - 1), x + offset \in word_
      PROVE  x \in GetBits(word_, offset, width)
  <2>1. x = (x + offset) - offset /\ x + offset \in word_ \cap Mask(offset, width)
    BY <1>2 DEF Mask
  <2>. QED
    BY <2>1 DEF GetBits
<1>. QED
  BY <1>1, <1>2

\* A bit of a word whose field is set is the value's inside the field and the
\* word's own outside.
LEMMA SetBit ==
  ASSUME NEW word_, word_ \subseteq Int, NEW offset \in Nat, NEW width \in Nat,
         NEW value, value \subseteq 0..(width - 1), NEW x \in Int
  PROVE  x \in SetBits(word_, offset, width, value)
           <=> IF x \in Mask(offset, width) THEN x - offset \in value
               ELSE x \in word_
<1>. value \subseteq Int /\ offset \in Int
  OBVIOUS
<1>1. x \in Shift(value, offset) <=> x - offset \in value
  BY ShiftBit
<1>2. x - offset \in value => x \in Mask(offset, width)
  BY DEF Mask
<1>. QED
  BY <1>1, <1>2 DEF SetBits

\* A word whose field is set is made of numbers.
LEMMA SetBitsType ==
  ASSUME NEW word_, word_ \subseteq Int, NEW offset \in Nat, NEW width \in Nat,
         NEW value, value \subseteq 0..(width - 1)
  PROVE  SetBits(word_, offset, width, value)
           \subseteq word_ \cup Mask(offset, width)
<1>1. \A x \in Shift(value, offset) : x \in Mask(offset, width)
  BY DEF Shift, Mask
<1>. QED
  BY <1>1 DEF SetBits

\* A field that is set reads as what it was set to.
LEMMA GetSetSame ==
  ASSUME NEW word_, word_ \subseteq Int, NEW offset \in Nat, NEW width \in Nat,
         NEW value, value \subseteq 0..(width - 1)
  PROVE  GetBits(SetBits(word_, offset, width, value), offset, width) = value
<1>. DEFINE new == SetBits(word_, offset, width, value)
<1>1. new \subseteq Int
  <2>1. new \subseteq word_ \cup Mask(offset, width)
    BY SetBitsType
  <2>2. Mask(offset, width) \subseteq Int
    BY DEF Mask
  <2>. HIDE DEF new
  <2>. QED
    BY <2>1, <2>2
<1>2. ASSUME NEW x PROVE x \in GetBits(new, offset, width) <=> x \in value
  <2>1. x \in GetBits(new, offset, width)
          <=> x \in 0..(width - 1) /\ x + offset \in new
    <3>. HIDE DEF new
    <3>. QED
      BY <1>1, GetBit
  <2>2. ASSUME x \in 0..(width - 1) PROVE x + offset \in new <=> x \in value
    <3>. DEFINE y == x + offset
    <3>1. y \in Int /\ y \in Mask(offset, width) /\ y - offset = x
      BY <2>2 DEF Mask
    <3>2. y \in new <=> IF y \in Mask(offset, width) THEN y - offset \in value
                        ELSE y \in word_
      <4>. HIDE DEF y
      <4>. QED
        BY <3>1, SetBit
    <3>. QED
      BY <3>1, <3>2
  <2>. QED
    BY <2>1, <2>2
<1>. QED
  BY <1>2

-----------------------------------------------------------------------------
(* Types.                                                                  *)

\* The days a strain lasts are fewer than eight, and are some days.
LEMMA DaysType ==
  ASSUME NEW strain \in Strains
  PROVE  DaysOf(strain) \subseteq 0..2
<1>1. strain = {} \/ strain = {0} \/ strain = {1} \/ strain = {0, 1}
  BY DEF Strains
<1>2. CASE strain = {}
  <2>. {0} \subseteq 0..2
    OBVIOUS
  <2>. QED
    BY <1>2 DEF DaysOf
<1>3. CASE strain = {0}
  BY <1>3 DEF DaysOf
<1>4. CASE strain = {1}
  BY <1>4 DEF DaysOf
<1>5. CASE strain = {0, 1}
  BY <1>5 DEF DaysOf
<1>. QED
  BY <1>1, <1>2, <1>3, <1>4, <1>5

\* The time of an hour is a value of two bits, and not all zero after dawn.
LEMMA TimeType ==
  ASSUME NEW tm_hour \in 0..23
  PROVE  TimeOfHour(tm_hour) \subseteq 0..1 /\ TimeOfHour(tm_hour) # {}
<1>1. CASE tm_hour \in 2..8
  BY <1>1 DEF TimeOfHour
<1>2. CASE tm_hour \in 9..16
  BY <1>2 DEF TimeOfHour
<1>3. CASE tm_hour \notin 2..8 /\ tm_hour \notin 9..16
  BY <1>3 DEF TimeOfHour
<1>. QED
  BY <1>1, <1>2, <1>3

\* The bit of a number is a place in the list.
LEMMA PlaceType ==
  ASSUME NEW n \in Nat
  PROVE  PokedexBitPos(n) \subseteq Place
<1>1. CASE n = 0
  BY <1>1 DEF PokedexBitPos
<1>2. CASE n # 0
  <2>1. ((n - 1) \div 8) % 256 \in 0..255
    BY <1>2
  <2>2. (n - 1) % 8 \in 0..7
    BY <1>2
  <2>. QED
    BY <1>2, <2>1, <2>2 DEF PokedexBitPos, Place
<1>. QED
  BY <1>1, <1>2

\* What the getters say of a word are small values.
LEMMA FieldType ==
  ASSUME NEW word_ \in Word
  PROVE  /\ \A f \in Stat : IV(word_, f) \subseteq 0..4
         /\ \A f \in GbStat : GbIV(word_, f) \subseteq 0..3
         /\ GetStrain(word_) \in Strains
         /\ GetDuration(word_) \subseteq 0..3
<1>. word_ \subseteq Int
  BY DEF Word
<1>1. \A offset, width \in Nat :
        GetBits(word_, offset, width) \subseteq 0..(width - 1)
  <2>. SUFFICES ASSUME NEW offset \in Nat, NEW width \in Nat,
                       NEW x \in GetBits(word_, offset, width)
                PROVE  x \in 0..(width - 1)
    OBVIOUS
  <2>. QED
    BY GetBit
<1>2. \A f \in Stat : IV(word_, f) \subseteq 0..4
  <2>. SUFFICES ASSUME NEW f \in Stat PROVE IV(word_, f) \subseteq 0..4
    OBVIOUS
  <2>1. Offset[f] \in Nat
    BY DEF Stat, Offset
  <2>2. GetBits(word_, Offset[f], 5) \subseteq 0..(5 - 1)
    BY <1>1, <2>1
  <2>. QED
    BY <2>2 DEF IV
<1>3. \A f \in GbStat : GbIV(word_, f) \subseteq 0..3
  <2>. SUFFICES ASSUME NEW f \in GbStat PROVE GbIV(word_, f) \subseteq 0..3
    OBVIOUS
  <2>1. CASE f = "HP"
    BY <2>1 DEF GbIV, GbHP
  <2>2. CASE f # "HP"
    <3>1. GbOffset[f] \in Nat
      BY <2>2 DEF GbStat, GbOffset
    <3>2. GetBits(word_, GbOffset[f], 4) \subseteq 0..(4 - 1)
      BY <1>1, <3>1
    <3>. QED
      BY <2>2, <3>2 DEF GbIV
  <2>. QED
    BY <2>1, <2>2
<1>4. GetStrain(word_) \in Strains
  BY DEF GetStrain, Strains
<1>5. GetDuration(word_) \subseteq 0..3
  BY DEF GetDuration, Mask
<1>. QED
  BY <1>2, <1>3, <1>4, <1>5

\* So are those at the start.
LEMMA FieldsType ==
  ASSUME NEW word_ \in Word, NEW kind
  PROVE  FieldsOf(kind, word_) \in [Field -> Value]
<1>. DEFINE of(f) ==
       CASE kind = "IVs" /\ f \in Stat      -> IV(word_, f)
         [] kind = "gb_IVs" /\ f \in GbStat -> GbIV(word_, f)
         [] kind = "pokerus" /\ f = "STRAIN"   -> GetStrain(word_)
         [] kind = "pokerus" /\ f = "DURATION" -> GetDuration(word_)
         [] OTHER -> {}
<1>1. ASSUME NEW f \in Field PROVE of(f) \in Value
  <2>1. CASE kind = "IVs" /\ f \in Stat
    BY <2>1, FieldType DEF Value
  <2>2. CASE kind = "gb_IVs" /\ f \in GbStat
    BY <2>2, FieldType DEF Value
  <2>3. CASE kind = "pokerus" /\ f = "STRAIN"
    BY <2>3, FieldType DEF Value, Strains
  <2>4. CASE kind = "pokerus" /\ f = "DURATION"
    BY <2>4, FieldType DEF Value
  <2>5. CASE ~(kind = "IVs" /\ f \in Stat) /\ ~(kind = "gb_IVs" /\ f \in GbStat)
             /\ ~(kind = "pokerus" /\ f = "STRAIN")
             /\ ~(kind = "pokerus" /\ f = "DURATION")
    BY <2>5 DEF Value
  <2>. QED
    BY <2>1, <2>2, <2>3, <2>4, <2>5
<1>2. FieldsOf(kind, word_) = [f \in Field |-> of(f)]
  BY DEF FieldsOf
<1>. HIDE DEF of
<1>. QED
  BY <1>1, <1>2

\* A Game Boy value stays one when a value that shares a bit is stored.
LEMMA GbStoredType ==
  ASSUME NEW old \in [Field -> Value], NEW stat \in GbStat,
         NEW value \in Value, value \subseteq 0..3
  PROVE  GbStored(old, stat, value) \in [Field -> Value]
<1>. DEFINE of(f) ==
       CASE f = stat -> value
         [] f # stat /\ stat = "HP" /\ f \in GbStat ->
              ReplaceBit(old[f], 0, value, LowBit[f])
         [] f # stat /\ stat # "HP" /\ f = "HP" ->
              ReplaceBit(old[f], LowBit[stat], value, 0)
         [] OTHER -> old[f]
<1>1. ASSUME NEW f \in Field PROVE of(f) \in Value
  <2>1. CASE f = stat
    BY <2>1
  <2>2. CASE f # stat /\ stat = "HP" /\ f \in GbStat
    BY <2>2 DEF ReplaceBit, Value
  <2>3. CASE f # stat /\ stat # "HP" /\ f = "HP"
    <3>1. LowBit[stat] \in 0..3
      BY <2>3 DEF LowBit, GbStat
    <3>. QED
      BY <2>3, <3>1 DEF ReplaceBit, Value
  <2>4. CASE f # stat /\ ~(stat = "HP" /\ f \in GbStat)
             /\ ~(stat # "HP" /\ f = "HP")
    BY <2>4
  <2>. QED
    BY <2>1, <2>2, <2>3, <2>4
<1>2. GbStored(old, stat, value) = [f \in Field |-> of(f)]
  BY DEF GbStored
<1>. HIDE DEF of
<1>. QED
  BY <1>1, <1>2

\* The types of the constants.
LEMMA ConstantTypes ==
  /\ Numbers \subseteq Nat
  /\ Values \subseteq Value
  /\ Loaded \subseteq Word
BY FieldsAssumption

\* Initially every variable has its type.
LEMMA TypeInit ==
  ASSUME Init PROVE TypeOK
<1>1. object \in WordObjects \cup {"pokedex"} /\ game \in Games
      /\ error = "NONE" /\ hour = 24
  BY DEF Init
<1>2. word \in Word /\ (object # "pokedex" => word \subseteq WordWidth[object])
  <2>1. CASE object = "pokedex"
    BY <2>1 DEF Init, Word
  <2>2. CASE object # "pokedex"
    <3>1. PICK w \in Loaded : word = w \cap WordWidth[object]
      BY <2>2 DEF Init
    <3>2. w \in Word
      BY ConstantTypes
    <3>3. word \subseteq 0..31 /\ word \subseteq WordWidth[object]
      BY <3>1, <3>2 DEF Word
    <3>. QED
      BY <3>3 DEF Word
  <2>. QED
    BY <2>1, <2>2
<1>3. fields \in [Field -> Value]
  BY <1>2, FieldsType DEF Init
<1>4. PICK numbers \in {{}, Numbers \cap (1..PKSAV_GEN3_MAX)}, full \in BOOLEAN :
        /\ pokedex = GamePokedex(numbers, full)
        /\ known = [seen |-> numbers, owned |-> {}, national |-> full]
  BY DEF Init
<1>5. pokedex.flags \in [Unlocked -> SUBSET (0..15)]
      /\ \A u \in Unlocked : pokedex.flags[u] \subseteq Width(game)[u]
  <2>1. pokedex.flags = [u \in Unlocked |-> IF full THEN Width(game)[u] ELSE {}]
    BY <1>4 DEF GamePokedex
  <2>2. \A u \in Unlocked : Width(game)[u] \subseteq 0..15
    BY DEF Unlocked, Width
  <2>. QED
    BY <2>1, <2>2
<1>6. pokedex \in Gen3Pokedex(game)
  <2>1. GamePlaces(numbers) \subseteq Place
    <3>. SUFFICES ASSUME NEW n \in numbers
                  PROVE  <<(n - 1) \div 8, (n - 1) % 8>> \in Place
      BY DEF GamePlaces
    <3>1. n \in 1..386
      BY DEF PKSAV_GEN3_MAX
    <3>2. (n - 1) \div 8 \in 0..255 /\ (n - 1) % 8 \in 0..7
      BY <3>1
    <3>. QED
      BY <3>2 DEF Place
  <2>2. pokedex = [seen |-> [list \in Seen |-> GamePlaces(numbers)],
                   owned |-> {}, flags |-> pokedex.flags]
    BY <1>4 DEF GamePokedex
  <2>3. [list \in Seen |-> GamePlaces(numbers)] \in [Seen -> SUBSET Place]
    BY <2>1
  <2>. QED
    BY <1>5, <2>2, <2>3 DEF Gen3Pokedex
<1>7. known \in [seen : SUBSET (1..PKSAV_GEN3_MAX),
                 owned : SUBSET (1..PKSAV_GEN3_MAX), national : BOOLEAN]
  BY <1>4
<1>8. loaded \in [word : Word, flags : [Unlocked -> SUBSET (0..15)]]
  BY <1>2, <1>5 DEF Init
<1>. QED
  BY <1>1, <1>2, <1>3, <1>6, <1>7, <1>8 DEF TypeOK

\* A word that is stored in keeps the width of its object.
LEMMA WordStep ==
  ASSUME TypeOK, NEW kind \in WordObjects, NEW w, StoreWord(kind, w),
         w \subseteq WordWidth[kind],
         fields' \in [Field -> Value], hour' \in 0..24
  PROVE  TypeOK'
<1>1. WordWidth[kind] \subseteq 0..31
  BY DEF WordObjects, WordWidth
<1>2. object' = kind /\ word' = w /\ error' = "NONE"
      /\ UNCHANGED <<pokedex, game, known, loaded>>
  BY DEF StoreWord
<1>. QED
  BY <1>1, <1>2 DEF TypeOK, Word

\* So does a field of it.
LEMMA FieldInWidth ==
  ASSUME NEW word_, NEW last \in Nat, word_ \subseteq 0..last,
         NEW offset \in Nat, NEW width \in Nat, offset + width - 1 <= last,
         NEW value, value \subseteq 0..(width - 1)
  PROVE  SetBits(word_, offset, width, value) \subseteq 0..last
<1>. word_ \subseteq Int
  OBVIOUS
<1>1. Mask(offset, width) \subseteq 0..last
  BY DEF Mask
<1>. QED
  BY <1>1, SetBitsType

\* A refused call changes nothing a type is about.
LEMMA RefuseType ==
  ASSUME TypeOK, NEW kind, Refuse(kind)
  PROVE  TypeOK'
BY DEF TypeOK, Refuse, Gen3Pokedex

\* A Pokedex whose lists and flags are stored keeps its type, whichever list.
LEMMA PokedexStep ==
  ASSUME TypeOK, NEW p, p \in Gen3Pokedex(game), StorePokedex(p),
         known' \in [seen : SUBSET (1..PKSAV_GEN3_MAX),
                     owned : SUBSET (1..PKSAV_GEN3_MAX), national : BOOLEAN]
  PROVE  TypeOK'
<1>1. pokedex' = p /\ error' = "NONE"
      /\ UNCHANGED <<object, word, game, fields, hour, loaded>>
  BY DEF StorePokedex
<1>2. Gen3Pokedex(game)' = Gen3Pokedex(game)
  BY <1>1 DEF Gen3Pokedex
<1>3. pokedex' \in Gen3Pokedex(game)'
  BY <1>1, <1>2
<1>. QED
  BY <1>1, <1>3 DEF TypeOK

\* What the client means is of the numbers there are.
LEMMA ToldType ==
  ASSUME NEW numbers \in SUBSET (1..PKSAV_GEN3_MAX), NEW n \in Nat,
         n <= PKSAV_GEN3_MAX, NEW set
  PROVE  Told(numbers, n, set) \in SUBSET (1..PKSAV_GEN3_MAX)
<1>1. n = 0 \/ n \in 1..PKSAV_GEN3_MAX
  BY DEF PKSAV_GEN3_MAX
<1>. QED
  BY <1>1 DEF Told

\* Flags stay within their word, whichever of the two is done.
LEMMA FlagsType ==
  ASSUME NEW p \in Gen3Pokedex(game), NEW save_type \in SaveTypes,
         NEW is_unlocked, game \in Games,
         (save_type = "FRLG") = (game = "FRLG")
  PROVE  NationalUnlocked(p, save_type, is_unlocked) \in Gen3Pokedex(game)
<1>. DEFINE of(u) == IF is_unlocked THEN p.flags[u] \cup NationalFlags(save_type)[u]
                                    ELSE p.flags[u] \ NationalFlags(save_type)[u]
            new == [u \in Unlocked |->
                      IF is_unlocked THEN p.flags[u] \cup NationalFlags(save_type)[u]
                                     ELSE p.flags[u] \ NationalFlags(save_type)[u]]
<1>1. ASSUME NEW u \in Unlocked
      PROVE  of(u) \in SUBSET (0..15) /\ of(u) \subseteq Width(game)[u]
  <2>1. p.flags[u] \in SUBSET (0..15) /\ p.flags[u] \subseteq Width(game)[u]
    BY DEF Gen3Pokedex
  <2>2. NationalFlags(save_type)[u] \subseteq 0..15
        /\ NationalFlags(save_type)[u] \subseteq Width(game)[u]
    <3>1. CASE u = "unlockedA" /\ game = "FRLG"
      BY <3>1 DEF NationalFlags, FlagA, Width
    <3>2. CASE u = "unlockedA" /\ game # "FRLG"
      BY <3>2 DEF NationalFlags, FlagA, Width
    <3>3. CASE u = "unlockedB"
      BY <3>3 DEF NationalFlags, FlagB, Width
    <3>4. CASE u = "unlockedC"
      BY <3>4 DEF NationalFlags, FlagC, Width
    <3>. QED
      BY <3>1, <3>2, <3>3, <3>4 DEF Unlocked
  <2>. QED
    BY <2>1, <2>2
<1>2. NationalUnlocked(p, save_type, is_unlocked) =
        [seen |-> p.seen, owned |-> p.owned, flags |-> new]
  <2>1. NationalUnlocked(p, save_type, is_unlocked) = [p EXCEPT !.flags = new]
    BY Zenon DEF NationalUnlocked
  <2>. HIDE DEF new
  <2>. QED
    BY <2>1 DEF Gen3Pokedex
<1>3. new \in [Unlocked -> SUBSET (0..15)]
      /\ \A u \in Unlocked : new[u] \subseteq Width(game)[u]
  <2>1. new = [u \in Unlocked |-> of(u)]
    OBVIOUS
  <2>. HIDE DEF of, new
  <2>. QED
    BY <1>1, <2>1
<1>. HIDE DEF new
<1>4. p.seen \in [Seen -> SUBSET Place] /\ p.owned \in SUBSET Place
  BY DEF Gen3Pokedex
<1>. QED
  BY <1>2, <1>3, <1>4 DEF Gen3Pokedex

\* Lists stay lists of places.
LEMMA ListsType ==
  ASSUME NEW p \in Gen3Pokedex(game), NEW n \in Nat, NEW set
  PROVE  /\ HasSeen(p, n, set) \in Gen3Pokedex(game)
         /\ [p EXCEPT !.owned = SetPokedexBit(@, n, set)] \in Gen3Pokedex(game)
<1>1. p.seen \in [Seen -> SUBSET Place] /\ p.owned \in SUBSET Place
  BY DEF Gen3Pokedex
<1>2. ASSUME NEW list \in SUBSET Place
      PROVE  SetPokedexBit(list, n, set) \in SUBSET Place
  BY PlaceType DEF SetPokedexBit
<1>. DEFINE seen == [list \in Seen |-> SetPokedexBit(p.seen[list], n, set)]
            owned == SetPokedexBit(p.owned, n, set)
<1>3. HasSeen(p, n, set) = [seen |-> seen, owned |-> p.owned, flags |-> p.flags]
  BY DEF HasSeen, Gen3Pokedex
<1>4. [p EXCEPT !.owned = SetPokedexBit(@, n, set)] =
        [seen |-> p.seen, owned |-> owned, flags |-> p.flags]
  BY DEF Gen3Pokedex
<1>5. seen \in [Seen -> SUBSET Place] /\ owned \in SUBSET Place
  BY <1>1, <1>2
<1>6. p.flags \in {f \in [Unlocked -> SUBSET (0..15)] :
                     \A u \in Unlocked : f[u] \subseteq Width(game)[u]}
  BY DEF Gen3Pokedex
<1>. HIDE DEF seen, owned
<1>. QED
  BY <1>1, <1>3, <1>4, <1>5, <1>6 DEF Gen3Pokedex

\* The values a setter lets through, and those of the history.
LEMMA FieldsStep ==
  ASSUME fields \in [Field -> Value], NEW f \in Field, NEW value \in Value
  PROVE  [fields EXCEPT ![f] = value] \in [Field -> Value]
OBVIOUS

\* Every step keeps every type.
LEMMA TypeStep ==
  ASSUME TypeOK, [Next]_vars PROVE TypeOK'
<1>. USE ConstantTypes
<1>1. word \subseteq 0..31 /\ fields \in [Field -> Value] /\ hour \in 0..24
      /\ game \in Games /\ pokedex \in Gen3Pokedex(game)
      /\ known \in [seen : SUBSET (1..PKSAV_GEN3_MAX),
                    owned : SUBSET (1..PKSAV_GEN3_MAX), national : BOOLEAN]
      /\ (object # "pokedex" => word \subseteq WordWidth[object])
  BY DEF TypeOK, Word
<1>2. CASE StoreIV
  <2>1. PICK stat \in Stat \cup {"NONE"}, value \in Values :
          \/ Refuse("IVs")
          \/ /\ stat # "NONE" /\ InRange(value, 5)
             /\ StoreWord("IVs", SetIV(word, stat, value))
             /\ fields' = [fields EXCEPT ![stat] = value]
             /\ UNCHANGED hour
    BY <1>2 DEF StoreIV
  <2>2. CASE Refuse("IVs")
    BY <2>2, RefuseType
  <2>3. CASE /\ stat # "NONE" /\ InRange(value, 5)
             /\ StoreWord("IVs", SetIV(word, stat, value))
             /\ fields' = [fields EXCEPT ![stat] = value]
             /\ UNCHANGED hour
    <3>1. Offset[stat] \in 0..25 /\ stat \in Field
      BY <2>3 DEF Stat, Offset, Field
    <3>2. value \subseteq 0..(5 - 1)
      BY <2>3 DEF InRange, Mask
    <3>3. SetIV(word, stat, value) \subseteq 0..31
      <4>. DEFINE offset == Offset[stat]
      <4>1. offset \in Nat /\ offset + 5 - 1 <= 31
        BY <3>1
      <4>. HIDE DEF offset
      <4>2. SetBits(word, offset, 5, value) \subseteq 0..31
        BY <1>1, <3>2, <4>1, FieldInWidth
      <4>. QED
        BY <4>2 DEF offset, SetIV
    <3>4. fields' \in [Field -> Value]
      BY <1>1, <2>3, <3>1, FieldsStep
    <3>5. WordWidth["IVs"] = 0..31 /\ "IVs" \in WordObjects
      BY DEF WordWidth, WordObjects
    <3>. QED
      BY <1>1, <2>3, <3>3, <3>4, <3>5, WordStep
  <2>. QED
    BY <2>1, <2>2, <2>3
<1>3. CASE StoreGbIV
  <2>1. PICK stat \in GbStat \cup {"NONE"}, value \in Values :
          \/ Refuse("gb_IVs")
          \/ /\ stat # "NONE" /\ InRange(value, 4)
             /\ StoreWord("gb_IVs", SetGbIV(word, stat, value))
             /\ fields' = GbStored(fields, stat, value)
             /\ UNCHANGED hour
    BY <1>3 DEF StoreGbIV
  <2>2. CASE Refuse("gb_IVs")
    BY <2>2, RefuseType
  <2>3. CASE /\ stat # "NONE" /\ InRange(value, 4)
             /\ StoreWord("gb_IVs", SetGbIV(word, stat, value))
             /\ fields' = GbStored(fields, stat, value)
             /\ UNCHANGED hour
    <3>1. stat \in GbStat
      BY <2>3
    <3>2. value \subseteq 0..(4 - 1)
      BY <2>3 DEF InRange, Mask
    <3>3. word \subseteq 0..15
      BY <1>1, <2>3 DEF StoreWord, WordWidth
    <3>4. SetGbIV(word, stat, value) \subseteq 0..15
      <4>1. CASE stat = "HP"
        <5>1. {4 * bit : bit \in value} \subseteq 0..15
          BY <3>2
        <5>. QED
          BY <3>3, <4>1, <5>1 DEF SetGbIV
      <4>2. CASE stat # "HP"
        <5>. DEFINE offset == GbOffset[stat]
        <5>1. offset \in Nat /\ offset + 4 - 1 <= 15
          BY <3>1, <4>2 DEF GbStat, GbOffset
        <5>. HIDE DEF offset
        <5>2. SetBits(word, offset, 4, value) \subseteq 0..15
          BY <3>2, <3>3, <5>1, FieldInWidth
        <5>. QED
          BY <4>2, <5>2 DEF offset, SetGbIV
      <4>. QED
        BY <4>1, <4>2
    <3>5. fields' \in [Field -> Value]
      <4>1. value \in Value /\ value \subseteq 0..3
        BY <3>2
      <4>. QED
        BY <1>1, <2>3, <3>1, <4>1, GbStoredType
    <3>6. WordWidth["gb_IVs"] = 0..15 /\ "gb_IVs" \in WordObjects
      BY DEF WordWidth, WordObjects
    <3>. QED
      BY <1>1, <2>3, <3>4, <3>5, <3>6, WordStep
  <2>. QED
    BY <2>1, <2>2, <2>3
<1>4. CASE StoreStrain
  <2>1. PICK strain \in Strains :
          /\ StoreWord("pokerus", SetStrain(strain))
          /\ fields' = [fields EXCEPT !["STRAIN"] = strain,
                                      !["DURATION"] = DaysOf(strain)]
          /\ UNCHANGED hour
    BY <1>4 DEF StoreStrain
  <2>2. DaysOf(strain) \subseteq 0..2
    BY DaysType
  <2>3. SetStrain(strain) \subseteq 0..7
    BY <2>2 DEF SetStrain, Shift, Strains
  <2>4. fields' \in [Field -> Value]
    <3>1. strain \in Value /\ DaysOf(strain) \in Value
          /\ "STRAIN" \in Field /\ "DURATION" \in Field
      BY <2>2 DEF Strains, Value, Field
    <3>. QED
      BY <1>1, <2>1, <3>1
  <2>5. WordWidth["pokerus"] = 0..7 /\ "pokerus" \in WordObjects
    BY DEF WordWidth, WordObjects
  <2>. QED
    BY <1>1, <2>1, <2>3, <2>4, <2>5, WordStep
<1>5. CASE StoreDuration
  <2>1. PICK duration \in Values :
          \/ Refuse("pokerus")
          \/ /\ InRange(duration, 4)
             /\ StoreWord("pokerus", SetDuration(word, duration))
             /\ fields' = [fields EXCEPT
                             !["DURATION"] = duration,
                             !["STRAIN"] = IF Incompatible(duration)
                                           THEN duration \cap {0, 1} ELSE @]
             /\ UNCHANGED hour
    BY <1>5 DEF StoreDuration
  <2>2. CASE Refuse("pokerus")
    BY <2>2, RefuseType
  <2>3. CASE /\ InRange(duration, 4)
             /\ StoreWord("pokerus", SetDuration(word, duration))
             /\ fields' = [fields EXCEPT
                             !["DURATION"] = duration,
                             !["STRAIN"] = IF Incompatible(duration)
                                           THEN duration \cap {0, 1} ELSE @]
             /\ UNCHANGED hour
    <3>1. duration \subseteq 0..(4 - 1) /\ duration \cap {0, 1} \subseteq 0..(4 - 1)
      BY <2>3 DEF InRange, Mask
    <3>2. word \subseteq 0..7
      BY <1>1, <2>3 DEF StoreWord, WordWidth
    <3>. DEFINE set == SetBits(word, 0, 4, duration)
    <3>3. set \subseteq 0..7
      <4>1. Shift(duration, 0) \subseteq 0..7
        BY <3>1 DEF Shift
      <4>. QED
        BY <3>2, <4>1 DEF SetBits
    <3>4. SetBits(set, 4, 4, duration \cap {0, 1}) \subseteq 0..7
      <4>1. Shift(duration \cap {0, 1}, 4) \subseteq 0..7
        BY DEF Shift
      <4>. HIDE DEF set
      <4>. QED
        BY <3>3, <4>1 DEF SetBits
    <3>5. SetDuration(word, duration) \subseteq 0..7
      BY <3>3, <3>4 DEF SetDuration
    <3>6. fields' \in [Field -> Value]
      <4>1. "STRAIN" \in Field /\ "DURATION" \in Field
            /\ duration \in Value /\ duration \cap {0, 1} \in Value
        BY <3>1 DEF Value, Field
      <4>. QED
        BY <1>1, <2>3, <4>1
    <3>7. WordWidth["pokerus"] = 0..7 /\ "pokerus" \in WordObjects
      BY DEF WordWidth, WordObjects
    <3>. HIDE DEF set
    <3>. QED
      BY <1>1, <2>3, <3>5, <3>6, <3>7, WordStep
  <2>. QED
    BY <2>1, <2>2, <2>3
<1>6. CASE StoreCaughtTime
  <2>1. PICK tm_hour \in 0..23 :
          /\ StoreWord("caught_data", SetCaughtTime(word, tm_hour))
          /\ hour' = tm_hour
          /\ UNCHANGED fields
    BY <1>6 DEF StoreCaughtTime
  <2>2. TimeOfHour(tm_hour) \subseteq 0..(2 - 1)
    BY TimeType
  <2>3. word \subseteq 0..15
    BY <1>1, <2>1 DEF StoreWord, WordWidth
  <2>4. SetCaughtTime(word, tm_hour) \subseteq 0..15
    <3>. DEFINE time == TimeOfHour(tm_hour)
    <3>. HIDE DEF time
    <3>1. time \subseteq 0..1
      BY <2>2 DEF time
    <3>2. Shift(time, 14) \subseteq 0..15
      BY <3>1 DEF Shift
    <3>3. SetBits(word, 14, 2, time) \subseteq 0..15
      BY <2>3, <3>2 DEF SetBits
    <3>. QED
      BY <3>3 DEF SetCaughtTime, time
  <2>5. WordWidth["caught_data"] = 0..15 /\ "caught_data" \in WordObjects
    BY DEF WordWidth, WordObjects
  <2>. QED
    BY <1>1, <2>1, <2>4, <2>5, WordStep
<1>7. CASE StoreSeen
  <2>1. PICK n \in Numbers, set \in BOOLEAN :
          \/ Refuse("pokedex")
          \/ /\ n <= PKSAV_GEN3_MAX
             /\ StorePokedex(HasSeen(pokedex, n, set))
             /\ known' = [known EXCEPT !.seen = Told(@, n, set)]
    BY <1>7 DEF StoreSeen
  <2>2. CASE Refuse("pokedex")
    BY <2>2, RefuseType
  <2>3. CASE /\ n <= PKSAV_GEN3_MAX
             /\ StorePokedex(HasSeen(pokedex, n, set))
             /\ known' = [known EXCEPT !.seen = Told(@, n, set)]
    <3>1. Told(known.seen, n, set) \in SUBSET (1..PKSAV_GEN3_MAX)
      BY <1>1, <2>3, ToldType
    <3>2. HasSeen(pokedex, n, set) \in Gen3Pokedex(game)
      BY <1>1, ListsType
    <3>3. known' \in [seen : SUBSET (1..PKSAV_GEN3_MAX),
                      owned : SUBSET (1..PKSAV_GEN3_MAX), national : BOOLEAN]
      BY <1>1, <2>3, <3>1
    <3>. QED
      BY <2>3, <3>2, <3>3, PokedexStep
  <2>. QED
    BY <2>1, <2>2, <2>3
<1>8. CASE StoreOwned
  <2>1. PICK n \in Numbers, set \in BOOLEAN :
          /\ n <= PKSAV_GEN3_MAX
          /\ StorePokedex([pokedex EXCEPT !.owned = SetPokedexBit(@, n, set)])
          /\ known' = [known EXCEPT !.owned = Told(@, n, set)]
    BY <1>8 DEF StoreOwned
  <2>2. Told(known.owned, n, set) \in SUBSET (1..PKSAV_GEN3_MAX)
    BY <1>1, <2>1, ToldType
  <2>3. [pokedex EXCEPT !.owned = SetPokedexBit(@, n, set)] \in Gen3Pokedex(game)
    BY <1>1, ListsType
  <2>4. known' \in [seen : SUBSET (1..PKSAV_GEN3_MAX),
                    owned : SUBSET (1..PKSAV_GEN3_MAX), national : BOOLEAN]
    BY <1>1, <2>1, <2>2
  <2>. QED
    BY <2>1, <2>3, <2>4, PokedexStep
<1>9. CASE StoreNational
  <2>1. PICK save_type \in SaveTypes \cup {"OUT_OF_RANGE"}, set \in BOOLEAN :
          \/ Refuse("pokedex")
          \/ /\ save_type \in SaveTypes
             /\ (save_type = "FRLG") = (game = "FRLG")
             /\ StorePokedex(NationalUnlocked(pokedex, save_type, set))
             /\ known' = [known EXCEPT !.national = set]
    BY <1>9 DEF StoreNational
  <2>2. CASE Refuse("pokedex")
    BY <2>2, RefuseType
  <2>3. CASE /\ save_type \in SaveTypes
             /\ (save_type = "FRLG") = (game = "FRLG")
             /\ StorePokedex(NationalUnlocked(pokedex, save_type, set))
             /\ known' = [known EXCEPT !.national = set]
    <3>1. NationalUnlocked(pokedex, save_type, set) \in Gen3Pokedex(game)
      BY <1>1, <2>3, FlagsType
    <3>2. known' \in [seen : SUBSET (1..PKSAV_GEN3_MAX),
                      owned : SUBSET (1..PKSAV_GEN3_MAX), national : BOOLEAN]
      BY <1>1, <2>3
    <3>. QED
      BY <2>3, <3>1, <3>2, PokedexStep
  <2>. QED
    BY <2>1, <2>2, <2>3
<1>10. CASE UNCHANGED vars
  BY <1>10 DEF vars, TypeOK, Gen3Pokedex
<1>. QED
  BY <1>2, <1>3, <1>4, <1>5, <1>6, <1>7, <1>8, <1>9, <1>10 DEF Next

\* Every variable keeps its type, for any numbers, values and words.
THEOREM TypeCorrect == Spec => []TypeOK
<1>1. Init => TypeOK
  BY TypeInit
<1>2. TypeOK /\ [Next]_vars => TypeOK'
  BY TypeStep
<1>. QED
  BY <1>1, <1>2, PTL DEF Spec

-----------------------------------------------------------------------------
(* Individual values.                                                      *)

\* A behaviour stays at its object, in its game, and every operation is of
\* one object.
LEMMA OneObject ==
  ASSUME [Next]_vars
  PROVE  /\ object' = object /\ game' = game /\ loaded' = loaded
         /\ StoreIV => object = "IVs"
         /\ StoreGbIV => object = "gb_IVs"
         /\ StoreStrain \/ StoreDuration => object = "pokerus"
         /\ StoreCaughtTime => object = "caught_data"
         /\ StoreSeen \/ StoreOwned \/ StoreNational => object = "pokedex"
<1>1. StoreIV => object = "IVs" /\ UNCHANGED <<object, game, loaded>>
  BY DEF StoreIV, Refuse, StoreWord
<1>2. StoreGbIV => object = "gb_IVs" /\ UNCHANGED <<object, game, loaded>>
  BY DEF StoreGbIV, Refuse, StoreWord
<1>3. StoreStrain => object = "pokerus" /\ UNCHANGED <<object, game, loaded>>
  BY DEF StoreStrain, Refuse, StoreWord
<1>4. StoreDuration => object = "pokerus" /\ UNCHANGED <<object, game, loaded>>
  BY DEF StoreDuration, Refuse, StoreWord
<1>5. StoreCaughtTime =>
        object = "caught_data" /\ UNCHANGED <<object, game, loaded>>
  BY DEF StoreCaughtTime, Refuse, StoreWord
<1>6. StoreSeen => object = "pokedex" /\ UNCHANGED <<object, game, loaded>>
  BY DEF StoreSeen, Refuse, StorePokedex
<1>7. StoreOwned => object = "pokedex" /\ UNCHANGED <<object, game, loaded>>
  BY DEF StoreOwned, Refuse, StorePokedex
<1>8. StoreNational => object = "pokedex" /\ UNCHANGED <<object, game, loaded>>
  BY DEF StoreNational, Refuse, StorePokedex
<1>9. UNCHANGED vars => UNCHANGED <<object, game, loaded>>
  BY DEF vars
<1>. QED
  BY <1>1, <1>2, <1>3, <1>4, <1>5, <1>6, <1>7, <1>8, <1>9 DEF Next

\* What storing in one of several fields of the same width does: it reads as
\* it was set to, the fields on either side as before, and so does every bit.
LEMMA FieldStored ==
  ASSUME NEW word_ \in Word, NEW offset \in Nat, NEW width \in Nat,
         NEW value, InRange(value, width), NEW new,
         new = SetBits(word_, offset, width, value)
  PROVE  /\ GetBits(new, offset, width) = value
         /\ \A other \in Nat :
              other + width <= offset \/ offset + width <= other =>
                GetBits(new, other, width) = GetBits(word_, other, width)
         /\ \A x \in Int :
              x \in new <=> IF offset <= x /\ x < offset + width
                           THEN x - offset \in value ELSE x \in word_
<1>0. word_ \subseteq Int /\ value \subseteq 0..(width - 1)
  BY DEF Word, InRange, Mask
<1>1. GetBits(new, offset, width) = value
  BY <1>0, GetSetSame
<1>2. ASSUME NEW x \in Int
      PROVE  x \in new <=> IF offset <= x /\ x < offset + width
                          THEN x - offset \in value ELSE x \in word_
  <2>1. x \in new <=> IF x \in Mask(offset, width) THEN x - offset \in value
                     ELSE x \in word_
    BY <1>0, SetBit
  <2>2. x \in Mask(offset, width) <=> offset <= x /\ x < offset + width
    BY DEF Mask
  <2>. QED
    BY <2>1, <2>2
<1>3. ASSUME NEW other \in Nat,
             other + width <= offset \/ offset + width <= other
      PROVE  GetBits(new, other, width) = GetBits(word_, other, width)
  <2>1. ASSUME NEW x \in Mask(other, width) PROVE x \in new <=> x \in word_
    <3>1. x \in Int /\ ~(offset <= x /\ x < offset + width)
      BY <1>3 DEF Mask
    <3>. QED
      BY <1>2, <3>1
  <2>2. new \cap Mask(other, width) = word_ \cap Mask(other, width)
    BY <2>1
  <2>. QED
    BY <2>2 DEF GetBits
<1>. QED
  BY <1>1, <1>2, <1>3

\* IVsAreIntended, read value by value instead of through a buffer.
IVInv ==
  object = "IVs" =>
    /\ \A stat \in Stat : IV(word, stat) = fields[stat]
    /\ word \cap {30, 31} = loaded.word \cap {30, 31}

\* What is loaded is what the getters read of it.
LEMMA IVInit ==
  ASSUME Init PROVE IVInv
<1>1. SUFFICES ASSUME object = "IVs", NEW stat \in Stat
               PROVE  IV(word, stat) = fields[stat]
  BY DEF IVInv, Init
<1>2. stat \in Field
  BY DEF Field
<1>3. fields = FieldsOf("IVs", word)
  BY <1>1 DEF Init
<1>4. FieldsOf("IVs", word)[stat] = IV(word, stat)
  BY <1>2 DEF FieldsOf
<1>. QED
  BY <1>3, <1>4

\* Storing one value leaves the other five and the two bits behind them.
LEMMA IVStep ==
  ASSUME TypeOK, IVInv, [Next]_vars PROVE IVInv'
<1>1. SUFFICES ASSUME object' = "IVs"
               PROVE  /\ \A stat \in Stat : IV(word', stat) = fields'[stat]
                      /\ word' \cap {30, 31} = loaded.word \cap {30, 31}
  BY OneObject DEF IVInv
<1>2. /\ object = "IVs" /\ word \in Word /\ fields \in [Field -> Value]
      /\ \A stat \in Stat : IV(word, stat) = fields[stat]
      /\ word \cap {30, 31} = loaded.word \cap {30, 31}
  BY <1>1, OneObject DEF IVInv, TypeOK
<1>3. CASE UNCHANGED vars
  BY <1>2, <1>3 DEF vars
<1>4. CASE StoreIV
  <2>1. PICK stat \in Stat \cup {"NONE"}, value \in Values :
          \/ Refuse("IVs")
          \/ /\ stat # "NONE" /\ InRange(value, 5)
             /\ StoreWord("IVs", SetIV(word, stat, value))
             /\ fields' = [fields EXCEPT ![stat] = value]
    BY <1>4 DEF StoreIV
  <2>2. CASE Refuse("IVs")
    BY <1>2, <2>2 DEF Refuse
  <2>3. CASE /\ stat # "NONE" /\ InRange(value, 5)
             /\ StoreWord("IVs", SetIV(word, stat, value))
             /\ fields' = [fields EXCEPT ![stat] = value]
    <3>. DEFINE offset == Offset[stat]
    <3>1. stat \in Stat /\ stat \in Field
      BY <2>3 DEF Field
    <3>2. offset \in Nat /\ offset + 5 <= 30
      BY <3>1 DEF Stat, Offset
    <3>3. word' = SetBits(word, offset, 5, value)
      BY <2>3 DEF StoreWord, SetIV
    <3>4. /\ GetBits(word', offset, 5) = value
          /\ \A other \in Nat : other + 5 <= offset \/ offset + 5 <= other =>
               GetBits(word', other, 5) = GetBits(word, other, 5)
          /\ \A x \in Int : x \in word' <=> IF offset <= x /\ x < offset + 5
                                         THEN x - offset \in value ELSE x \in word
      BY <1>2, <2>3, <3>2, <3>3, FieldStored
    <3>5. ASSUME NEW f \in Stat PROVE IV(word', f) = fields'[f]
      <4>. DEFINE other == Offset[f]
      <4>1. other \in Nat /\ f \in Field
        BY DEF Stat, Offset, Field
      <4>2. CASE f = stat
        <5>1. fields'[f] = value
          BY <1>2, <2>3, <4>1, <4>2
        <5>. QED
          BY <3>4, <4>2, <5>1 DEF IV
      <4>3. CASE f # stat
        <5>1. other + 5 <= offset \/ offset + 5 <= other
          BY <3>1, <4>3 DEF Stat, Offset
        <5>. HIDE DEF offset, other
        <5>2. GetBits(word', other, 5) = GetBits(word, other, 5)
          BY <3>4, <4>1, <5>1
        <5>3. fields'[f] = fields[f]
          BY <1>2, <2>3, <4>1, <4>3
        <5>. QED
          BY <1>2, <5>2, <5>3 DEF IV, other
      <4>. QED
        BY <4>2, <4>3
    <3>6. ASSUME NEW x \in {30, 31} PROVE x \in word' <=> x \in word
      <4>. HIDE DEF offset
      <4>. QED
        BY <3>2, <3>4
    <3>. QED
      BY <1>2, <3>5, <3>6
  <2>. QED
    BY <2>1, <2>2, <2>3
<1>. QED
  BY <1>2, <1>3, <1>4, OneObject DEF Next

\* Reading value by value, a buffer of any size is filled as far as it goes.
LEMMA IVRead ==
  ASSUME IVInv PROVE IVsAreIntended
<1>1. SUFFICES ASSUME object = "IVs", NEW size \in 0..6
               PROVE  GetIVs(word, Junk, size) =
                        [i \in 1..6 |-> IF i <= size THEN fields[Order[i]]
                                                     ELSE Junk[i]]
  BY DEF IVInv, IVsAreIntended
<1>2. \A i \in 1..6 : Order[i] \in Stat
  BY DEF Order, Stat
<1>3. \A i \in 1..6 : IV(word, Order[i]) = fields[Order[i]]
  BY <1>1, <1>2 DEF IVInv
<1>4. GetIVs(word, Junk, size) =
        [i \in 1..6 |-> IF i <= size THEN IV(word, Order[i]) ELSE Junk[i]]
  BY DEF GetIVs, Junk
<1>. QED
  BY <1>3, <1>4

\* Whatever is stored in one individual value, in any order, the others and
\* the two bits behind them stay.
THEOREM IVsCorrect == Spec => []IVsAreIntended
<1>1. Init => TypeOK /\ IVInv
  BY TypeInit, IVInit
<1>2. TypeOK /\ IVInv /\ [Next]_vars => TypeOK' /\ IVInv'
  BY TypeStep, IVStep
<1>3. IVInv => IVsAreIntended
  BY IVRead
<1>. QED
  BY <1>1, <1>2, <1>3, PTL DEF Spec

\* GbIVsAreIntended, read value by value.
GbInv ==
  object = "gb_IVs" => \A stat \in GbStat : GbIV(word, stat) = fields[stat]

\* What is loaded is what the getters read of it.
LEMMA GbInit ==
  ASSUME Init PROVE GbInv
<1>1. SUFFICES ASSUME object = "gb_IVs", NEW stat \in GbStat
               PROVE  GbIV(word, stat) = fields[stat]
  BY DEF GbInv
<1>2. stat \in Field
  BY DEF Field
<1>3. fields = FieldsOf("gb_IVs", word)
  BY <1>1 DEF Init
<1>4. FieldsOf("gb_IVs", word)[stat] = GbIV(word, stat)
  BY <1>2 DEF FieldsOf
<1>. QED
  BY <1>3, <1>4

\* Storing HP reaches the lowest bit of each of the four.
LEMMA GbStoreHP ==
  ASSUME NEW word_ \in Word, NEW value, InRange(value, 4),
         NEW old \in [Field -> Value],
         \A stat \in GbStat : GbIV(word_, stat) = old[stat],
         NEW f \in GbStat
  PROVE  GbIV(SetGbIV(word_, "HP", value), f) = GbStored(old, "HP", value)[f]
<1>. DEFINE new == (word_ \ {0, 4, 8, 12}) \cup {4 * bit : bit \in value}
<1>0. word_ \subseteq Int /\ value \subseteq 0..3 /\ f \in Field
  BY DEF Word, InRange, Mask, Field
<1>1. SetGbIV(word_, "HP", value) = new
  BY DEF SetGbIV
<1>2. ASSUME NEW x \in Int
      PROVE  x \in new <=> \/ x \in word_ /\ x \notin {0, 4, 8, 12}
                           \/ \E bit \in value : x = 4 * bit
  OBVIOUS
<1>. HIDE DEF new
<1>4. CASE f = "HP"
  <2>1. GbHP(new) = value
    <3>1. ASSUME NEW bit \in 0..3 PROVE 4 * bit \in new <=> bit \in value
      <4>1. 4 * bit \in {0, 4, 8, 12}
        OBVIOUS
      <4>2. \A other \in value : 4 * bit = 4 * other => bit = other
        BY <1>0
      <4>. QED
        BY <1>2, <4>1, <4>2
    <3>. QED
      BY <1>0, <3>1 DEF GbHP
  <2>2. GbStored(old, "HP", value)[f] = value
    BY <1>0, <1>4 DEF GbStored
  <2>. QED
    BY <1>1, <1>4, <2>1, <2>2 DEF GbIV
<1>5. CASE f # "HP"
  <2>. DEFINE offset == GbOffset[f]
              low == LowBit[f]
  <2>1. offset \in {0, 4, 8, 12} /\ offset = 4 * low /\ low \in 0..3
    BY <1>5 DEF GbStat, GbOffset, LowBit
  <2>2. GbStored(old, "HP", value)[f] = ReplaceBit(old[f], 0, value, low)
    BY <1>0, <1>5 DEF GbStored
  <2>3. GbIV(new, f) = GetBits(new, offset, 4)
        /\ GbIV(word_, f) = GetBits(word_, offset, 4)
    BY <1>5 DEF GbIV
  <2>4. old[f] = GetBits(word_, offset, 4)
    BY <2>3
  <2>. HIDE DEF offset, low
  <2>5. ASSUME NEW x
        PROVE  x \in GetBits(new, offset, 4)
                 <=> x \in ReplaceBit(GetBits(word_, offset, 4), 0, value, low)
    <3>. offset \in Nat
      BY <2>1
    <3>1. x \in GetBits(new, offset, 4) <=> x \in 0..3 /\ x + offset \in new
      BY GetBit
    <3>2. x \in GetBits(word_, offset, 4) <=> x \in 0..3 /\ x + offset \in word_
      BY GetBit
    <3>3. CASE x = 0
      <4>1. offset \in new <=> low \in value
        BY <1>0, <1>2, <2>1
      <4>. QED
        BY <2>1, <3>1, <3>3, <4>1 DEF ReplaceBit
    <3>4. CASE x \in 1..3
      <4>1. x + offset \in Int /\ x + offset \notin {0, 4, 8, 12}
        BY <2>1, <3>4
      <4>2. \A bit \in value : x + offset # 4 * bit
        BY <1>0, <2>1, <3>4
      <4>3. x + offset \in new <=> x + offset \in word_
        BY <1>2, <4>1, <4>2
      <4>. QED
        BY <3>1, <3>2, <3>4, <4>3 DEF ReplaceBit
    <3>5. CASE x \notin 0..3
      BY <3>1, <3>2, <3>5 DEF ReplaceBit
    <3>. QED
      BY <3>3, <3>4, <3>5
  <2>6. GetBits(new, offset, 4)
          = ReplaceBit(GetBits(word_, offset, 4), 0, value, low)
    BY <2>5
  <2>. QED
    BY <1>1, <2>2, <2>3, <2>4, <2>6
<1>. QED
  BY <1>4, <1>5

\* Storing one of the four reaches one bit of HP, and none of the other three.
LEMMA GbStoreOther ==
  ASSUME NEW word_ \in Word, NEW value, InRange(value, 4),
         NEW old \in [Field -> Value],
         \A g \in GbStat : GbIV(word_, g) = old[g],
         NEW stat \in GbStat, stat # "HP", NEW f \in GbStat
  PROVE  GbIV(SetGbIV(word_, stat, value), f) = GbStored(old, stat, value)[f]
<1>. DEFINE offset == GbOffset[stat]
            low == LowBit[stat]
            new == SetGbIV(word_, stat, value)
<1>0. word_ \subseteq Int /\ value \subseteq 0..3 /\ f \in Field
  BY DEF Word, InRange, Mask, Field
<1>1. offset \in Nat /\ offset = 4 * low /\ low \in 0..3
  BY DEF GbStat, GbOffset, LowBit
<1>2. new = SetBits(word_, offset, 4, value)
  BY DEF SetGbIV
<1>. HIDE DEF new
<1>3. /\ GetBits(new, offset, 4) = value
      /\ \A other \in Nat : other + 4 <= offset \/ offset + 4 <= other =>
           GetBits(new, other, 4) = GetBits(word_, other, 4)
      /\ \A x \in Int : x \in new <=> IF offset <= x /\ x < offset + 4
                                     THEN x - offset \in value ELSE x \in word_
  <2>. HIDE DEF offset, low
  <2>. QED
    BY <1>1, <1>2, FieldStored
<1>4. CASE f = stat
  <2>1. GbStored(old, stat, value)[f] = value
    BY <1>0, <1>4 DEF GbStored
  <2>. QED
    BY <1>3, <1>4, <2>1 DEF GbIV, new
<1>5. CASE f # stat /\ f # "HP"
  <2>. DEFINE other == GbOffset[f]
  <2>1. other \in Nat /\ (other + 4 <= offset \/ offset + 4 <= other)
    BY <1>5 DEF GbStat, GbOffset
  <2>2. GbStored(old, stat, value)[f] = old[f]
    BY <1>0, <1>5 DEF GbStored
  <2>3. GbIV(new, f) = GetBits(new, other, 4)
        /\ GbIV(word_, f) = GetBits(word_, other, 4)
    BY <1>5 DEF GbIV
  <2>. HIDE DEF other, offset, low
  <2>4. GetBits(new, other, 4) = GetBits(word_, other, 4)
    BY <1>3, <2>1
  <2>. QED
    BY <2>2, <2>3, <2>4 DEF new
<1>6. CASE f = "HP"
  <2>1. GbStored(old, stat, value)[f] = ReplaceBit(old[f], low, value, 0)
    BY <1>0, <1>6 DEF GbStored
  <2>2. old[f] = GbHP(word_) /\ GbIV(new, f) = GbHP(new)
    BY <1>6 DEF GbIV
  <2>. HIDE DEF offset, low
  <2>3. ASSUME NEW bit
        PROVE  bit \in GbHP(new) <=> bit \in ReplaceBit(GbHP(word_), low, value, 0)
    <3>1. CASE bit \notin 0..3
      BY <1>1, <3>1 DEF GbHP, ReplaceBit
    <3>2. CASE bit \in 0..3 /\ bit = low
      <4>1. 4 * bit \in Int /\ offset <= 4 * bit /\ 4 * bit < offset + 4
            /\ 4 * bit - offset = 0
        BY <1>1, <3>2
      <4>2. 4 * bit \in new <=> 0 \in value
        BY <1>3, <4>1
      <4>. QED
        BY <3>2, <4>2 DEF GbHP, ReplaceBit
    <3>3. CASE bit \in 0..3 /\ bit # low
      <4>1. 4 * bit \in Int /\ ~(offset <= 4 * bit /\ 4 * bit < offset + 4)
        BY <1>1, <3>3
      <4>2. 4 * bit \in new <=> 4 * bit \in word_
        BY <1>3, <4>1
      <4>. QED
        BY <3>3, <4>2 DEF GbHP, ReplaceBit
    <3>. QED
      BY <3>1, <3>2, <3>3
  <2>4. GbHP(new) = ReplaceBit(GbHP(word_), low, value, 0)
    BY <2>3
  <2>. QED
    BY <2>1, <2>2, <2>4 DEF new
<1>. QED
  BY <1>4, <1>5, <1>6

\* Storing a value changes what GbStored says, and that alone.
LEMMA GbStep ==
  ASSUME TypeOK, GbInv, [Next]_vars PROVE GbInv'
<1>1. SUFFICES ASSUME object' = "gb_IVs", NEW f \in GbStat
               PROVE  GbIV(word', f) = fields'[f]
  BY DEF GbInv
<1>2. /\ object = "gb_IVs" /\ word \in Word /\ fields \in [Field -> Value]
      /\ \A stat \in GbStat : GbIV(word, stat) = fields[stat]
  BY <1>1, OneObject DEF GbInv, TypeOK
<1>3. CASE UNCHANGED vars
  BY <1>2, <1>3 DEF vars
<1>4. CASE StoreGbIV
  <2>1. PICK stat \in GbStat \cup {"NONE"}, value \in Values :
          \/ Refuse("gb_IVs")
          \/ /\ stat # "NONE" /\ InRange(value, 4)
             /\ StoreWord("gb_IVs", SetGbIV(word, stat, value))
             /\ fields' = GbStored(fields, stat, value)
    BY <1>4 DEF StoreGbIV
  <2>2. CASE Refuse("gb_IVs")
    BY <1>2, <2>2 DEF Refuse
  <2>3. CASE /\ stat # "NONE" /\ InRange(value, 4)
             /\ StoreWord("gb_IVs", SetGbIV(word, stat, value))
             /\ fields' = GbStored(fields, stat, value)
    <3>1. word' = SetGbIV(word, stat, value)
      BY <2>3 DEF StoreWord
    <3>2. CASE stat = "HP"
      BY <1>2, <2>3, <3>1, <3>2, GbStoreHP
    <3>3. CASE stat \in GbStat /\ stat # "HP"
      BY <1>2, <2>3, <3>1, <3>3, GbStoreOther
    <3>. QED
      BY <2>3, <3>2, <3>3
  <2>. QED
    BY <2>1, <2>2, <2>3
<1>. QED
  BY <1>2, <1>3, <1>4, OneObject DEF Next

\* Value by value is enough: a buffer of any size shows the first of them.
LEMMA GbRead ==
  ASSUME GbInv PROVE GbIVsAreIntended
<1>. DEFINE junk == [i \in 1..5 |-> 0..7]
<1>1. SUFFICES ASSUME object = "gb_IVs", NEW size \in 0..5
               PROVE  GetGbIVs(word, junk, size) =
                        [i \in 1..5 |-> IF i <= size THEN fields[GbOrder[i]]
                                                     ELSE 0..7]
  BY DEF GbIVsAreIntended
<1>2. \A i \in 1..5 : GbOrder[i] \in GbStat
  BY DEF GbOrder, GbStat
<1>3. \A i \in 1..5 : GbIV(word, GbOrder[i]) = fields[GbOrder[i]]
  BY <1>1, <1>2 DEF GbInv
<1>4. GetGbIVs(word, junk, size) =
        [i \in 1..5 |-> IF i <= size THEN GbIV(word, GbOrder[i]) ELSE 0..7]
  BY DEF GetGbIVs
<1>. QED
  BY <1>3, <1>4

\* Game Boy values that share bits agree after any sequence of calls.
THEOREM GbIVsCorrect == Spec => []GbIVsAreIntended
<1>1. Init => TypeOK /\ GbInv
  BY TypeInit, GbInit
<1>2. TypeOK /\ GbInv /\ [Next]_vars => TypeOK' /\ GbInv'
  BY TypeStep, GbStep
<1>3. GbInv => GbIVsAreIntended
  BY GbRead
<1>. QED
  BY <1>1, <1>2, <1>3, PTL DEF Spec

-----------------------------------------------------------------------------
(* Pokerus and the caught data: each property is inductive.                *)

\* The strain and the duration are the two halves of a byte.
LEMMA LowHalf ==
  Mask(0, 4) = 0..3
BY DEF Mask

\* What is loaded is what the getters read of it.
LEMMA PokerusInit ==
  ASSUME Init PROVE PokerusIsIntended
<1>1. SUFFICES ASSUME object = "pokerus"
               PROVE  /\ GetStrain(word) = fields["STRAIN"]
                      /\ GetDuration(word) = fields["DURATION"]
  BY DEF PokerusIsIntended
<1>2. fields = FieldsOf("pokerus", word)
  BY <1>1 DEF Init
<1>3. FieldsOf("pokerus", word)["STRAIN"] = GetStrain(word)
      /\ FieldsOf("pokerus", word)["DURATION"] = GetDuration(word)
  BY DEF FieldsOf, Field
<1>. QED
  BY <1>2, <1>3

\* A setter stores its own half, and the other one as fields says.
LEMMA PokerusStep ==
  ASSUME TypeOK, PokerusIsIntended, [Next]_vars PROVE PokerusIsIntended'
<1>1. SUFFICES ASSUME object' = "pokerus"
               PROVE  /\ GetStrain(word') = fields'["STRAIN"]
                      /\ GetDuration(word') = fields'["DURATION"]
  BY DEF PokerusIsIntended
<1>2. /\ object = "pokerus" /\ word \in Word /\ fields \in [Field -> Value]
      /\ GetStrain(word) = fields["STRAIN"]
      /\ GetDuration(word) = fields["DURATION"]
  BY <1>1, OneObject DEF PokerusIsIntended, TypeOK
<1>3. "STRAIN" \in Field /\ "DURATION" \in Field
  BY DEF Field
<1>4. CASE UNCHANGED vars
  BY <1>2, <1>4 DEF vars
<1>5. CASE StoreStrain
  <2>1. PICK strain \in Strains :
          /\ StoreWord("pokerus", SetStrain(strain))
          /\ fields' = [fields EXCEPT !["STRAIN"] = strain,
                                      !["DURATION"] = DaysOf(strain)]
    BY <1>5 DEF StoreStrain
  <2>. DEFINE days == DaysOf(strain)
              new == Shift(strain, 4) \cup days
  <2>2. days \subseteq 0..2 /\ strain \subseteq {0, 1}
    BY DaysType DEF Strains
  <2>3. fields'["STRAIN"] = strain /\ fields'["DURATION"] = days
    BY <1>2, <1>3, <2>1
  <2>4. word' = new
    BY <2>1 DEF StoreWord, SetStrain
  <2>. HIDE DEF days
  <2>5. ASSUME NEW x PROVE x \in GetStrain(new) <=> x \in strain
    <3>1. x \in GetBits(new, 4, 4) <=> x \in 0..3 /\ x + 4 \in new
      <4>. HIDE DEF new
      <4>. QED
        BY GetBit
    <3>2. CASE x \in {0, 1}
      <4>1. x + 4 \in Shift(strain, 4) <=> x \in strain
        BY <2>2, <3>2 DEF Shift
      <4>2. x + 4 \notin days
        BY <2>2, <3>2
      <4>. QED
        BY <3>1, <3>2, <4>1, <4>2 DEF GetStrain
    <3>3. CASE x \notin {0, 1}
      BY <2>2, <3>3 DEF GetStrain
    <3>. QED
      BY <3>2, <3>3
  <2>6. ASSUME NEW x PROVE x \in GetDuration(new) <=> x \in days
    <3>1. x \in Shift(strain, 4) => x \notin 0..3
      BY <2>2 DEF Shift
    <3>2. x \in days => x \in 0..3
      BY <2>2
    <3>3. GetDuration(new) = new \cap 0..3
      BY LowHalf DEF GetDuration
    <3>. QED
      BY <3>1, <3>2, <3>3
  <2>7. GetStrain(new) = strain /\ GetDuration(new) = days
    <3>. HIDE DEF new
    <3>. QED
      BY <2>5, <2>6
  <2>. QED
    BY <2>3, <2>4, <2>7
<1>6. CASE StoreDuration
  <2>1. PICK duration \in Values :
          \/ Refuse("pokerus")
          \/ /\ InRange(duration, 4)
             /\ StoreWord("pokerus", SetDuration(word, duration))
             /\ fields' = [fields EXCEPT
                             !["DURATION"] = duration,
                             !["STRAIN"] = IF Incompatible(duration)
                                           THEN duration \cap {0, 1} ELSE @]
    BY <1>6 DEF StoreDuration
  <2>2. CASE Refuse("pokerus")
    BY <1>2, <2>2 DEF Refuse
  <2>3. CASE /\ InRange(duration, 4)
             /\ StoreWord("pokerus", SetDuration(word, duration))
             /\ fields' = [fields EXCEPT
                             !["DURATION"] = duration,
                             !["STRAIN"] = IF Incompatible(duration)
                                           THEN duration \cap {0, 1} ELSE @]
    <3>. DEFINE set == SetBits(word, 0, 4, duration)
                low == duration \cap {0, 1}
                both == SetBits(set, 4, 4, low)
    <3>1. /\ fields'["DURATION"] = duration
          /\ fields'["STRAIN"] = IF Incompatible(duration) THEN low
                                 ELSE fields["STRAIN"]
      BY <1>2, <1>3, <2>3
    <3>2. word' = IF Incompatible(duration) THEN both ELSE set
      BY <2>3 DEF StoreWord, SetDuration
    <3>3. InRange(low, 4)
      BY DEF InRange, Mask
    <3>4. set \in Word
      <4>1. Shift(duration, 0) \subseteq 0..31
        BY <2>3 DEF Shift, InRange, Mask
      <4>. QED
        BY <1>2, <4>1 DEF SetBits, Word
    <3>5. \A x \in Int : x \in set <=> IF 0 <= x /\ x < 4 THEN x \in duration
                                       ELSE x \in word
      <4>1. \A x \in Int : x \in set <=> IF 0 <= x /\ x < 0 + 4
                                         THEN x - 0 \in duration ELSE x \in word
        <5>. HIDE DEF set
        <5>. QED
          BY <1>2, <2>3, FieldStored DEF set
      <4>. HIDE DEF set
      <4>. QED
        BY <4>1
    <3>. HIDE DEF low
    <3>6. \A x \in Int : x \in both <=> IF 4 <= x /\ x < 4 + 4 THEN x - 4 \in low
                                        ELSE x \in set
      <4>. HIDE DEF set, both
      <4>. QED
        BY <3>3, <3>4, FieldStored DEF both
    <3>. HIDE DEF set, both
    <3>7. duration \subseteq 0..3
      BY <2>3 DEF InRange, Mask
    <3>8. GetDuration(set) = duration /\ GetStrain(set) = GetStrain(word)
      <4>1. ASSUME NEW x PROVE x \in GetDuration(set) <=> x \in duration
        <5>1. x \in 0..3 => (x \in set <=> x \in duration)
          BY <3>5
        <5>2. GetDuration(set) = set \cap 0..3
          BY LowHalf DEF GetDuration
        <5>. QED
          BY <3>7, <5>1, <5>2
      <4>2. ASSUME NEW x PROVE x \in GetBits(set, 4, 4) <=> x \in GetBits(word, 4, 4)
        <5>1. x \in GetBits(set, 4, 4) <=> x \in 0..3 /\ x + 4 \in set
          BY GetBit
        <5>2. x \in GetBits(word, 4, 4) <=> x \in 0..3 /\ x + 4 \in word
          BY GetBit
        <5>. QED
          BY <3>5, <5>1, <5>2
      <4>3. GetBits(set, 4, 4) = GetBits(word, 4, 4)
        BY <4>2
      <4>. QED
        BY <4>1, <4>3 DEF GetStrain
    <3>9. GetDuration(both) = duration /\ GetStrain(both) = low
      <4>1. ASSUME NEW x PROVE x \in GetDuration(both) <=> x \in duration
        <5>1. x \in 0..3 => (x \in both <=> x \in duration)
          BY <3>5, <3>6
        <5>2. GetDuration(both) = both \cap 0..3
          BY LowHalf DEF GetDuration
        <5>. QED
          BY <3>7, <5>1, <5>2
      <4>2. ASSUME NEW x PROVE x \in GetStrain(both) <=> x \in low
        <5>1. x \in GetBits(both, 4, 4) <=> x \in 0..3 /\ x + 4 \in both
          BY GetBit
        <5>2. CASE x \in {0, 1}
          <6>1. x + 4 \in both <=> (x + 4) - 4 \in low
            BY <3>6, <5>2
          <6>2. (x + 4) - 4 = x
            BY <5>2
          <6>. QED
            BY <5>1, <5>2, <6>1, <6>2 DEF GetStrain
        <5>3. CASE x \notin {0, 1}
          BY <5>3 DEF GetStrain, low
        <5>. QED
          BY <5>2, <5>3
      <4>. QED
        BY <4>1, <4>2
    <3>. QED
      BY <1>2, <3>1, <3>2, <3>8, <3>9
  <2>. QED
    BY <2>1, <2>2, <2>3
<1>. QED
  BY <1>2, <1>4, <1>5, <1>6, OneObject DEF Next

\* Strain and duration read as stored, although each setter writes both.
THEOREM PokerusCorrect == Spec => []PokerusIsIntended
<1>1. Init => TypeOK /\ PokerusIsIntended
  BY TypeInit, PokerusInit
<1>2. TypeOK /\ PokerusIsIntended /\ [Next]_vars => TypeOK' /\ PokerusIsIntended'
  BY TypeStep, PokerusStep
<1>. QED
  BY <1>1, <1>2, PTL DEF Spec

\* Only the two bits of the time of day are stored.
LEMMA CaughtStep ==
  ASSUME TypeOK, CaughtDataIsKept, [Next]_vars PROVE CaughtDataIsKept'
<1>1. SUFFICES ASSUME object' = "caught_data"
               PROVE  /\ word' \cap (0..13) = loaded.word \cap (0..13)
                      /\ hour' # 24 => TimeOfDay(word') # {}
  BY OneObject DEF CaughtDataIsKept
<1>2. /\ object = "caught_data" /\ word \in Word
      /\ word \cap (0..13) = loaded.word \cap (0..13)
      /\ hour # 24 => TimeOfDay(word) # {}
  BY <1>1, OneObject DEF CaughtDataIsKept, TypeOK
<1>3. CASE UNCHANGED vars
  BY <1>2, <1>3 DEF vars
<1>4. CASE StoreCaughtTime
  <2>1. PICK tm_hour \in 0..23 :
          StoreWord("caught_data", SetCaughtTime(word, tm_hour))
    BY <1>4 DEF StoreCaughtTime
  <2>. DEFINE time == TimeOfHour(tm_hour)
  <2>2. time # {} /\ InRange(time, 2)
    <3>1. Mask(0, 2) = 0..1
      BY DEF Mask
    <3>. HIDE DEF time
    <3>. QED
      BY <3>1, TimeType DEF InRange, time
  <2>3. word' = SetBits(word, 14, 2, time)
    BY <2>1 DEF StoreWord, SetCaughtTime
  <2>. HIDE DEF time
  <2>4. /\ GetBits(word', 14, 2) = time
        /\ \A x \in Int : x \in word' <=> IF 14 <= x /\ x < 14 + 2
                                       THEN x - 14 \in time ELSE x \in word
    <3>. DEFINE new == word'
    <3>. HIDE DEF new
    <3>1. /\ GetBits(new, 14, 2) = time
          /\ \A x \in Int : x \in new <=> IF 14 <= x /\ x < 14 + 2
                                         THEN x - 14 \in time ELSE x \in word
      BY <1>2, <2>2, <2>3, FieldStored DEF new
    <3>. QED
      BY <3>1 DEF new
  <2>5. ASSUME NEW x \in 0..13 PROVE x \in word' <=> x \in word
    BY <2>4
  <2>6. word' \cap (0..13) = word \cap (0..13)
    BY <2>5
  <2>. QED
    BY <1>2, <2>2, <2>4, <2>6 DEF TimeOfDay
<1>. QED
  BY <1>2, <1>3, <1>4, OneObject DEF Next

\* Storing a time of day stores one, and nothing else of the caught data.
THEOREM CaughtDataCorrect == Spec => []CaughtDataIsKept
<1>1. Init => TypeOK /\ CaughtDataIsKept
  <2>1. Init => loaded.word = word /\ hour = 24
    BY DEF Init
  <2>. QED
    BY <2>1, TypeInit DEF CaughtDataIsKept
<1>2. TypeOK /\ CaughtDataIsKept /\ [Next]_vars => TypeOK' /\ CaughtDataIsKept'
  BY TypeStep, CaughtStep
<1>. QED
  BY <1>1, <1>2, PTL DEF Spec

-----------------------------------------------------------------------------
(* The Pokedex.                                                            *)

\* Two Pokemon have two bits, and those the games keep them at.
LEMMA OwnPlace ==
  ASSUME NEW n \in 1..PKSAV_GEN3_MAX
  PROVE  /\ PokedexBitPos(n) = {<<(n - 1) \div 8, (n - 1) % 8>>}
         /\ \A m \in 1..PKSAV_GEN3_MAX :
              m # n => PokedexBitPos(n) \cap PokedexBitPos(m) = {}
<1>1. \A k \in Nat : 1 <= k /\ k <= 386 =>
        ((k - 1) \div 8) % 256 = (k - 1) \div 8
  OBVIOUS
<1>2. n \in Nat /\ 1 <= n /\ n <= 386
  BY DEF PKSAV_GEN3_MAX
<1>3. ASSUME NEW m \in 1..PKSAV_GEN3_MAX
      PROVE  PokedexBitPos(m) = {<<(m - 1) \div 8, (m - 1) % 8>>}
  <2>1. m \in Nat /\ 1 <= m /\ m <= 386
    BY DEF PKSAV_GEN3_MAX
  <2>. QED
    BY <1>1, <2>1 DEF PokedexBitPos
<1>4. ASSUME NEW m \in 1..PKSAV_GEN3_MAX, m # n
      PROVE  PokedexBitPos(n) \cap PokedexBitPos(m) = {}
  <2>1. m \in Nat /\ 1 <= m /\ m <= 386
    BY DEF PKSAV_GEN3_MAX
  <2>2. ~((n - 1) \div 8 = (m - 1) \div 8 /\ (n - 1) % 8 = (m - 1) % 8)
    BY <1>2, <1>4, <2>1
  <2>3. <<(n - 1) \div 8, (n - 1) % 8>> # <<(m - 1) \div 8, (m - 1) % 8>>
    BY <2>2
  <2>4. PokedexBitPos(n) = {<<(n - 1) \div 8, (n - 1) % 8>>}
        /\ PokedexBitPos(m) = {<<(m - 1) \div 8, (m - 1) % 8>>}
    BY <1>3
  <2>. QED
    BY <2>3, <2>4
<1>. QED
  BY <1>3, <1>4

\* What a list says, once a bit of it is set: of one Pokemon what it was told,
\* of all others what it said, and of the number 0 nothing.
LEMMA ListTold ==
  ASSUME NEW list, NEW numbers, NEW m \in Nat, m <= PKSAV_GEN3_MAX,
         NEW set \in BOOLEAN, NEW n \in 1..PKSAV_GEN3_MAX,
         GetPokedexBit(list, n) <=> n \in numbers
  PROVE  GetPokedexBit(SetPokedexBit(list, m, set), n)
           <=> n \in Told(numbers, m, set)
<1>1. n # 0 /\ (m = 0 \/ m \in 1..PKSAV_GEN3_MAX)
  BY DEF PKSAV_GEN3_MAX
<1>2. PokedexBitPos(n) # {}
  <2>1. PokedexBitPos(n) = {<<(n - 1) \div 8, (n - 1) % 8>>}
    BY OwnPlace
  <2>. QED
    BY <2>1, Zenon
<1>3. CASE m = 0
  <2>1. PokedexBitPos(m) = {}
    BY <1>3 DEF PokedexBitPos
  <2>2. SetPokedexBit(list, m, set) = list
    BY <2>1 DEF SetPokedexBit
  <2>3. n \in Told(numbers, m, set) <=> n \in numbers
    BY <1>1, <1>3 DEF Told
  <2>. QED
    BY <2>2, <2>3
<1>4. CASE m = n
  <2>1. GetPokedexBit(SetPokedexBit(list, m, set), n) <=> set
    BY <1>2, <1>4 DEF GetPokedexBit, SetPokedexBit
  <2>2. n \in Told(numbers, m, set) <=> set
    BY <1>1, <1>4 DEF Told
  <2>. QED
    BY <2>1, <2>2
<1>5. CASE m # 0 /\ m # n
  <2>1. PokedexBitPos(n) \cap PokedexBitPos(m) = {}
    BY <1>1, <1>5, OwnPlace
  <2>2. GetPokedexBit(SetPokedexBit(list, m, set), n) <=> GetPokedexBit(list, n)
    BY <2>1 DEF GetPokedexBit, SetPokedexBit
  <2>3. n \in Told(numbers, m, set) <=> n \in numbers
    BY <1>5 DEF Told
  <2>. QED
    BY <2>2, <2>3
<1>. QED
  BY <1>3, <1>4, <1>5

\* A game keeps its lists alike.
LEMMA SeenInit ==
  ASSUME Init PROVE SeenListsAgree
<1>1. PICK numbers \in {{}, Numbers \cap (1..PKSAV_GEN3_MAX)}, full \in BOOLEAN :
        /\ pokedex = GamePokedex(numbers, full)
        /\ known = [seen |-> numbers, owned |-> {}, national |-> full]
  BY DEF Init
<1>2. pokedex.seen = [list \in Seen |-> GamePlaces(numbers)]
      /\ pokedex.owned = {} /\ known.seen = numbers /\ known.owned = {}
  BY <1>1 DEF GamePokedex
<1>3. ASSUME NEW n \in 1..PKSAV_GEN3_MAX
      PROVE  GetPokedexBit(GamePlaces(numbers), n) <=> n \in numbers
  <2>1. PokedexBitPos(n) = {<<(n - 1) \div 8, (n - 1) % 8>>}
    BY OwnPlace
  <2>2. ASSUME n \in numbers PROVE GetPokedexBit(GamePlaces(numbers), n)
    BY <2>1, <2>2 DEF GetPokedexBit, GamePlaces
  <2>3. ASSUME NEW m \in numbers, m # n
        PROVE  <<(m - 1) \div 8, (m - 1) % 8>> # <<(n - 1) \div 8, (n - 1) % 8>>
    <3>1. m \in 1..PKSAV_GEN3_MAX
      OBVIOUS
    <3>2. PokedexBitPos(m) = {<<(m - 1) \div 8, (m - 1) % 8>>}
          /\ PokedexBitPos(n) \cap PokedexBitPos(m) = {}
      BY <2>3, <3>1, OwnPlace
    <3>. QED
      BY <2>1, <3>2
  <2>4. ASSUME GetPokedexBit(GamePlaces(numbers), n) PROVE n \in numbers
    <3>1. PICK m \in numbers :
            <<(m - 1) \div 8, (m - 1) % 8>> = <<(n - 1) \div 8, (n - 1) % 8>>
      BY <2>1, <2>4 DEF GetPokedexBit, GamePlaces
    <3>. QED
      BY <2>3, <3>1
  <2>. QED
    BY <2>2, <2>4
<1>4. \A n : ~GetPokedexBit({}, n)
  BY DEF GetPokedexBit
<1>. QED
  BY <1>2, <1>3, <1>4 DEF SeenListsAgree

\* Each list is told the same, at a place no other number has.
LEMMA SeenStep ==
  ASSUME TypeOK, SeenListsAgree, [Next]_vars PROVE SeenListsAgree'
<1>1. SUFFICES ASSUME object' = "pokedex", NEW n \in 1..PKSAV_GEN3_MAX
               PROVE  /\ \A list \in Seen :
                           GetPokedexBit(pokedex'.seen[list], n)
                             <=> n \in known'.seen
                      /\ GetPokedexBit(pokedex'.owned, n) <=> n \in known'.owned
  BY DEF SeenListsAgree
<1>2. /\ object = "pokedex" /\ pokedex \in Gen3Pokedex(game)
      /\ known \in [seen : SUBSET (1..PKSAV_GEN3_MAX),
                    owned : SUBSET (1..PKSAV_GEN3_MAX), national : BOOLEAN]
      /\ \A list \in Seen :
           GetPokedexBit(pokedex.seen[list], n) <=> n \in known.seen
      /\ GetPokedexBit(pokedex.owned, n) <=> n \in known.owned
  BY <1>1, OneObject DEF SeenListsAgree, TypeOK
<1>3. ASSUME UNCHANGED <<pokedex, known>>
      PROVE  /\ \A list \in Seen :
                  GetPokedexBit(pokedex'.seen[list], n) <=> n \in known'.seen
             /\ GetPokedexBit(pokedex'.owned, n) <=> n \in known'.owned
  BY <1>2, <1>3
<1>4. CASE UNCHANGED vars
  BY <1>3, <1>4 DEF vars
<1>5. CASE Refuse("pokedex")
  BY <1>3, <1>5 DEF Refuse
<1>6. CASE StoreSeen
  <2>1. PICK m \in Numbers, set \in BOOLEAN :
          \/ Refuse("pokedex")
          \/ /\ m <= PKSAV_GEN3_MAX
             /\ StorePokedex(HasSeen(pokedex, m, set))
             /\ known' = [known EXCEPT !.seen = Told(@, m, set)]
    BY <1>6 DEF StoreSeen
  <2>2. CASE /\ m <= PKSAV_GEN3_MAX
             /\ StorePokedex(HasSeen(pokedex, m, set))
             /\ known' = [known EXCEPT !.seen = Told(@, m, set)]
    <3>1. m \in Nat
      BY ConstantTypes
    <3>2. pokedex' = HasSeen(pokedex, m, set)
      BY <2>2 DEF StorePokedex
    <3>3. pokedex'.owned = pokedex.owned
          /\ \A list \in Seen :
               pokedex'.seen[list] = SetPokedexBit(pokedex.seen[list], m, set)
      BY <1>2, <3>2 DEF HasSeen, Gen3Pokedex
    <3>4. known'.owned = known.owned /\ known'.seen = Told(known.seen, m, set)
      BY <1>2, <2>2
    <3>5. ASSUME NEW list \in Seen
          PROVE  GetPokedexBit(pokedex'.seen[list], n) <=> n \in known'.seen
      <4>1. GetPokedexBit(pokedex.seen[list], n) <=> n \in known.seen
        BY <1>2
      <4>2. GetPokedexBit(SetPokedexBit(pokedex.seen[list], m, set), n)
              <=> n \in Told(known.seen, m, set)
        BY <2>2, <3>1, <4>1, ListTold
      <4>. QED
        BY <3>3, <3>4, <4>2
    <3>. QED
      BY <1>2, <3>3, <3>4, <3>5
  <2>. QED
    BY <1>5, <2>1, <2>2
<1>7. CASE StoreOwned
  <2>1. PICK m \in Numbers, set \in BOOLEAN :
          /\ m <= PKSAV_GEN3_MAX
          /\ StorePokedex([pokedex EXCEPT !.owned = SetPokedexBit(@, m, set)])
          /\ known' = [known EXCEPT !.owned = Told(@, m, set)]
    BY <1>7 DEF StoreOwned
  <2>2. m \in Nat
    BY ConstantTypes
  <2>3. pokedex'.seen = pokedex.seen
        /\ pokedex'.owned = SetPokedexBit(pokedex.owned, m, set)
    BY <1>2, <2>1 DEF StorePokedex, Gen3Pokedex
  <2>4. known'.seen = known.seen /\ known'.owned = Told(known.owned, m, set)
    BY <1>2, <2>1
  <2>5. GetPokedexBit(SetPokedexBit(pokedex.owned, m, set), n)
          <=> n \in Told(known.owned, m, set)
    BY <1>2, <2>1, <2>2, ListTold
  <2>. QED
    BY <1>2, <2>3, <2>4, <2>5
<1>8. CASE StoreNational
  <2>1. PICK save_type \in SaveTypes \cup {"OUT_OF_RANGE"}, set \in BOOLEAN :
          \/ Refuse("pokedex")
          \/ /\ StorePokedex(NationalUnlocked(pokedex, save_type, set))
             /\ known' = [known EXCEPT !.national = set]
    BY <1>8 DEF StoreNational
  <2>2. CASE /\ StorePokedex(NationalUnlocked(pokedex, save_type, set))
             /\ known' = [known EXCEPT !.national = set]
    <3>1. known'.seen = known.seen /\ known'.owned = known.owned
      BY <1>2, <2>2
    <3>2. pokedex'.seen = pokedex.seen /\ pokedex'.owned = pokedex.owned
      <4>1. pokedex' = NationalUnlocked(pokedex, save_type, set)
        BY <2>2 DEF StorePokedex
      <4>. QED
        BY <1>2, <4>1 DEF NationalUnlocked, Gen3Pokedex
    <3>. QED
      BY <1>2, <3>1, <3>2
  <2>. QED
    BY <1>5, <2>1, <2>2
<1>. QED
  BY <1>2, <1>4, <1>6, <1>7, <1>8, OneObject DEF Next

\* The copies of the seen list agree with each other and with what the client
\* said, for every Pokemon and after any calls.
THEOREM SeenListsCorrect == Spec => []SeenListsAgree
<1>1. Init => TypeOK /\ SeenListsAgree
  BY TypeInit, SeenInit
<1>2. TypeOK /\ SeenListsAgree /\ [Next]_vars => TypeOK' /\ SeenListsAgree'
  BY TypeStep, SeenStep
<1>. QED
  BY <1>1, <1>2, PTL DEF Spec

\* A game sets all words or none.
LEMMA NationalInit ==
  ASSUME Init PROVE NationalFlagsAgree
<1>1. PICK numbers \in {{}, Numbers \cap (1..PKSAV_GEN3_MAX)}, full \in BOOLEAN :
        /\ pokedex = GamePokedex(numbers, full)
        /\ known = [seen |-> numbers, owned |-> {}, national |-> full]
  BY DEF Init
<1>2. known.national = full /\ loaded.flags = pokedex.flags
      /\ pokedex.flags = [u \in Unlocked |-> IF full THEN Width(game)[u] ELSE {}]
  BY <1>1 DEF Init, GamePokedex
<1>3. ASSUME NEW u \in Unlocked
      PROVE  NationalFlags(game)[u] \subseteq Width(game)[u]
  <2>1. game \in Games
    BY DEF Init
  <2>2. CASE u = "unlockedA" /\ game = "FRLG"
    BY <2>2 DEF NationalFlags, FlagA, Width
  <2>3. CASE u = "unlockedA" /\ game # "FRLG"
    BY <2>3 DEF NationalFlags, FlagA, Width
  <2>4. CASE u = "unlockedB"
    BY <2>4 DEF NationalFlags, FlagB, Width
  <2>5. CASE u = "unlockedC"
    BY <2>5 DEF NationalFlags, FlagC, Width
  <2>. QED
    BY <2>2, <2>3, <2>4, <2>5 DEF Unlocked
<1>. QED
  BY <1>2, <1>3 DEF NationalFlagsAgree

\* NONE stands for Ruby, Sapphire and Emerald alike, whose flags are the same.
LEMMA SameFlags ==
  ASSUME NEW save_type, (save_type = "FRLG") = (game = "FRLG")
  PROVE  NationalFlags(save_type) = NationalFlags(game)
BY DEF NationalFlags, FlagA, FlagC

\* Each word is told the same, in its own flags.
LEMMA NationalStep ==
  ASSUME TypeOK, NationalFlagsAgree, [Next]_vars PROVE NationalFlagsAgree'
<1>. DEFINE flag(u) == NationalFlags(game)[u]
            agree(p, national, u) ==
              /\ p.flags[u] \cap flag(u) = IF national THEN flag(u) ELSE {}
              /\ p.flags[u] \ flag(u) = loaded.flags[u] \ flag(u)
<1>1. SUFFICES ASSUME object' = "pokedex", NEW u \in Unlocked
               PROVE  agree(pokedex', known'.national, u)
  <2>1. game' = game /\ loaded' = loaded
    BY OneObject
  <2>. QED
    BY <2>1 DEF NationalFlagsAgree, NationalFlags, FlagA, FlagB, FlagC
<1>2. /\ object = "pokedex" /\ pokedex \in Gen3Pokedex(game)
      /\ known \in [seen : SUBSET (1..PKSAV_GEN3_MAX),
                    owned : SUBSET (1..PKSAV_GEN3_MAX), national : BOOLEAN]
      /\ agree(pokedex, known.national, u)
  BY <1>1, OneObject DEF NationalFlagsAgree, TypeOK
<1>3. ASSUME pokedex'.flags = pokedex.flags, known'.national = known.national
      PROVE  agree(pokedex', known'.national, u)
  BY <1>2, <1>3
<1>. HIDE DEF agree
<1>4. CASE UNCHANGED vars
  BY <1>3, <1>4 DEF vars
<1>5. CASE Refuse("pokedex")
  BY <1>3, <1>5 DEF Refuse
<1>6. CASE StoreSeen
  <2>1. PICK m \in Numbers, set \in BOOLEAN :
          \/ Refuse("pokedex")
          \/ /\ StorePokedex(HasSeen(pokedex, m, set))
             /\ known' = [known EXCEPT !.seen = Told(@, m, set)]
    BY <1>6 DEF StoreSeen
  <2>2. CASE /\ StorePokedex(HasSeen(pokedex, m, set))
             /\ known' = [known EXCEPT !.seen = Told(@, m, set)]
    <3>1. pokedex' = HasSeen(pokedex, m, set)
      BY <2>2 DEF StorePokedex
    <3>2. pokedex'.flags = pokedex.flags
      BY <1>2, <3>1 DEF HasSeen, Gen3Pokedex
    <3>3. known'.national = known.national
      BY <1>2, <2>2
    <3>. QED
      BY <1>3, <3>2, <3>3
  <2>. QED
    BY <1>5, <2>1, <2>2
<1>7. CASE StoreOwned
  <2>1. PICK m \in Numbers, set \in BOOLEAN :
          /\ StorePokedex([pokedex EXCEPT !.owned = SetPokedexBit(@, m, set)])
          /\ known' = [known EXCEPT !.owned = Told(@, m, set)]
    BY <1>7 DEF StoreOwned
  <2>2. pokedex'.flags = pokedex.flags
    BY <1>2, <2>1 DEF StorePokedex, Gen3Pokedex
  <2>3. known'.national = known.national
    BY <1>2, <2>1
  <2>. QED
    BY <1>3, <2>2, <2>3
<1>8. CASE StoreNational
  <2>1. PICK save_type \in SaveTypes \cup {"OUT_OF_RANGE"}, set \in BOOLEAN :
          \/ Refuse("pokedex")
          \/ /\ (save_type = "FRLG") = (game = "FRLG")
             /\ StorePokedex(NationalUnlocked(pokedex, save_type, set))
             /\ known' = [known EXCEPT !.national = set]
    BY <1>8 DEF StoreNational
  <2>2. CASE /\ (save_type = "FRLG") = (game = "FRLG")
             /\ StorePokedex(NationalUnlocked(pokedex, save_type, set))
             /\ known' = [known EXCEPT !.national = set]
    <3>1. known'.national = set
      BY <1>2, <2>2
    <3>2. pokedex' = NationalUnlocked(pokedex, save_type, set)
      BY <2>2 DEF StorePokedex
    <3>3. pokedex'.flags[u] = IF set THEN pokedex.flags[u] \cup flag(u)
                              ELSE pokedex.flags[u] \ flag(u)
      <4>1. NationalFlags(save_type) = NationalFlags(game)
        BY <2>2, SameFlags
      <4>2. pokedex'.flags[u] =
              IF set THEN pokedex.flags[u] \cup NationalFlags(save_type)[u]
              ELSE pokedex.flags[u] \ NationalFlags(save_type)[u]
        BY <1>2, <3>2 DEF NationalUnlocked, Gen3Pokedex
      <4>. QED
        BY <4>1, <4>2
    <3>. QED
      BY <1>2, <3>1, <3>3 DEF agree
  <2>. QED
    BY <1>5, <2>1, <2>2
<1>. QED
  BY <1>2, <1>4, <1>6, <1>7, <1>8, OneObject DEF Next

\* The three words of the national Pokedex agree after any calls, and keep
\* their other bits.
THEOREM NationalCorrect == Spec => []NationalFlagsAgree
<1>1. Init => TypeOK /\ NationalFlagsAgree
  BY TypeInit, NationalInit
<1>2. TypeOK /\ NationalFlagsAgree /\ [Next]_vars =>
        TypeOK' /\ NationalFlagsAgree'
  BY TypeStep, NationalStep
<1>. QED
  BY <1>1, <1>2, PTL DEF Spec
=============================================================================
