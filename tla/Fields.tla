-------------------------------- MODULE Fields --------------------------------
(***************************************************************************)
(* A client works at one of the objects of a save that the library has     *)
(* functions for: the Pokedex of a generation 3 save, the individual       *)
(* values, the Pokerus or the caught data of a Pokemon.  Each function may *)
(* be called any number of times, in any order and with any argument.      *)
(* The objects are disjoint memory, so a behaviour stays at one of them.   *)
(***************************************************************************)
EXTENDS Pokedex, PackedFields

CONSTANTS
  Numbers,      \* of Pokemon, as the client passes them
  Values,       \* of individual values and durations, as it passes them
  Loaded        \* words a file may hold

PKSAV_GEN3_MAX == 386

ASSUME FieldsAssumption ==
  /\ Numbers \subseteq Nat
  /\ Values \subseteq Value
  /\ Loaded \subseteq Word

VARIABLES
  object,    \* what the client works at
  word,      \* the packed word, if it is one
  pokedex,   \* the Pokedex, if it is that
  game,      \* of the save
  error,     \* what the last call returned
  fields,    \* history: what the word's fields were loaded or set to
  hour,      \* history: when the Pokemon was caught, or 24
  known,     \* history: what the Pokedex was loaded with or told
  loaded     \* history: the word and the flags at the start

vars == <<object, word, pokedex, game, error, fields, hour, known, loaded>>

WordObjects == {"IVs", "gb_IVs", "pokerus", "caught_data"}

\* What a file may hold of each object.
WordWidth == [IVs |-> 0..31, gb_IVs |-> 0..15, pokerus |-> 0..7,
              caught_data |-> 0..15]

Field == Stat \cup GbStat \cup {"STRAIN", "DURATION"}

\* What the getters of an object say of it.
FieldsOf(kind, w) ==
  [f \in Field |->
     CASE kind = "IVs" /\ f \in Stat      -> IV(w, f)
       [] kind = "gb_IVs" /\ f \in GbStat -> GbIV(w, f)
       [] kind = "pokerus" /\ f = "STRAIN"   -> GetStrain(w)
       [] kind = "pokerus" /\ f = "DURATION" -> GetDuration(w)
       [] OTHER -> {}]

\* Where the games keep the bit of a Pokemon.
GamePlaces(numbers) == {<<(n - 1) \div 8, (n - 1) % 8>> : n \in numbers}

-----------------------------------------------------------------------------
(* A call that refuses its arguments, and one that returns.                *)

Refuse(kind) ==
  /\ object = kind
  /\ error' = "PARAM_OUT_OF_RANGE"
  /\ UNCHANGED <<object, word, pokedex, game, fields, hour, known, loaded>>

StoreWord(kind, w) ==
  /\ object = kind
  /\ word' = w
  /\ error' = "NONE"
  /\ UNCHANGED <<object, pokedex, game, known, loaded>>

StorePokedex(p) ==
  /\ object = "pokedex"
  /\ pokedex' = p
  /\ error' = "NONE"
  /\ UNCHANGED <<object, word, game, fields, hour, loaded>>

-----------------------------------------------------------------------------
(* The individual values.                                                  *)

StoreIV ==
  \E stat \in Stat \cup {"NONE"}, value \in Values :
    \/ /\ stat = "NONE" \/ ~InRange(value, 5)
       /\ Refuse("IVs")
    \/ /\ stat # "NONE" /\ InRange(value, 5)
       /\ StoreWord("IVs", SetIV(word, stat, value))
       /\ fields' = [fields EXCEPT ![stat] = value]
       /\ UNCHANGED hour

\* The four values and HP hold the same bits twice over: storing one of the
\* four stores a bit of HP, and storing HP the lowest bit of all four.
LowBit == [ATTACK |-> 3, DEFENSE |-> 2, SPEED |-> 1, SPECIAL |-> 0]

ReplaceBit(value, to, other, from) ==
  (value \ {to}) \cup {bit \in {to} : from \in other}

GbStored(old, stat, value) ==
  [f \in Field |->
     CASE f = stat -> value
       [] f # stat /\ stat = "HP" /\ f \in GbStat ->
            ReplaceBit(old[f], 0, value, LowBit[f])
       [] f # stat /\ stat # "HP" /\ f = "HP" ->
            ReplaceBit(old[f], LowBit[stat], value, 0)
       [] OTHER -> old[f]]

StoreGbIV ==
  \E stat \in GbStat \cup {"NONE"}, value \in Values :
    \/ /\ stat = "NONE" \/ ~InRange(value, 4)
       /\ Refuse("gb_IVs")
    \/ /\ stat # "NONE" /\ InRange(value, 4)
       /\ StoreWord("gb_IVs", SetGbIV(word, stat, value))
       /\ fields' = GbStored(fields, stat, value)
       /\ UNCHANGED hour

-----------------------------------------------------------------------------
(* Pokerus and the caught data.                                            *)

StoreStrain ==
  \E strain \in Strains :
    /\ StoreWord("pokerus", SetStrain(strain))
    /\ fields' = [fields EXCEPT !["STRAIN"] = strain,
                                !["DURATION"] = DaysOf(strain)]
    /\ UNCHANGED hour

StoreDuration ==
  \E duration \in Values :
    \/ ~InRange(duration, 4) /\ Refuse("pokerus")
    \/ /\ InRange(duration, 4)
       /\ StoreWord("pokerus", SetDuration(word, duration))
       /\ fields' = [fields EXCEPT
                       !["DURATION"] = duration,
                       !["STRAIN"] = IF Incompatible(duration)
                                     THEN duration \cap {0, 1} ELSE @]
       /\ UNCHANGED hour

StoreCaughtTime ==
  \E tm_hour \in 0..23 :
    /\ StoreWord("caught_data", SetCaughtTime(word, tm_hour))
    /\ hour' = tm_hour
    /\ UNCHANGED fields

-----------------------------------------------------------------------------
(* The Pokedex.                                                            *)

\* What the client means; a number 0 is nobody's.
Told(numbers, pokedex_num, set) ==
  IF set THEN numbers \cup ({pokedex_num} \ {0})
         ELSE numbers \ {pokedex_num}

StoreSeen ==
  \E pokedex_num \in Numbers, has_seen \in BOOLEAN :
    \/ pokedex_num > PKSAV_GEN3_MAX /\ Refuse("pokedex")
    \/ /\ pokedex_num <= PKSAV_GEN3_MAX
       /\ StorePokedex(HasSeen(pokedex, pokedex_num, has_seen))
       /\ known' = [known EXCEPT !.seen = Told(@, pokedex_num, has_seen)]

\* The list of those owned has no function of its own, so the client sets its
\* bits itself; pksav_set_pokedex_bit cannot know where the list ends.
StoreOwned ==
  \E pokedex_num \in Numbers, set \in BOOLEAN :
    /\ pokedex_num <= PKSAV_GEN3_MAX
    /\ StorePokedex([pokedex EXCEPT
                       !.owned = SetPokedexBit(@, pokedex_num, set)])
    /\ known' = [known EXCEPT !.owned = Told(@, pokedex_num, set)]

\* The save's own game, or NONE, which a client may pass instead except for
\* FireRed or LeafGreen, where it has the function follow a NULL pointer.
StoreNational ==
  \E save_type \in SaveTypes \cup {"OUT_OF_RANGE"}, is_unlocked \in BOOLEAN :
    \/ save_type = "OUT_OF_RANGE" /\ Refuse("pokedex")
    \/ /\ save_type \in SaveTypes
       /\ (save_type = "FRLG") = (game = "FRLG")
       /\ StorePokedex(NationalUnlocked(pokedex, save_type, is_unlocked))
       /\ known' = [known EXCEPT !.national = is_unlocked]

-----------------------------------------------------------------------------
\* A Pokedex as a game leaves it: the lists agree, and the words of the
\* national one hold all bits or none.
GamePokedex(numbers, full) ==
  [seen  |-> [list \in Seen |-> GamePlaces(numbers)],
   owned |-> {},
   flags |-> [u \in Unlocked |-> IF full THEN Width(game)[u] ELSE {}]]

Init ==
  /\ game \in Games
  /\ object \in WordObjects \cup {"pokedex"}
  /\ error = "NONE"
  /\ hour = 24
  /\ IF object = "pokedex" THEN word = {}
     ELSE \E w \in Loaded : word = w \cap WordWidth[object]
  /\ fields = FieldsOf(object, word)
  /\ \E numbers \in {{}, Numbers \cap (1..PKSAV_GEN3_MAX)}, full \in BOOLEAN :
       /\ object # "pokedex" => numbers = {} /\ ~full /\ game = "RS"
       /\ pokedex = GamePokedex(numbers, full)
       /\ known = [seen |-> numbers, owned |-> {}, national |-> full]
  /\ loaded = [word |-> word, flags |-> pokedex.flags]

Next ==
  \/ StoreIV
  \/ StoreGbIV
  \/ StoreStrain
  \/ StoreDuration
  \/ StoreCaughtTime
  \/ StoreSeen
  \/ StoreOwned
  \/ StoreNational

Spec == Init /\ [][Next]_vars

-----------------------------------------------------------------------------
(* Properties.                                                             *)

\* Every variable keeps its type; a word has no bits its object has not.
TypeOK ==
  /\ object \in WordObjects \cup {"pokedex"}
  /\ word \in Word
  /\ object # "pokedex" => word \subseteq WordWidth[object]
  /\ game \in Games
  /\ pokedex \in Gen3Pokedex(game)
  /\ error \in {"NONE", "PARAM_OUT_OF_RANGE"}
  /\ fields \in [Field -> Value]
  /\ hour \in 0..24
  /\ known \in [seen : SUBSET (1..PKSAV_GEN3_MAX),
                owned : SUBSET (1..PKSAV_GEN3_MAX), national : BOOLEAN]
  /\ loaded \in [word : Word, flags : [Unlocked -> SUBSET (0..15)]]

\* A buffer before pksav_get_IVs, of any size.
Junk == [i \in 1..6 |-> 0..7]

\* Every individual value of generation 3 reads as what was last stored in
\* it, whatever was stored in the others before and after, into a buffer of
\* any size and not past its end (pksav_get_IVs), and the egg's and the
\* ability's bits, which share the word, are as they were (pksav_set_IV).
IVsAreIntended ==
  object = "IVs" =>
    /\ \A size \in 0..6 :
         GetIVs(word, Junk, size) =
           [i \in 1..6 |-> IF i <= size THEN fields[Order[i]] ELSE Junk[i]]
    /\ word \cap {30, 31} = loaded.word \cap {30, 31}

\* Every individual value of generations 1 and 2 reads as what was last
\* stored in it or, bit by bit, in the value it shares a bit with, HP with the
\* other four (pksav_get_gb_IVs, pksav_set_gb_IV).
GbIVsAreIntended ==
  object = "gb_IVs" =>
    \A size \in 0..5 :
      GetGbIVs(word, [i \in 1..5 |-> 0..7], size) =
        [i \in 1..5 |-> IF i <= size THEN fields[GbOrder[i]] ELSE 0..7]

\* Strain and duration read as what was last stored, although each of the
\* setters may write both (pksav_pokerus_set_strain, _set_duration).
PokerusIsIntended ==
  object = "pokerus" =>
    GetStrain(word) = fields["STRAIN"] /\ GetDuration(word) = fields["DURATION"]

\* The three copies of the seen list say of every Pokemon the same, what the
\* client last said of it, and so does the owned list: no two numbers share a
\* bit, no call reaches only some of the copies, and the number 0 is nobody's
\* (pksav_gen3_pokedex_set_has_seen, pksav_set_pokedex_bit).
SeenListsAgree ==
  object = "pokedex" =>
    \A n \in 1..PKSAV_GEN3_MAX :
      /\ \A list \in Seen :
           GetPokedexBit(pokedex.seen[list], n) <=> n \in known.seen
      /\ GetPokedexBit(pokedex.owned, n) <=> n \in known.owned

\* The three words that mark the national Pokedex hold the whole of their
\* flags or nothing of them, all three alike, after any sequence of unlocking
\* and locking, and their other bits are as they were
\* (pksav_gen3_pokedex_set_national_pokedex_unlocked).
NationalFlagsAgree ==
  object = "pokedex" =>
    \A u \in Unlocked :
      LET flag == NationalFlags(game)[u]
      IN  /\ pokedex.flags[u] \cap flag = IF known.national THEN flag ELSE {}
          /\ pokedex.flags[u] \ flag = loaded.flags[u] \ flag

\* The time of day stored in the caught data is the one the header documents
\* for the hour, gen2/time.h.
TimeOfDayIsDocumented ==
  object = "caught_data" /\ hour # 24 =>
    TimeOfDay(word) = CASE hour \in 4..9   -> {0}
                        [] hour \in 10..17 -> {1}
                        [] OTHER           -> {0, 1}

\* Whenever a Pokemon is caught, a time of day is stored, and its level, its
\* trainer's gender and its location stay (pksav_gen2_set_caught_data_time_field).
CaughtDataIsKept ==
  object = "caught_data" =>
    /\ word \cap (0..13) = loaded.word \cap (0..13)
    /\ hour # 24 => TimeOfDay(word) # {}
=============================================================================
