---------------------------- MODULE Gen3Sections ----------------------------
(***************************************************************************)
(* A generation 3 save slot: its sections, how they are shuffled on disk,  *)
(* how the storage system is spread over the last of them, and how a slot  *)
(* is decrypted for the client.  lib/gen3/shuffle.c, the section checksums *)
(* of lib/gen3/checksum.c, lib/gen3/save_internal.h and the parts of       *)
(* lib/gen3/save.c that look at one slot.                                  *)
(*                                                                         *)
(* A slot holds 14 sections; Section is the set of section numbers, of     *)
(* which the code singles out 0 (trainer), 1 (team and items), 4 (daycare) *)
(* and 5 and up (storage system).  The bytes of a section are reduced to   *)
(* the words save.c reads or crypts in some section and one Pokemon, which *)
(* stands for the party in section 1, for the daycare in section 4 and for *)
(* the boxes in the sections from 5 on.  As in C, any section can be read  *)
(* as any other: what a section does not use is zero.                      *)
(***************************************************************************)
EXTENDS Gen3Crypt, Functions

CONSTANTS
  Section,     \* section numbers, and positions in a slot
  NoSection,   \* a section_id that is out of range, as in erased flash
  IndexMod     \* save_index counts modulo this, 2^32

NUM_SAVE_SECTIONS == 14

ASSUME SectionAssumption ==
  /\ {0, 1, 4, 5} \subseteq Section
  /\ Section \subseteq 0..(NUM_SAVE_SECTIONS - 1)
  /\ NoSection \notin Section

ASSUME IndexAssumption == IndexMod \in Nat /\ IndexMod > 1

PcSection == {s \in Section : s >= 5}

SaveIndex == 0..(IndexMod - 1)

-----------------------------------------------------------------------------
(* The words: of section 0, by offset, those that tell the game and hold   *)
(* the security key; of section 1, the count of an item of the bag, the    *)
(* money and the casino coins.                                             *)

WordCell == {"0x0AC", "0x1F4", "0xAF8", "0xF20", "bag", "money", "coins"}

SectionData == [word : [WordCell -> Word], mon : Pokemon]

\* A section with its footer: section_id, whether validation is the magic
\* number, save_index, and the checksum, a sum over all the data, which is
\* modelled as the data summed (sums do not collide).
SaveSection == [id : Section \cup {NoSection}, magic : BOOLEAN,
                index : SaveIndex, checksum : SectionData, data : SectionData]

SaveSlot == [Section -> SaveSection]

ZeroData == [word |-> [c \in WordCell |-> Zero], mon |-> ZeroPokemon]

\* calloc's internal copy, before anything is unshuffled into it.
ZeroSlot ==
  [s \in Section |-> [id |-> 0, magic |-> FALSE, index |-> 0,
                      checksum |-> ZeroData, data |-> ZeroData]]

-----------------------------------------------------------------------------
(* Shuffling.  slot[p] is the section at position p, unshuffled[s] the     *)
(* section whose id is s.                                                  *)

Holders(slot, s) == {p \in Section : slot[p].id = s}

\* pksav_gen3_save_unshuffle_sections.  Of two sections with one id the later
\* stays; a section no position holds keeps what old had there.
UnshuffleSections(slot, old) ==
  [s \in Section |-> IF Holders(slot, s) = {} THEN old[s]
                     ELSE slot[Max(Holders(slot, s))]]

SectionNums(slot) == [p \in Section |-> slot[p].id]

\* Wrong on purpose: the sections are left in the order of their numbers.
ShuffleInOrder(unshuffled, section_nums) == unshuffled

\* pksav_gen3_save_shuffle_sections
ShuffleSections(unshuffled, section_nums) ==
  [p \in Section |-> unshuffled[section_nums[p]]]

\* pksav_gen3_set_section_checksums
SetSectionChecksums(unshuffled) ==
  [s \in Section |-> [unshuffled[s] EXCEPT !.checksum = unshuffled[s].data]]

\* The loop of pksav_gen3_save_save over the footers of the written slot.
SetSaveIndex(slot, index) == [p \in Section |-> [slot[p] EXCEPT !.index = index]]

UniformIndex(slot) == \A p, q \in Section : slot[p].index = slot[q].index

\* The storage system, gathered from its sections, and put back: what is
\* stored is checksummed and encrypted on the way.
LoadPokemonPc(unshuffled) ==
  [s \in PcSection |-> CryptPokemon(unshuffled[s].data.mon, FALSE)]

StorePokemonPc(pc) ==
  [s \in PcSection |-> CryptPokemon(SetPokemonChecksum(pc[s]), TRUE)]

CopyPokemonPc(stored, unshuffled) ==
  [s \in Section |-> IF s \in PcSection
                     THEN [unshuffled[s] EXCEPT !.data.mon = stored[s]]
                     ELSE unshuffled[s]]

-----------------------------------------------------------------------------
(* The games.                                                              *)

SaveType == {"RS", "EMERALD", "FRLG"}

\* PKSAV_GEN3_SAVE_SECTION0_OFFSETS: both copies of the security key.
SecurityKey1 == [RS |-> "0x0AC", EMERALD |-> "0x0AC", FRLG |-> "0xAF8"]
SecurityKey2 == [RS |-> "0x0AC", EMERALD |-> "0x1F4", FRLG |-> "0xF20"]
GameCode     == "0x0AC"

SecurityKey(unshuffled, save_type) ==
  unshuffled[0].data.word[SecurityKey1[save_type]]

\* Wrong on purpose: the id is not looked at.
SectionIsMagic(section) == section.magic

SectionIsValid(section) == section.id \in Section /\ section.magic

\* Whether a section 0 can be that of save_type.
Matches(word, save_type) ==
  /\ word[SecurityKey1[save_type]] = word[SecurityKey2[save_type]]
  /\ save_type = "RS"   => word[GameCode] = Zero
  /\ save_type = "FRLG" => word[GameCode] = One

\* The first of the searched types that matches: RS, FRLG, EMERALD.
DetectType(word) ==
  CASE Matches(word, "RS") -> "RS"
    [] ~Matches(word, "RS") /\ Matches(word, "FRLG") -> "FRLG"
    [] /\ ~Matches(word, "RS") /\ ~Matches(word, "FRLG")
       /\ Matches(word, "EMERALD") -> "EMERALD"
    [] OTHER -> "NONE"

\* What pksav_gen3_get_buffer_save_type can answer for the active slot.  It
\* unshuffles into an uninitialized union: without a section 0 the words it
\* looks at are whatever the stack holds.
DetectedTypes(slot) ==
  IF \E p \in Section : ~SectionIsValid(slot[p]) THEN {"NONE"}
  ELSE IF Holders(slot, 0) = {} THEN SaveType \cup {"NONE"}
  ELSE {DetectType(slot[Max(Holders(slot, 0))].data.word)}

\* The parts of a slot the client edits in place, decrypted as
\* _pksav_gen3_set_save_pointers does and encrypted as pksav_gen3_save_save
\* does; the storage system is crypted apart.
CryptTeam(team, key, should_encrypt) ==
  [word |-> [team.word EXCEPT !["bag"]   = CryptItems(@, key),
                              !["money"] = Xor(@, key),
                              !["coins"] = Xor(@, LowHalf(key))],
   mon  |-> CryptPokemon(team.mon, should_encrypt)]

CryptDaycare(daycare, should_encrypt) ==
  [daycare EXCEPT !.mon = CryptPokemon(@, should_encrypt)]

CryptSlot(unshuffled, save_type, should_encrypt) ==
  LET key == SecurityKey(unshuffled, save_type)
  IN  [s \in Section |->
         CASE s = 1 -> [unshuffled[s] EXCEPT
                          !.data = CryptTeam(@, key, should_encrypt)]
           [] s = 4 -> [unshuffled[s] EXCEPT
                          !.data = CryptDaycare(@, should_encrypt)]
           [] OTHER -> unshuffled[s]]
=============================================================================
