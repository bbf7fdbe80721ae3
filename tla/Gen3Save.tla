------------------------------ MODULE Gen3Save ------------------------------
(***************************************************************************)
(* A session with a generation 3 save, lib/gen3/save.c: one client, one    *)
(* file, one struct pksav_gen3_save.  The client loads the file, or a      *)
(* buffer it read itself, writes through the pointers of the struct, saves *)
(* and frees.  The write to the file may fail or be cut short, and the     *)
(* process may die at any time, also in the middle of a write.             *)
(*                                                                         *)
(* A file or buffer is the sequence of the save slots it is long enough to *)
(* hold: a file shorter than one slot is the empty sequence.  What follows *)
(* the second slot is never looked at and left out.                        *)
(***************************************************************************)
EXTENDS Gen3Sections, SequencesExt

CONSTANTS
  InitialDisk,     \* what the file may hold at first
  EditWord,        \* words the client stores
  EditPokemon,     \* Pokemon the client stores
  Editable,        \* what it edits, of the fields below
  ClientRetries,   \* whether it goes on with a session whose save failed
  MaxIndex         \* bound: a slot with this save_index is not saved again

Fields == {"bag", "money", "coins", "party", "daycare", "pc"}

Buffer == {b \in Seq(SaveSlot) : Len(b) <= 2}

ASSUME InitialDiskAssumption == InitialDisk \subseteq Buffer

ASSUME ClientAssumption ==
  /\ EditWord \subseteq Word
  /\ EditPokemon \subseteq Pokemon
  /\ Editable \subseteq Fields
  /\ ClientRetries \in BOOLEAN
  /\ MaxIndex \in Nat

VARIABLES
  disk,                      \* the file
  save_type,                 \* of struct pksav_gen3_save; NONE when freed
  \* struct pksav_gen3_save_internal
  p_raw_save,                \* its buffer, or one the client holds
  is_buffer_ours,
  is_save_from_first_slot,
  shuffled_section_nums,
  unshuffled_save_slot,
  consolidated_pokemon_pc,
  status,                    \* "closed", "open", or "failed" by a save
  op, error,                 \* the last call and what it returned
  intended                   \* what the client loaded and has since stored

internal == <<save_type, is_buffer_ours, is_save_from_first_slot,
              shuffled_section_nums, unshuffled_save_slot,
              consolidated_pokemon_pc>>
vars == <<disk, p_raw_save, internal, status, op, error, intended>>

-----------------------------------------------------------------------------
(* What the client sees.  A Pokemon's own checksum is not part of it.      *)

Visible(mon) == [row |-> mon.row, key |-> mon.key, blocks |-> mon.blocks]

ContentOf(type, unshuffled, pc) ==
  LET team == unshuffled[1].data
  IN  [type    |-> type,
       bag     |-> team.word["bag"],
       money   |-> team.word["money"],
       coins   |-> team.word["coins"],
       party   |-> Visible(team.mon),
       daycare |-> Visible(unshuffled[4].data.mon),
       pc      |-> [s \in PcSection |-> Visible(pc[s])]]

View == ContentOf(save_type, unshuffled_save_slot, consolidated_pokemon_pc)

VisiblePokemon == [row : Row, key : Word, blocks : Blocks]
Content ==
  [type : SaveType \cup {"NONE"}, bag : Word, money : Word, coins : Word,
   party : VisiblePokemon, daycare : VisiblePokemon,
   pc : [PcSection -> VisiblePokemon]]

-----------------------------------------------------------------------------
(* Loading.                                                                *)

\* pksav_gen3_get_active_save_slot_ptr: 0 is NULL.  Only the section at the
\* start of each slot is asked for its index; on a tie the second slot wins.
ActiveSlot(buffer) ==
  CASE Len(buffer) = 0 -> 0
    [] Len(buffer) = 1 -> 1
    [] Len(buffer) = 2 -> IF buffer[1][0].index > buffer[2][0].index
                          THEN 1 ELSE 2

\* pksav_gen3_get_buffer_save_type.  A buffer without a slot is an error
\* there and NONE here: the one caller modelled makes both INVALID_SAVE.
BufferTypes(buffer) ==
  IF ActiveSlot(buffer) = 0 THEN {"NONE"}
  ELSE DetectedTypes(buffer[ActiveSlot(buffer)])

\* _pksav_gen3_set_save_pointers, with old the unshuffled slot so far.
SetSavePointers(buffer, type, old) ==
  LET active == ActiveSlot(buffer)
      unshuffled == UnshuffleSections(buffer[active], old)
  IN  /\ p_raw_save' = buffer
      /\ is_save_from_first_slot' = (active = 1)
      /\ shuffled_section_nums' = SectionNums(buffer[active])
      /\ unshuffled_save_slot' = CryptSlot(unshuffled, type, FALSE)
      /\ consolidated_pokemon_pc' = LoadPokemonPc(unshuffled)

\* free and memset(0).
ResetInternal ==
  /\ save_type' = "NONE"
  /\ is_buffer_ours' = FALSE
  /\ is_save_from_first_slot' = FALSE
  /\ shuffled_section_nums' = [p \in Section |-> 0]
  /\ unshuffled_save_slot' = ZeroSlot
  /\ consolidated_pokemon_pc' = [s \in PcSection |-> ZeroPokemon]

Returns(call, code) == op' = call /\ error' = code

\* _pksav_gen3_load_save_from_buffer
Load(buffer, ours) ==
  /\ status = "closed"
  /\ \E type \in BufferTypes(buffer) :
       \/ /\ type # "NONE"
          /\ save_type' = type
          /\ SetSavePointers(buffer, type, ZeroSlot)
          /\ is_buffer_ours' = ours
          /\ status' = "open"
          /\ intended' = View'
          /\ Returns("load", "NONE")
       \/ /\ type = "NONE"
          /\ Returns("load", "INVALID_SAVE")
          /\ UNCHANGED <<p_raw_save, internal, status, intended>>
  /\ UNCHANGED disk

LoadSaveFromBuffer == p_raw_save # <<>> /\ Load(p_raw_save, FALSE)

LoadSaveFromFile == Load(disk, TRUE)

\* pksav_fs_read_file_to_buffer fails, and the load with it.
ReadFails ==
  /\ status = "closed"
  /\ Returns("load", "FILE_IO")
  /\ UNCHANGED <<disk, p_raw_save, internal, status, intended>>

\* The client reads the file by its own means.
ClientReadsFile ==
  /\ status = "closed"
  /\ p_raw_save' = disk
  /\ Returns("read", "NONE")
  /\ UNCHANGED <<disk, internal, status, intended>>

-----------------------------------------------------------------------------
(* The client writes through the pointers of the struct.  A bag count and  *)
(* the coins are 16 bits wide.                                             *)

CanUse == status = "open" \/ (status = "failed" /\ ClientRetries)

EditWords(cell, w) ==
  /\ CanUse
  /\ cell # "money" => w \subseteq LowBit
  /\ unshuffled_save_slot' =
       [unshuffled_save_slot EXCEPT ![1].data.word[cell] = w]
  /\ intended' = [intended EXCEPT ![cell] = w]
  /\ UNCHANGED consolidated_pokemon_pc

EditTeam(field, mon) ==
  /\ CanUse
  /\ unshuffled_save_slot' =
       [unshuffled_save_slot EXCEPT
          ![IF field = "party" THEN 1 ELSE 4].data.mon = mon]
  /\ intended' = [intended EXCEPT ![field] = Visible(mon)]
  /\ UNCHANGED consolidated_pokemon_pc

EditPc(s, mon) ==
  /\ CanUse
  /\ consolidated_pokemon_pc' = [consolidated_pokemon_pc EXCEPT ![s] = mon]
  /\ intended' = [intended EXCEPT !.pc[s] = Visible(mon)]
  /\ UNCHANGED unshuffled_save_slot

Edit ==
  /\ \/ \E cell \in Editable \cap {"bag", "money", "coins"}, w \in EditWord :
          EditWords(cell, w)
     \/ \E field \in Editable \cap {"party", "daycare"}, mon \in EditPokemon :
          EditTeam(field, mon)
     \/ /\ "pc" \in Editable
        /\ \E s \in PcSection, mon \in EditPokemon : EditPc(s, mon)
  /\ Returns("edit", "NONE")
  /\ UNCHANGED <<disk, p_raw_save, save_type, is_buffer_ours,
                 is_save_from_first_slot, shuffled_section_nums, status>>

-----------------------------------------------------------------------------
(* Saving.                                                                 *)

\* Everything the client sees is encrypted where it lies.
StoredPc == StorePokemonPc(consolidated_pokemon_pc)

\* Wrong on purpose: checksums set before the boxes are copied.
ChecksumsTooEarly ==
  CopyPokemonPc(StoredPc,
    SetSectionChecksums(CryptSlot(unshuffled_save_slot, save_type, TRUE)))

EncryptedSlot ==
  SetSectionChecksums(
    CopyPokemonPc(StoredPc, CryptSlot(unshuffled_save_slot, save_type, TRUE)))

\* Wrong on purpose: the slot loaded from.
SameSlot == IF Len(p_raw_save) = 2 /\ ~is_save_from_first_slot THEN 2 ELSE 1

\* The slot not loaded from, if the buffer has two.
OutputSlot == IF Len(p_raw_save) = 2 /\ is_save_from_first_slot THEN 2 ELSE 1

ShuffledSlot == ShuffleSections(EncryptedSlot, shuffled_section_nums)

\* Wrong on purpose: the index of the slot loaded from.
SameIndex == ShuffledSlot[0].index

NextIndex == (ShuffledSlot[0].index + 1) % IndexMod

SavedBuffer ==
  [p_raw_save EXCEPT ![OutputSlot] = SetSaveIndex(ShuffledSlot, NextIndex)]

\* What a write cut short leaves: the file was truncated when opened.
TornFiles(buffer) == Prefixes(buffer)

CanSave == CanUse /\ ShuffledSlot[0].index < MaxIndex

SaveSucceeds ==
  /\ CanSave
  /\ disk' = SavedBuffer
  /\ SetSavePointers(SavedBuffer, save_type, EncryptedSlot)
  /\ status' = "open"
  /\ Returns("save", "NONE")
  /\ UNCHANGED <<save_type, is_buffer_ours, intended>>

\* Nothing is undone: the buffer keeps the new slot, and what the client sees
\* stays encrypted.
SaveFails ==
  /\ CanSave
  /\ disk' \in {disk} \cup TornFiles(SavedBuffer)
  /\ p_raw_save' = SavedBuffer
  /\ unshuffled_save_slot' = EncryptedSlot
  /\ consolidated_pokemon_pc' = StoredPc
  /\ status' = "failed"
  /\ Returns("save", "FILE_IO")
  /\ UNCHANGED <<save_type, is_buffer_ours, is_save_from_first_slot,
                 shuffled_section_nums, intended>>

\* pksav_gen3_free_save.  A buffer the client supplied stays with the client.
FreeSave ==
  /\ status # "closed"
  /\ p_raw_save' = IF is_buffer_ours THEN <<>> ELSE p_raw_save
  /\ ResetInternal
  /\ status' = "closed"
  /\ intended' = View'
  /\ Returns("free", "NONE")
  /\ UNCHANGED disk

\* The process dies, perhaps inside pksav_fs_write_buffer_to_file.
Crash ==
  /\ disk' \in IF CanSave THEN {disk} \cup TornFiles(SavedBuffer) ELSE {disk}
  /\ p_raw_save' = <<>>
  /\ ResetInternal
  /\ status' = "closed"
  /\ intended' = View'
  /\ Returns("crash", "NONE")

-----------------------------------------------------------------------------
Init ==
  /\ disk \in InitialDisk
  /\ p_raw_save = <<>>
  /\ save_type = "NONE"
  /\ is_buffer_ours = FALSE
  /\ is_save_from_first_slot = FALSE
  /\ shuffled_section_nums = [p \in Section |-> 0]
  /\ unshuffled_save_slot = ZeroSlot
  /\ consolidated_pokemon_pc = [s \in PcSection |-> ZeroPokemon]
  /\ status = "closed"
  /\ op = "init"
  /\ error = "NONE"
  /\ intended = View

Next ==
  \/ LoadSaveFromBuffer
  \/ LoadSaveFromFile
  \/ ReadFails
  \/ ClientReadsFile
  \/ Edit
  \/ SaveSucceeds
  \/ SaveFails
  \/ FreeSave
  \/ Crash

Spec == Init /\ [][Next]_vars

-----------------------------------------------------------------------------
(* What a file or buffer loads as.                                         *)

NoContent == [type |-> "NONE"]

\* Every section is somewhere in the slot, hence each once.
WellFormed(slot) == \A s \in Section : Holders(slot, s) # {}

Unshuffled(buffer) == UnshuffleSections(buffer[ActiveSlot(buffer)], ZeroSlot)

Decode(buffer) ==
  LET type == CHOOSE t \in BufferTypes(buffer) : TRUE
  IN  IF type = "NONE" THEN NoContent
      ELSE ContentOf(type, CryptSlot(Unshuffled(buffer), type, FALSE),
                     LoadPokemonPc(Unshuffled(buffer)))

Saved == op = "save" /\ error = "NONE"

-----------------------------------------------------------------------------
(* Properties.                                                             *)

\* Every variable has the type its declaration in C gives it.
TypeOK ==
  /\ disk \in Buffer
  /\ save_type \in SaveType \cup {"NONE"}
  /\ p_raw_save \in Buffer
  /\ is_buffer_ours \in BOOLEAN
  /\ is_save_from_first_slot \in BOOLEAN
  /\ shuffled_section_nums \in [Section -> Section]
  /\ unshuffled_save_slot \in SaveSlot
  /\ consolidated_pokemon_pc \in [PcSection -> Pokemon]
  /\ status \in {"closed", "open", "failed"}
  /\ op \in {"init", "load", "read", "edit", "save", "free", "crash"}
  /\ error \in {"NONE", "INVALID_SAVE", "FILE_IO"}
  /\ intended \in Content

\* Between two calls the client reads back, decrypted, what it loaded and
\* stored: a save encrypts everything in place and must decrypt it all again
\* from the slot it wrote (pksav_gen3_save_save).
ViewIsIntended == status = "open" => View = intended

\* The file a successful save leaves loads as what the client had stored:
\* loading and saving are symmetrical, whatever calls came before.
FileHoldsWhatWasSet == Saved => Decode(disk) = intended

\* The slot a successful save leaves active is one the game accepts: the
\* checksums are those of the encrypted sections, one index is in all footers,
\* and each stored Pokemon of the boxes has the checksum of its plain blocks.
SavedSlotIsSound ==
  Saved =>
    LET slot == disk[ActiveSlot(disk)]
    IN  /\ UniformIndex(slot)
        /\ \A p \in Section : slot[p].checksum = slot[p].data
        /\ \A p \in Section : slot[p].id \in PcSection =>
             LET mon == CryptPokemon(slot[p].data.mon, FALSE)
             IN  mon.checksum = BlocksSum(mon.blocks)

\* pksav_gen3_save_save sets the checksums of all Pokemon, so that no party
\* Pokemon the client changed is a bad egg to the game.
PartyChecksumIsSet ==
  Saved => unshuffled_save_slot[1].data.mon.checksum
             = BlocksSum(unshuffled_save_slot[1].data.mon.blocks)

\* A save that loads has every section, so that all that the struct points to
\* comes from the file and goes back to it.
LoadedSaveIsWhole ==
  status = "open" =>
    \A s \in Section : \E p \in Section : shuffled_section_nums[p] = s

\* With two slots in the buffer a save, failed or not, never touches the slot
\* that was active before, and one that succeeds makes the other slot active.
SavesAlternate ==
  [][(op' = "save" /\ Len(p_raw_save) = 2) =>
       LET active == ActiveSlot(p_raw_save)
       IN  /\ p_raw_save'[active] = p_raw_save[active]
           /\ error' = "NONE" => ActiveSlot(p_raw_save') # active]_vars

\* What of a section the client cannot edit is what it was.
SameRest(old, new) ==
  /\ new.id = old.id /\ new.magic = old.magic
  /\ \A c \in WordCell :
       (old.id = 1 /\ c \in Fields) \/ new.data.word[c] = old.data.word[c]
  /\ old.id \in {1, 4} \cup PcSection \/ new.data.mon = old.data.mon

\* All of it is, but for the checksum of a Pokemon.
SameData(old, new) ==
  /\ new.data.word = old.data.word
  /\ Visible(new.data.mon) = Visible(old.data.mon)

\* The slot that a save writes, failed or not, is the slot that was loaded with
\* what the client changed: every section lies where it lay and what the client
\* cannot reach in it is as it was; and if the client changed nothing then so is
\* what was decrypted for it, encrypted again (pksav_gen3_save_save).
SavesKeepTheRest ==
  [][(op' = "save" /\ status = "open") =>
       LET from == p_raw_save[ActiveSlot(p_raw_save)]
           into == p_raw_save'[OutputSlot]
       IN  WellFormed(from) =>
             /\ \A p \in Section : SameRest(from[p], into[p])
             /\ intended = Decode(p_raw_save) =>
                  \A p \in Section : SameData(from[p], into[p])]_vars
=============================================================================
