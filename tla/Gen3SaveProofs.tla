--------------------------- MODULE Gen3SaveProofs ---------------------------
(***************************************************************************)
(* Proofs about Gen3Save: for any sections, words, Pokemon and initial     *)
(* files, the types are right, what the client sees is what it stored, the *)
(* slot a save leaves is sound, and saves alternate between the slots.     *)
(*                                                                         *)
(* The last three hold for a client that gives up a session whose save     *)
(* failed, for indexes that have not wrapped around (NoRetry and NoWrap)   *)
(* and for files in which the section at the start of a slot is not there  *)
(* again with another index (WellHeadedFiles): without them the client may *)
(* see something else, and a save may go to a slot that does not become    *)
(* the active one.                                                         *)
(***************************************************************************)
EXTENDS Gen3Save, Gen3SectionsProofs, SequenceTheorems

NoRetry == ~ClientRetries
NoWrap == MaxIndex < IndexMod

\* A slot that pksav_gen3_get_buffer_save_type would look into.
SlotIsValid(slot) == \A p \in Section : SectionIsValid(slot[p])

\* The active slot is told by the index of the section at its start, and the
\* next index is taken from the section of that id that unshuffling kept.  They
\* are one section where every id is there once, whatever the other indexes, and
\* have one index where all of the slot does.
WellHeaded(slot) == slot[Max(Holders(slot, slot[0].id))].index = slot[0].index

WellHeadedBuffer(b) == \A i \in 1..Len(b) : SlotIsValid(b[i]) => WellHeaded(b[i])

WellHeadedFiles == \A d \in InitialDisk : WellHeadedBuffer(d)

-----------------------------------------------------------------------------
(* The inductive invariant.                                                *)

LoadedSlot == IF is_save_from_first_slot THEN 1 ELSE 2

\* No save spoils the file or the buffer.
BuffersInv == WellHeadedBuffer(disk) /\ WellHeadedBuffer(p_raw_save)

\* A session, failed or not, belongs to a slot of its buffer: the order of the
\* sections is that slot's, and each lies unshuffled at its own number.
StructInv ==
  status # "closed" =>
    /\ save_type \in SaveType
    /\ LoadedSlot \in 1..Len(p_raw_save)
    /\ shuffled_section_nums = SectionNums(p_raw_save[LoadedSlot])
    /\ \A p \in Section :
         unshuffled_save_slot[shuffled_section_nums[p]].id
           = shuffled_section_nums[p]

\* That slot is the active one, and its index is in the unshuffled footer from
\* which the next one is taken.
ActiveInv ==
  status = "open" =>
    /\ LoadedSlot = ActiveSlot(p_raw_save)
    /\ unshuffled_save_slot[shuffled_section_nums[0]].index
         = p_raw_save[LoadedSlot][0].index

TypeInv == TypeOK /\ StructInv
Inv == TypeInv /\ BuffersInv /\ ActiveInv /\ ViewIsIntended

-----------------------------------------------------------------------------
(* Buffers.                                                                *)

\* A buffer holds up to two slots.
LEMMA BufferLength ==
  ASSUME NEW buffer \in Buffer
  PROVE  buffer \in Seq(SaveSlot) /\ Len(buffer) \in 0..2
  <1>1. buffer \in Seq(SaveSlot) /\ Len(buffer) <= 2
    BY Zenon DEF Buffer
  <1>2. Len(buffer) \in Nat
    BY <1>1
  <1>3. \A n \in Nat : n <= 2 => n \in 0..2
    OBVIOUS
  <1> QED
    BY <1>1, <1>2, <1>3, Zenon

\* The active slot is one the buffer has.
LEMMA ActiveSlotRange ==
  ASSUME NEW buffer \in Buffer
  PROVE  /\ Len(buffer) \in 0..2
         /\ ActiveSlot(buffer) \in 0..Len(buffer)
         /\ Len(buffer) > 0 => ActiveSlot(buffer) > 0
         /\ \A i \in 1..Len(buffer) : buffer[i] \in SaveSlot
  <1>1. buffer \in Seq(SaveSlot) /\ Len(buffer) \in 0..2
    BY BufferLength
  <1>2. CASE Len(buffer) = 0
    BY <1>1, <1>2 DEF ActiveSlot
  <1>3. CASE Len(buffer) = 1
    BY <1>1, <1>3 DEF ActiveSlot
  <1>4. CASE Len(buffer) = 2
    BY <1>1, <1>4 DEF ActiveSlot
  <1> QED
    BY <1>1, <1>2, <1>3, <1>4

\* A buffer whose type is found has an active slot, and all its section ids
\* are in range (get_buffer_save_type looks at each).
LEMMA DetectedIsValid ==
  ASSUME NEW buffer \in Buffer, NEW type \in BufferTypes(buffer), type # "NONE"
  PROVE  /\ type \in SaveType
         /\ ActiveSlot(buffer) \in 1..Len(buffer)
         /\ SectionNums(buffer[ActiveSlot(buffer)]) \in [Section -> Section]
         /\ SlotIsValid(buffer[ActiveSlot(buffer)])
  <1> DEFINE a == ActiveSlot(buffer)
             slot == buffer[a]
  <1>1. a # 0 /\ type \in DetectedTypes(slot)
    BY DEF BufferTypes
  <1>2. a \in 1..Len(buffer)
    BY <1>1, ActiveSlotRange
  <1> HIDE DEF slot, a
  <1>3. /\ \A p \in Section : SectionIsValid(slot[p])
        /\ type \in SaveType
    <2>1. ~ \E p \in Section : ~SectionIsValid(slot[p])
      BY <1>1 DEF DetectedTypes
    <2>2. \A word : DetectType(word) \in SaveType \cup {"NONE"}
      BY DEF DetectType, SaveType
    <2>3. type \in SaveType \cup {"NONE"}
      BY <1>1, <2>1, <2>2 DEF DetectedTypes
    <2> QED
      BY <2>1, <2>3
  <1>4. SectionNums(slot) \in [Section -> Section]
    BY <1>3 DEF SectionNums, SectionIsValid
  <1> QED
    BY <1>2, <1>3, <1>4 DEF slot, a, SlotIsValid

\* A slot with one index in all footers, as a save writes it, is well headed.
LEMMA UniformHead ==
  ASSUME NEW slot, SectionNums(slot) \in [Section -> Section],
         UniformIndex(slot)
  PROVE  WellHeaded(slot)
  <1> DEFINE S == Holders(slot, slot[0].id)
  <1>1. 0 \in S /\ S \in SUBSET Section
    BY SectionFacts DEF Holders
  <1> HIDE DEF S
  <1>2. Max(S) \in Section
    BY <1>1, LastHolder
  <1> QED
    BY <1>2, SectionFacts DEF UniformIndex, WellHeaded, S

\* What _pksav_gen3_set_save_pointers leaves in the struct.
LEMMA PointersFields ==
  ASSUME NEW slot \in SaveSlot, NEW type \in SaveType, NEW old \in SaveSlot,
         SectionNums(slot) \in [Section -> Section]
  PROVE  LET u == UnshuffleSections(slot, old)
             c == CryptSlot(u, type, FALSE)
             nums == SectionNums(slot)
         IN  /\ c \in SaveSlot
             /\ LoadPokemonPc(u) \in [PcSection -> Pokemon]
             /\ \A p \in Section : c[nums[p]].id = nums[p]
             /\ WellHeaded(slot) => c[nums[0]].index = slot[0].index
  <1> DEFINE u == UnshuffleSections(slot, old)
             c == CryptSlot(u, type, FALSE)
             nums == SectionNums(slot)
  <1>1. \A p \in Section : nums[p] \in Section /\ Holders(slot, nums[p]) # {}
    BY DEF SectionNums, Holders
  <1>2. /\ u \in SaveSlot
        /\ \A s \in Section : Holders(slot, s) # {} => u[s].id = s
    BY UnshuffleFields
  <1>0. nums[0] = slot[0].id /\ 0 \in Section
    BY SectionFacts DEF SectionNums
  <1>3. WellHeaded(slot) => u[nums[0]].index = slot[0].index
    BY <1>0, <1>1 DEF UnshuffleSections, WellHeaded
  <1> HIDE DEF u
  <1>4. LoadPokemonPc(u) \in [PcSection -> Pokemon]
    BY <1>2, LoadPcFields
  <1>5. c \in SaveSlot /\ \A s \in Section : SameFooter(c[s], u[s])
    BY <1>2, CryptSlotFields
  <1> HIDE DEF c, nums
  <1>6. \A p \in Section : c[nums[p]].id = nums[p]
    BY <1>1, <1>2, <1>5 DEF SameFooter
  <1>7. WellHeaded(slot) => c[nums[0]].index = slot[0].index
    BY <1>0, <1>1, <1>3, <1>5 DEF SameFooter
  <1> QED
    BY <1>4, <1>5, <1>6, <1>7 DEF u, c, nums

\* A file cut short is a file of fewer slots.
LEMMA TornIsPrefix ==
  ASSUME NEW buffer \in Buffer, NEW torn \in TornFiles(buffer)
  PROVE  /\ torn \in Buffer
         /\ WellHeadedBuffer(buffer) => WellHeadedBuffer(torn)
  <1>1. PICK l \in 0..Len(buffer) : torn = SubSeq(buffer, 1, l)
    BY DEF TornFiles, Prefixes
  <1>2. buffer \in Seq(SaveSlot) /\ Len(buffer) \in 0..2
    BY BufferLength
  <1>3. /\ torn \in Seq(SaveSlot) /\ Len(torn) = l
        /\ \A i \in 1..l : torn[i] = buffer[i]
    BY <1>1, <1>2
  <1>4. l \in 0..2
    BY <1>1, <1>2
  <1>5. torn \in Buffer
    BY <1>3, <1>4 DEF Buffer
  <1>6. WellHeadedBuffer(buffer) => WellHeadedBuffer(torn)
    BY <1>1, <1>2, <1>3 DEF WellHeadedBuffer
  <1> QED
    BY <1>5, <1>6

-----------------------------------------------------------------------------
(* What pksav_gen3_save_save writes.                                       *)

\* The slot it writes has the sections in the order of the loaded one and one
\* index in every footer; the other slot, if there is one, is the loaded one
\* and is left alone.
LEMMA SavedFields ==
  ASSUME TypeInv, status # "closed"
  PROVE  /\ StoredPc \in [PcSection -> Pokemon]
         /\ EncryptedSlot \in SaveSlot
         /\ \A s \in Section :
              /\ EncryptedSlot[s].id = unshuffled_save_slot[s].id
              /\ EncryptedSlot[s].index = unshuffled_save_slot[s].index
         /\ NextIndex \in SaveIndex
         /\ OutputSlot \in 1..Len(p_raw_save)
         /\ SavedBuffer \in Buffer
         /\ Len(SavedBuffer) = Len(p_raw_save)
         /\ SavedBuffer[OutputSlot] = SetSaveIndex(ShuffledSlot, NextIndex)
         /\ \A i \in 1..Len(p_raw_save) :
              i # OutputSlot => /\ SavedBuffer[i] = p_raw_save[i]
                                /\ i = LoadedSlot
         /\ Len(p_raw_save) = 1 => OutputSlot = LoadedSlot
         /\ Len(p_raw_save) = 2 => OutputSlot # LoadedSlot
         /\ \A i \in 1..Len(p_raw_save) :
              SectionNums(SavedBuffer[i]) = shuffled_section_nums
         /\ \A p \in Section : SavedBuffer[OutputSlot][p].index = NextIndex
         /\ WellHeaded(SavedBuffer[OutputSlot])
         /\ WellHeadedBuffer(p_raw_save) => WellHeadedBuffer(SavedBuffer)
  <1> DEFINE u == unshuffled_save_slot
             nums == shuffled_section_nums
             len == Len(p_raw_save)
             out == SetSaveIndex(ShuffledSlot, NextIndex)
  <1>1. /\ u \in SaveSlot /\ consolidated_pokemon_pc \in [PcSection -> Pokemon]
        /\ nums \in [Section -> Section]
        /\ p_raw_save \in Buffer
        /\ is_save_from_first_slot \in BOOLEAN
    BY DEF TypeInv, TypeOK
  <1>2. /\ save_type \in SaveType
        /\ LoadedSlot \in 1..len
        /\ nums = SectionNums(p_raw_save[LoadedSlot])
        /\ \A p \in Section : u[nums[p]].id = nums[p]
    BY DEF TypeInv, StructInv
  <1>3. StoredPc \in [PcSection -> Pokemon]
    BY <1>1, StorePcFields DEF StoredPc
  <1>4. 0 \in SaveIndex
    BY IndexAssumption DEF SaveIndex
  <1> DEFINE e == EncryptedSlot
             written(i) == SetSaveIndex(ShuffleSections(e, nums), i)
  <1>e. e = SetSectionChecksums(CopyPokemonPc(StorePokemonPc(
               consolidated_pokemon_pc), CryptSlot(u, save_type, TRUE)))
    BY DEF EncryptedSlot, StoredPc
  <1> HIDE DEF u, nums, len, e
  <1>r. ASSUME NEW i \in SaveIndex
        PROVE  /\ e \in SaveSlot
               /\ \A s \in Section : e[s].id = u[s].id /\ e[s].index = u[s].index
               /\ written(i) \in SaveSlot
               /\ UniformIndex(written(i))
               /\ \A p \in Section : written(i)[p].index = i
               /\ SectionNums(written(i)) = nums
    <2>1. RoundTrips(u, consolidated_pokemon_pc, save_type, nums, i)
      BY <1>1, <1>2, SaveRoundTrip
    <2> QED
      BY <1>e, <2>1 DEF RoundTrips
  <1>5. /\ EncryptedSlot \in SaveSlot
        /\ \A s \in Section : /\ EncryptedSlot[s].id = u[s].id
                              /\ EncryptedSlot[s].index = u[s].index
    BY <1>r, <1>4 DEF e
  <1>6. NextIndex \in SaveIndex
    <2>1. nums[0] \in Section
      BY <1>1, SectionFacts DEF nums
    <2>2. ShuffledSlot[0] = EncryptedSlot[nums[0]]
      BY SectionFacts DEF ShuffledSlot, ShuffleSections, nums
    <2>3. EncryptedSlot[nums[0]] \in SaveSection
      BY <1>5, <2>1 DEF SaveSlot
    <2>4. ShuffledSlot[0].index \in SaveIndex
      BY <2>2, <2>3 DEF SaveSection
    <2> DEFINE i == ShuffledSlot[0].index
    <2>5. i \in Nat
      BY <2>4, IndexAssumption DEF SaveIndex
    <2> HIDE DEF i
    <2>6. (i + 1) % IndexMod \in 0..(IndexMod - 1)
      BY <2>5, IndexAssumption
    <2> QED
      BY <2>6 DEF NextIndex, SaveIndex, i
  <1>7. /\ out \in SaveSlot
        /\ WellHeaded(out)
        /\ \A p \in Section : out[p].index = NextIndex
        /\ SectionNums(out) = nums
    <2>1. out = written(NextIndex)
      BY DEF e, ShuffledSlot, nums
    <2> HIDE DEF out, written
    <2>2. /\ out \in SaveSlot
          /\ UniformIndex(out)
          /\ \A p \in Section : out[p].index = NextIndex
          /\ SectionNums(out) = nums
      BY <1>r, <1>6, <2>1
    <2>3. WellHeaded(out)
      BY <1>1, <2>2, UniformHead
    <2> QED
      BY <2>2, <2>3
  <1>8. p_raw_save \in Seq(SaveSlot) /\ len \in 0..2
    BY <1>1, BufferLength DEF len
  <1>9. /\ OutputSlot \in 1..len
        /\ len = 1 => OutputSlot = LoadedSlot
        /\ len = 2 => OutputSlot # LoadedSlot
        /\ \A i \in 1..len : i # OutputSlot => i = LoadedSlot
    <2>1. OutputSlot = IF len = 2 /\ is_save_from_first_slot THEN 2 ELSE 1
      BY DEF OutputSlot, len
    <2> QED
      BY <1>1, <1>2, <1>8, <2>1 DEF LoadedSlot
  <1>10. SavedBuffer = [p_raw_save EXCEPT ![OutputSlot] = out]
    BY DEF SavedBuffer
  <1> HIDE DEF out
  <1>11. /\ SavedBuffer \in Seq(SaveSlot)
         /\ Len(SavedBuffer) = len
         /\ SavedBuffer[OutputSlot] = out
         /\ \A i \in 1..len : i # OutputSlot => SavedBuffer[i] = p_raw_save[i]
    BY <1>7, <1>8, <1>9, <1>10, ExceptSeq DEF len
  <1>12. SavedBuffer \in Buffer
    <2>1. Len(SavedBuffer) <= 2
      BY <1>8, <1>11
    <2> QED
      BY <1>11, <2>1 DEF Buffer
  <1>13. \A i \in 1..len : SectionNums(SavedBuffer[i]) = nums
    BY <1>2, <1>7, <1>9, <1>11
  <1>14. WellHeadedBuffer(p_raw_save) => WellHeadedBuffer(SavedBuffer)
    BY <1>7, <1>9, <1>11 DEF WellHeadedBuffer, len
  <1> QED
    BY <1>3, <1>5, <1>6, <1>7, <1>9, <1>11, <1>12, <1>13, <1>14 DEF out, u, nums, len

-----------------------------------------------------------------------------
(* Type correctness.                                                       *)

\* What the client sees of a slot.
LEMMA ContentType ==
  ASSUME NEW type \in SaveType \cup {"NONE"}, NEW u \in SaveSlot,
         NEW pc \in [PcSection -> Pokemon]
  PROVE  ContentOf(type, u, pc) \in Content
  <1>1. \A mon \in Pokemon : Visible(mon) \in VisiblePokemon
    BY DEF Visible, Pokemon, VisiblePokemon
  <1>2. \A s \in {1, 4} : /\ u[s].data.word \in [WordCell -> Word]
                          /\ u[s].data.mon \in Pokemon
    BY SectionFacts DEF SaveSlot, SaveSection, SectionData
  <1>3. "bag" \in WordCell /\ "money" \in WordCell /\ "coins" \in WordCell
    BY DEF WordCell
  <1>4. [s \in PcSection |-> Visible(pc[s])] \in [PcSection -> VisiblePokemon]
    BY <1>1
  <1> QED
    BY <1>1, <1>2, <1>3, <1>4 DEF ContentOf, Content

\* The struct after memset(0).
LEMMA ZeroTypes ==
  /\ [p \in Section |-> 0] \in [Section -> Section]
  /\ ZeroSlot \in SaveSlot
  /\ [s \in PcSection |-> ZeroPokemon] \in [PcSection -> Pokemon]
  BY SectionFacts, ZeroSlotType, ZeroPokemonType

\* The program starts well-typed.
LEMMA TypeInvInit == Init => TypeInv
  <1> SUFFICES ASSUME Init PROVE TypeInv
    OBVIOUS
  <1>1. <<>> \in Buffer
    BY DEF Buffer
  <1>2. disk \in Buffer
    BY InitialDiskAssumption DEF Init
  <1>3. /\ unshuffled_save_slot \in SaveSlot
        /\ consolidated_pokemon_pc \in [PcSection -> Pokemon]
        /\ shuffled_section_nums \in [Section -> Section]
    BY ZeroTypes DEF Init
  <1>4. intended \in Content
    BY <1>3, ContentType DEF Init, View
  <1>5. TypeOK
    BY <1>1, <1>2, <1>3, <1>4 DEF Init, TypeOK
  <1> QED
    BY <1>5 DEF Init, TypeInv, StructInv

\* Loading a buffer, whoever it belongs to.
LEMMA TypeInvLoad ==
  ASSUME TypeInv, NEW buffer \in Buffer, NEW ours \in BOOLEAN,
         Load(buffer, ours)
  PROVE  TypeInv'
  <1>1. TypeOK
    BY DEF TypeInv
  <1>2. PICK type \in BufferTypes(buffer) :
          \/ /\ type # "NONE"
             /\ save_type' = type
             /\ SetSavePointers(buffer, type, ZeroSlot)
             /\ is_buffer_ours' = ours
             /\ status' = "open"
             /\ intended' = View'
             /\ Returns("load", "NONE")
          \/ /\ type = "NONE"
             /\ Returns("load", "INVALID_SAVE")
             /\ UNCHANGED <<p_raw_save, internal, status, intended>>
    BY DEF Load
  <1>3. disk' = disk
    BY DEF Load
  <1>4. CASE type = "NONE"
    <2>1. /\ UNCHANGED <<p_raw_save, internal, status, intended>>
          /\ Returns("load", "INVALID_SAVE")
      BY <1>2, <1>4
    <2>2. TypeOK'
      BY <1>1, <1>3, <2>1 DEF TypeOK, Returns, internal
    <2>3. status' = "closed"
      BY <2>1 DEF Load
    <2> QED
      BY <2>2, <2>3 DEF TypeInv, StructInv
  <1>5. CASE type # "NONE"
    <2> DEFINE a == ActiveSlot(buffer)
               slot == buffer[a]
               u == UnshuffleSections(slot, ZeroSlot)
    <2>1. /\ type \in SaveType
          /\ a \in 1..Len(buffer)
          /\ SectionNums(slot) \in [Section -> Section]
      BY <1>5, DetectedIsValid
    <2>2. slot \in SaveSlot /\ Len(buffer) \in 0..2
      BY <2>1, ActiveSlotRange
    <2>3. /\ CryptSlot(u, type, FALSE) \in SaveSlot
          /\ LoadPokemonPc(u) \in [PcSection -> Pokemon]
          /\ \A p \in Section :
               CryptSlot(u, type, FALSE)[SectionNums(slot)[p]].id
                 = SectionNums(slot)[p]
      BY <2>1, <2>2, ZeroSlotType, PointersFields
    <2>4. /\ save_type' = type /\ is_buffer_ours' = ours
          /\ status' = "open" /\ intended' = View'
          /\ op' = "load" /\ error' = "NONE"
          /\ p_raw_save' = buffer
          /\ is_save_from_first_slot' = (a = 1)
          /\ shuffled_section_nums' = SectionNums(slot)
          /\ unshuffled_save_slot' = CryptSlot(u, type, FALSE)
          /\ consolidated_pokemon_pc' = LoadPokemonPc(u)
      BY <1>2, <1>5 DEF SetSavePointers, Returns
    <2> HIDE DEF u, slot
    <2>5. intended' \in Content
      BY <2>1, <2>3, <2>4, ContentType DEF View
    <2>6. TypeOK'
      BY <1>1, <1>3, <2>1, <2>3, <2>4, <2>5 DEF TypeOK
    <2>7. LoadedSlot' = a
      <3>1. a = 1 \/ a = 2
        <4>1. \A l \in 0..2 : \A n \in 1..l : n = 1 \/ n = 2
          OBVIOUS
        <4> QED
          BY <2>1, <2>2, <4>1, Zenon
      <3> HIDE DEF a
      <3> QED
        BY <2>4, <3>1 DEF LoadedSlot
    <2>8. StructInv'
      BY <2>1, <2>3, <2>4, <2>7 DEF StructInv, slot
    <2> QED
      BY <2>6, <2>8 DEF TypeInv
  <1> QED
    BY <1>4, <1>5

\* A save: what it writes is a buffer, and the struct follows the slot that is
\* active in it, whichever that is.
LEMMA TypeInvSave ==
  ASSUME TypeInv, SaveSucceeds \/ SaveFails
  PROVE  TypeInv'
  <1>1. status # "closed" /\ TypeOK /\ StructInv
    BY DEF SaveSucceeds, SaveFails, CanSave, CanUse, TypeInv
  <1>2. /\ StoredPc \in [PcSection -> Pokemon]
        /\ EncryptedSlot \in SaveSlot
        /\ \A s \in Section : EncryptedSlot[s].id = unshuffled_save_slot[s].id
        /\ SavedBuffer \in Buffer
        /\ Len(SavedBuffer) = Len(p_raw_save)
        /\ \A i \in 1..Len(p_raw_save) :
             SectionNums(SavedBuffer[i]) = shuffled_section_nums
    BY <1>1, SavedFields
  <1>3. save_type \in SaveType /\ shuffled_section_nums \in [Section -> Section]
    BY <1>1 DEF TypeOK, StructInv
  <1>4. LoadedSlot \in 1..Len(p_raw_save)
    BY <1>1 DEF StructInv
  <1>5. CASE SaveSucceeds
    <2> DEFINE a == ActiveSlot(SavedBuffer)
               slot == SavedBuffer[a]
               u == UnshuffleSections(slot, EncryptedSlot)
               c == CryptSlot(u, save_type, FALSE)
    <2>1. a \in 1..Len(SavedBuffer) /\ Len(SavedBuffer) \in 0..2
      BY <1>2, <1>4, ActiveSlotRange
    <2>2. slot \in SaveSlot
      BY <1>2, <2>1, ActiveSlotRange
    <2>3. SectionNums(slot) = shuffled_section_nums
      BY <1>2, <2>1
    <2>4. /\ c \in SaveSlot
          /\ LoadPokemonPc(u) \in [PcSection -> Pokemon]
          /\ \A p \in Section : c[SectionNums(slot)[p]].id = SectionNums(slot)[p]
      BY <1>2, <1>3, <2>2, <2>3, PointersFields
    <2>5. /\ p_raw_save' = SavedBuffer
          /\ is_save_from_first_slot' = (a = 1)
          /\ shuffled_section_nums' = SectionNums(slot)
          /\ unshuffled_save_slot' = c
          /\ consolidated_pokemon_pc' = LoadPokemonPc(u)
          /\ disk' = SavedBuffer
          /\ status' = "open" /\ op' = "save" /\ error' = "NONE"
          /\ UNCHANGED <<save_type, is_buffer_ours, intended>>
      BY <1>5 DEF SaveSucceeds, SetSavePointers, Returns
    <2>6. LoadedSlot' = a
      <3>1. a = 1 \/ a = 2
        BY <2>1
      <3> HIDE DEF a
      <3> QED
        BY <2>5, <3>1 DEF LoadedSlot
    <2> HIDE DEF c, u
    <2>7. TypeOK'
      BY <1>1, <1>2, <1>3, <2>3, <2>4, <2>5 DEF TypeOK
    <2>8. StructInv'
      BY <1>3, <2>1, <2>4, <2>5, <2>6 DEF StructInv
    <2> QED
      BY <2>7, <2>8 DEF TypeInv
  <1>6. CASE SaveFails
    <2>1. /\ p_raw_save' = SavedBuffer
          /\ unshuffled_save_slot' = EncryptedSlot
          /\ consolidated_pokemon_pc' = StoredPc
          /\ disk' \in {disk} \cup TornFiles(SavedBuffer)
          /\ status' = "failed" /\ op' = "save" /\ error' = "FILE_IO"
          /\ UNCHANGED <<save_type, is_buffer_ours, is_save_from_first_slot,
                         shuffled_section_nums, intended>>
      BY <1>6 DEF SaveFails, Returns
    <2>2. disk' \in Buffer
      BY <1>1, <1>2, <2>1, TornIsPrefix DEF TypeOK
    <2>3. TypeOK'
      BY <1>1, <1>2, <2>1, <2>2 DEF TypeOK
    <2>4. LoadedSlot' = LoadedSlot
      BY <2>1 DEF LoadedSlot
    <2>5. StructInv'
      BY <1>1, <1>2, <1>3, <1>4, <2>1, <2>4 DEF StructInv
    <2> QED
      BY <2>3, <2>5 DEF TypeInv
  <1> QED
    BY <1>5, <1>6

\* What the edit of a word or a Pokemon of section 1 or 4 leaves alone.
OnlyDataEdited(v, u, s, d) ==
  /\ v \in SaveSlot
  /\ v[s].data = d
  /\ \A t \in Section : SameFooter(v[t], u[t])
  /\ \A t \in Section \ {s} : v[t] = u[t]

\* Such an edit is one of the data of a section.
LEMMA EditDataFields ==
  ASSUME NEW u \in SaveSlot, NEW s \in {1, 4}, NEW d \in SectionData
  PROVE  OnlyDataEdited([u EXCEPT ![s].data = d], u, s, d)
  <1> DEFINE v == [u EXCEPT ![s].data = d]
  <1>1. s \in Section
    BY SectionFacts
  <1>2. \A t \in Section : u[t] \in SaveSection
    BY DEF SaveSlot
  <1>3. [u[s] EXCEPT !.data = d] \in SaveSection
    BY <1>1, <1>2 DEF SaveSection
  <1>4. [u[s] EXCEPT !.data = d].data = d /\ SameFooter([u[s] EXCEPT !.data = d], u[s])
    BY <1>1, <1>2 DEF SaveSection, SameFooter
  <1>5. /\ v = [u EXCEPT ![s] = [u[s] EXCEPT !.data = d]]
        /\ u \in [Section -> SaveSection]
    BY <1>1 DEF SaveSlot
  <1> DEFINE r == [u[s] EXCEPT !.data = d]
  <1> HIDE DEF r, v
  <1>6. /\ v \in [Section -> SaveSection] /\ v[s] = r
        /\ \A t \in Section \ {s} : v[t] = u[t]
    BY <1>1, <1>3, <1>5 DEF r
  <1>7. \A t \in Section : SameFooter(v[t], u[t])
    BY <1>4, <1>6 DEF SameFooter, r
  <1> QED
    BY <1>4, <1>6, <1>7 DEF v, r, SaveSlot, OnlyDataEdited

\* A client that stores a word.
LEMMA EditWordsFields ==
  ASSUME TypeOK, NEW cell \in {"bag", "money", "coins"}, NEW w \in Word,
         EditWords(cell, w), save_type' = save_type
  PROVE  /\ unshuffled_save_slot' \in SaveSlot
         /\ \A t \in Section : SameFooter(unshuffled_save_slot'[t],
                                          unshuffled_save_slot[t])
         /\ consolidated_pokemon_pc' = consolidated_pokemon_pc
         /\ intended' \in Content
         /\ View = intended => View' = intended'
  <1> DEFINE u == unshuffled_save_slot
             d == [u[1].data EXCEPT !.word[cell] = w]
             v == unshuffled_save_slot'
  <1>1. u \in SaveSlot /\ intended \in Content
    BY DEF TypeOK
  <1>2. cell \in WordCell
    BY DEF WordCell
  <1>3. u[1] \in SaveSection /\ u[1].data \in SectionData
    BY <1>1, SectionFacts DEF SaveSlot, SaveSection
  <1>4. /\ d \in SectionData /\ d.mon = u[1].data.mon
        /\ d.word[cell] = w
        /\ \A c \in WordCell \ {cell} : d.word[c] = u[1].data.word[c]
    BY <1>2, <1>3 DEF SectionData
  <1>5. v = [u EXCEPT ![1].data = d]
    BY DEF EditWords
  <1> HIDE DEF d
  <1>6. OnlyDataEdited(v, u, 1, d)
    BY <1>1, <1>4, <1>5, EditDataFields
  <1>7. intended' = [intended EXCEPT ![cell] = w] 
    BY DEF EditWords
  <1>8. intended' \in Content
    BY <1>1, <1>7 DEF Content
  <1>9. ASSUME View = intended
        PROVE  View' = intended'
    <2>1. v[4] = u[4] /\ v[1].data = d
      BY <1>6, SectionFacts DEF OnlyDataEdited
    <2> DEFINE boxes == [s \in PcSection |-> Visible(consolidated_pokemon_pc[s])]
               old == u[1].data
    <2>2. intended = [type |-> save_type, bag |-> old.word["bag"],
                      money |-> old.word["money"], coins |-> old.word["coins"],
                      party |-> Visible(old.mon),
                      daycare |-> Visible(u[4].data.mon), pc |-> boxes]
      BY <1>9 DEF View, ContentOf
    <2>3. View' = [type |-> save_type, bag |-> d.word["bag"],
                   money |-> d.word["money"], coins |-> d.word["coins"],
                   party |-> Visible(old.mon),
                   daycare |-> Visible(u[4].data.mon), pc |-> boxes]
      <3>1. consolidated_pokemon_pc' = consolidated_pokemon_pc
        BY DEF EditWords
      <3> QED
        BY <1>4, <2>1, <3>1 DEF View, ContentOf
    <2> HIDE DEF boxes, old
    <2>4. /\ d.word["bag"] = IF cell = "bag" THEN w ELSE old.word["bag"]
          /\ d.word["money"] = IF cell = "money" THEN w ELSE old.word["money"]
          /\ d.word["coins"] = IF cell = "coins" THEN w ELSE old.word["coins"]
      BY <1>4 DEF old, WordCell
    <2> QED
      BY <1>7, <2>2, <2>3, <2>4
  <1> QED
    BY <1>6, <1>8, <1>9 DEF EditWords, OnlyDataEdited

\* A client that stores a Pokemon in the party or the daycare.
LEMMA EditTeamFields ==
  ASSUME TypeOK, NEW field \in {"party", "daycare"}, NEW mon \in Pokemon,
         EditTeam(field, mon), save_type' = save_type
  PROVE  /\ unshuffled_save_slot' \in SaveSlot
         /\ \A t \in Section : SameFooter(unshuffled_save_slot'[t],
                                          unshuffled_save_slot[t])
         /\ consolidated_pokemon_pc' = consolidated_pokemon_pc
         /\ intended' \in Content
         /\ View = intended => View' = intended'
  <1> DEFINE u == unshuffled_save_slot
             s == IF field = "party" THEN 1 ELSE 4
             d == [u[s].data EXCEPT !.mon = mon]
             v == unshuffled_save_slot'
  <1>1. u \in SaveSlot /\ intended \in Content
    BY DEF TypeOK
  <1>2. s \in {1, 4} /\ s \in Section
    BY SectionFacts
  <1>3. u[s] \in SaveSection /\ u[s].data \in SectionData
    BY <1>1, <1>2 DEF SaveSlot, SaveSection
  <1>4. d \in SectionData /\ d.mon = mon /\ d.word = u[s].data.word
    BY <1>3 DEF SectionData
  <1>5. v = [u EXCEPT ![s].data = d]
    BY DEF EditTeam
  <1> HIDE DEF d
  <1>6. OnlyDataEdited(v, u, s, d)
    BY <1>1, <1>2, <1>4, <1>5, EditDataFields
  <1>7. /\ intended' = [intended EXCEPT ![field] = Visible(mon)]
        /\ consolidated_pokemon_pc' = consolidated_pokemon_pc
    BY DEF EditTeam
  <1>8. intended' \in Content
    <2>1. Visible(mon) \in VisiblePokemon
      BY DEF Visible, Pokemon, VisiblePokemon
    <2> QED
      BY <1>1, <1>7, <2>1 DEF Content
  <1>9. ASSUME View = intended
        PROVE  View' = intended'
    <2> DEFINE boxes == [t \in PcSection |-> Visible(consolidated_pokemon_pc[t])]
    <2>1. intended = [type |-> save_type, bag |-> u[1].data.word["bag"],
                      money |-> u[1].data.word["money"],
                      coins |-> u[1].data.word["coins"],
                      party |-> Visible(u[1].data.mon),
                      daycare |-> Visible(u[4].data.mon), pc |-> boxes]
      BY <1>9 DEF View, ContentOf
    <2>2. View' = [type |-> save_type, bag |-> v[1].data.word["bag"],
                   money |-> v[1].data.word["money"],
                   coins |-> v[1].data.word["coins"],
                   party |-> Visible(v[1].data.mon),
                   daycare |-> Visible(v[4].data.mon), pc |-> boxes]
      BY <1>7 DEF View, ContentOf
    <2> HIDE DEF boxes
    <2>3. /\ v[1].data.word = u[1].data.word
          /\ v[1].data.mon = IF field = "party" THEN mon ELSE u[1].data.mon
          /\ v[4].data.mon = IF field = "party" THEN u[4].data.mon ELSE mon
      BY <1>4, <1>6, SectionFacts DEF OnlyDataEdited
    <2> HIDE DEF s, v
    <2> QED
      BY <1>7, <2>1, <2>2, <2>3
  <1> QED
    BY <1>6, <1>7, <1>8, <1>9 DEF OnlyDataEdited

\* A client that stores a Pokemon in a box.
LEMMA EditPcFields ==
  ASSUME TypeOK, NEW s \in PcSection, NEW mon \in Pokemon,
         EditPc(s, mon), save_type' = save_type
  PROVE  /\ unshuffled_save_slot' = unshuffled_save_slot
         /\ consolidated_pokemon_pc' \in [PcSection -> Pokemon]
         /\ intended' \in Content
         /\ View = intended => View' = intended'
  <1> DEFINE pc == consolidated_pokemon_pc
             shown == Visible(mon)
  <1>1. pc \in [PcSection -> Pokemon] /\ intended \in Content
    BY DEF TypeOK
  <1>2. /\ pc' = [pc EXCEPT ![s] = mon]
        /\ intended' = [intended EXCEPT !.pc[s] = shown]
        /\ unshuffled_save_slot' = unshuffled_save_slot
    BY DEF EditPc
  <1>3. shown \in VisiblePokemon
    BY DEF Visible, Pokemon, VisiblePokemon
  <1>4. pc' \in [PcSection -> Pokemon]
    BY <1>1, <1>2
  <1>5. intended' \in Content
    BY <1>1, <1>2, <1>3 DEF Content
  <1>6. ASSUME View = intended
        PROVE  View' = intended'
    <2> DEFINE boxes == [t \in PcSection |-> Visible(pc[t])]
               boxes2 == [t \in PcSection |-> Visible(pc'[t])]
               team == unshuffled_save_slot[1].data
               daycare == Visible(unshuffled_save_slot[4].data.mon)
    <2>1. boxes2 = [boxes EXCEPT ![s] = shown]
      BY <1>1, <1>2
    <2>2. intended = [type |-> save_type, bag |-> team.word["bag"],
                      money |-> team.word["money"], coins |-> team.word["coins"],
                      party |-> Visible(team.mon), daycare |-> daycare,
                      pc |-> boxes]
      BY <1>6 DEF View, ContentOf
    <2>3. View' = [type |-> save_type, bag |-> team.word["bag"],
                   money |-> team.word["money"], coins |-> team.word["coins"],
                   party |-> Visible(team.mon), daycare |-> daycare,
                   pc |-> boxes2]
      BY <1>2 DEF View, ContentOf
    <2> HIDE DEF boxes, boxes2, team, daycare, shown
    <2> QED
      BY <1>2, <2>1, <2>2, <2>3
  <1> QED
    BY <1>2, <1>4, <1>5, <1>6

\* Whatever is edited, only the data of the slot and the storage system change,
\* and they change as what the client intends does.
LEMMA EditFields ==
  ASSUME TypeOK, Edit
  PROVE  /\ unshuffled_save_slot' \in SaveSlot
         /\ \A t \in Section : SameFooter(unshuffled_save_slot'[t],
                                          unshuffled_save_slot[t])
         /\ consolidated_pokemon_pc' \in [PcSection -> Pokemon]
         /\ intended' \in Content
         /\ View = intended => View' = intended'
         /\ CanUse
         /\ op' = "edit" /\ error' = "NONE"
         /\ UNCHANGED <<disk, p_raw_save, save_type, is_buffer_ours,
                        is_save_from_first_slot, shuffled_section_nums, status>>
  <1>1. /\ save_type' = save_type
        /\ unshuffled_save_slot \in SaveSlot
        /\ consolidated_pokemon_pc \in [PcSection -> Pokemon]
    BY DEF Edit, TypeOK
  <1>2. ASSUME NEW cell \in Editable \cap {"bag", "money", "coins"},
               NEW w \in EditWord, EditWords(cell, w)
        PROVE  /\ unshuffled_save_slot' \in SaveSlot
               /\ \A t \in Section : SameFooter(unshuffled_save_slot'[t],
                                                unshuffled_save_slot[t])
               /\ consolidated_pokemon_pc' \in [PcSection -> Pokemon]
               /\ intended' \in Content
               /\ View = intended => View' = intended'
               /\ CanUse
    <2>1. cell \in {"bag", "money", "coins"} /\ w \in Word /\ CanUse
      BY <1>2, ClientAssumption DEF EditWords
    <2> QED
      BY <1>1, <1>2, <2>1, EditWordsFields
  <1>3. ASSUME NEW field \in Editable \cap {"party", "daycare"},
               NEW mon \in EditPokemon, EditTeam(field, mon)
        PROVE  /\ unshuffled_save_slot' \in SaveSlot
               /\ \A t \in Section : SameFooter(unshuffled_save_slot'[t],
                                                unshuffled_save_slot[t])
               /\ consolidated_pokemon_pc' \in [PcSection -> Pokemon]
               /\ intended' \in Content
               /\ View = intended => View' = intended'
               /\ CanUse
    <2>1. field \in {"party", "daycare"} /\ mon \in Pokemon /\ CanUse
      BY <1>3, ClientAssumption DEF EditTeam
    <2> QED
      BY <1>1, <1>3, <2>1, EditTeamFields
  <1>4. ASSUME NEW s \in PcSection, NEW mon \in EditPokemon, EditPc(s, mon)
        PROVE  /\ unshuffled_save_slot' \in SaveSlot
               /\ \A t \in Section : SameFooter(unshuffled_save_slot'[t],
                                                unshuffled_save_slot[t])
               /\ consolidated_pokemon_pc' \in [PcSection -> Pokemon]
               /\ intended' \in Content
               /\ View = intended => View' = intended'
               /\ CanUse
    <2>1. mon \in Pokemon /\ CanUse
      BY <1>4, ClientAssumption DEF EditPc
    <2> QED
      BY <1>1, <1>4, <2>1, EditPcFields DEF SameFooter
  <1>5. /\ op' = "edit" /\ error' = "NONE"
        /\ UNCHANGED <<disk, p_raw_save, save_type, is_buffer_ours,
                       is_save_from_first_slot, shuffled_section_nums, status>>
    BY DEF Edit, Returns
  <1> QED
    BY <1>2, <1>3, <1>4, <1>5 DEF Edit

\* Edits keep the types.
LEMMA TypeInvEdit ==
  ASSUME TypeInv, Edit
  PROVE  TypeInv'
  <1>1. TypeOK /\ StructInv
    BY DEF TypeInv
  <1>2. /\ UNCHANGED <<disk, p_raw_save, save_type, is_buffer_ours,
                       is_save_from_first_slot, shuffled_section_nums, status>>
        /\ op' = "edit" /\ error' = "NONE"
        /\ unshuffled_save_slot' \in SaveSlot
        /\ \A t \in Section : unshuffled_save_slot'[t].id = unshuffled_save_slot[t].id
        /\ consolidated_pokemon_pc' \in [PcSection -> Pokemon]
        /\ intended' \in Content
    BY <1>1, EditFields DEF SameFooter
  <1>3. TypeOK'
    BY <1>1, <1>2 DEF TypeOK
  <1>4. LoadedSlot' = LoadedSlot
    BY <1>2 DEF LoadedSlot
  <1>5. StructInv'
    BY <1>1, <1>2, <1>4 DEF StructInv, TypeOK
  <1> QED
    BY <1>3, <1>5 DEF TypeInv

\* Freeing a save, and a crash, leave the struct of a program just started.
LEMMA TypeInvEnd ==
  ASSUME TypeInv, FreeSave \/ Crash
  PROVE  TypeInv'
  <1>1. TypeOK
    BY DEF TypeInv
  <1>2. <<>> \in Buffer
    BY DEF Buffer
  <1>3. disk' \in Buffer
    <2>1. CASE FreeSave
      BY <1>1, <2>1 DEF FreeSave, TypeOK
    <2>2. CASE Crash
      <3>1. CASE CanSave
        <4>1. status # "closed"
          BY <3>1 DEF CanSave, CanUse
        <4>2. SavedBuffer \in Buffer
          BY <4>1, SavedFields
        <4>3. disk' \in {disk} \cup TornFiles(SavedBuffer)
          BY <2>2, <3>1 DEF Crash
        <4> QED
          BY <1>1, <4>2, <4>3, TornIsPrefix DEF TypeOK
      <3>2. CASE ~CanSave
        BY <1>1, <2>2, <3>2 DEF Crash, TypeOK
      <3> QED
        BY <3>1, <3>2
    <2> QED
      BY <2>1, <2>2
  <1>4. /\ ResetInternal
        /\ p_raw_save' \in Buffer
        /\ status' = "closed" /\ intended' = View'
        /\ op' \in {"free", "crash"} /\ error' = "NONE"
    BY <1>1, <1>2 DEF FreeSave, Crash, Returns, TypeOK
  <1>5. /\ save_type' = "NONE" /\ is_buffer_ours' = FALSE
        /\ is_save_from_first_slot' = FALSE
        /\ shuffled_section_nums' \in [Section -> Section]
        /\ unshuffled_save_slot' \in SaveSlot
        /\ consolidated_pokemon_pc' \in [PcSection -> Pokemon]
    BY <1>4, ZeroTypes DEF ResetInternal
  <1>6. intended' \in Content
    BY <1>4, <1>5, ContentType DEF View
  <1>7. TypeOK'
    BY <1>3, <1>4, <1>5, <1>6 DEF TypeOK
  <1> QED
    BY <1>4, <1>7 DEF TypeInv, StructInv

\* Every step keeps the types.
LEMMA TypeInvNext == TypeInv /\ [Next]_vars => TypeInv'
  <1> SUFFICES ASSUME TypeInv, [Next]_vars
               PROVE  TypeInv'
    OBVIOUS
  <1>1. TypeOK /\ StructInv
    BY DEF TypeInv
  <1>2. CASE LoadSaveFromBuffer
    BY <1>1, <1>2, TypeInvLoad DEF LoadSaveFromBuffer, TypeOK
  <1>3. CASE LoadSaveFromFile
    BY <1>1, <1>3, TypeInvLoad DEF LoadSaveFromFile, TypeOK
  <1>4. CASE ReadFails
    BY <1>1, <1>4 DEF ReadFails, Returns, TypeInv, TypeOK, StructInv, internal
  <1>5. CASE ClientReadsFile
    BY <1>1, <1>5 DEF ClientReadsFile, Returns, TypeInv, TypeOK, StructInv, internal
  <1>6. CASE Edit
    BY <1>6, TypeInvEdit
  <1>7. CASE SaveSucceeds \/ SaveFails
    BY <1>7, TypeInvSave
  <1>8. CASE FreeSave \/ Crash
    BY <1>8, TypeInvEnd
  <1>9. CASE UNCHANGED vars
    <2>1. UNCHANGED <<disk, p_raw_save, internal, status, op, error, intended>>
      BY <1>9 DEF vars
    <2>2. LoadedSlot' = LoadedSlot
      BY <2>1 DEF internal, LoadedSlot
    <2> QED
      BY <1>1, <2>1, <2>2 DEF TypeInv, TypeOK, StructInv, internal
  <1> QED
    BY <1>2, <1>3, <1>4, <1>5, <1>6, <1>7, <1>8, <1>9 DEF Next

\* Whatever the client and the file do, every variable keeps its type: ids a
\* save is written with are section numbers, also after a failed save and
\* when save_index wraps around.
THEOREM TypeCorrect == Spec => []TypeOK
  <1>1. TypeInv => TypeOK
    BY DEF TypeInv
  <1> QED
    BY <1>1, TypeInvInit, TypeInvNext, PTL DEF Spec

-----------------------------------------------------------------------------
(* What the client sees, and which slot is written.                        *)

\* The index a save takes is one more than that of the loaded slot, and with
\* it the written slot is the active one.
LEMMA SavedIsActive ==
  ASSUME Inv, NoWrap, status = "open", CanSave
  PROVE  ActiveSlot(SavedBuffer) = OutputSlot
  <1> DEFINE index == p_raw_save[LoadedSlot][0].index
             len == Len(p_raw_save)
  <1>1. TypeInv /\ TypeOK /\ StructInv /\ ActiveInv /\ status # "closed"
    BY DEF Inv, TypeInv
  <1>2. /\ LoadedSlot \in 1..len
        /\ shuffled_section_nums \in [Section -> Section]
        /\ p_raw_save \in Buffer
        /\ unshuffled_save_slot[shuffled_section_nums[0]].index = index
    BY <1>1, SectionFacts DEF TypeOK, StructInv, ActiveInv
  <1>3. ShuffledSlot[0].index = index
    <2>1. shuffled_section_nums[0] \in Section
      BY <1>2, SectionFacts
    <2>2. ShuffledSlot[0] = EncryptedSlot[shuffled_section_nums[0]]
      BY SectionFacts DEF ShuffledSlot, ShuffleSections
    <2> QED
      BY <1>1, <1>2, <2>1, <2>2, SavedFields
  <1>4. index \in Nat
    <2>1. p_raw_save[LoadedSlot] \in SaveSlot
      BY <1>2, ActiveSlotRange
    <2>2. p_raw_save[LoadedSlot][0] \in SaveSection
      BY <2>1, SectionFacts DEF SaveSlot
    <2> QED
      BY <2>2, IndexAssumption DEF SaveSection, SaveIndex
  <1>5. NextIndex = index + 1
    <2>1. index < MaxIndex
      BY <1>3 DEF CanSave
    <2> HIDE DEF index
    <2>2. index + 1 < IndexMod /\ index + 1 \in Nat
      BY <1>4, <2>1, IndexAssumption, ClientAssumption DEF NoWrap
    <2>3. (index + 1) % IndexMod = index + 1
      BY <2>2, IndexAssumption
    <2> QED
      BY <1>3, <2>3 DEF NextIndex
  <1>6. /\ SavedBuffer[OutputSlot][0].index = NextIndex
        /\ \A i \in 1..len : i # OutputSlot => /\ SavedBuffer[i] = p_raw_save[i]
                                               /\ i = LoadedSlot
        /\ OutputSlot \in 1..len
        /\ Len(SavedBuffer) = len
    BY <1>1, SavedFields, SectionFacts
  <1>7. len = 1 \/ len = 2
    <2>1. \A l \in 0..2 : \A n \in 1..l : l = 1 \/ l = 2
      OBVIOUS
    <2> QED
      BY <1>2, <2>1, BufferLength, Zenon
  <1> HIDE DEF len, index
  <1>8. CASE len = 1
    BY <1>6, <1>8 DEF ActiveSlot
  <1>9. CASE len = 2
    <2>1. OutputSlot = 1 \/ OutputSlot = 2
      BY <1>6, <1>9
    <2>2. CASE OutputSlot = 1
      <3>1. SavedBuffer[2][0].index = index
        BY <1>6, <1>9, <2>2 DEF index
      <3>2. SavedBuffer[1][0].index = index + 1
        BY <1>5, <1>6, <2>2
      <3>3. SavedBuffer[1][0].index > SavedBuffer[2][0].index
        BY <1>4, <3>1, <3>2
      <3> QED
        BY <1>6, <1>9, <2>2, <3>3 DEF ActiveSlot
    <2>3. CASE OutputSlot = 2
      <3>1. SavedBuffer[1][0].index = index
        BY <1>6, <1>9, <2>3 DEF index
      <3>2. SavedBuffer[2][0].index = index + 1
        BY <1>5, <1>6, <2>3
      <3>3. ~(SavedBuffer[1][0].index > SavedBuffer[2][0].index)
        BY <1>4, <3>1, <3>2
      <3> QED
        BY <1>6, <1>9, <2>3, <3>3 DEF ActiveSlot
    <2> QED
      BY <2>1, <2>2, <2>3
  <1> QED
    BY <1>7, <1>8, <1>9

\* After a save that succeeds the client sees what it saw before.
LEMMA SaveKeepsView ==
  ASSUME Inv, NoWrap, status = "open", SaveSucceeds
  PROVE  View' = View
  <1> DEFINE u == unshuffled_save_slot
             pc == consolidated_pokemon_pc
             out == SavedBuffer[OutputSlot]
             back == UnshuffleSections(out, EncryptedSlot)
             seen == CryptSlot(back, save_type, FALSE)
  <1>1. TypeInv /\ TypeOK /\ StructInv /\ status # "closed" /\ CanSave
    BY DEF Inv, TypeInv, SaveSucceeds
  <1>2. /\ u \in SaveSlot /\ pc \in [PcSection -> Pokemon]
        /\ shuffled_section_nums \in [Section -> Section]
        /\ save_type \in SaveType
        /\ \A p \in Section : u[shuffled_section_nums[p]].id
                                = shuffled_section_nums[p]
    BY <1>1 DEF TypeOK, StructInv
  <1>3. NextIndex \in SaveIndex /\ out = SetSaveIndex(ShuffledSlot, NextIndex)
    BY <1>1, SavedFields
  <1>4. RoundTrips(u, pc, save_type, shuffled_section_nums, NextIndex)
    BY <1>2, <1>3, SaveRoundTrip
  <1>5. out = SetSaveIndex(ShuffleSections(
                SetSectionChecksums(CopyPokemonPc(StorePokemonPc(pc),
                                      CryptSlot(u, save_type, TRUE))),
                shuffled_section_nums), NextIndex)
    BY <1>3 DEF ShuffledSlot, EncryptedSlot, StoredPc
  <1>6. /\ seen[1].data = u[1].data
        /\ seen[4].data = u[4].data
        /\ \A s \in PcSection : LoadPokemonPc(back)[s] = SetPokemonChecksum(pc[s])
    BY <1>4, <1>5 DEF RoundTrips, EncryptedSlot, StoredPc
  <1>7. /\ unshuffled_save_slot' = seen
        /\ consolidated_pokemon_pc' = LoadPokemonPc(back)
        /\ save_type' = save_type
    BY <1>1, SavedIsActive DEF SaveSucceeds, SetSavePointers
  <1> HIDE DEF seen, back
  <1>8. \A s \in PcSection : Visible(LoadPokemonPc(back)[s]) = Visible(pc[s])
    BY <1>2, <1>6, SetChecksumFields DEF Visible
  <1> QED
    BY <1>6, <1>7, <1>8 DEF View, ContentOf

\* The buffers stay well headed.
LEMMA BuffersNext ==
  ASSUME TypeInv, BuffersInv, [Next]_vars
  PROVE  BuffersInv'
  <1>1. TypeOK /\ StructInv
    BY DEF TypeInv
  <1>2. ASSUME status # "closed"
        PROVE  /\ WellHeadedBuffer(SavedBuffer)
               /\ \A torn \in TornFiles(SavedBuffer) : WellHeadedBuffer(torn)
    BY <1>2, SavedFields, TornIsPrefix DEF BuffersInv
  <1>3. WellHeadedBuffer(<<>>)
    BY DEF WellHeadedBuffer
  <1>4. ASSUME NEW buffer \in Buffer, WellHeadedBuffer(buffer), NEW ours \in BOOLEAN,
               Load(buffer, ours)
        PROVE  BuffersInv'
    <2>1. disk' = disk /\ p_raw_save' \in {p_raw_save, buffer}
      BY <1>4 DEF Load, SetSavePointers
    <2> QED
      BY <1>4, <2>1 DEF BuffersInv
  <1>5. CASE LoadSaveFromBuffer
    BY <1>1, <1>4, <1>5 DEF LoadSaveFromBuffer, TypeOK, BuffersInv
  <1>6. CASE LoadSaveFromFile
    BY <1>1, <1>4, <1>6 DEF LoadSaveFromFile, TypeOK, BuffersInv
  <1>7. CASE ReadFails
    BY <1>7 DEF ReadFails, BuffersInv
  <1>8. CASE ClientReadsFile
    BY <1>8 DEF ClientReadsFile, BuffersInv
  <1>9. CASE Edit
    BY <1>9 DEF Edit, BuffersInv
  <1>10. CASE SaveSucceeds
    <2>1. disk' = SavedBuffer /\ p_raw_save' = SavedBuffer /\ status # "closed"
      BY <1>10 DEF SaveSucceeds, SetSavePointers, CanSave, CanUse
    <2> QED
      BY <1>2, <2>1 DEF BuffersInv
  <1>11. CASE SaveFails
    <2>1. /\ disk' \in {disk} \cup TornFiles(SavedBuffer)
          /\ p_raw_save' = SavedBuffer /\ status # "closed"
      BY <1>11 DEF SaveFails, CanSave, CanUse
    <2> QED
      BY <1>2, <2>1 DEF BuffersInv
  <1>12. CASE FreeSave
    BY <1>3, <1>12 DEF FreeSave, BuffersInv
  <1>13. CASE Crash
    <2>1. /\ p_raw_save' = <<>>
          /\ \/ disk' = disk
             \/ CanSave /\ disk' \in TornFiles(SavedBuffer)
      BY <1>13 DEF Crash
    <2>2. CanSave => status # "closed"
      BY DEF CanSave, CanUse
    <2> QED
      BY <1>2, <1>3, <2>1, <2>2 DEF BuffersInv
  <1>14. CASE UNCHANGED vars
    BY <1>14 DEF vars, BuffersInv
  <1> QED
    BY <1>5, <1>6, <1>7, <1>8, <1>9, <1>10, <1>11, <1>12, <1>13, <1>14 DEF Next

\* Setting the pointers to a buffer makes its active slot the session's.
LEMMA PointersActive ==
  ASSUME NEW buffer \in Buffer, NEW type \in SaveType, NEW old \in SaveSlot,
         WellHeaded(buffer[ActiveSlot(buffer)]),
         ActiveSlot(buffer) \in 1..Len(buffer),
         SectionNums(buffer[ActiveSlot(buffer)]) \in [Section -> Section],
         SetSavePointers(buffer, type, old)
  PROVE  ActiveInv'
  <1> DEFINE a == ActiveSlot(buffer)
             slot == buffer[a]
             u == UnshuffleSections(slot, old)
             c == CryptSlot(u, type, FALSE)
  <1>1. slot \in SaveSlot /\ WellHeaded(slot) /\ (a = 1 \/ a = 2)
    <2>1. \A l \in 0..2 : \A n \in 1..l : n = 1 \/ n = 2
      OBVIOUS
    <2>2. a = 1 \/ a = 2
      BY <2>1, BufferLength, Zenon
    <2> QED
      BY <2>2, ActiveSlotRange
  <1>2. c[SectionNums(slot)[0]].index = slot[0].index
    BY <1>1, PointersFields
  <1>3. /\ p_raw_save' = buffer
        /\ is_save_from_first_slot' = (a = 1)
        /\ shuffled_section_nums' = SectionNums(slot)
        /\ unshuffled_save_slot' = c
    BY DEF SetSavePointers
  <1>4. LoadedSlot' = a
    <2> HIDE DEF a
    <2> QED
      BY <1>1, <1>3 DEF LoadedSlot
  <1> HIDE DEF c
  <1> QED
    BY <1>2, <1>3, <1>4 DEF ActiveInv

\* Of the sessions that go on, what the client sees stays what it intends and
\* the loaded slot stays the active one.
LEMMA SessionNext ==
  ASSUME Inv, NoRetry, NoWrap, [Next]_vars
  PROVE  ActiveInv' /\ ViewIsIntended'
  <1>1. /\ TypeInv /\ TypeOK /\ StructInv /\ BuffersInv /\ ActiveInv
        /\ ViewIsIntended
    BY DEF Inv, TypeInv
  <1>2. CanUse => status = "open"
    BY DEF CanUse, NoRetry
  <1>3. ASSUME NEW buffer \in Buffer, WellHeadedBuffer(buffer), NEW ours \in BOOLEAN,
               Load(buffer, ours)
        PROVE  ActiveInv' /\ ViewIsIntended'
    <2>1. \/ status' # "open"
          \/ /\ status' = "open" /\ intended' = View'
             /\ \E type \in BufferTypes(buffer) :
                  type # "NONE" /\ SetSavePointers(buffer, type, ZeroSlot)
      BY <1>3 DEF Load
    <2>2. CASE status' # "open"
      BY <2>2 DEF ActiveInv, ViewIsIntended
    <2>3. CASE status' = "open"
      <3>1. /\ intended' = View'
            /\ \E type \in BufferTypes(buffer) :
                 type # "NONE" /\ SetSavePointers(buffer, type, ZeroSlot)
        BY <2>1, <2>3
      <3>2. PICK type \in BufferTypes(buffer) :
              type # "NONE" /\ SetSavePointers(buffer, type, ZeroSlot)
        BY <3>1
      <3>3. ActiveInv'
        BY <1>3, <3>2, DetectedIsValid, ZeroSlotType, PointersActive
           DEF WellHeadedBuffer
      <3> QED
        BY <3>1, <3>3 DEF ViewIsIntended
    <2> QED
      BY <2>2, <2>3
  <1>4. CASE LoadSaveFromBuffer
    BY <1>1, <1>3, <1>4 DEF LoadSaveFromBuffer, TypeOK, BuffersInv
  <1>5. CASE LoadSaveFromFile
    BY <1>1, <1>3, <1>5 DEF LoadSaveFromFile, TypeOK, BuffersInv
  <1>6. CASE ReadFails
    BY <1>6 DEF ReadFails, ActiveInv, ViewIsIntended
  <1>7. CASE ClientReadsFile
    BY <1>7 DEF ClientReadsFile, ActiveInv, ViewIsIntended
  <1>8. CASE Edit
    <2>1. /\ UNCHANGED <<p_raw_save, is_save_from_first_slot,
                         shuffled_section_nums, status>>
          /\ \A t \in Section : unshuffled_save_slot'[t].index
                                  = unshuffled_save_slot[t].index
          /\ View = intended => View' = intended'
          /\ shuffled_section_nums \in [Section -> Section]
      BY <1>1, <1>8, EditFields DEF SameFooter, TypeOK
    <2>2. LoadedSlot' = LoadedSlot
      BY <2>1 DEF LoadedSlot
    <2>3. ActiveInv'
      BY <1>1, <2>1, <2>2, SectionFacts DEF ActiveInv
    <2> QED
      BY <1>1, <2>1, <2>3 DEF ViewIsIntended
  <1>9. CASE SaveSucceeds
    <2>1. /\ status = "open" /\ CanSave /\ intended' = intended
          /\ SetSavePointers(SavedBuffer, save_type, EncryptedSlot)
      BY <1>2, <1>9 DEF SaveSucceeds, CanSave
    <2>2. View' = intended'
      BY <1>1, <1>9, <2>1, SaveKeepsView DEF Inv, ViewIsIntended
    <2>3. /\ SavedBuffer \in Buffer /\ WellHeaded(SavedBuffer[OutputSlot])
          /\ EncryptedSlot \in SaveSlot
          /\ OutputSlot \in 1..Len(SavedBuffer)
          /\ SectionNums(SavedBuffer[OutputSlot]) = shuffled_section_nums
      BY <1>1, <2>1, SavedFields
    <2>4. ActiveSlot(SavedBuffer) = OutputSlot
      BY <2>1, SavedIsActive
    <2>5. save_type \in SaveType /\ shuffled_section_nums \in [Section -> Section]
      BY <1>1, <2>1 DEF StructInv, TypeOK
    <2>6. ActiveInv'
      BY <2>1, <2>3, <2>4, <2>5, PointersActive
    <2> QED
      BY <2>2, <2>6 DEF ViewIsIntended
  <1>10. CASE SaveFails
    BY <1>10 DEF SaveFails, ActiveInv, ViewIsIntended
  <1>11. CASE FreeSave \/ Crash
    BY <1>11 DEF FreeSave, Crash, ActiveInv, ViewIsIntended
  <1>12. CASE UNCHANGED vars
    <2>1. UNCHANGED <<p_raw_save, internal, status, intended>>
      BY <1>12 DEF vars
    <2>2. LoadedSlot' = LoadedSlot /\ View' = View
      BY <2>1 DEF internal, LoadedSlot, View
    <2> QED
      BY <1>1, <2>1, <2>2 DEF internal, ActiveInv, ViewIsIntended
  <1> QED
    BY <1>4, <1>5, <1>6, <1>7, <1>8, <1>9, <1>10, <1>11, <1>12 DEF Next

\* The invariant holds at first.
LEMMA InvInit == ASSUME WellHeadedFiles PROVE Init => Inv
  <1> SUFFICES ASSUME Init PROVE Inv
    OBVIOUS
  <1>1. TypeInv
    BY TypeInvInit
  <1>2. BuffersInv
    BY DEF Init, BuffersInv, WellHeadedFiles, WellHeadedBuffer
  <1>3. ActiveInv /\ ViewIsIntended
    BY DEF Init, ActiveInv, ViewIsIntended
  <1> QED
    BY <1>1, <1>2, <1>3 DEF Inv

\* And every step keeps it.
LEMMA InvNext == ASSUME NoRetry, NoWrap PROVE Inv /\ [Next]_vars => Inv'
  <1> SUFFICES ASSUME Inv, [Next]_vars PROVE Inv'
    OBVIOUS
  <1>1. TypeInv'
    BY TypeInvNext DEF Inv
  <1>2. BuffersInv'
    BY BuffersNext DEF Inv
  <1> QED
    BY <1>1, <1>2, SessionNext DEF Inv

\* With a client that gives up a failed session, below 2^32 saves, and with
\* files whose slots are well headed, what the client sees between calls is what
\* it loaded and stored: each pksav_gen3_save_save decrypts all it encrypted,
\* from the slot it wrote.
THEOREM ViewCorrect ==
  ASSUME NoRetry, NoWrap, WellHeadedFiles
  PROVE  Spec => []ViewIsIntended
  <1>1. Inv => ViewIsIntended
    BY DEF Inv
  <1>2. Inv /\ [Next]_vars => Inv'
    BY InvNext
  <1> QED
    BY <1>1, <1>2, InvInit, PTL DEF Spec

\* Under the same three assumptions a save never touches the slot that was
\* active and makes the other one active.
THEOREM Alternation ==
  ASSUME NoRetry, NoWrap, WellHeadedFiles
  PROVE  Spec => SavesAlternate
  <1> DEFINE Alternates ==
        (op' = "save" /\ Len(p_raw_save) = 2) =>
           LET active == ActiveSlot(p_raw_save)
           IN  /\ p_raw_save'[active] = p_raw_save[active]
               /\ error' = "NONE" => ActiveSlot(p_raw_save') # active
  <1>1. Inv /\ [Next]_vars => Inv'
    BY InvNext
  <1>2. Inv /\ [Next]_vars => [Alternates]_vars
    <2> SUFFICES ASSUME Inv, Next, op' = "save", Len(p_raw_save) = 2
                 PROVE  LET active == ActiveSlot(p_raw_save)
                        IN  /\ p_raw_save'[active] = p_raw_save[active]
                            /\ error' = "NONE" => ActiveSlot(p_raw_save') # active
      OBVIOUS
    <2>1. SaveSucceeds \/ SaveFails
      BY DEF Next, LoadSaveFromBuffer, LoadSaveFromFile, Load, ReadFails,
             ClientReadsFile, Edit, FreeSave, Crash, Returns
    <2>2. /\ CanSave /\ status = "open"
          /\ p_raw_save' = SavedBuffer
          /\ error' = "NONE" => SaveSucceeds
      BY <2>1 DEF SaveSucceeds, SaveFails, SetSavePointers, Returns, CanSave,
                  CanUse, NoRetry
    <2>3. TypeInv /\ StructInv /\ ActiveInv
      BY DEF Inv, TypeInv
    <2>4. LoadedSlot = ActiveSlot(p_raw_save) /\ LoadedSlot \in 1..Len(p_raw_save)
      BY <2>2, <2>3 DEF ActiveInv, StructInv
    <2>5. /\ OutputSlot # LoadedSlot
          /\ \A i \in 1..Len(p_raw_save) :
               i # OutputSlot => SavedBuffer[i] = p_raw_save[i]
      BY <2>2, <2>3, SavedFields
    <2>6. ActiveSlot(SavedBuffer) = OutputSlot
      BY <2>2, SavedIsActive
    <2> QED
      BY <2>2, <2>4, <2>5, <2>6
  <1> QED
    BY <1>1, <1>2, InvInit, PTL DEF Spec, SavesAlternate

-----------------------------------------------------------------------------
(* What a save leaves in the file and in memory.                           *)

\* Only a save that succeeds can bring about Saved anew.
LEMMA SavedAfter ==
  ASSUME Next, Saved'
  PROVE  SaveSucceeds
  BY DEF Next, LoadSaveFromBuffer, LoadSaveFromFile, Load, ReadFails,
         ClientReadsFile, Edit, SaveFails, FreeSave, Crash, Returns, Saved

\* Where every section is in the slot, what the memory held before does not
\* matter.
LEMMA UnshuffleWhole ==
  ASSUME NEW slot, NEW old1, NEW old2, WellFormed(slot)
  PROVE  UnshuffleSections(slot, old1) = UnshuffleSections(slot, old2)
  BY DEF WellFormed, UnshuffleSections

\* A slot the game accepts.
SoundSlot(slot) ==
  /\ UniformIndex(slot)
  /\ \A p \in Section : slot[p].checksum = slot[p].data
  /\ \A p \in Section : slot[p].id \in PcSection =>
       LET mon == CryptPokemon(slot[p].data.mon, FALSE)
       IN  mon.checksum = BlocksSum(mon.blocks)

\* The slot pksav_gen3_save_save writes is one.
LEMMA WrittenIsSound ==
  ASSUME TypeInv, status # "closed"
  PROVE  SoundSlot(SavedBuffer[OutputSlot])
  <1> DEFINE u == unshuffled_save_slot
             pc == consolidated_pokemon_pc
             nums == shuffled_section_nums
             e == EncryptedSlot
             out == SavedBuffer[OutputSlot]
             c == CryptSlot(u, save_type, TRUE)
             d == CopyPokemonPc(StoredPc, c)
  <1>1. /\ u \in SaveSlot /\ pc \in [PcSection -> Pokemon]
        /\ nums \in [Section -> Section] /\ save_type \in SaveType
        /\ \A p \in Section : u[nums[p]].id = nums[p]
    BY DEF TypeInv, TypeOK, StructInv
  <1>2. /\ e \in SaveSlot
        /\ NextIndex \in SaveIndex
        /\ out = SetSaveIndex(ShuffleSections(e, nums), NextIndex)
        /\ \A s \in Section : e[s].id = u[s].id
    BY SavedFields DEF ShuffledSlot
  <1>3. e = SetSectionChecksums(d)
    BY DEF EncryptedSlot
  <1>4. /\ StoredPc \in [PcSection -> Pokemon]
        /\ \A s \in PcSection :
             CryptPokemon(StoredPc[s], FALSE) = SetPokemonChecksum(pc[s])
    BY <1>1, StorePcFields DEF StoredPc
  <1>5. c \in SaveSlot
    BY <1>1, CryptSlotFields
  <1>6. d \in SaveSlot /\ \A s \in PcSection : d[s].data.mon = StoredPc[s]
    BY <1>4, <1>5, CopyPcFields
  <1> HIDE DEF d
  <1>7. \A s \in Section : e[s].data = d[s].data /\ e[s].checksum = d[s].data
    BY <1>3, <1>6, SetSectionChecksumsFields
  <1> HIDE DEF e, out
  <1>8. \A p \in Section : /\ out[p].data = e[nums[p]].data
                           /\ out[p].checksum = e[nums[p]].checksum
                           /\ out[p].id = e[nums[p]].id
                           /\ out[p].index = NextIndex
    <2> DEFINE f == ShuffleSections(e, nums)
    <2>1. /\ f \in SaveSlot /\ \A p \in Section : f[p] = e[nums[p]]
      BY <1>1, <1>2 DEF ShuffleSections, SaveSlot
    <2> HIDE DEF f
    <2>2. out = SetSaveIndex(f, NextIndex)
      BY <1>2 DEF f
    <2> QED
      BY <1>2, <2>1, <2>2, SetSaveIndexFields
  <1>9. ASSUME NEW p \in Section, out[p].id \in PcSection
        PROVE  CryptPokemon(out[p].data.mon, FALSE).checksum
                 = BlocksSum(CryptPokemon(out[p].data.mon, FALSE).blocks)
    <2>1. nums[p] \in Section /\ nums[p] \in PcSection
      BY <1>1, <1>2, <1>8, <1>9
    <2>2. out[p].data.mon = StoredPc[nums[p]]
      BY <1>6, <1>7, <1>8, <2>1
    <2> DEFINE mon == pc[nums[p]]
               stored == SetPokemonChecksum(mon)
    <2>3. mon \in Pokemon
      BY <1>1, <2>1
    <2>4. CryptPokemon(out[p].data.mon, FALSE) = stored
      BY <1>4, <2>1, <2>2
    <2> HIDE DEF mon
    <2>5. stored.checksum = BlocksSum(stored.blocks)
      BY <2>3, SetChecksumFields
    <2> QED
      BY <2>4, <2>5
  <1>10. UniformIndex(out) /\ \A p \in Section : out[p].checksum = out[p].data
    BY <1>1, <1>7, <1>8 DEF UniformIndex
  <1> QED
    BY <1>9, <1>10 DEF SoundSlot, out

\* Under the same three assumptions the slot that is active after a save is one
\* the game accepts: sections with their checksums taken after encryption,
\* one index, also where the loaded slot had several, and each Pokemon of the
\* boxes with the checksum of its plain blocks, whatever the client stored there.
THEOREM SavedSoundly ==
  ASSUME NoRetry, NoWrap, WellHeadedFiles
  PROVE  Spec => []SavedSlotIsSound
  <1>1. Init => SavedSlotIsSound
    BY DEF Init, SavedSlotIsSound, Saved
  <1>2. Inv /\ [Next]_vars => Inv'
    BY InvNext
  <1>3. Inv /\ SavedSlotIsSound /\ [Next]_vars => SavedSlotIsSound'
    <2> SUFFICES ASSUME Inv, SavedSlotIsSound, [Next]_vars, Saved'
                 PROVE  SoundSlot(disk[ActiveSlot(disk)])'
      BY DEF SavedSlotIsSound, SoundSlot
    <2>1. CASE UNCHANGED vars
      <3>1. disk' = disk /\ Saved
        BY <2>1 DEF vars, Saved
      <3>2. SoundSlot(disk[ActiveSlot(disk)])
        BY <3>1 DEF SavedSlotIsSound, SoundSlot
      <3> QED
        BY <3>1, <3>2
    <2>2. CASE Next
      <3>1. SaveSucceeds
        BY <2>2, SavedAfter
      <3>2. /\ status = "open" /\ CanSave /\ disk' = SavedBuffer
        BY <3>1 DEF SaveSucceeds, CanSave, CanUse, NoRetry
      <3>3. TypeInv
        BY DEF Inv
      <3>4. SoundSlot(SavedBuffer[OutputSlot])
        BY <3>2, <3>3, WrittenIsSound
      <3>5. ActiveSlot(SavedBuffer) = OutputSlot
        BY <3>2, SavedIsActive
      <3> QED
        BY <3>2, <3>4, <3>5
    <2> QED
      BY <2>1, <2>2
  <1> QED
    BY <1>1, <1>2, <1>3, InvInit, PTL DEF Spec
=============================================================================
