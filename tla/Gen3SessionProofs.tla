------------------------- MODULE Gen3SessionProofs -------------------------
(***************************************************************************)
(* Gen3Session implements SaveSession, for any sections, words, Pokemon    *)
(* and orders of the sections, if the client gives up a session whose save *)
(* failed, indexes have not wrapped around (NoRetry and NoWrap), and each  *)
(* slot of the first file that passes for one has every section            *)
(* (WholeFiles).  Without the last the library loads what was on its stack *)
(* (LoadedSaveIsWhole), so that the file does not tell what it loads as.   *)
(***************************************************************************)
EXTENDS Gen3Session, Gen3SaveProofs

WholeSlot(slot) == SlotIsValid(slot) => WellFormed(slot)
WholeBuffer(b) == \A i \in 1..Len(b) : WholeSlot(b[i])

WholeFiles == \A d \in InitialDisk : WholeBuffer(d)

-----------------------------------------------------------------------------
(* The invariant, on top of that of Gen3SaveProofs.                        *)

\* No save spoils the file or the buffer.
WholeInv == WholeBuffer(disk) /\ WholeBuffer(p_raw_save)

\* An unshuffled slot would be taken for a save of this type: all validations
\* are right and section 0 tells it.
TakenFor(type, unshuffled) ==
  /\ \A s \in Section : unshuffled[s].magic
  /\ DetectType(unshuffled[0].data.word) = type

\* An open session has every section of its slot, and is of the type its
\* slot, as it is in memory, would be detected as.
SlotInv ==
  status = "open" =>
    /\ WellFormed(p_raw_save[LoadedSlot])
    /\ TakenFor(save_type, unshuffled_save_slot)

SInv == Inv /\ WholeInv /\ SlotInv

-----------------------------------------------------------------------------
(* What a buffer loads as.                                                 *)

\* Where every section is there, it does not depend on the stack.
LEMMA OneType ==
  ASSUME NEW raw \in Buffer, WholeBuffer(raw),
         NEW type \in BufferTypes(raw)
  PROVE  BufferTypes(raw) = {type}
  <1> DEFINE a == ActiveSlot(raw)
             slot == raw[a]
  <1>1. CASE a = 0
    BY <1>1 DEF BufferTypes
  <1>2. CASE a # 0
    <2>1. a \in 1..Len(raw)
      BY <1>2, ActiveSlotRange
    <2>2. WholeSlot(slot)
      BY <2>1 DEF WholeBuffer
    <2>3. BufferTypes(raw) = DetectedTypes(slot)
      BY <1>2 DEF BufferTypes
    <2> HIDE DEF slot, a
    <2>4. CASE SlotIsValid(slot)
      <3>1. Holders(slot, 0) # {}
        BY <2>2, <2>4, SectionFacts DEF WholeSlot, WellFormed
      <3> QED
        BY <2>3, <2>4, <3>1 DEF DetectedTypes, SlotIsValid
    <2>5. CASE ~SlotIsValid(slot)
      BY <2>3, <2>5 DEF DetectedTypes, SlotIsValid
    <2> QED
      BY <2>4, <2>5
  <1> QED
    BY <1>1, <1>2

\* Then a buffer loads as what its active slot holds.
LEMMA DecodeOne ==
  ASSUME NEW raw, NEW type, BufferTypes(raw) = {type}
  PROVE  Decode(raw)
           = IF type = "NONE" THEN NoContent
             ELSE ContentOf(type, CryptSlot(Unshuffled(raw), type, FALSE),
                            LoadPokemonPc(Unshuffled(raw)))
  <1>1. (CHOOSE t \in BufferTypes(raw) : TRUE) = type
    OBVIOUS
  <1> QED
    BY <1>1 DEF Decode

\* Two buffers with the same active slot load as the same.
LEMMA DecodeSlot ==
  ASSUME NEW b, NEW c, ActiveSlot(b) # 0, ActiveSlot(c) # 0,
         b[ActiveSlot(b)] = c[ActiveSlot(c)]
  PROVE  Decode(b) = Decode(c)
  <1>1. BufferTypes(b) = BufferTypes(c) /\ Unshuffled(b) = Unshuffled(c)
    BY DEF BufferTypes, Unshuffled
  <1> QED
    BY <1>1 DEF Decode

\* A buffer without a slot does not load.
LEMMA DecodeEmpty == Decode(<<>>) = NoContent
  <1>1. BufferTypes(<<>>) = {"NONE"}
    BY DEF BufferTypes, ActiveSlot
  <1> QED
    BY <1>1, DecodeOne

\* There is a type a buffer may be detected as.
LEMMA SomeType ==
  ASSUME NEW raw
  PROVE  BufferTypes(raw) # {}
  BY DEF BufferTypes, DetectedTypes

\* What loads is a content, and no content is what does not load.
LEMMA DecodeType ==
  ASSUME NEW raw \in Buffer
  PROVE  Decode(raw) \in Content \cup {NoContent}
  <1> DEFINE type == CHOOSE t \in BufferTypes(raw) : TRUE
             u == Unshuffled(raw)
  <1>1. type \in BufferTypes(raw)
    BY SomeType
  <1>2. Decode(raw) = IF type = "NONE" THEN NoContent
                         ELSE ContentOf(type, CryptSlot(u, type, FALSE),
                                        LoadPokemonPc(u))
    BY DEF Decode
  <1> HIDE DEF type
  <1>3. CASE type # "NONE"
    <2> DEFINE slot == raw[ActiveSlot(raw)]
    <2>1. /\ type \in SaveType
          /\ ActiveSlot(raw) \in 1..Len(raw)
          /\ SectionNums(slot) \in [Section -> Section]
      BY <1>1, <1>3, DetectedIsValid
    <2>2. slot \in SaveSlot
      BY <2>1, ActiveSlotRange
    <2>3. u = UnshuffleSections(slot, ZeroSlot)
      BY DEF Unshuffled
    <2> HIDE DEF slot, u
    <2>4. CryptSlot(u, type, FALSE) \in SaveSlot
          /\ LoadPokemonPc(u) \in [PcSection -> Pokemon]
      BY <2>1, <2>2, <2>3, ZeroSlotType, PointersFields
    <2>5. ContentOf(type, CryptSlot(u, type, FALSE), LoadPokemonPc(u)) \in Content
      BY <2>1, <2>4, ContentType
    <2> QED
      BY <1>2, <1>3, <2>5
  <1> QED
    BY <1>2, <1>3

\* A content with a type is not NoContent.
LEMMA ContentLoads ==
  ASSUME NEW type \in SaveType, NEW u, NEW pc
  PROVE  ContentOf(type, u, pc) # NoContent
  <1>1. ContentOf(type, u, pc).type = type
    BY DEF ContentOf
  <1>2. NoContent.type = "NONE"
    BY DEF NoContent
  <1>3. type # "NONE"
    BY DEF SaveType
  <1> QED
    BY <1>1, <1>2, <1>3

-----------------------------------------------------------------------------
(* Slots with every section.                                               *)

\* Two slots with their sections in one order have the same sections.
LEMMA SameNums ==
  ASSUME NEW b, NEW c, SectionNums(b) = SectionNums(c)
  PROVE  /\ \A s : Holders(b, s) = Holders(c, s)
         /\ WellFormed(b) = WellFormed(c)
  <1>1. \A p \in Section : SectionNums(b)[p] = b[p].id
                           /\ SectionNums(c)[p] = c[p].id
    BY DEF SectionNums
  <1>2. \A p \in Section : b[p].id = c[p].id
    BY <1>1
  <1>3. \A s : Holders(b, s) = Holders(c, s)
    BY <1>2 DEF Holders
  <1> QED
    BY <1>3 DEF WellFormed

\* What _pksav_gen3_set_save_pointers makes of a slot is taken for what the
\* slot is.
LEMMA PointersTaken ==
  ASSUME NEW slot \in SaveSlot, NEW type \in SaveType, NEW old \in SaveSlot,
         SlotIsValid(slot), WellFormed(slot), type \in DetectedTypes(slot)
  PROVE  TakenFor(type, CryptSlot(UnshuffleSections(slot, old), type, FALSE))
  <1> DEFINE u == UnshuffleSections(slot, old)
             c == CryptSlot(u, type, FALSE)
  <1>1. \A s \in Section : /\ Max(Holders(slot, s)) \in Section
                           /\ u[s] = slot[Max(Holders(slot, s))]
    <2> TAKE s \in Section
    <2>1. Holders(slot, s) # {} /\ Holders(slot, s) \in SUBSET Section
      BY DEF WellFormed, Holders
    <2> QED
      BY <2>1, LastHolder DEF UnshuffleSections
  <1>2. u \in SaveSlot
    BY UnshuffleFields
  <1> HIDE DEF u
  <1>3. /\ \A s \in Section \ {1, 4} : c[s] = u[s]
        /\ \A s \in Section : SameFooter(c[s], u[s])
    BY <1>2, CryptSlotFields
  <1> HIDE DEF c
  <1>4. \A s \in Section : c[s].magic
    BY <1>1, <1>3 DEF SameFooter, SlotIsValid, SectionIsValid
  <1>5. c[0] = slot[Max(Holders(slot, 0))]
    BY <1>1, <1>3, SectionFacts
  <1>6. type = DetectType(slot[Max(Holders(slot, 0))].data.word)
    BY SectionFacts DEF DetectedTypes, SlotIsValid, WellFormed
  <1> QED
    BY <1>4, <1>5, <1>6 DEF TakenFor, c, u

\* A slot written in any order from one taken for a type is valid, and is
\* detected as that type.
LEMMA WrittenTaken ==
  ASSUME NEW e \in SaveSlot, NEW type, NEW nums \in [Section -> Section],
         NEW i \in SaveIndex, TakenFor(type, e),
         \A p \in Section : e[nums[p]].id = nums[p],
         NEW out, out = SetSaveIndex(ShuffleSections(e, nums), i),
         WellFormed(out)
  PROVE  SlotIsValid(out) /\ DetectedTypes(out) = {type}
  <1> DEFINE f == ShuffleSections(e, nums)
             q == Max(Holders(out, 0))
  <1>1. f \in SaveSlot /\ \A p \in Section : f[p] = e[nums[p]]
    BY DEF ShuffleSections, SaveSlot
  <1>2. out = SetSaveIndex(f, i)
    OBVIOUS
  <1> HIDE DEF f
  <1>3. \A p \in Section : /\ out[p].data = f[p].data /\ out[p].id = f[p].id
                           /\ out[p].magic = f[p].magic
    BY <1>1, <1>2, SetSaveIndexFields
  <1>4. SlotIsValid(out)
    BY <1>1, <1>3 DEF SlotIsValid, SectionIsValid, TakenFor
  <1>5. Holders(out, 0) # {} /\ Holders(out, 0) \in SUBSET Section
    BY SectionFacts DEF WellFormed, Holders
  <1>6. q \in Section /\ out[q].id = 0
    BY <1>5, LastHolder DEF Holders
  <1> HIDE DEF q
  <1>7. nums[q] = 0
    BY <1>1, <1>3, <1>6
  <1>8. out[q].data = e[0].data
    BY <1>1, <1>3, <1>6, <1>7
  <1>9. DetectedTypes(out) = {DetectType(out[q].data.word)}
    BY <1>4, <1>5 DEF DetectedTypes, SlotIsValid, q
  <1> QED
    BY <1>4, <1>8, <1>9 DEF TakenFor

\* Encrypting the slot of a session does not change what it is taken for.
LEMMA EncryptedTaken ==
  ASSUME TypeInv, status # "closed", TakenFor(save_type, unshuffled_save_slot)
  PROVE  TakenFor(save_type, EncryptedSlot)
  <1> DEFINE u == unshuffled_save_slot
             c == CryptSlot(u, save_type, TRUE)
             d == CopyPokemonPc(StoredPc, c)
             e == EncryptedSlot
  <1>1. /\ u \in SaveSlot /\ save_type \in SaveType
        /\ StoredPc \in [PcSection -> Pokemon]
    BY SavedFields DEF TypeInv, TypeOK, StructInv
  <1>2. /\ c \in SaveSlot
        /\ \A s \in Section \ {1, 4} : c[s] = u[s]
        /\ \A s \in Section : SameFooter(c[s], u[s])
    BY <1>1, CryptSlotFields
  <1> HIDE DEF c
  <1>3. /\ d \in SaveSlot
        /\ \A s \in Section : SameFooter(d[s], c[s])
        /\ \A s \in Section \ PcSection : d[s] = c[s]
    BY <1>1, <1>2, CopyPcFields
  <1>4. e = SetSectionChecksums(d)
    BY DEF EncryptedSlot, c
  <1> HIDE DEF d, e
  <1>5. \A s \in Section : e[s].data = d[s].data /\ e[s].magic = d[s].magic
    BY <1>3, <1>4, SetSectionChecksumsFields
  <1>6. \A s \in Section : e[s].magic = u[s].magic
    BY <1>2, <1>3, <1>5 DEF SameFooter
  <1>7. e[0].data = u[0].data
    BY <1>2, <1>3, <1>5, SectionFacts
  <1> QED
    BY <1>6, <1>7 DEF TakenFor, e

\* What pksav_gen3_save_save writes has every section, is valid, and is
\* detected as the type of the session.
LEMMA SavedIsWhole ==
  ASSUME TypeInv, SlotInv, status = "open"
  PROVE  /\ WellFormed(SavedBuffer[OutputSlot])
         /\ SlotIsValid(SavedBuffer[OutputSlot])
         /\ DetectedTypes(SavedBuffer[OutputSlot]) = {save_type}
  <1> DEFINE nums == shuffled_section_nums
             e == EncryptedSlot
             out == SavedBuffer[OutputSlot]
  <1>1. /\ nums \in [Section -> Section] /\ status # "closed"
        /\ nums = SectionNums(p_raw_save[LoadedSlot])
        /\ \A p \in Section : unshuffled_save_slot[nums[p]].id = nums[p]
    BY DEF TypeInv, TypeOK, StructInv
  <1>2. /\ e \in SaveSlot /\ NextIndex \in SaveIndex
        /\ \A s \in Section : e[s].id = unshuffled_save_slot[s].id
        /\ out = SetSaveIndex(ShuffleSections(e, nums), NextIndex)
        /\ SectionNums(out) = nums
    BY <1>1, SavedFields DEF ShuffledSlot
  <1>3. TakenFor(save_type, e)
    BY <1>1, EncryptedTaken DEF SlotInv
  <1> HIDE DEF e, nums, out
  <1>4. \A p \in Section : e[nums[p]].id = nums[p]
    BY <1>1, <1>2 DEF nums
  <1>5. SectionNums(out) = SectionNums(p_raw_save[LoadedSlot])
    BY <1>1, <1>2
  <1>6. WellFormed(p_raw_save[LoadedSlot])
    BY DEF SlotInv
  <1>7. WellFormed(out)
    BY <1>5, <1>6, SameNums
  <1>8. SlotIsValid(out) /\ DetectedTypes(out) = {save_type}
    BY <1>1, <1>2, <1>3, <1>4, <1>7, WrittenTaken
  <1> QED
    BY <1>7, <1>8 DEF out

\* What it writes loads as what the client sees.
LEMMA SavedLoadsAsView ==
  ASSUME SInv, NoWrap, status = "open", CanSave
  PROVE  Decode(SavedBuffer) = View
  <1> DEFINE u == unshuffled_save_slot
             pc == consolidated_pokemon_pc
             out == SavedBuffer[OutputSlot]
             back == Unshuffled(SavedBuffer)
             seen == CryptSlot(back, save_type, FALSE)
  <1>1. TypeInv /\ SlotInv /\ Inv /\ status # "closed"
    BY DEF SInv, Inv
  <1>2. /\ u \in SaveSlot /\ pc \in [PcSection -> Pokemon]
        /\ shuffled_section_nums \in [Section -> Section]
        /\ save_type \in SaveType
        /\ \A p \in Section : u[shuffled_section_nums[p]].id
                                = shuffled_section_nums[p]
    BY <1>1 DEF TypeInv, TypeOK, StructInv
  <1>3. /\ NextIndex \in SaveIndex /\ out = SetSaveIndex(ShuffledSlot, NextIndex)
        /\ OutputSlot \in 1..Len(SavedBuffer)
    BY <1>1, SavedFields
  <1>4. RoundTrips(u, pc, save_type, shuffled_section_nums, NextIndex)
    BY <1>2, <1>3, SaveRoundTrip
  <1>5. ActiveSlot(SavedBuffer) = OutputSlot
    BY <1>1, SavedIsActive
  <1>6. WellFormed(out) /\ DetectedTypes(out) = {save_type}
    BY <1>1, SavedIsWhole
  <1>7. back = UnshuffleSections(out, EncryptedSlot)
    BY <1>5, <1>6, UnshuffleWhole DEF Unshuffled
  <1>8. out = SetSaveIndex(ShuffleSections(
                SetSectionChecksums(CopyPokemonPc(StorePokemonPc(pc),
                                      CryptSlot(u, save_type, TRUE))),
                shuffled_section_nums), NextIndex)
    BY <1>3 DEF ShuffledSlot, EncryptedSlot, StoredPc
  <1>9. /\ seen[1].data = u[1].data
        /\ seen[4].data = u[4].data
        /\ \A s \in PcSection : LoadPokemonPc(back)[s] = SetPokemonChecksum(pc[s])
    BY <1>4, <1>7, <1>8 DEF RoundTrips, EncryptedSlot, StoredPc
  <1> HIDE DEF seen, back
  <1>10. \A s \in PcSection : Visible(LoadPokemonPc(back)[s]) = Visible(pc[s])
    BY <1>2, <1>9, SetChecksumFields DEF Visible
  <1>11. ContentOf(save_type, seen, LoadPokemonPc(back)) = View
    BY <1>9, <1>10 DEF View, ContentOf
  <1>12. BufferTypes(SavedBuffer) = {save_type}
    <2>1. OutputSlot # 0
      BY <1>3
    <2> QED
      BY <1>5, <1>6, <2>1 DEF BufferTypes
  <1>13. save_type # "NONE"
    BY <1>2 DEF SaveType
  <1> QED
    BY <1>11, <1>12, <1>13, DecodeOne DEF seen, back

-----------------------------------------------------------------------------
(* The invariant is kept.                                                  *)

\* A file cut short has the first slots of the whole one.
LEMMA TornSlots ==
  ASSUME NEW raw \in Buffer, NEW torn \in TornFiles(raw)
  PROVE  /\ torn \in Buffer /\ Len(torn) <= Len(raw)
         /\ \A i \in 1..Len(torn) : i \in 1..Len(raw) /\ torn[i] = raw[i]
  <1>1. PICK l \in 0..Len(raw) : torn = SubSeq(raw, 1, l)
    BY DEF TornFiles, Prefixes
  <1>2. raw \in Seq(SaveSlot) /\ Len(raw) \in 0..2
    BY BufferLength
  <1>3. /\ Len(torn) = l
        /\ \A i \in 1..l : torn[i] = raw[i]
    BY <1>1, <1>2
  <1>4. torn \in Buffer
    BY TornIsPrefix
  <1> QED
    BY <1>1, <1>2, <1>3, <1>4

\* What a save writes, whole or cut short, has every section of its slots.
LEMMA SavedWhole ==
  ASSUME SInv, status = "open"
  PROVE  /\ WholeBuffer(SavedBuffer)
         /\ \A torn \in TornFiles(SavedBuffer) : WholeBuffer(torn)
  <1>1. /\ SavedBuffer \in Buffer
        /\ Len(SavedBuffer) = Len(p_raw_save)
        /\ \A i \in 1..Len(p_raw_save) :
             i # OutputSlot => SavedBuffer[i] = p_raw_save[i]
    BY SavedFields DEF SInv, Inv
  <1>2. WholeSlot(SavedBuffer[OutputSlot])
    BY SavedIsWhole DEF SInv, Inv, WholeSlot
  <1>3. WholeBuffer(SavedBuffer)
    BY <1>1, <1>2 DEF SInv, WholeInv, WholeBuffer
  <1>4. ASSUME NEW torn \in TornFiles(SavedBuffer)
        PROVE  WholeBuffer(torn)
    BY <1>1, <1>3, TornSlots DEF WholeBuffer
  <1> QED
    BY <1>3, <1>4

\* Where every section is there, each is there once, so that the one at the start
\* is the one that unshuffling keeps, whatever the indexes of the others.
LEMMA WholeIsHeaded ==
  ASSUME NEW slot, SlotIsValid(slot), WellFormed(slot)
  PROVE  WellHeaded(slot)
  <1> DEFINE nums == SectionNums(slot)
             S == Holders(slot, slot[0].id)
  <1>1. nums \in Surjection(Section, Section)
    BY DEF SectionNums, SlotIsValid, SectionIsValid, WellFormed, Holders,
           Surjection
  <1>2. IsFiniteSet(Section)
    <2>1. 0 \in Int /\ 13 \in Int
      OBVIOUS
    <2>2. IsFiniteSet(0..13)
      BY <2>1, FS_Interval, Zenon
    <2>3. Section \in SUBSET (0..13)
      BY SectionAssumption DEF NUM_SAVE_SECTIONS
    <2> QED
      BY <2>2, <2>3, FS_Subset, Zenon
  <1> HIDE DEF nums
  <1>3. nums \in Injection(Section, Section)
    BY <1>1, <1>2, FS_SurjSameCardinalityImpliesInj
  <1>4. \A p \in S : nums[p] = nums[0]
    BY SectionFacts DEF nums, SectionNums, Holders
  <1>5. 0 \in S /\ S \in SUBSET Section
    BY SectionFacts DEF Holders
  <1> HIDE DEF S
  <1>6. \A p \in S : p = 0
    BY <1>3, <1>4, <1>5 DEF Injection, IsInjective
  <1>7. Max(S) = 0
    BY <1>5, <1>6, LastHolder
  <1> QED
    BY <1>7 DEF WellHeaded, S

\* So nothing more need be said of the indexes of the first file.
LEMMA WholeAreHeaded == WholeFiles => WellHeadedFiles
  BY WholeIsHeaded
     DEF WholeFiles, WholeBuffer, WholeSlot, WellHeadedFiles, WellHeadedBuffer

\* It holds at first.
LEMMA SInvInit == ASSUME WholeFiles PROVE Init => SInv
  <1> SUFFICES ASSUME Init PROVE SInv
    OBVIOUS
  <1>1. WholeBuffer(disk) /\ WholeBuffer(<<>>)
    BY DEF Init, WholeFiles, WholeBuffer
  <1> QED
    BY <1>1, InvInit, WholeAreHeaded DEF Init, SInv, WholeInv, SlotInv

\* A session is opened or goes on with the active slot of a buffer.
LEMMA PointersSlotInv ==
  ASSUME NEW raw \in Buffer, NEW type \in SaveType, NEW old \in SaveSlot,
         ActiveSlot(raw) \in 1..Len(raw),
         WellFormed(raw[ActiveSlot(raw)]),
         SlotIsValid(raw[ActiveSlot(raw)]),
         type \in DetectedTypes(raw[ActiveSlot(raw)]),
         SetSavePointers(raw, type, old), save_type' = type
  PROVE  SlotInv'
  <1> DEFINE a == ActiveSlot(raw)
             slot == raw[a]
             c == CryptSlot(UnshuffleSections(slot, old), type, FALSE)
  <1>1. slot \in SaveSlot /\ (a = 1 \/ a = 2)
    <2>1. \A l \in 0..2 : \A n \in 1..l : n = 1 \/ n = 2
      OBVIOUS
    <2>2. a = 1 \/ a = 2
      BY <2>1, BufferLength, Zenon
    <2> QED
      BY <2>2, ActiveSlotRange
  <1>2. TakenFor(type, c)
    BY <1>1, PointersTaken
  <1>3. /\ p_raw_save' = raw
        /\ is_save_from_first_slot' = (a = 1)
        /\ unshuffled_save_slot' = c
    BY DEF SetSavePointers
  <1>4. LoadedSlot' = a
    <2> HIDE DEF a
    <2> QED
      BY <1>1, <1>3 DEF LoadedSlot
  <1> HIDE DEF c
  <1>5. WellFormed(p_raw_save[LoadedSlot])'
    BY <1>3, <1>4
  <1>6. TakenFor(save_type, unshuffled_save_slot)'
    BY <1>2, <1>3
  <1> QED
    BY <1>5, <1>6 DEF SlotInv

\* A load of a whole buffer.
LEMMA LoadSlotInv ==
  ASSUME SInv, NEW raw \in Buffer, WholeBuffer(raw),
         NEW ours \in BOOLEAN, Load(raw, ours)
  PROVE  WholeInv' /\ SlotInv'
  <1>1. PICK type \in BufferTypes(raw) :
          \/ /\ type # "NONE"
             /\ save_type' = type
             /\ SetSavePointers(raw, type, ZeroSlot)
             /\ status' = "open"
          \/ /\ type = "NONE"
             /\ UNCHANGED <<p_raw_save, status>>
    BY DEF Load
  <1>2. disk' = disk /\ status = "closed"
    BY DEF Load
  <1>3. CASE type = "NONE"
    BY <1>1, <1>2, <1>3 DEF SInv, WholeInv, SlotInv
  <1>4. CASE type # "NONE"
    <2> DEFINE slot == raw[ActiveSlot(raw)]
    <2>1. type \in SaveType /\ ActiveSlot(raw) \in 1..Len(raw)
      BY <1>4, DetectedIsValid
    <2>2. type \in DetectedTypes(slot)
      BY <1>4 DEF BufferTypes
    <2>3. WholeSlot(slot)
      BY <2>1 DEF WholeBuffer
    <2> HIDE DEF slot
    <2>4. SlotIsValid(slot)
      BY <1>4, <2>2 DEF DetectedTypes, SlotIsValid
    <2>5. WellFormed(slot)
      BY <2>3, <2>4 DEF WholeSlot
    <2>6. SetSavePointers(raw, type, ZeroSlot) /\ save_type' = type
      BY <1>1, <1>4
    <2>7. SlotInv'
      BY <2>1, <2>2, <2>4, <2>5, <2>6, ZeroSlotType, PointersSlotInv DEF slot
    <2>8. WholeInv'
      BY <1>2, <2>6 DEF SetSavePointers, SInv, WholeInv
    <2> QED
      BY <2>7, <2>8
  <1> QED
    BY <1>3, <1>4

\* What the client stores lies in other sections than what tells the type.
LEMMA EditTaken ==
  ASSUME TypeOK, Edit, NEW type, TakenFor(type, unshuffled_save_slot)
  PROVE  TakenFor(type, unshuffled_save_slot')
  <1> DEFINE u == unshuffled_save_slot
  <1>1. u \in SaveSlot
    BY DEF TypeOK
  <1>2. \A t \in Section : SameFooter(unshuffled_save_slot'[t], u[t])
    BY EditFields
  <1>3. unshuffled_save_slot'[0] = u[0]
    <2>1. 0 \in Section
      BY SectionFacts
    <2>2. \A s \in {1, 4} : \A d : [u EXCEPT ![s] = d][0] = u[0]
      BY <1>1, <2>1 DEF SaveSlot
    <2>3. ASSUME NEW cell, NEW w, EditWords(cell, w)
          PROVE  unshuffled_save_slot'[0] = u[0]
      BY <2>2, <2>3 DEF EditWords
    <2>4. ASSUME NEW field, NEW mon, EditTeam(field, mon)
          PROVE  unshuffled_save_slot'[0] = u[0]
      BY <2>2, <2>4 DEF EditTeam
    <2>5. ASSUME NEW s, NEW mon, EditPc(s, mon)
          PROVE  unshuffled_save_slot'[0] = u[0]
      BY <2>5 DEF EditPc
    <2> QED
      BY <2>3, <2>4, <2>5 DEF Edit
  <1> QED
    BY <1>2, <1>3 DEF TakenFor, SameFooter

\* Every step keeps it.
LEMMA SInvNext == ASSUME NoRetry, NoWrap PROVE SInv /\ [Next]_vars => SInv'
  <1> SUFFICES ASSUME SInv, [Next]_vars PROVE WholeInv' /\ SlotInv'
    BY InvNext DEF SInv
  <1>1. Inv /\ TypeInv /\ TypeOK /\ WholeInv /\ SlotInv
    BY DEF SInv, Inv, TypeInv
  <1>2. CanUse => status = "open"
    BY DEF CanUse, NoRetry
  <1>3. WholeBuffer(<<>>)
    BY DEF WholeBuffer
  <1>4. CASE LoadSaveFromBuffer \/ LoadSaveFromFile
    BY <1>1, <1>4, LoadSlotInv DEF LoadSaveFromBuffer, LoadSaveFromFile, TypeOK,
                                   WholeInv
  <1>5. CASE ReadFails \/ ClientReadsFile
    BY <1>1, <1>5 DEF ReadFails, ClientReadsFile, WholeInv, SlotInv
  <1>6. CASE Edit
    <2>1. UNCHANGED <<disk, p_raw_save, save_type, is_save_from_first_slot, status>>
      BY <1>1, <1>6, EditFields
    <2>2. LoadedSlot' = LoadedSlot
      BY <2>1 DEF LoadedSlot
    <2>3. ASSUME status = "open"
          PROVE  TakenFor(save_type, unshuffled_save_slot)'
      <3>1. TakenFor(save_type, unshuffled_save_slot')
        BY <1>1, <1>6, <2>3, EditTaken DEF SlotInv
      <3> QED
        BY <2>1, <3>1
    <2>4. status = "open" => WellFormed(p_raw_save[LoadedSlot])'
      BY <1>1, <2>1, <2>2 DEF SlotInv
    <2> QED
      BY <1>1, <2>1, <2>3, <2>4 DEF WholeInv, SlotInv
  <1>7. CASE SaveSucceeds
    <2>1. /\ status = "open" /\ CanSave /\ save_type' = save_type
          /\ SetSavePointers(SavedBuffer, save_type, EncryptedSlot)
          /\ disk' = SavedBuffer /\ p_raw_save' = SavedBuffer
      BY <1>2, <1>7 DEF SaveSucceeds, CanSave, SetSavePointers
    <2>2. /\ SavedBuffer \in Buffer /\ EncryptedSlot \in SaveSlot
          /\ OutputSlot \in 1..Len(SavedBuffer)
          /\ save_type \in SaveType
      BY <1>1, <2>1, SavedFields DEF TypeInv, StructInv
    <2>3. ActiveSlot(SavedBuffer) = OutputSlot
      BY <1>1, <2>1, SavedIsActive
    <2>4. /\ WellFormed(SavedBuffer[OutputSlot])
          /\ SlotIsValid(SavedBuffer[OutputSlot])
          /\ save_type \in DetectedTypes(SavedBuffer[OutputSlot])
      BY <1>1, <2>1, SavedIsWhole
    <2>5. SlotInv'
      BY <2>1, <2>2, <2>3, <2>4, PointersSlotInv
    <2>6. WholeInv'
      BY <2>1, SavedWhole DEF WholeInv
    <2> QED
      BY <2>5, <2>6
  <1>8. CASE SaveFails
    <2>1. /\ status = "open" /\ status' = "failed" /\ p_raw_save' = SavedBuffer
          /\ disk' \in {disk} \cup TornFiles(SavedBuffer)
      BY <1>2, <1>8 DEF SaveFails, CanSave
    <2>2. WholeBuffer(disk')
      BY <1>1, <2>1, SavedWhole DEF WholeInv
    <2> QED
      BY <2>1, <2>2, SavedWhole DEF WholeInv, SlotInv
  <1>9. CASE FreeSave
    BY <1>1, <1>3, <1>9 DEF FreeSave, WholeInv, SlotInv
  <1>10. CASE Crash
    <2>1. /\ status' = "closed" /\ p_raw_save' = <<>>
          /\ \/ disk' = disk
             \/ CanSave /\ disk' \in TornFiles(SavedBuffer)
      BY <1>10 DEF Crash
    <2>2. CanSave => status = "open"
      BY <1>2 DEF CanSave
    <2>3. WholeBuffer(disk')
      BY <1>1, <2>1, <2>2, SavedWhole DEF WholeInv
    <2> QED
      BY <1>3, <2>1, <2>3 DEF WholeInv, SlotInv
  <1>11. CASE UNCHANGED vars
    <2>1. UNCHANGED <<disk, p_raw_save, save_type, is_save_from_first_slot,
                      unshuffled_save_slot, status>>
      BY <1>11 DEF vars, internal
    <2>2. LoadedSlot' = LoadedSlot
      BY <2>1 DEF LoadedSlot
    <2> QED
      BY <1>1, <2>1, <2>2 DEF WholeInv, SlotInv
  <1> QED
    BY <1>4, <1>5, <1>6, <1>7, <1>8, <1>9, <1>10, <1>11 DEF Next

\* Under the assumptions SInv holds.
LEMMA SInvCorrect ==
  ASSUME NoRetry, NoWrap, WholeFiles
  PROVE  Spec => []SInv
  <1>1. Init => SInv
    BY SInvInit
  <1>2. SInv /\ [Next]_vars => SInv'
    BY SInvNext
  <1> QED
    BY <1>1, <1>2, PTL DEF Spec

\* A successful save leaves what the client had stored; every other call
\* returns something else.
LEMMA FileHolds ==
  ASSUME SInv, NoRetry, NoWrap, FileHoldsWhatWasSet, [Next]_vars
  PROVE  FileHoldsWhatWasSet'
  <1>1. CASE SaveSucceeds
    <2>1. CanSave /\ disk' = SavedBuffer /\ intended' = intended
      BY <1>1 DEF SaveSucceeds
    <2>2. status = "open"
      BY <2>1 DEF CanSave, CanUse, NoRetry
    <2>3. Decode(SavedBuffer) = View
      BY <2>1, <2>2, SavedLoadsAsView
    <2>4. View = intended
      BY <2>2 DEF SInv, Inv, ViewIsIntended
    <2>5. Decode(disk)' = Decode(SavedBuffer)
      BY <2>1
    <2> QED
      BY <2>1, <2>3, <2>4, <2>5 DEF FileHoldsWhatWasSet
  <1>2. CASE UNCHANGED vars
    <2>1. UNCHANGED <<disk, intended, op, error>>
      BY <1>2 DEF vars
    <2>2. Decode(disk)' = Decode(disk)
      BY <2>1
    <2> QED
      BY <2>1, <2>2 DEF FileHoldsWhatWasSet, Saved
  <1>3. CASE \/ LoadSaveFromBuffer \/ LoadSaveFromFile \/ ReadFails
             \/ ClientReadsFile \/ Edit \/ SaveFails \/ FreeSave \/ Crash
    <2>1. op' # "save" \/ error' # "NONE"
      BY <1>3 DEF LoadSaveFromBuffer, LoadSaveFromFile, Load, ReadFails,
                  ClientReadsFile, Edit, SaveFails, FreeSave, Crash, Returns
    <2> QED
      BY <2>1 DEF FileHoldsWhatWasSet, Saved
  <1> QED
    BY <1>1, <1>2, <1>3 DEF Next

\* A save that succeeds leaves a file that loads as what the client had
\* stored.  The run gen3_retry, in which a client retries, shows that the
\* first assumption is needed.
THEOREM FileCorrect ==
  ASSUME NoRetry, NoWrap, WholeFiles
  PROVE  Spec => []FileHoldsWhatWasSet
  <1>1. Init => FileHoldsWhatWasSet
    BY DEF Init, FileHoldsWhatWasSet, Saved
  <1>2. SInv /\ FileHoldsWhatWasSet /\ [Next]_vars => FileHoldsWhatWasSet'
    BY FileHolds
  <1> QED
    BY <1>1, <1>2, SInvCorrect, PTL DEF Spec

\* A save that loads has every section, whatever was saved before, if the
\* first file is whole: no save of the library makes a doubled section.
\* The run gen3_doubled shows what else happens.
THEOREM LoadedWhole ==
  ASSUME NoRetry, NoWrap, WholeFiles
  PROVE  Spec => []LoadedSaveIsWhole
  <1>1. SInv => LoadedSaveIsWhole
    <2> SUFFICES ASSUME SInv, status = "open", NEW s \in Section
                 PROVE  \E p \in Section : shuffled_section_nums[p] = s
      BY DEF LoadedSaveIsWhole
    <2>1. /\ shuffled_section_nums = SectionNums(p_raw_save[LoadedSlot])
          /\ WellFormed(p_raw_save[LoadedSlot])
      BY DEF SInv, Inv, TypeInv, StructInv, SlotInv
    <2>2. PICK p \in Section : p_raw_save[LoadedSlot][p].id = s
      BY <2>1 DEF WellFormed, Holders
    <2> QED
      BY <2>1, <2>2 DEF SectionNums
  <1> QED
    BY <1>1, SInvCorrect, PTL

-----------------------------------------------------------------------------
(* Each step maps to a step of SaveSession or to none.                     *)

\* The history variables hold what file and buffer load as.
HistoryInv == file = Decode(disk) /\ buffer = Decode(p_raw_save)

\* At first there is a file that loads as something or does not.
LEMMA InitMaps == HInit => Session!Init /\ HistoryInv
  <1> SUFFICES ASSUME HInit PROVE Session!Init /\ HistoryInv
    OBVIOUS
  <1>1. Init /\ HistoryInv
    BY DEF HInit, HistoryInv
  <1>2. disk \in Buffer
    BY <1>1, InitialDiskAssumption DEF Init
  <1>3. Decode(disk) \in Content \cup {NoContent}
    BY <1>2, DecodeType
  <1>4. buffer = NoContent
    BY <1>1, DecodeEmpty DEF Init, HistoryInv
  <1> QED
    BY <1>1, <1>3, <1>4 DEF Init, HistoryInv, Session!Init, Session!MaybeContent

\* A load opens a session or is no step.
LEMMA LoadMaps ==
  ASSUME HistoryInv, HistoryInv', NEW b \in Buffer, WholeBuffer(b), NEW ours,
         Load(b, ours)
  PROVE  Session!Open(Decode(b)) \/ UNCHANGED Session!vars
  <1>1. PICK type \in BufferTypes(b) :
          \/ /\ type # "NONE"
             /\ save_type' = type
             /\ SetSavePointers(b, type, ZeroSlot)
             /\ status' = "open"
             /\ intended' = View'
          \/ /\ type = "NONE"
             /\ UNCHANGED <<p_raw_save, status, intended>>
    BY DEF Load
  <1>2. status = "closed" /\ disk' = disk
    BY DEF Load
  <1>3. Decode(disk)' = Decode(disk)
    BY <1>2
  <1>4. CASE type = "NONE"
    <2>1. UNCHANGED <<p_raw_save, status, intended>>
      BY <1>1, <1>4
    <2>2. Decode(p_raw_save)' = Decode(p_raw_save)
      BY <2>1
    <2> QED
      BY <1>2, <1>3, <2>1, <2>2 DEF HistoryInv, Session!vars
  <1>5. CASE type # "NONE"
    <2> DEFINE u == Unshuffled(b)
    <2>1. /\ save_type' = type /\ p_raw_save' = b /\ status' = "open"
          /\ intended' = View'
          /\ unshuffled_save_slot' = CryptSlot(u, type, FALSE)
          /\ consolidated_pokemon_pc' = LoadPokemonPc(u)
      BY <1>1, <1>5 DEF SetSavePointers, Unshuffled
    <2> HIDE DEF u
    <2>2. intended' = ContentOf(type, CryptSlot(u, type, FALSE), LoadPokemonPc(u))
      BY <2>1 DEF View
    <2>3. Decode(b) = intended'
      BY <1>5, <2>2, OneType, DecodeOne DEF u
    <2>4. Decode(b) # NoContent
      BY <1>5, <2>2, <2>3, DetectedIsValid, ContentLoads
    <2>5. Decode(p_raw_save)' = Decode(b)
      BY <2>1
    <2>6. Session!Open(Decode(b))
      BY <1>2, <1>3, <2>1, <2>3, <2>4, <2>5 DEF HistoryInv, Session!Open
    <2> QED
      BY <2>6
  <1> QED
    BY <1>4, <1>5

\* What a save cut short leaves is what was being saved, what was loaded or
\* saved last, or no save at all.
LEMMA TornMaps ==
  ASSUME SInv, NoWrap, status = "open", CanSave,
         NEW torn \in TornFiles(SavedBuffer)
  PROVE  Decode(torn) \in {Decode(p_raw_save), View, NoContent}
  <1>1. TypeInv /\ ActiveInv /\ StructInv /\ Inv /\ status # "closed"
    BY DEF SInv, Inv, TypeInv
  <1>2. /\ SavedBuffer \in Buffer /\ Len(SavedBuffer) = Len(p_raw_save)
        /\ OutputSlot \in 1..Len(p_raw_save)
        /\ \A i \in 1..Len(p_raw_save) :
             i # OutputSlot => SavedBuffer[i] = p_raw_save[i] /\ i = LoadedSlot
    BY <1>1, SavedFields
  <1>3. /\ torn \in Buffer /\ Len(torn) <= Len(SavedBuffer)
        /\ \A i \in 1..Len(torn) :
             i \in 1..Len(SavedBuffer) /\ torn[i] = SavedBuffer[i]
    BY <1>2, TornSlots
  <1>4. /\ ActiveSlot(SavedBuffer) = OutputSlot
        /\ LoadedSlot = ActiveSlot(p_raw_save)
        /\ LoadedSlot \in 1..Len(p_raw_save)
    BY <1>1, SavedIsActive DEF ActiveInv, StructInv
  <1>5. Decode(SavedBuffer) = View
    BY SavedLoadsAsView
  <1>6. Len(torn) \in 0..2 /\ Len(SavedBuffer) \in 0..2
    BY <1>2, <1>3, BufferLength
  <1>7. CASE Len(torn) = 0
    <2>1. torn = <<>>
      BY <1>3, <1>7, BufferLength
    <2> QED
      BY <2>1, DecodeEmpty
  <1>8. CASE Len(torn) = Len(SavedBuffer)
    <2>1. torn = SavedBuffer
      BY <1>2, <1>3, <1>8, BufferLength
    <2> QED
      BY <1>5, <2>1
  <1>9. CASE Len(torn) = 1
    <2>1. ActiveSlot(torn) = 1 /\ torn[1] = SavedBuffer[1]
      BY <1>3, <1>9 DEF ActiveSlot
    <2>2. CASE OutputSlot = 1
      <3>1. Decode(torn) = Decode(SavedBuffer)
        BY <1>4, <2>1, <2>2, DecodeSlot
      <3> QED
        BY <1>5, <3>1
    <2>3. CASE OutputSlot # 1
      <3>1. 1 \in 1..Len(p_raw_save)
        BY <1>2, <1>3, <1>9
      <3>2. SavedBuffer[1] = p_raw_save[1] /\ LoadedSlot = 1
        BY <1>2, <2>3, <3>1
      <3>3. ActiveSlot(p_raw_save) = 1 /\ torn[1] = p_raw_save[1]
        BY <1>4, <2>1, <3>2
      <3>4. torn[ActiveSlot(torn)] = p_raw_save[ActiveSlot(p_raw_save)]
        BY <2>1, <3>3
      <3>5. Decode(torn) = Decode(p_raw_save)
        BY <2>1, <3>3, <3>4, DecodeSlot
      <3> QED
        BY <3>5
    <2> QED
      BY <2>2, <2>3
  <1>10. Len(torn) = 0 \/ Len(torn) = 1 \/ Len(torn) = Len(SavedBuffer)
    BY <1>3, <1>6
  <1> QED
    BY <1>7, <1>8, <1>9, <1>10

\* A save that succeeds is one, and one that fails leaves no mixture.
LEMMA SaveMaps ==
  ASSUME SInv, NoWrap, NoRetry, HistoryInv, HistoryInv',
         SaveSucceeds \/ SaveFails
  PROVE  Session!Save \/ Session!FailedSave
  <1>1. /\ status = "open" /\ CanSave
        /\ p_raw_save' = SavedBuffer /\ intended' = intended
    BY DEF SaveSucceeds, SaveFails, SetSavePointers, CanSave, CanUse, NoRetry
  <1>2. View = intended
    BY <1>1 DEF SInv, Inv, ViewIsIntended
  <1>3. Decode(SavedBuffer) = intended
    BY <1>1, <1>2, SavedLoadsAsView
  <1>4. buffer' = intended
    <2>1. Decode(p_raw_save)' = Decode(SavedBuffer)
      BY <1>1
    <2> QED
      BY <1>3, <2>1 DEF HistoryInv
  <1>5. CASE SaveSucceeds
    <2>1. disk' = SavedBuffer /\ status' = "open"
      BY <1>5 DEF SaveSucceeds
    <2>2. Decode(disk)' = Decode(SavedBuffer)
      BY <2>1
    <2> QED
      BY <1>1, <1>3, <1>4, <2>1, <2>2 DEF HistoryInv, Session!Save
  <1>6. CASE SaveFails
    <2>1. PICK f \in {disk} \cup TornFiles(SavedBuffer) : disk' = f
      BY <1>6 DEF SaveFails
    <2>2. Decode(disk)' = Decode(f)
      BY <2>1
    <2>3. Decode(f) \in {Decode(disk), Decode(p_raw_save), intended, NoContent}
      BY <1>1, <1>2, <2>1, TornMaps
    <2>4. status' = "failed"
      BY <1>6 DEF SaveFails
    <2> QED
      BY <1>1, <1>4, <2>2, <2>3, <2>4
         DEF HistoryInv, Session!FailedSave, Session!Torn
  <1> QED
    BY <1>5, <1>6

\* The file survives the end of a session, and a write it interrupts.
LEMMA ClosedMaps ==
  ASSUME SInv, NoWrap, NoRetry, HistoryInv, HistoryInv', FreeSave \/ Crash
  PROVE  Session!Close \/ Session!Crash
  <1>1. CASE FreeSave
    <2>1. /\ status # "closed" /\ status' = "closed" /\ disk' = disk
          /\ p_raw_save' \in {p_raw_save, <<>>}
      BY <1>1 DEF FreeSave
    <2>2. Decode(disk)' = Decode(disk)
      BY <2>1
    <2>3. Decode(p_raw_save)' \in {Decode(p_raw_save), NoContent}
      BY <2>1, DecodeEmpty
    <2> QED
      BY <2>1, <2>2, <2>3 DEF HistoryInv, Session!Close
  <1>2. CASE Crash
    <2>1. /\ status' = "closed" /\ p_raw_save' = <<>>
          /\ \/ disk' = disk
             \/ CanSave /\ disk' \in TornFiles(SavedBuffer)
      BY <1>2 DEF Crash
    <2>2. buffer' = NoContent
      <3>1. Decode(p_raw_save)' = NoContent
        BY <2>1, DecodeEmpty
      <3> QED
        BY <3>1 DEF HistoryInv
    <2>3. CASE disk' = disk
      <3>1. Decode(disk)' = Decode(disk)
        BY <2>3
      <3>2. file' = file
        BY <3>1 DEF HistoryInv
      <3> QED
        BY <2>1, <2>2, <3>2 DEF Session!Crash, Session!Torn
    <2>4. CASE CanSave /\ disk' \in TornFiles(SavedBuffer)
      <3>1. status = "open"
        BY <2>4 DEF CanSave, CanUse, NoRetry
      <3>2. PICK f \in TornFiles(SavedBuffer) : disk' = f
        BY <2>4
      <3>3. Decode(disk)' = Decode(f)
        BY <3>2
      <3>4. View = intended
        BY <3>1 DEF SInv, Inv, ViewIsIntended
      <3>5. Decode(f) \in {Decode(p_raw_save), intended, NoContent}
        BY <2>4, <3>1, <3>2, <3>4, TornMaps
      <3> QED
        BY <2>1, <2>2, <3>1, <3>3, <3>5
           DEF HistoryInv, Session!Crash, Session!Torn
    <2> QED
      BY <2>1, <2>3, <2>4
  <1> QED
    BY <1>1, <1>2

\* Each action in turn.
LEMMA NextMaps ==
  ASSUME NoRetry, NoWrap, SInv, SInv', HistoryInv, HistoryInv', [Next]_vars
  PROVE  [Session!Next]_Session!vars
  <1>1. WholeBuffer(disk) /\ WholeBuffer(p_raw_save)
        /\ disk \in Buffer /\ p_raw_save \in Buffer
    BY DEF SInv, WholeInv, Inv, TypeInv, TypeOK
  <1>2. CASE LoadSaveFromBuffer
    <2>1. Session!Open(Decode(p_raw_save)) \/ UNCHANGED Session!vars
      BY <1>1, <1>2, LoadMaps DEF LoadSaveFromBuffer
    <2> QED
      BY <2>1 DEF HistoryInv, Session!Next
  <1>3. CASE LoadSaveFromFile
    <2>1. Session!Open(Decode(disk)) \/ UNCHANGED Session!vars
      BY <1>1, <1>3, LoadMaps DEF LoadSaveFromFile
    <2> QED
      BY <2>1 DEF HistoryInv, Session!Next
  <1>4. CASE ReadFails \/ UNCHANGED vars
    <2>1. UNCHANGED <<disk, p_raw_save, status, intended>>
      BY <1>4 DEF ReadFails, vars
    <2>2. /\ Decode(disk)' = Decode(disk)
          /\ Decode(p_raw_save)' = Decode(p_raw_save)
      BY <2>1
    <2> QED
      BY <2>1, <2>2 DEF HistoryInv, Session!vars
  <1>5. CASE ClientReadsFile
    <2>1. /\ status = "closed" /\ p_raw_save' = disk
          /\ UNCHANGED <<disk, status, intended>>
      BY <1>5 DEF ClientReadsFile
    <2>2. Decode(disk)' = Decode(disk) /\ Decode(p_raw_save)' = Decode(disk)
      BY <2>1
    <2>3. Session!TakeBuffer
      BY <2>1, <2>2 DEF HistoryInv, Session!TakeBuffer
    <2> QED
      BY <2>3 DEF Session!Next
  <1>6. CASE Edit
    <2>1. /\ UNCHANGED <<disk, p_raw_save, status>>
          /\ CanUse /\ intended' \in Content
      BY <1>6, EditFields DEF SInv, Inv, TypeInv
    <2>2. status = "open"
      BY <2>1 DEF CanUse, NoRetry
    <2>3. /\ Decode(disk)' = Decode(disk)
          /\ Decode(p_raw_save)' = Decode(p_raw_save)
      BY <2>1
    <2>4. Session!Change
      BY <2>1, <2>2, <2>3 DEF HistoryInv, Session!Change
    <2> QED
      BY <2>4 DEF Session!Next
  <1>7. CASE SaveSucceeds \/ SaveFails
    BY <1>7, SaveMaps DEF Session!Next
  <1>8. CASE FreeSave \/ Crash
    BY <1>8, ClosedMaps DEF Session!Next
  <1> QED
    BY <1>2, <1>3, <1>4, <1>5, <1>6, <1>7, <1>8 DEF Next

\* With such a client, indexes that do not wrap and files whose saves are
\* whole, a session, its saves that fail and its crashes included, is one of
\* the abstract specification: what a file loads as is never a mixture.
THEOREM Implements ==
  ASSUME NoRetry, NoWrap, WholeFiles
  PROVE  HSpec => ImplementsSession
  <1> DEFINE HInv == SInv /\ HistoryInv
             hvars == <<vars, file, buffer>>
  <1>1. HInit => HInv /\ Session!Init
    BY SInvInit, InitMaps DEF HInit
  <1>2. HInv /\ [HNext]_hvars => HInv' /\ [Next]_vars
    <2> SUFFICES ASSUME HInv, [HNext]_hvars PROVE HInv' /\ [Next]_vars
      OBVIOUS
    <2>1. [Next]_vars
      BY DEF HNext
    <2>2. HistoryInv'
      <3>1. CASE HNext
        BY <3>1 DEF HNext, HistoryInv
      <3>2. CASE UNCHANGED hvars
        <4>1. UNCHANGED <<disk, p_raw_save, file, buffer>>
          BY <3>2 DEF vars
        <4>2. /\ Decode(disk)' = Decode(disk)
              /\ Decode(p_raw_save)' = Decode(p_raw_save)
          BY <4>1
        <4> QED
          BY <4>1, <4>2 DEF HistoryInv
      <3> QED
        BY <3>1, <3>2
    <2> QED
      BY <2>1, <2>2, SInvNext
  <1>3. HInv /\ HInv' /\ [Next]_vars => [Session!Next]_Session!vars
    BY NextMaps
  <1> QED
    BY <1>1, <1>2, <1>3, PTL DEF HSpec, ImplementsSession, Session!Spec
=============================================================================
