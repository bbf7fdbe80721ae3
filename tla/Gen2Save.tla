------------------------------ MODULE Gen2Save ------------------------------
(***************************************************************************)
(* A session with a generation 2 save, lib/gen2/save.c: as in generation 1 *)
(* the client works in the loaded buffer itself, but a save has two        *)
(* checksums, whose places and whose areas differ between Gold/Silver and  *)
(* Crystal.  The number of the current box is used as it lies in its byte: *)
(* gen2/save.h asks for PKSAV_GEN2_CURRENT_POKEMON_BOX_NUM_MASK, which is  *)
(* defined nowhere and which the code does not apply.                      *)
(*                                                                         *)
(* A file or buffer of PKSAV_GEN2_SAVE_SIZE or more is an Image, reduced   *)
(* to what the first checksum sums (a word of the trainer's data and the   *)
(* number of the current box), what the second sums, the boxes and the     *)
(* copy of the current one, which neither sums, and the checksums, by      *)
(* their offsets.  What the second sums is unreached: no pointer that the  *)
(* load of a Gold or Silver save sets leads there, and p_daycare_data,     *)
(* which would, is never set.  Anything shorter is Short.                  *)
(***************************************************************************)
EXTENDS Integers

CONSTANTS
  NumBoxes,      \* PKSAV_GEN2_NUM_POKEMON_BOXES, 14
  Box,           \* contents of a box
  Money,         \* the trainer's data
  Unreached,     \* contents of the area of the second checksum
  EditedBoxes,   \* the boxes the client stores into
  InitialDisk,   \* what the file may hold at first
  Short,         \* a file too short to be a save, or no buffer
  NoSum          \* bytes that are no checksum of anything here

BoxNum == 0..(NumBoxes - 1)

\* The checksums are modelled as the data summed: sums do not collide.
Sum1 == [money : Money, current_box_num : BoxNum]
Sum2 == [unreached : Unreached]

Checksum1Cell == {"0x2D69", "0x2D02", "0x2D0D"}
Checksum2Cell == {"0x7E6D", "0x1F0D"}

Image ==
  [money : Money, current_box_num : BoxNum, unreached : Unreached,
   current_box : Box, boxes : [BoxNum -> Box],
   checksum1 : [Checksum1Cell -> Sum1 \cup {NoSum}],
   checksum2 : [Checksum2Cell -> Sum2 \cup {NoSum}]]

ASSUME ConstantAssumption ==
  /\ NumBoxes \in Nat \ {0}
  /\ EditedBoxes \subseteq BoxNum
  /\ Short \notin Image
  /\ InitialDisk \subseteq Image \cup {Short}

VARIABLES
  disk,             \* the file
  save_type,        \* of struct pksav_gen2_save; NONE when none is loaded
  p_raw_save,       \* its buffer, or one the client holds
  is_buffer_ours,
  op, error,        \* the last call and what it returned
  intended          \* what the client loaded and has since stored

vars == <<disk, save_type, p_raw_save, is_buffer_ours, op, error, intended>>

SaveType == {"GS", "CRYSTAL"}

-----------------------------------------------------------------------------
(* What the client sees.  A box is the one at its number or, if it is the  *)
(* current box, the copy the game works on.                                *)

Boxes(image) ==
  [n \in BoxNum |-> IF n = image.current_box_num THEN image.current_box
                    ELSE image.boxes[n]]

ContentOf(type, image) ==
  [type |-> type, money |-> image.money, current |-> image.current_box_num,
   boxes |-> Boxes(image)]

Content ==
  [type : SaveType, money : Money, current : BoxNum, boxes : [BoxNum -> Box]]

NoContent == [type |-> "NONE"]

IsLoaded == save_type # "NONE"

View == IF IsLoaded THEN ContentOf(save_type, p_raw_save) ELSE NoContent

-----------------------------------------------------------------------------
(* Loading.                                                                *)

\* Where pksav_gen2_get_buffer_save_type looks for the checksums.
DetectedChecksum1 == [GS |-> "0x2D69", CRYSTAL |-> "0x2D02"]
DetectedChecksum2 == [GS |-> "0x7E6D", CRYSTAL |-> "0x1F0D"]

\* pksav_gen2_get_save_checksums
GetSaveChecksum1(image) ==
  [money |-> image.money, current_box_num |-> image.current_box_num]

GetSaveChecksum2(image) == [unreached |-> image.unreached]

\* Gold and Silver need both checksums, Crystal one of them.
IsTypeFound(image, type) ==
  LET found1 == image.checksum1[DetectedChecksum1[type]] = GetSaveChecksum1(image)
      found2 == image.checksum2[DetectedChecksum2[type]] = GetSaveChecksum2(image)
  IN  IF type = "GS" THEN found1 /\ found2 ELSE found1 \/ found2

\* pksav_gen2_get_buffer_save_type: the type it sets and the error it returns.
\* The error of having failed to find Gold or Silver is never taken back.
GetBufferSaveType(buffer) ==
  IF buffer = Short THEN [type |-> "NONE", error |-> "NONE"]
  ELSE IF IsTypeFound(buffer, "GS") THEN [type |-> "GS", error |-> "NONE"]
  ELSE IF IsTypeFound(buffer, "CRYSTAL")
       THEN [type |-> "CRYSTAL", error |-> "INVALID_SAVE"]
  ELSE [type |-> "NONE", error |-> "INVALID_SAVE"]

Loads(buffer) ==
  /\ GetBufferSaveType(buffer).error = "NONE"
  /\ GetBufferSaveType(buffer).type # "NONE"

Decode(buffer) ==
  IF Loads(buffer) THEN ContentOf(GetBufferSaveType(buffer).type, buffer)
  ELSE NoContent

Returns(call, code) == op' = call /\ error' = code

\* _pksav_gen2_load_save_from_buffer
Load(buffer, ours) ==
  /\ ~IsLoaded
  /\ \/ /\ Loads(buffer)
        /\ save_type' = GetBufferSaveType(buffer).type
        /\ p_raw_save' = buffer
        /\ is_buffer_ours' = ours
        /\ intended' = Decode(buffer)
     \/ /\ ~Loads(buffer)
        /\ UNCHANGED <<save_type, p_raw_save, is_buffer_ours, intended>>
  /\ Returns("load", GetBufferSaveType(buffer).error)
  /\ UNCHANGED disk

LoadSaveFromBuffer == p_raw_save # Short /\ Load(p_raw_save, FALSE)

LoadSaveFromFile == Load(disk, TRUE)

\* pksav_fs_read_file_to_buffer fails, and the load with it.
ReadFails ==
  /\ ~IsLoaded
  /\ Returns("load", "FILE_IO")
  /\ UNCHANGED <<disk, save_type, p_raw_save, is_buffer_ours, intended>>

\* The client reads the file by its own means.
ClientReadsFile ==
  /\ ~IsLoaded
  /\ p_raw_save' = disk
  /\ Returns("read", "NONE")
  /\ UNCHANGED <<disk, save_type, is_buffer_ours, intended>>

-----------------------------------------------------------------------------
(* The client writes through the pointers of the struct.                   *)

EditMoney(money) ==
  /\ p_raw_save' = [p_raw_save EXCEPT !.money = money]
  /\ intended' = [intended EXCEPT !.money = money]

\* Of the current box the client changes the copy.
EditBox(n, box) ==
  /\ p_raw_save' = IF n = p_raw_save.current_box_num
                   THEN [p_raw_save EXCEPT !.current_box = box]
                   ELSE [p_raw_save EXCEPT !.boxes[n] = box]
  /\ intended' = [intended EXCEPT !.boxes[n] = box]

Edit ==
  /\ IsLoaded
  /\ \/ \E money \in Money : EditMoney(money)
     \/ \E n \in EditedBoxes, box \in Box : EditBox(n, box)
  /\ Returns("edit", "NONE")
  /\ UNCHANGED <<disk, save_type, is_buffer_ours>>

\* Wrong on purpose: the old box is written back under the new number.
SwitchBoxMisplaced(image, n) ==
  LET boxes == [image.boxes EXCEPT ![n] = image.current_box]
  IN  [image EXCEPT !.boxes = boxes,
                    !.current_box_num = n,
                    !.current_box = boxes[n]]

\* The current box goes back to its number before n becomes current.
SwitchBox(image, n) ==
  LET boxes == [image.boxes EXCEPT ![image.current_box_num] = image.current_box]
  IN  [image EXCEPT !.boxes = boxes,
                    !.current_box_num = n,
                    !.current_box = boxes[n]]

\* pksav_gen2_pokemon_storage_set_current_box
SetCurrentBox ==
  /\ IsLoaded
  /\ \/ \E n \in BoxNum :
          /\ p_raw_save' = SwitchBox(p_raw_save, n)
          /\ intended' = [intended EXCEPT !.current = n]
          /\ Returns("set_current_box", "NONE")
     \/ /\ Returns("set_current_box", "PARAM_OUT_OF_RANGE")
        /\ UNCHANGED <<p_raw_save, intended>>
  /\ UNCHANGED <<disk, save_type, is_buffer_ours>>

-----------------------------------------------------------------------------
(* Saving.                                                                 *)

\* GS_OFFSETS and CRYSTAL_OFFSETS: where the checksums are written.
Checksum1 == [GS |-> "0x2D69", CRYSTAL |-> "0x2D0D"]
Checksum2 == [GS |-> "0x7E6D", CRYSTAL |-> "0x1F0D"]

\* Wrong on purpose: the two sums change places.
SwapsChecksums(image, type) ==
  [image EXCEPT !.checksum1[Checksum1[type]] = GetSaveChecksum2(image),
                !.checksum2[Checksum2[type]] = GetSaveChecksum1(image)]

\* Wrong on purpose: the first checksum is forgotten.
SetsChecksum2(image, type) ==
  [image EXCEPT !.checksum2[Checksum2[type]] = GetSaveChecksum2(image)]

SetChecksums(image, type) ==
  [image EXCEPT !.checksum1[Checksum1[type]] = GetSaveChecksum1(image),
                !.checksum2[Checksum2[type]] = GetSaveChecksum2(image)]

\* What a write cut short, or one whose fclose failed, leaves.
TornFiles(image) == {Short, image}

SaveSucceeds ==
  /\ IsLoaded
  /\ p_raw_save' = SetChecksums(p_raw_save, save_type)
  /\ disk' = p_raw_save'
  /\ Returns("save", "NONE")
  /\ UNCHANGED <<save_type, is_buffer_ours, intended>>

SaveFails ==
  /\ IsLoaded
  /\ p_raw_save' = SetChecksums(p_raw_save, save_type)
  /\ disk' \in {disk} \cup TornFiles(p_raw_save')
  /\ Returns("save", "FILE_IO")
  /\ UNCHANGED <<save_type, is_buffer_ours, intended>>

\* free and memset(0).
ResetSave ==
  /\ save_type' = "NONE"
  /\ is_buffer_ours' = FALSE
  /\ intended' = NoContent

\* pksav_gen2_free_save.  A buffer the client supplied stays with the client.
FreeSave ==
  /\ IsLoaded
  /\ p_raw_save' = IF is_buffer_ours THEN Short ELSE p_raw_save
  /\ ResetSave
  /\ Returns("free", "NONE")
  /\ UNCHANGED disk

\* The process dies, perhaps inside pksav_fs_write_buffer_to_file.
Crash ==
  /\ disk' \in {disk} \cup (IF IsLoaded
                            THEN TornFiles(SetChecksums(p_raw_save, save_type))
                            ELSE {})
  /\ p_raw_save' = Short
  /\ ResetSave
  /\ Returns("crash", "NONE")

-----------------------------------------------------------------------------
Init ==
  /\ disk \in InitialDisk
  /\ save_type = "NONE"
  /\ p_raw_save = Short
  /\ is_buffer_ours = FALSE
  /\ op = "init"
  /\ error = "NONE"
  /\ intended = NoContent

Next ==
  \/ LoadSaveFromBuffer
  \/ LoadSaveFromFile
  \/ ReadFails
  \/ ClientReadsFile
  \/ Edit
  \/ SetCurrentBox
  \/ SaveSucceeds
  \/ SaveFails
  \/ FreeSave
  \/ Crash

Spec == Init /\ [][Next]_vars

-----------------------------------------------------------------------------
(* Properties.                                                             *)

\* Every variable has the type its declaration in C gives it, the number of
\* the current box stays that of a box, and each checksum is one of the area
\* it belongs to.
TypeOK ==
  /\ disk \in Image \cup {Short}
  /\ save_type \in SaveType \cup {"NONE"}
  /\ p_raw_save \in Image \cup {Short}
  /\ is_buffer_ours \in BOOLEAN
  /\ op \in {"init", "load", "read", "edit", "set_current_box", "save", "free",
            "crash"}
  /\ error \in {"NONE", "INVALID_SAVE", "PARAM_OUT_OF_RANGE", "FILE_IO"}
  /\ intended \in Content \cup {NoContent}

\* The client reads back what it loaded and stored, box by box: switching the
\* current box (pksav_gen2_pokemon_storage_set_current_box) moves contents
\* between the boxes and the copy without losing or mixing any, and a save,
\* failed or not, changes nothing.
ViewIsIntended == View = intended

\* A Crystal save one of whose checksums is right can be loaded.
CrystalLoads ==
  [][(LoadSaveFromFile /\ disk # Short /\ IsTypeFound(disk, "CRYSTAL"))
       => error' = "NONE"]_vars
=============================================================================
