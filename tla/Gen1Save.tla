------------------------------ MODULE Gen1Save ------------------------------
(***************************************************************************)
(* A session with a generation 1 save, lib/gen1/save.c: one client, one    *)
(* file, one struct pksav_gen1_save whose pointers all lead into the       *)
(* buffer that was loaded.  The client loads the file, or a buffer it read *)
(* itself, writes through the pointers, switches boxes, saves and frees.   *)
(* A write may fail or be cut short and the process may die at any time.   *)
(*                                                                         *)
(* A file or buffer of PKSAV_GEN1_SAVE_SIZE or more is an Image, reduced   *)
(* to what the checksum sums (one word of the trainer's data, Yellow's     *)
(* Pikachu area, the number and the copy of the current box), the checksum *)
(* and the boxes, which it does not sum.  Anything shorter is Short.       *)
(***************************************************************************)
EXTENDS Integers

CONSTANTS
  NumBoxes,      \* PKSAV_GEN1_NUM_POKEMON_BOXES, 12
  Box,           \* contents of a box
  Money,         \* the trainer's data
  Friendship,    \* values of Pikachu's friendship the client stores
  EditedBoxes,   \* the boxes it stores into
  InitialDisk,   \* what the file may hold at first
  Short          \* a file too short to be a save, or no buffer

BoxNum == 0..(NumBoxes - 1)
Byte   == 0..255

\* PKSAV_GEN1_CURRENT_POKEMON_BOX_NUM_MASK keeps the low four bits.
Low(byte) == byte % 16

\* Wrong on purpose: the old number is not cleared.
KeepsNumber(byte) == byte

\* What is left when the number is cleared.
High(byte) == byte - (byte % 16)

Summed ==
  [money : Money, friendship : Byte, pikachu : Byte,
   current_box_num : Byte, current_box : Box]

\* The checksum is modelled as the data summed: sums do not collide.
Image ==
  [money : Money, friendship : Byte, pikachu : Byte,
   current_box_num : {b \in Byte : Low(b) \in BoxNum}, current_box : Box,
   boxes : [BoxNum -> Box], checksum : Summed]

ASSUME ConstantAssumption ==
  /\ NumBoxes \in 1..16
  /\ Friendship \subseteq Byte
  /\ EditedBoxes \subseteq BoxNum
  /\ Short \notin Image
  /\ InitialDisk \subseteq Image \cup {Short}

VARIABLES
  disk,             \* the file
  save_type,        \* of struct pksav_gen1_save; NONE when none is loaded
  p_raw_save,       \* its buffer, or one the client holds
  is_buffer_ours,
  op, error,        \* the last call and what it returned
  intended          \* what the client loaded and has since stored

vars == <<disk, save_type, p_raw_save, is_buffer_ours, op, error, intended>>

SaveType == {"RED_BLUE", "YELLOW"}

-----------------------------------------------------------------------------
(* What the client sees.  A box is the one at its number or, if it is the  *)
(* current box, the copy the game works on.                                *)

CurrentBoxNum(image) == Low(image.current_box_num)

Boxes(image) ==
  [n \in BoxNum |-> IF n = CurrentBoxNum(image) THEN image.current_box
                    ELSE image.boxes[n]]

ContentOf(type, image) ==
  [type |-> type, money |-> image.money, friendship |-> image.friendship,
   pikachu |-> image.pikachu, current |-> CurrentBoxNum(image),
   flags |-> High(image.current_box_num), boxes |-> Boxes(image)]

Content ==
  [type : SaveType, money : Money, friendship : Byte, pikachu : Byte,
   current : BoxNum, flags : {High(b) : b \in Byte}, boxes : [BoxNum -> Box]]

NoContent == [type |-> "NONE"]

IsLoaded == save_type # "NONE"

View == IF IsLoaded THEN ContentOf(save_type, p_raw_save) ELSE NoContent

-----------------------------------------------------------------------------
(* Loading.                                                                *)

\* pksav_gen1_get_save_checksum
GetSaveChecksum(image) ==
  [money |-> image.money, friendship |-> image.friendship,
   pikachu |-> image.pikachu, current_box_num |-> image.current_box_num,
   current_box |-> image.current_box]

\* friendship and pikachu, the rest of it, are the area that is all zero in Red
\* and Blue.
GameOf(image) ==
  IF image.friendship > 0 \/ image.pikachu > 0 THEN "YELLOW" ELSE "RED_BLUE"

\* pksav_gen1_get_buffer_save_type
GetBufferSaveType(buffer) ==
  IF buffer = Short THEN "NONE"
  ELSE IF buffer.checksum # GetSaveChecksum(buffer) THEN "NONE"
  ELSE GameOf(buffer)

Decode(buffer) ==
  LET type == GetBufferSaveType(buffer)
  IN  IF type = "NONE" THEN NoContent ELSE ContentOf(type, buffer)

Returns(call, code) == op' = call /\ error' = code

\* _pksav_gen1_load_save_from_buffer: a buffer that is not a save is no error,
\* and nothing is loaded.
Load(buffer, ours) ==
  /\ ~IsLoaded
  /\ \/ /\ GetBufferSaveType(buffer) # "NONE"
        /\ save_type' = GetBufferSaveType(buffer)
        /\ p_raw_save' = buffer
        /\ is_buffer_ours' = ours
        /\ intended' = Decode(buffer)
     \/ /\ GetBufferSaveType(buffer) = "NONE"
        /\ UNCHANGED <<save_type, p_raw_save, is_buffer_ours, intended>>
  /\ Returns("load", "NONE")
  /\ UNCHANGED disk

LoadSaveFromBuffer == p_raw_save # Short /\ Load(p_raw_save, FALSE)

LoadSaveFromFile == Load(disk, TRUE)

\* pksav_fs_read_file_to_buffer fails, and the load with it.
ReadFails ==
  /\ ~IsLoaded
  /\ Returns("load", "FILE_IO")
  /\ UNCHANGED <<disk, save_type, p_raw_save, is_buffer_ours, intended>>

\* The client reads the file by its own means.
ClientReadsFile ==
  /\ ~IsLoaded
  /\ p_raw_save' = disk
  /\ Returns("read", "NONE")
  /\ UNCHANGED <<disk, save_type, is_buffer_ours, intended>>

-----------------------------------------------------------------------------
(* The client writes through the pointers of the struct.                   *)

EditMoney(money) ==
  /\ p_raw_save' = [p_raw_save EXCEPT !.money = money]
  /\ intended' = [intended EXCEPT !.money = money]

\* p_pikachu_friendship is NULL unless the game is Yellow.
EditFriendship(friendship) ==
  /\ save_type = "YELLOW"
  /\ p_raw_save' = [p_raw_save EXCEPT !.friendship = friendship]
  /\ intended' = [intended EXCEPT !.friendship = friendship]

\* Of the current box the client changes the copy.
EditBox(n, box) ==
  /\ p_raw_save' = IF n = CurrentBoxNum(p_raw_save)
                   THEN [p_raw_save EXCEPT !.current_box = box]
                   ELSE [p_raw_save EXCEPT !.boxes[n] = box]
  /\ intended' = [intended EXCEPT !.boxes[n] = box]

Edit ==
  /\ IsLoaded
  /\ \/ \E money \in Money : EditMoney(money)
     \/ \E friendship \in Friendship : EditFriendship(friendship)
     \/ \E n \in EditedBoxes, box \in Box : EditBox(n, box)
  /\ Returns("edit", "NONE")
  /\ UNCHANGED <<disk, save_type, is_buffer_ours>>

\* Wrong on purpose: the new box is read before the old one is written back.
SwitchBoxTooEarly(image, n) ==
  [image EXCEPT !.boxes[CurrentBoxNum(image)] = image.current_box,
                !.current_box_num = High(@) + n,
                !.current_box = image.boxes[n]]

\* The current box goes back to its number before n becomes current.
SwitchBox(image, n) ==
  LET boxes == [image.boxes EXCEPT ![CurrentBoxNum(image)] = image.current_box]
  IN  [image EXCEPT !.boxes = boxes,
                    !.current_box_num = High(@) + n,
                    !.current_box = boxes[n]]

\* pksav_gen1_pokemon_storage_set_current_box
SetCurrentBox ==
  /\ IsLoaded
  /\ \/ \E n \in BoxNum :
          /\ p_raw_save' = SwitchBox(p_raw_save, n)
          /\ intended' = [intended EXCEPT !.current = n]
          /\ Returns("set_current_box", "NONE")
     \/ /\ Returns("set_current_box", "PARAM_OUT_OF_RANGE")
        /\ UNCHANGED <<p_raw_save, intended>>
  /\ UNCHANGED <<disk, save_type, is_buffer_ours>>

-----------------------------------------------------------------------------
(* Saving.                                                                 *)

\* Wrong on purpose: the checksum stays as it was loaded.
KeepsChecksum(image) == image

SetChecksum(image) == [image EXCEPT !.checksum = GetSaveChecksum(image)]

\* What a write cut short, or one whose fclose failed, leaves.
TornFiles(image) == {Short, image}

SaveSucceeds ==
  /\ IsLoaded
  /\ p_raw_save' = SetChecksum(p_raw_save)
  /\ disk' = p_raw_save'
  /\ Returns("save", "NONE")
  /\ UNCHANGED <<save_type, is_buffer_ours, intended>>

SaveFails ==
  /\ IsLoaded
  /\ p_raw_save' = SetChecksum(p_raw_save)
  /\ disk' \in {disk} \cup TornFiles(p_raw_save')
  /\ Returns("save", "FILE_IO")
  /\ UNCHANGED <<save_type, is_buffer_ours, intended>>

\* free and memset(0).
ResetSave ==
  /\ save_type' = "NONE"
  /\ is_buffer_ours' = FALSE
  /\ intended' = NoContent

\* pksav_gen1_free_save.  A buffer the client supplied stays with the client.
FreeSave ==
  /\ IsLoaded
  /\ p_raw_save' = IF is_buffer_ours THEN Short ELSE p_raw_save
  /\ ResetSave
  /\ Returns("free", "NONE")
  /\ UNCHANGED disk

\* The process dies, perhaps inside pksav_fs_write_buffer_to_file.
Crash ==
  /\ disk' \in {disk} \cup (IF IsLoaded THEN TornFiles(SetChecksum(p_raw_save))
                            ELSE {})
  /\ p_raw_save' = Short
  /\ ResetSave
  /\ Returns("crash", "NONE")

-----------------------------------------------------------------------------
Init ==
  /\ disk \in InitialDisk
  /\ save_type = "NONE"
  /\ p_raw_save = Short
  /\ is_buffer_ours = FALSE
  /\ op = "init"
  /\ error = "NONE"
  /\ intended = NoContent

Next ==
  \/ LoadSaveFromBuffer
  \/ LoadSaveFromFile
  \/ ReadFails
  \/ ClientReadsFile
  \/ Edit
  \/ SetCurrentBox
  \/ SaveSucceeds
  \/ SaveFails
  \/ FreeSave
  \/ Crash

Spec == Init /\ [][Next]_vars

-----------------------------------------------------------------------------
(* Properties.                                                             *)

\* Every variable has the type its declaration in C gives it, and the number
\* of the current box stays that of a box.
TypeOK ==
  /\ disk \in Image \cup {Short}
  /\ save_type \in SaveType \cup {"NONE"}
  /\ p_raw_save \in Image \cup {Short}
  /\ is_buffer_ours \in BOOLEAN
  /\ op \in {"init", "load", "read", "edit", "set_current_box", "save", "free",
            "crash"}
  /\ error \in {"NONE", "PARAM_OUT_OF_RANGE", "FILE_IO"}
  /\ intended \in Content \cup {NoContent}

\* The client reads back what it loaded and stored, box by box: switching the
\* current box (pksav_gen1_pokemon_storage_set_current_box) moves contents
\* between the boxes and the copy without losing or mixing any, and a save,
\* failed or not, changes nothing.
ViewIsIntended == View = intended

\* A load that reports no error has loaded a save: a file that is not one is
\* reported as INVALID_SAVE.
LoadedIfNoError == (op = "load" /\ error = "NONE") => IsLoaded
=============================================================================
