------------------------- MODULE Gen1SessionProofs --------------------------
(***************************************************************************)
(* Theorems about Gen1Save and Gen1Session, for any number of boxes up to  *)
(* 16 and any contents: types, that the client reads what it loaded and    *)
(* stored, and that a session implements SaveSession.  What is inductive   *)
(* is that together with LoadedInv, that only an image is ever loaded.     *)
(***************************************************************************)
EXTENDS Gen1Session, TLAPS

LoadedInv == IsLoaded => p_raw_save \in Image

Inv == TypeOK /\ LoadedInv /\ ViewIsIntended

-----------------------------------------------------------------------------
(* The byte that holds the number of the current box.                      *)

\* Replacing the number keeps the flags and gives a byte again.
LEMMA ByteReplaced ==
  ASSUME NEW b \in Byte, NEW n \in BoxNum
  PROVE  /\ High(b) + n \in Byte
         /\ Low(High(b) + n) = n
         /\ High(High(b) + n) = High(b)
<1>1. n \in 0..15
  BY ConstantAssumption DEF BoxNum
<1>2. PICK q \in 0..15, r \in 0..15 : b = 16 * q + r /\ b % 16 = r
  <2>. DEFINE q == b \div 16
  <2>1. q \in 0..15 /\ b % 16 \in 0..15 /\ b = 16 * q + (b % 16)
    BY DEF Byte
  <2>. QED
    BY <2>1
<1>3. High(b) = 16 * q
  BY <1>2 DEF High
<1>4. (16 * q + n) % 16 = n
  BY <1>1
<1>. QED
  BY <1>1, <1>3, <1>4 DEF High, Low, Byte

-----------------------------------------------------------------------------
(* Images, field by field.                                                 *)

\* The current box of an image has the number of a box.
LEMMA ImageParts ==
  ASSUME NEW image \in Image
  PROVE  /\ image = [money |-> image.money, friendship |-> image.friendship,
                     pikachu |-> image.pikachu,
                     current_box_num |-> image.current_box_num,
                     current_box |-> image.current_box,
                     boxes |-> image.boxes, checksum |-> image.checksum]
         /\ image.money \in Money /\ image.friendship \in Byte
         /\ image.pikachu \in Byte /\ image.current_box_num \in Byte
         /\ CurrentBoxNum(image) \in BoxNum /\ image.current_box \in Box
         /\ image.boxes \in [BoxNum -> Box] /\ image.checksum \in Summed
BY DEF Image, CurrentBoxNum

\* What the client sees of an image has the type of a content.
LEMMA ContentType ==
  ASSUME NEW image \in Image, NEW type \in SaveType
  PROVE  /\ ContentOf(type, image) \in Content
         /\ Boxes(image) \in [BoxNum -> Box]
<1>1. Boxes(image) \in [BoxNum -> Box]
  BY ImageParts DEF Boxes
<1>2. High(image.current_box_num) \in {High(b) : b \in Byte}
  BY ImageParts
<1>. QED
  BY <1>1, <1>2, ImageParts DEF ContentOf, Content

\* The sum of an image's data is one its checksum can hold.
LEMMA ChecksumType ==
  ASSUME NEW image \in Image
  PROVE  /\ GetSaveChecksum(image) \in Summed
         /\ SetChecksum(image) \in Image
         /\ GetBufferSaveType(image) \in SaveType \cup {"NONE"}
<1>1. GetSaveChecksum(image) \in Summed
  BY ImageParts DEF GetSaveChecksum, Summed
<1>2. SetChecksum(image) \in Image
  BY <1>1 DEF SetChecksum, Image
<1>. QED
  BY <1>1, <1>2 DEF GetBufferSaveType, GameOf, SaveType

\* Setting the checksum changes nothing the client sees.
LEMMA SetChecksumView ==
  ASSUME NEW image \in Image, NEW type
  PROVE  ContentOf(type, SetChecksum(image)) = ContentOf(type, image)
<1>. DEFINE new == SetChecksum(image)
<1>1. /\ new.money = image.money /\ new.friendship = image.friendship
      /\ new.pikachu = image.pikachu
      /\ new.current_box_num = image.current_box_num
      /\ new.current_box = image.current_box /\ new.boxes = image.boxes
  BY DEF SetChecksum, Image
<1>. HIDE DEF new
<1>2. CurrentBoxNum(new) = CurrentBoxNum(image) /\ Boxes(new) = Boxes(image)
  BY <1>1 DEF CurrentBoxNum, Boxes
<1>3. ContentOf(type, new) = ContentOf(type, image)
  BY <1>1, <1>2 DEF ContentOf
<1>. QED
  BY <1>3 DEF new

\* A switch of the current box changes which box is current and nothing else:
\* each box keeps its contents, whatever the old and the new number are.
LEMMA SwitchBoxView ==
  ASSUME NEW image \in Image, NEW n \in BoxNum, NEW type
  PROVE  /\ SwitchBox(image, n) \in Image
         /\ ContentOf(type, SwitchBox(image, n))
              = [ContentOf(type, image) EXCEPT !.current = n]
<1>. DEFINE new   == SwitchBox(image, n)
            boxes == [image.boxes EXCEPT ![CurrentBoxNum(image)]
                                           = image.current_box]
            byte  == High(image.current_box_num) + n
<1>1. boxes \in [BoxNum -> Box]
  BY ImageParts
<1>2. /\ byte \in Byte /\ Low(byte) = n
      /\ High(byte) = High(image.current_box_num)
  BY ImageParts, ByteReplaced
<1>3. new = [image EXCEPT !.boxes = boxes, !.current_box_num = byte,
                          !.current_box = boxes[n]]
  BY DEF SwitchBox
<1>4. /\ new.money = image.money /\ new.friendship = image.friendship
      /\ new.pikachu = image.pikachu /\ new.current_box_num = byte
      /\ new.current_box = boxes[n] /\ new.boxes = boxes
  BY <1>3, ImageParts DEF Image
<1>5. new \in Image
  <2>. HIDE DEF boxes, byte, new
  <2>. QED
    BY <1>1, <1>2, <1>3 DEF Image
<1>6. CurrentBoxNum(new) = n
  BY <1>2, <1>4 DEF CurrentBoxNum
<1>7. Boxes(new) = Boxes(image)
  <2>1. Boxes(new) = [k \in BoxNum |-> boxes[k]]
    <3>. HIDE DEF boxes, new
    <3>. QED
      BY <1>4, <1>6 DEF Boxes
  <2>2. Boxes(image) = [k \in BoxNum |-> boxes[k]]
    BY ImageParts DEF Boxes
  <2>. QED
    BY <2>1, <2>2
<1>8. ContentOf(type, new) = [ContentOf(type, image) EXCEPT !.current = n]
  <2>. HIDE DEF new, boxes, byte
  <2>. QED
    BY <1>2, <1>4, <1>6, <1>7 DEF ContentOf
<1>. QED
  BY <1>5, <1>8

\* What the client stores into a box is what it reads there, and all else is
\* as before, for the current box and for any other.
LEMMA EditBoxView ==
  ASSUME NEW image \in Image, NEW n \in BoxNum, NEW box \in Box, NEW type,
         NEW new,
         new = IF n = CurrentBoxNum(image)
               THEN [image EXCEPT !.current_box = box]
               ELSE [image EXCEPT !.boxes[n] = box]
  PROVE  /\ new \in Image
         /\ ContentOf(type, new)
              = [ContentOf(type, image) EXCEPT !.boxes[n] = box]
<1>1. /\ new.money = image.money /\ new.friendship = image.friendship
      /\ new.pikachu = image.pikachu
      /\ new.current_box_num = image.current_box_num
  BY DEF Image
<1>2. new \in Image
  BY DEF Image
<1>3. CurrentBoxNum(new) = CurrentBoxNum(image)
  BY <1>1 DEF CurrentBoxNum
<1>4. Boxes(new) = [Boxes(image) EXCEPT ![n] = box]
  <2>1. CASE n = CurrentBoxNum(image)
    <3>1. new.current_box = box /\ new.boxes = image.boxes
      BY <2>1 DEF Image
    <3>2. Boxes(new) = [k \in BoxNum |-> IF k = n THEN box ELSE image.boxes[k]]
      BY <2>1, <3>1, <1>3 DEF Boxes
    <3>3. Boxes(image)
            = [k \in BoxNum |-> IF k = n THEN image.current_box
                                ELSE image.boxes[k]]
      BY <2>1 DEF Boxes
    <3>. QED
      BY <3>2, <3>3
  <2>2. CASE n # CurrentBoxNum(image)
    <3>1. /\ new.current_box = image.current_box
          /\ new.boxes = [image.boxes EXCEPT ![n] = box]
      BY <2>2 DEF Image
    <3>. QED
      BY <2>2, <3>1, <1>3, ImageParts DEF Boxes
  <2>. QED
    BY <2>1, <2>2
<1>5. ContentOf(type, new) = [ContentOf(type, image) EXCEPT !.boxes[n] = box]
  BY <1>1, <1>3, <1>4 DEF ContentOf
<1>. QED
  BY <1>2, <1>5

\* The same for the trainer's data.
LEMMA EditMoneyView ==
  ASSUME NEW image \in Image, NEW money \in Money, NEW type,
         NEW new, new = [image EXCEPT !.money = money]
  PROVE  /\ new \in Image
         /\ ContentOf(type, new)
              = [ContentOf(type, image) EXCEPT !.money = money]
<1>1. new \in Image
  BY DEF Image
<1>2. /\ new.money = money /\ new.friendship = image.friendship
      /\ new.pikachu = image.pikachu
      /\ new.current_box_num = image.current_box_num
      /\ new.current_box = image.current_box /\ new.boxes = image.boxes
  BY DEF Image
<1>3. CurrentBoxNum(new) = CurrentBoxNum(image) /\ Boxes(new) = Boxes(image)
  BY <1>2 DEF CurrentBoxNum, Boxes
<1>4. ContentOf(type, new)
        = [ContentOf(type, image) EXCEPT !.money = money]
  BY <1>2, <1>3 DEF ContentOf
<1>. QED
  BY <1>1, <1>4

\* The same for Pikachu's friendship.
LEMMA EditFriendshipView ==
  ASSUME NEW image \in Image, NEW friendship \in Byte, NEW type,
         NEW new, new = [image EXCEPT !.friendship = friendship]
  PROVE  /\ new \in Image
         /\ ContentOf(type, new)
              = [ContentOf(type, image) EXCEPT !.friendship = friendship]
<1>1. new \in Image
  BY DEF Image
<1>2. /\ new.friendship = friendship /\ new.money = image.money
      /\ new.pikachu = image.pikachu
      /\ new.current_box_num = image.current_box_num
      /\ new.current_box = image.current_box /\ new.boxes = image.boxes
  BY DEF Image
<1>3. CurrentBoxNum(new) = CurrentBoxNum(image) /\ Boxes(new) = Boxes(image)
  BY <1>2 DEF CurrentBoxNum, Boxes
<1>4. ContentOf(type, new)
        = [ContentOf(type, image) EXCEPT !.friendship = friendship]
  BY <1>2, <1>3 DEF ContentOf
<1>. QED
  BY <1>1, <1>4

-----------------------------------------------------------------------------
(* The invariant.                                                          *)

\* It holds at first.
LEMMA InitInv == Init => Inv
BY ConstantAssumption
   DEF Init, Inv, TypeOK, LoadedInv, ViewIsIntended, View, IsLoaded

\* An open session goes on, with new contents of the buffer that the client
\* sees as it should.
LEMMA OpenInv ==
  ASSUME Inv, IsLoaded, NEW image \in Image,
         p_raw_save' = image, save_type' = save_type,
         intended' = ContentOf(save_type, image)
  PROVE  LoadedInv' /\ ViewIsIntended' /\ intended' \in Content /\ IsLoaded'
<1>1. save_type \in SaveType /\ IsLoaded'
  BY DEF Inv, TypeOK, IsLoaded
<1>. QED
  BY <1>1, ContentType DEF LoadedInv, ViewIsIntended, View, IsLoaded

\* What an open session holds.
LEMMA OpenParts ==
  ASSUME Inv, IsLoaded
  PROVE  /\ p_raw_save \in Image /\ save_type \in SaveType
         /\ intended = ContentOf(save_type, p_raw_save)
BY DEF Inv, TypeOK, LoadedInv, ViewIsIntended, View, IsLoaded

\* A load opens a session on an image or changes nothing.
LEMMA LoadInv ==
  ASSUME Inv, NEW buffer \in Image \cup {Short}, NEW ours \in BOOLEAN,
         Load(buffer, ours)
  PROVE  Inv'
<1>1. CASE GetBufferSaveType(buffer) = "NONE"
  BY <1>1 DEF Load, Returns, Inv, TypeOK, LoadedInv, ViewIsIntended, View,
              IsLoaded
<1>2. CASE GetBufferSaveType(buffer) # "NONE"
  <2>1. buffer \in Image
    BY <1>2 DEF GetBufferSaveType
  <2>2. /\ save_type' = GetBufferSaveType(buffer) /\ p_raw_save' = buffer
        /\ is_buffer_ours' = ours /\ disk' = disk
        /\ op' = "load" /\ error' = "NONE"
        /\ intended' = ContentOf(GetBufferSaveType(buffer), buffer)
    BY <1>2 DEF Load, Returns, Decode
  <2>3. GetBufferSaveType(buffer) \in SaveType
    BY <1>2, <2>1, ChecksumType
  <2>4. intended' \in Content
    BY <2>1, <2>2, <2>3, ContentType
  <2>5. TypeOK'
    BY <2>1, <2>2, <2>3, <2>4 DEF Inv, TypeOK
  <2>6. LoadedInv' /\ ViewIsIntended'
    BY <1>2, <2>1, <2>2 DEF LoadedInv, ViewIsIntended, View, IsLoaded
  <2>. QED
    BY <2>5, <2>6 DEF Inv
<1>. QED
  BY <1>1, <1>2

\* Whatever the client stores, it sees.
LEMMA EditInv == ASSUME Inv, Edit PROVE Inv'
<1>1. IsLoaded /\ p_raw_save \in Image
  BY OpenParts DEF Edit
<1>2. \E image \in Image :
        /\ p_raw_save' = image
        /\ intended' = ContentOf(save_type, image)
  <2>1. CASE \E money \in Money : EditMoney(money)
    BY <1>1, <2>1, OpenParts, EditMoneyView DEF EditMoney
  <2>2. CASE \E friendship \in Friendship : EditFriendship(friendship)
    BY <1>1, <2>2, OpenParts, EditFriendshipView, ConstantAssumption
       DEF EditFriendship
  <2>3. CASE \E n \in EditedBoxes, box \in Box : EditBox(n, box)
    BY <1>1, <2>3, OpenParts, EditBoxView, ConstantAssumption DEF EditBox
  <2>. QED
    BY <2>1, <2>2, <2>3 DEF Edit
<1>3. /\ disk' = disk /\ save_type' = save_type
      /\ is_buffer_ours' = is_buffer_ours /\ op' = "edit" /\ error' = "NONE"
  BY DEF Edit, Returns
<1>4. LoadedInv' /\ ViewIsIntended' /\ intended' \in Content
  BY <1>1, <1>2, <1>3, OpenInv
<1>. QED
  BY <1>2, <1>3, <1>4 DEF Inv, TypeOK

\* Switching keeps every box, and so does a number out of range.
LEMMA SetCurrentBoxInv == ASSUME Inv, SetCurrentBox PROVE Inv'
<1>1. IsLoaded /\ p_raw_save \in Image
  BY OpenParts DEF SetCurrentBox
<1>2. \E image \in Image :
        /\ p_raw_save' = image
        /\ intended' = ContentOf(save_type, image)
  BY <1>1, OpenParts, SwitchBoxView DEF SetCurrentBox
<1>3. /\ disk' = disk /\ save_type' = save_type
      /\ is_buffer_ours' = is_buffer_ours /\ op' = "set_current_box"
      /\ error' \in {"NONE", "PARAM_OUT_OF_RANGE"}
  BY DEF SetCurrentBox, Returns
<1>4. LoadedInv' /\ ViewIsIntended' /\ intended' \in Content
  BY <1>1, <1>2, <1>3, OpenInv
<1>. QED
  BY <1>2, <1>3, <1>4 DEF Inv, TypeOK

\* A save touches the checksums only.
LEMMA SaveInv == ASSUME Inv, SaveSucceeds \/ SaveFails PROVE Inv'
<1>. DEFINE image == SetChecksum(p_raw_save)
<1>1. IsLoaded /\ p_raw_save \in Image
  BY OpenParts DEF SaveSucceeds, SaveFails
<1>2. image \in Image /\ intended = ContentOf(save_type, image)
  BY <1>1, OpenParts, ChecksumType, SetChecksumView
<1>3. /\ p_raw_save' = image /\ intended' = intended
      /\ save_type' = save_type /\ is_buffer_ours' = is_buffer_ours
      /\ disk' \in {disk, image, Short}
      /\ op' = "save" /\ error' \in {"NONE", "FILE_IO"}
  BY DEF SaveSucceeds, SaveFails, Returns, TornFiles
<1>. HIDE DEF image
<1>4. LoadedInv' /\ ViewIsIntended' /\ intended' \in Content
  BY <1>1, <1>2, <1>3, OpenInv
<1>. QED
  BY <1>2, <1>3, <1>4 DEF Inv, TypeOK

\* Freeing and dying leave nothing to see.
LEMMA ClosedInv ==
  ASSUME Inv, FreeSave \/ Crash
  PROVE  Inv'
<1>1. /\ save_type' = "NONE" /\ is_buffer_ours' = FALSE
      /\ intended' = NoContent /\ p_raw_save' \in {p_raw_save, Short}
      /\ op' \in {"free", "crash"} /\ error' = "NONE"
  BY DEF FreeSave, Crash, ResetSave, Returns
<1>2. disk' \in Image \cup {Short}
  <2>1. CASE FreeSave
    BY <2>1 DEF FreeSave, Inv, TypeOK
  <2>2. CASE Crash
    BY <2>2, OpenParts, ChecksumType DEF Crash, TornFiles, Inv, TypeOK
  <2>. QED
    BY <2>1, <2>2
<1>. QED
  BY <1>1, <1>2
     DEF Inv, TypeOK, LoadedInv, ViewIsIntended, View, IsLoaded

\* Every step keeps the invariant.
LEMMA NextInv == Inv /\ [Next]_vars => Inv'
<1>. SUFFICES ASSUME Inv, [Next]_vars PROVE Inv'
  OBVIOUS
<1>1. CASE LoadSaveFromBuffer
  BY <1>1, LoadInv DEF LoadSaveFromBuffer, Inv, TypeOK
<1>2. CASE LoadSaveFromFile
  BY <1>2, LoadInv DEF LoadSaveFromFile, Inv, TypeOK
<1>3. CASE ReadFails
  BY <1>3 DEF ReadFails, Returns, Inv, TypeOK, LoadedInv, ViewIsIntended,
              View, IsLoaded
<1>4. CASE ClientReadsFile
  BY <1>4 DEF ClientReadsFile, Returns, Inv, TypeOK, LoadedInv,
              ViewIsIntended, View, IsLoaded
<1>5. CASE Edit
  BY <1>5, EditInv
<1>6. CASE SetCurrentBox
  BY <1>6, SetCurrentBoxInv
<1>7. CASE SaveSucceeds \/ SaveFails
  BY <1>7, SaveInv
<1>8. CASE FreeSave \/ Crash
  BY <1>8, ClosedInv
<1>9. CASE UNCHANGED vars
  BY <1>9 DEF vars, Inv, TypeOK, LoadedInv, ViewIsIntended, View, IsLoaded
<1>. QED
  BY <1>1, <1>2, <1>3, <1>4, <1>5, <1>6, <1>7, <1>8, <1>9 DEF Next

\* So it always holds.
LEMMA Invariance == Spec => []Inv
BY InitInv, NextInv, PTL DEF Spec

\* Every variable of a session keeps its type, and the number of the current
\* box stays that of a box whatever flags its byte holds.
THEOREM TypeCorrect == Spec => []TypeOK
<1>1. Inv => TypeOK
  BY DEF Inv
<1>. QED
  BY <1>1, Invariance, PTL

\* The client reads what it loaded and stored, box by box, through any
\* sequence of loads, edits, switches, saves, failed writes and crashes.
THEOREM ViewCorrect == Spec => []ViewIsIntended
<1>1. Inv => ViewIsIntended
  BY DEF Inv
<1>. QED
  BY <1>1, Invariance, PTL

-----------------------------------------------------------------------------
(* What an image loads as.                                                 *)

\* One whose checksum is right loads as.
Detected(image) == ContentOf(GameOf(image), image)

\* Whatever game the session was opened with, its content is detected as the
\* game the image tells.
LEMMA DetectedContent ==
  ASSUME NEW image \in Image, NEW type
  PROVE  /\ AsDetected(ContentOf(type, image)) = Detected(image)
         /\ Detected(image) \in Content
         /\ Detected(image) # NoContent
<1>1. GameOf(image) \in SaveType
  BY DEF GameOf, SaveType
<1>2. /\ ContentOf(type, image).friendship = image.friendship
      /\ ContentOf(type, image).pikachu = image.pikachu
  BY DEF ContentOf
<1>3. (IF image.friendship = 0 /\ image.pikachu = 0 THEN "RED_BLUE" ELSE "YELLOW")
        = GameOf(image)
  BY ImageParts DEF GameOf, Byte
<1>4. ContentOf(type, image) # NoContent
  <2>1. "money" \in DOMAIN ContentOf(type, image) /\ "money" \notin DOMAIN NoContent
    BY DEF ContentOf, NoContent
  <2>. QED
    BY <2>1
<1>5. Detected(image) # NoContent
  <2>1. "money" \in DOMAIN Detected(image) /\ "money" \notin DOMAIN NoContent
    BY DEF Detected, ContentOf, NoContent
  <2>. QED
    BY <2>1
<1>6. AsDetected(ContentOf(type, image)) = Detected(image)
  BY <1>2, <1>3, <1>4 DEF AsDetected, Detected, ContentOf
<1>. QED
  BY <1>1, <1>5, <1>6, ContentType DEF Detected

\* An image loads as the game its area tells, or not at all.
LEMMA DecodeImage ==
  ASSUME NEW image \in Image
  PROVE  /\ Decode(image) \in {Detected(image), NoContent}
         /\ image.checksum = GetSaveChecksum(image)
              => Decode(image) = Detected(image)
<1>1. image # Short
  BY ConstantAssumption
<1>2. CASE image.checksum = GetSaveChecksum(image)
  <2>1. /\ GetBufferSaveType(image) = GameOf(image)
        /\ GetBufferSaveType(image) # "NONE"
    BY <1>1, <1>2 DEF GetBufferSaveType, GameOf
  <2>. QED
    BY <2>1 DEF Decode, Detected
<1>3. CASE image.checksum # GetSaveChecksum(image)
  BY <1>1, <1>3 DEF Decode, GetBufferSaveType
<1>. QED
  BY <1>2, <1>3

\* A buffer that is too short to be a save is none.
LEMMA DecodeShort == Decode(Short) = NoContent
BY DEF Decode, GetBufferSaveType

\* Setting the checksum makes an image one that loads.
LEMMA DecodeSaved ==
  ASSUME NEW image \in Image
  PROVE  Decode(SetChecksum(image)) = Detected(image)
<1>. DEFINE new == SetChecksum(image)
<1>1. /\ new \in Image
      /\ new.checksum = GetSaveChecksum(image)
      /\ new.friendship = image.friendship /\ new.pikachu = image.pikachu
  BY ChecksumType DEF SetChecksum, Image
<1>2. GetSaveChecksum(new) = GetSaveChecksum(image)
  BY DEF GetSaveChecksum, SetChecksum, Image
<1>3. GameOf(new) = GameOf(image)
  BY <1>1 DEF GameOf
<1>. HIDE DEF new
<1>4. Decode(new) = Detected(new)
  BY <1>1, <1>2, DecodeImage
<1>. QED
  BY <1>3, <1>4, SetChecksumView DEF new, Detected

\* What does load is a content.
LEMMA DecodeLoaded ==
  ASSUME NEW buffer, GetBufferSaveType(buffer) # "NONE"
  PROVE  /\ Decode(buffer) = ContentOf(GetBufferSaveType(buffer), buffer)
         /\ Decode(buffer) # NoContent
<1>1. Decode(buffer).type # "NONE"
  BY DEF Decode, ContentOf
<1>. QED
  BY <1>1 DEF Decode, NoContent

\* It is seen as it was detected.
LEMMA DecodeDetected ==
  ASSUME NEW buffer \in Image \cup {Short}, GetBufferSaveType(buffer) # "NONE"
  PROVE  AsDetected(Decode(buffer)) = Decode(buffer)
<1>1. buffer \in Image
  BY DEF GetBufferSaveType
<1>2. Decode(buffer) = Detected(buffer)
  BY <1>1, DecodeLoaded, DecodeImage
<1>. QED
  BY <1>1, <1>2, DetectedContent, DecodeLoaded

-----------------------------------------------------------------------------
(* Each step maps to a step of SaveSession or to none.                     *)

\* At first there is a file that loads as something or does not.
LEMMA InitMaps == Init => Session!Init
<1>. SUFFICES ASSUME Init PROVE Session!Init
  OBVIOUS
<1>1. disk \in Image \cup {Short}
  BY ConstantAssumption DEF Init
<1>2. Decode(disk) \in Content \cup {NoContent}
  BY <1>1, DecodeShort, DecodeImage, DetectedContent
<1>3. AsDetected(intended) = NoContent
  BY DEF Init, AsDetected
<1>. QED
  BY <1>2, <1>3, DecodeShort
     DEF Init, IsLoaded, Session!Init, Session!MaybeContent

\* A load opens a session or is no step.
LEMMA LoadMaps ==
  ASSUME Inv, NEW buffer \in {p_raw_save, disk}, NEW ours, Load(buffer, ours)
  PROVE  [Session!Next]_Session!vars
<1>1. CASE GetBufferSaveType(buffer) = "NONE"
  BY <1>1 DEF Load, Session!vars, IsLoaded, Decode, GetBufferSaveType,
              GetSaveChecksum, GameOf, ContentOf, Boxes, CurrentBoxNum
<1>2. CASE GetBufferSaveType(buffer) # "NONE"
  <2>1. Session!Open(Decode(buffer))
    <3>1. Decode(buffer) # NoContent
      BY <1>2, DecodeLoaded
    <3>2. /\ ~IsLoaded /\ IsLoaded' /\ intended' = Decode(buffer)
          /\ Decode(p_raw_save)' = Decode(buffer)
          /\ Decode(disk)' = Decode(disk)
      BY <1>2 DEF Load, IsLoaded
    <3>3. AsDetected(intended)' = AsDetected(Decode(buffer))
      BY <3>2
    <3>4. AsDetected(Decode(buffer)) = Decode(buffer)
      BY <1>2, DecodeDetected DEF Inv, TypeOK
    <3>. QED
      BY <3>1, <3>2, <3>3, <3>4 DEF Session!Open
  <2>. QED
    BY <2>1 DEF Session!Next
<1>. QED
  BY <1>1, <1>2

\* A step that keeps the session open and the file as it is changes what the
\* client sees at most.
LEMMA ChangeMaps ==
  ASSUME Inv, Inv', IsLoaded, IsLoaded', UNCHANGED disk
  PROVE  Session!Change
<1>1. /\ p_raw_save' \in Image
      /\ intended' = ContentOf(save_type', p_raw_save')
  BY DEF Inv, TypeOK, LoadedInv, ViewIsIntended, View, IsLoaded
<1>2. /\ AsDetected(intended') = Detected(p_raw_save')
      /\ AsDetected(intended') \in Content
  BY <1>1, DetectedContent
<1>3. Decode(p_raw_save') \in {AsDetected(intended'), NoContent}
  BY <1>1, <1>2, DecodeImage
<1>4. /\ Decode(disk)' = Decode(disk)
      /\ Decode(p_raw_save)' = Decode(p_raw_save')
      /\ AsDetected(intended)' = AsDetected(intended')
  OBVIOUS
<1>. QED
  BY <1>2, <1>3, <1>4 DEF Session!Change

\* A save that succeeds is one, and one that fails leaves no mixture.
LEMMA SaveMaps ==
  ASSUME Inv, SaveSucceeds \/ SaveFails
  PROVE  Session!Save \/ Session!FailedSave
<1>. DEFINE image == SetChecksum(p_raw_save)
<1>1. /\ IsLoaded /\ p_raw_save \in Image
      /\ intended = ContentOf(save_type, p_raw_save)
  BY OpenParts DEF SaveSucceeds, SaveFails
<1>2. Decode(image) = AsDetected(intended)
  BY <1>1, DecodeSaved, DetectedContent
<1>3. /\ p_raw_save' = image /\ IsLoaded'
      /\ AsDetected(intended)' = AsDetected(intended)
  BY <1>1 DEF SaveSucceeds, SaveFails, IsLoaded
<1>4. Decode(p_raw_save)' = Decode(image)
  BY <1>3
<1>5. CASE SaveSucceeds
  <2>1. disk' = image
    BY <1>5 DEF SaveSucceeds
  <2>2. Decode(disk)' = Decode(image)
    BY <2>1
  <2>. HIDE DEF image
  <2>3. Session!Save
    BY <1>1, <1>2, <1>3, <1>4, <2>2 DEF Session!Save
  <2>. QED
    BY <2>3
<1>6. CASE SaveFails
  <2>1. disk' \in {disk, image, Short}
    BY <1>6 DEF SaveFails, TornFiles
  <2>2. Decode(disk)' \in {Decode(disk), Decode(image), Decode(Short)}
    BY <2>1
  <2>. HIDE DEF image
  <2>3. Session!FailedSave
    BY <1>1, <1>2, <1>3, <1>4, <2>2, DecodeShort
       DEF Session!FailedSave, Session!Torn
  <2>. QED
    BY <2>3
<1>. QED
  BY <1>5, <1>6

\* The file survives the end of a session, and a write it interrupts.
LEMMA ClosedMaps ==
  ASSUME Inv, FreeSave \/ Crash
  PROVE  Session!Close \/ Session!Crash
<1>1. ~IsLoaded' /\ AsDetected(intended)' = NoContent
  BY DEF FreeSave, Crash, ResetSave, IsLoaded, AsDetected
<1>2. CASE FreeSave
  <2>1. IsLoaded /\ Decode(disk)' = Decode(disk)
    BY <1>2 DEF FreeSave
  <2>2. p_raw_save' \in {p_raw_save, Short}
    BY <1>2 DEF FreeSave
  <2>3. Decode(p_raw_save)' \in {Decode(p_raw_save), NoContent}
    BY <2>2, DecodeShort
  <2>4. Session!Close
    BY <1>1, <2>1, <2>3 DEF Session!Close
  <2>. QED
    BY <2>4
<1>3. CASE Crash
  <2>1. Decode(p_raw_save)' = NoContent
    BY <1>3, DecodeShort DEF Crash
  <2>2. CASE ~IsLoaded
    <3>1. disk' = disk
      BY <1>3, <2>2 DEF Crash
    <3>2. Decode(disk)' = Decode(disk)
      BY <3>1
    <3>3. Session!Crash
      BY <1>1, <2>1, <2>2, <3>2 DEF Session!Crash
    <3>. QED
      BY <3>3
  <2>3. CASE IsLoaded
    <3>. DEFINE image == SetChecksum(p_raw_save)
    <3>1. Decode(image) = AsDetected(intended)
      BY <2>3, OpenParts, DecodeSaved, DetectedContent
    <3>2. disk' \in {disk, image, Short}
      BY <1>3, <2>3 DEF Crash, TornFiles
    <3>3. Decode(disk)' \in {Decode(disk), Decode(image), Decode(Short)}
      BY <3>2
    <3>. HIDE DEF image
    <3>4. Session!Crash
      BY <1>1, <2>1, <2>3, <3>1, <3>3, DecodeShort
         DEF Session!Crash, Session!Torn
    <3>. QED
      BY <3>4
  <2>. QED
    BY <2>2, <2>3
<1>. QED
  BY <1>2, <1>3

\* Each action in turn.
LEMMA NextMaps ==
  ASSUME Inv, Inv', [Next]_vars
  PROVE  [Session!Next]_Session!vars
<1>1. CASE LoadSaveFromBuffer \/ LoadSaveFromFile
  BY <1>1, LoadMaps DEF LoadSaveFromBuffer, LoadSaveFromFile
<1>2. CASE ReadFails
  <2>1. UNCHANGED <<disk, save_type, p_raw_save, intended>>
    BY <1>2 DEF ReadFails
  <2>2. /\ Decode(disk)' = Decode(disk)
        /\ Decode(p_raw_save)' = Decode(p_raw_save)
        /\ AsDetected(intended)' = AsDetected(intended)
    BY <2>1
  <2>. QED
    BY <2>1, <2>2 DEF Session!vars, IsLoaded
<1>3. CASE ClientReadsFile
  <2>1. /\ ~IsLoaded /\ p_raw_save' = disk
        /\ UNCHANGED <<disk, save_type, intended>>
    BY <1>3 DEF ClientReadsFile
  <2>2. /\ Decode(disk)' = Decode(disk) /\ Decode(p_raw_save)' = Decode(disk)
        /\ AsDetected(intended)' = AsDetected(intended)
    BY <2>1
  <2>3. Session!TakeBuffer
    BY <2>1, <2>2 DEF Session!TakeBuffer, IsLoaded
  <2>. QED
    BY <2>3 DEF Session!Next
<1>4. CASE Edit \/ SetCurrentBox
  <2>1. IsLoaded /\ IsLoaded' /\ UNCHANGED disk
    BY <1>4 DEF Edit, SetCurrentBox, IsLoaded
  <2>. QED
    BY <2>1, ChangeMaps DEF Session!Next
<1>5. CASE SaveSucceeds \/ SaveFails
  BY <1>5, SaveMaps DEF Session!Next
<1>6. CASE FreeSave \/ Crash
  BY <1>6, ClosedMaps DEF Session!Next
<1>7. CASE UNCHANGED vars
  <2>1. UNCHANGED <<disk, save_type, p_raw_save, intended>>
    BY <1>7 DEF vars
  <2>2. /\ Decode(disk)' = Decode(disk)
        /\ Decode(p_raw_save)' = Decode(p_raw_save)
        /\ AsDetected(intended)' = AsDetected(intended)
    BY <2>1
  <2>. QED
    BY <2>1, <2>2 DEF Session!vars, IsLoaded
<1>. QED
  BY <1>1, <1>2, <1>3, <1>4, <1>5, <1>6, <1>7 DEF Next

\* A session, its saves that fail and its crashes included, is one of the
\* abstract specification, whatever files there are at first and whatever
\* friendship the client stores: what is read back is what it had stored, as the
\* game these bytes tell.
THEOREM Implements == Spec => ImplementsSession
<1>1. Init => Session!Init
  BY InitMaps
<1>2. Inv /\ Inv' /\ [Next]_vars => [Session!Next]_Session!vars
  BY NextMaps
<1>. QED
  BY <1>1, <1>2, Invariance, PTL DEF Spec, ImplementsSession, Session!Spec
=============================================================================
