------------------------- MODULE Gen2SessionProofs --------------------------
(***************************************************************************)
(* Theorems about Gen2Save and Gen2Session, for any number of boxes and    *)
(* any contents: types, that the client reads what it loaded and stored,   *)
(* and that a session implements SaveSession.  The first two need to know  *)
(* that what is loaded is an image, LoadedInv.  The last needs GameInv:    *)
(* only Gold and Silver are ever loaded, because the load of a Crystal     *)
(* save reports an error, so that a buffer that loads at all loads as the  *)
(* game of the session.                                                    *)
(***************************************************************************)
EXTENDS Gen2Session, TLAPS

LoadedInv == IsLoaded => p_raw_save \in Image

Inv == TypeOK /\ LoadedInv /\ ViewIsIntended

-----------------------------------------------------------------------------
(* Images, field by field.                                                 *)

\* The types of its fields.
LEMMA ImageParts ==
  ASSUME NEW image \in Image
  PROVE  /\ image.money \in Money /\ image.unreached \in Unreached
         /\ image.current_box_num \in BoxNum /\ image.current_box \in Box
         /\ image.boxes \in [BoxNum -> Box]
         /\ image.checksum1 \in [Checksum1Cell -> Sum1 \cup {NoSum}]
         /\ image.checksum2 \in [Checksum2Cell -> Sum2 \cup {NoSum}]
BY DEF Image

\* What the client sees of an image has the type of a content.
LEMMA ContentType ==
  ASSUME NEW image \in Image, NEW type \in SaveType
  PROVE  /\ ContentOf(type, image) \in Content
         /\ Boxes(image) \in [BoxNum -> Box]
<1>1. Boxes(image) \in [BoxNum -> Box]
  BY ImageParts DEF Boxes
<1>. QED
  BY <1>1, ImageParts DEF ContentOf, Content

\* The sums of an image's data are some its checksums can hold.
LEMMA ChecksumType ==
  ASSUME NEW image \in Image, NEW type \in SaveType
  PROVE  SetChecksums(image, type) \in Image
<1>1. GetSaveChecksum1(image) \in Sum1 /\ GetSaveChecksum2(image) \in Sum2
  BY ImageParts DEF GetSaveChecksum1, GetSaveChecksum2, Sum1, Sum2
<1>2. Checksum1[type] \in Checksum1Cell /\ Checksum2[type] \in Checksum2Cell
  BY DEF SaveType, Checksum1, Checksum2, Checksum1Cell, Checksum2Cell
<1>. DEFINE sums1 == [image.checksum1 EXCEPT ![Checksum1[type]]
                                               = GetSaveChecksum1(image)]
            sums2 == [image.checksum2 EXCEPT ![Checksum2[type]]
                                               = GetSaveChecksum2(image)]
<1>3. /\ sums1 \in [Checksum1Cell -> Sum1 \cup {NoSum}]
      /\ sums2 \in [Checksum2Cell -> Sum2 \cup {NoSum}]
  BY <1>1, <1>2, ImageParts
<1>4. SetChecksums(image, type)
        = [image EXCEPT !.checksum1 = sums1, !.checksum2 = sums2]
  BY DEF SetChecksums
<1>. HIDE DEF sums1, sums2
<1>. QED
  BY <1>3, <1>4 DEF Image

\* Setting the checksums changes nothing the client sees.
LEMMA SetChecksumsView ==
  ASSUME NEW image \in Image, NEW type, NEW seen
  PROVE  ContentOf(seen, SetChecksums(image, type)) = ContentOf(seen, image)
<1>. DEFINE new == SetChecksums(image, type)
<1>1. /\ new.money = image.money /\ new.unreached = image.unreached
      /\ new.current_box_num = image.current_box_num
      /\ new.current_box = image.current_box /\ new.boxes = image.boxes
  BY DEF SetChecksums, Image
<1>. HIDE DEF new
<1>2. Boxes(new) = Boxes(image)
  BY <1>1 DEF Boxes
<1>3. ContentOf(seen, new) = ContentOf(seen, image)
  BY <1>1, <1>2 DEF ContentOf
<1>. QED
  BY <1>3 DEF new

\* A switch of the current box changes which box is current and nothing else:
\* each box keeps its contents, whatever the old and the new number are.
LEMMA SwitchBoxView ==
  ASSUME NEW image \in Image, NEW n \in BoxNum, NEW type
  PROVE  /\ SwitchBox(image, n) \in Image
         /\ ContentOf(type, SwitchBox(image, n))
              = [ContentOf(type, image) EXCEPT !.current = n]
<1>. DEFINE new   == SwitchBox(image, n)
            boxes == [image.boxes EXCEPT ![image.current_box_num]
                                           = image.current_box]
<1>1. boxes \in [BoxNum -> Box]
  BY ImageParts
<1>2. new = [image EXCEPT !.boxes = boxes, !.current_box_num = n,
                          !.current_box = boxes[n]]
  BY DEF SwitchBox
<1>3. /\ new.money = image.money /\ new.unreached = image.unreached
      /\ new.current_box_num = n /\ new.current_box = boxes[n]
      /\ new.boxes = boxes
  BY <1>2 DEF Image
<1>4. new \in Image
  <2>. HIDE DEF boxes, new
  <2>. QED
    BY <1>1, <1>2 DEF Image
<1>5. Boxes(new) = Boxes(image)
  <2>1. Boxes(new) = [k \in BoxNum |-> boxes[k]]
    <3>. HIDE DEF boxes, new
    <3>. QED
      BY <1>3 DEF Boxes
  <2>2. Boxes(image) = [k \in BoxNum |-> boxes[k]]
    BY ImageParts DEF Boxes
  <2>. QED
    BY <2>1, <2>2
<1>6. ContentOf(type, new) = [ContentOf(type, image) EXCEPT !.current = n]
  <2>. HIDE DEF new, boxes
  <2>. QED
    BY <1>3, <1>5 DEF ContentOf
<1>. QED
  BY <1>4, <1>6

\* What the client stores into a box is what it reads there, and all else is
\* as before, for the current box and for any other.
LEMMA EditBoxView ==
  ASSUME NEW image \in Image, NEW n \in BoxNum, NEW box \in Box, NEW type,
         NEW new,
         new = IF n = image.current_box_num
               THEN [image EXCEPT !.current_box = box]
               ELSE [image EXCEPT !.boxes[n] = box]
  PROVE  /\ new \in Image
         /\ ContentOf(type, new)
              = [ContentOf(type, image) EXCEPT !.boxes[n] = box]
<1>1. /\ new.money = image.money /\ new.unreached = image.unreached
      /\ new.current_box_num = image.current_box_num
  BY DEF Image
<1>2. new \in Image
  BY DEF Image
<1>3. new.current_box_num = image.current_box_num
  BY <1>1
<1>4. Boxes(new) = [Boxes(image) EXCEPT ![n] = box]
  <2>1. CASE n = image.current_box_num
    <3>1. new.current_box = box /\ new.boxes = image.boxes
      BY <2>1 DEF Image
    <3>2. Boxes(new) = [k \in BoxNum |-> IF k = n THEN box ELSE image.boxes[k]]
      BY <2>1, <3>1, <1>3 DEF Boxes
    <3>3. Boxes(image)
            = [k \in BoxNum |-> IF k = n THEN image.current_box
                                ELSE image.boxes[k]]
      BY <2>1 DEF Boxes
    <3>. QED
      BY <3>2, <3>3
  <2>2. CASE n # image.current_box_num
    <3>1. /\ new.current_box = image.current_box
          /\ new.boxes = [image.boxes EXCEPT ![n] = box]
      BY <2>2 DEF Image
    <3>. QED
      BY <2>2, <3>1, <1>3, ImageParts DEF Boxes
  <2>. QED
    BY <2>1, <2>2
<1>5. ContentOf(type, new) = [ContentOf(type, image) EXCEPT !.boxes[n] = box]
  BY <1>1, <1>3, <1>4 DEF ContentOf
<1>. QED
  BY <1>2, <1>5

\* The same for the trainer's data.
LEMMA EditMoneyView ==
  ASSUME NEW image \in Image, NEW money \in Money, NEW type,
         NEW new, new = [image EXCEPT !.money = money]
  PROVE  /\ new \in Image
         /\ ContentOf(type, new)
              = [ContentOf(type, image) EXCEPT !.money = money]
<1>1. new \in Image
  BY DEF Image
<1>2. /\ new.money = money /\ new.unreached = image.unreached
      /\ new.current_box_num = image.current_box_num
      /\ new.current_box = image.current_box /\ new.boxes = image.boxes
  BY DEF Image
<1>3. Boxes(new) = Boxes(image)
  BY <1>2 DEF Boxes
<1>4. ContentOf(type, new)
        = [ContentOf(type, image) EXCEPT !.money = money]
  BY <1>2, <1>3 DEF ContentOf
<1>. QED
  BY <1>1, <1>4

-----------------------------------------------------------------------------
(* The invariant.                                                          *)

\* It holds at first.
LEMMA InitInv == Init => Inv
BY ConstantAssumption
   DEF Init, Inv, TypeOK, LoadedInv, ViewIsIntended, View, IsLoaded

\* An open session goes on, with new contents of the buffer that the client
\* sees as it should.
LEMMA OpenInv ==
  ASSUME Inv, IsLoaded, NEW image \in Image,
         p_raw_save' = image, save_type' = save_type,
         intended' = ContentOf(save_type, image)
  PROVE  LoadedInv' /\ ViewIsIntended' /\ intended' \in Content /\ IsLoaded'
<1>1. save_type \in SaveType /\ IsLoaded'
  BY DEF Inv, TypeOK, IsLoaded
<1>. QED
  BY <1>1, ContentType DEF LoadedInv, ViewIsIntended, View, IsLoaded

\* What an open session holds.
LEMMA OpenParts ==
  ASSUME Inv, IsLoaded
  PROVE  /\ p_raw_save \in Image /\ save_type \in SaveType
         /\ intended = ContentOf(save_type, p_raw_save)
BY DEF Inv, TypeOK, LoadedInv, ViewIsIntended, View, IsLoaded

\* A load opens a session on an image or changes nothing.
LEMMA LoadInv ==
  ASSUME Inv, NEW buffer \in Image \cup {Short}, NEW ours \in BOOLEAN,
         Load(buffer, ours)
  PROVE  Inv'
<1>1. GetBufferSaveType(buffer).error \in {"NONE", "INVALID_SAVE"}
  BY DEF GetBufferSaveType
<1>2. CASE ~Loads(buffer)
  BY <1>1, <1>2 DEF Load, Returns, Inv, TypeOK, LoadedInv, ViewIsIntended,
                    View, IsLoaded
<1>3. CASE Loads(buffer)
  <2>1. buffer \in Image
    BY <1>3 DEF Loads, GetBufferSaveType
  <2>2. GetBufferSaveType(buffer).type \in SaveType
    BY <1>3 DEF Loads, GetBufferSaveType, SaveType
  <2>3. /\ save_type' = GetBufferSaveType(buffer).type /\ p_raw_save' = buffer
        /\ is_buffer_ours' = ours /\ disk' = disk
        /\ op' = "load" /\ error' = GetBufferSaveType(buffer).error
        /\ intended' = ContentOf(GetBufferSaveType(buffer).type, buffer)
    BY <1>3 DEF Load, Returns, Decode
  <2>4. intended' \in Content
    BY <2>1, <2>2, <2>3, ContentType
  <2>5. TypeOK'
    BY <1>1, <2>1, <2>2, <2>3, <2>4 DEF Inv, TypeOK
  <2>6. LoadedInv' /\ ViewIsIntended'
    BY <2>1, <2>2, <2>3 DEF LoadedInv, ViewIsIntended, View, IsLoaded, SaveType
  <2>. QED
    BY <2>5, <2>6 DEF Inv
<1>. QED
  BY <1>2, <1>3

\* Whatever the client stores, it sees.
LEMMA EditInv == ASSUME Inv, Edit PROVE Inv'
<1>1. IsLoaded /\ p_raw_save \in Image
  BY OpenParts DEF Edit
<1>2. \E image \in Image :
        /\ p_raw_save' = image
        /\ intended' = ContentOf(save_type, image)
  <2>1. CASE \E money \in Money : EditMoney(money)
    BY <1>1, <2>1, OpenParts, EditMoneyView DEF EditMoney
  <2>2. CASE \E n \in EditedBoxes, box \in Box : EditBox(n, box)
    BY <1>1, <2>2, OpenParts, EditBoxView, ConstantAssumption DEF EditBox
  <2>. QED
    BY <2>1, <2>2 DEF Edit
<1>3. /\ disk' = disk /\ save_type' = save_type
      /\ is_buffer_ours' = is_buffer_ours /\ op' = "edit" /\ error' = "NONE"
  BY DEF Edit, Returns
<1>4. LoadedInv' /\ ViewIsIntended' /\ intended' \in Content
  BY <1>1, <1>2, <1>3, OpenInv
<1>. QED
  BY <1>2, <1>3, <1>4 DEF Inv, TypeOK

\* Switching keeps every box, and so does a number out of range.
LEMMA SetCurrentBoxInv == ASSUME Inv, SetCurrentBox PROVE Inv'
<1>1. IsLoaded /\ p_raw_save \in Image
  BY OpenParts DEF SetCurrentBox
<1>2. \E image \in Image :
        /\ p_raw_save' = image
        /\ intended' = ContentOf(save_type, image)
  BY <1>1, OpenParts, SwitchBoxView DEF SetCurrentBox
<1>3. /\ disk' = disk /\ save_type' = save_type
      /\ is_buffer_ours' = is_buffer_ours /\ op' = "set_current_box"
      /\ error' \in {"NONE", "PARAM_OUT_OF_RANGE"}
  BY DEF SetCurrentBox, Returns
<1>4. LoadedInv' /\ ViewIsIntended' /\ intended' \in Content
  BY <1>1, <1>2, <1>3, OpenInv
<1>. QED
  BY <1>2, <1>3, <1>4 DEF Inv, TypeOK

\* A save touches the checksums only.
LEMMA SaveInv == ASSUME Inv, SaveSucceeds \/ SaveFails PROVE Inv'
<1>. DEFINE image == SetChecksums(p_raw_save, save_type)
<1>1. IsLoaded /\ p_raw_save \in Image
  BY OpenParts DEF SaveSucceeds, SaveFails
<1>2. image \in Image /\ intended = ContentOf(save_type, image)
  BY <1>1, OpenParts, ChecksumType, SetChecksumsView
<1>3. /\ p_raw_save' = image /\ intended' = intended
      /\ save_type' = save_type /\ is_buffer_ours' = is_buffer_ours
      /\ disk' \in {disk, image, Short}
      /\ op' = "save" /\ error' \in {"NONE", "FILE_IO"}
  BY DEF SaveSucceeds, SaveFails, Returns, TornFiles
<1>. HIDE DEF image
<1>4. LoadedInv' /\ ViewIsIntended' /\ intended' \in Content
  BY <1>1, <1>2, <1>3, OpenInv
<1>. QED
  BY <1>2, <1>3, <1>4 DEF Inv, TypeOK

\* Freeing and dying leave nothing to see.
LEMMA ClosedInv ==
  ASSUME Inv, FreeSave \/ Crash
  PROVE  Inv'
<1>1. /\ save_type' = "NONE" /\ is_buffer_ours' = FALSE
      /\ intended' = NoContent /\ p_raw_save' \in {p_raw_save, Short}
      /\ op' \in {"free", "crash"} /\ error' = "NONE"
  BY DEF FreeSave, Crash, ResetSave, Returns
<1>2. disk' \in Image \cup {Short}
  <2>1. CASE FreeSave
    BY <2>1 DEF FreeSave, Inv, TypeOK
  <2>2. CASE Crash
    BY <2>2, OpenParts, ChecksumType DEF Crash, TornFiles, Inv, TypeOK
  <2>. QED
    BY <2>1, <2>2
<1>. QED
  BY <1>1, <1>2
     DEF Inv, TypeOK, LoadedInv, ViewIsIntended, View, IsLoaded

\* Every step keeps the invariant.
LEMMA NextInv == Inv /\ [Next]_vars => Inv'
<1>. SUFFICES ASSUME Inv, [Next]_vars PROVE Inv'
  OBVIOUS
<1>1. CASE LoadSaveFromBuffer
  BY <1>1, LoadInv DEF LoadSaveFromBuffer, Inv, TypeOK
<1>2. CASE LoadSaveFromFile
  BY <1>2, LoadInv DEF LoadSaveFromFile, Inv, TypeOK
<1>3. CASE ReadFails
  BY <1>3 DEF ReadFails, Returns, Inv, TypeOK, LoadedInv, ViewIsIntended,
              View, IsLoaded
<1>4. CASE ClientReadsFile
  BY <1>4 DEF ClientReadsFile, Returns, Inv, TypeOK, LoadedInv,
              ViewIsIntended, View, IsLoaded
<1>5. CASE Edit
  BY <1>5, EditInv
<1>6. CASE SetCurrentBox
  BY <1>6, SetCurrentBoxInv
<1>7. CASE SaveSucceeds \/ SaveFails
  BY <1>7, SaveInv
<1>8. CASE FreeSave \/ Crash
  BY <1>8, ClosedInv
<1>9. CASE UNCHANGED vars
  BY <1>9 DEF vars, Inv, TypeOK, LoadedInv, ViewIsIntended, View, IsLoaded
<1>. QED
  BY <1>1, <1>2, <1>3, <1>4, <1>5, <1>6, <1>7, <1>8, <1>9 DEF Next

\* So it always holds.
LEMMA Invariance == Spec => []Inv
BY InitInv, NextInv, PTL DEF Spec

\* Every variable of a session keeps its type, the number of the current box
\* stays that of a box, and each checksum stays one of the area it belongs to.
THEOREM TypeCorrect == Spec => []TypeOK
<1>1. Inv => TypeOK
  BY DEF Inv
<1>. QED
  BY <1>1, Invariance, PTL

\* The client reads what it loaded and stored, box by box, through any
\* sequence of loads, edits, switches, saves, failed writes and crashes.
THEOREM ViewCorrect == Spec => []ViewIsIntended
<1>1. Inv => ViewIsIntended
  BY DEF Inv
<1>. QED
  BY <1>1, Invariance, PTL

GameInv == save_type # "CRYSTAL"

RInv == Inv /\ GameInv

-----------------------------------------------------------------------------
(* What an image loads as.                                                 *)

\* Whatever loads is Gold or Silver.
LEMMA LoadsGS ==
  ASSUME NEW buffer
  PROVE  /\ Loads(buffer) => GetBufferSaveType(buffer).type = "GS"
         /\ Decode(buffer) \in {ContentOf("GS", buffer), NoContent}
         /\ Loads(buffer) => Decode(buffer) # NoContent
<1>1. Loads(buffer) => GetBufferSaveType(buffer).type = "GS"
  BY DEF Loads, GetBufferSaveType
<1>2. ContentOf("GS", buffer) # NoContent
  <2>1. ContentOf("GS", buffer).type # NoContent.type
    BY DEF ContentOf, NoContent
  <2>. QED
    BY <2>1
<1>. QED
  BY <1>1, <1>2 DEF Decode

\* A buffer that is too short to be a save is none.
LEMMA DecodeShort == Decode(Short) = NoContent
BY DEF Decode, Loads, GetBufferSaveType

\* Setting both checksums of Gold and Silver makes an image one that loads.
LEMMA DecodeSaved ==
  ASSUME NEW image \in Image
  PROVE  Decode(SetChecksums(image, "GS")) = ContentOf("GS", image)
<1>. DEFINE new == SetChecksums(image, "GS")
<1>1. new # Short
  BY ChecksumType, ConstantAssumption DEF SaveType
<1>2. /\ new.money = image.money /\ new.unreached = image.unreached
      /\ new.current_box_num = image.current_box_num
      /\ new.checksum1["0x2D69"] = GetSaveChecksum1(image)
      /\ new.checksum2["0x7E6D"] = GetSaveChecksum2(image)
  BY ImageParts
     DEF SetChecksums, Image, Checksum1, Checksum2, Checksum1Cell,
         Checksum2Cell
<1>. HIDE DEF new
<1>3. IsTypeFound(new, "GS")
  BY <1>2 DEF IsTypeFound, DetectedChecksum1, DetectedChecksum2,
              GetSaveChecksum1, GetSaveChecksum2
<1>4. Decode(new) = ContentOf("GS", new)
  BY <1>1, <1>3 DEF Decode, Loads, GetBufferSaveType
<1>. QED
  BY <1>4, SetChecksumsView DEF new

\* No step opens a session of Crystal.
LEMMA GameNext ==
  ASSUME GameInv, [Next]_vars
  PROVE  GameInv'
<1>1. CASE LoadSaveFromBuffer \/ LoadSaveFromFile
  BY <1>1, LoadsGS DEF LoadSaveFromBuffer, LoadSaveFromFile, Load, GameInv
<1>2. CASE FreeSave \/ Crash
  BY <1>2 DEF FreeSave, Crash, ResetSave, GameInv
<1>3. CASE \/ ReadFails \/ ClientReadsFile \/ Edit \/ SetCurrentBox
           \/ SaveSucceeds \/ SaveFails \/ UNCHANGED vars
  BY <1>3 DEF ReadFails, ClientReadsFile, Edit, SetCurrentBox, SaveSucceeds,
              SaveFails, vars, GameInv
<1>. QED
  BY <1>1, <1>2, <1>3 DEF Next

\* The invariant the step simulation rests on.
LEMMA RInvariance == Spec => []RInv
<1>1. Init => RInv
  BY InitInv DEF RInv, Init, GameInv
<1>2. RInv /\ [Next]_vars => RInv'
  BY NextInv, GameNext DEF RInv
<1>. QED
  BY <1>1, <1>2, PTL DEF Spec

\* What an open session holds, now that it is known to be Gold or Silver.
LEMMA OpenGS ==
  ASSUME RInv, IsLoaded
  PROVE  /\ p_raw_save \in Image /\ save_type = "GS"
         /\ intended = ContentOf("GS", p_raw_save)
BY OpenParts DEF RInv, GameInv, SaveType

-----------------------------------------------------------------------------
(* Each step maps to a step of SaveSession or to none.                     *)

\* At first there is a file that loads as something or does not.
LEMMA InitMaps == Init => Session!Init
<1>. SUFFICES ASSUME Init PROVE Session!Init
  OBVIOUS
<1>1. disk \in Image \cup {Short}
  BY ConstantAssumption DEF Init
<1>2. Decode(disk) \in Content \cup {NoContent}
  BY <1>1, DecodeShort, ContentType, LoadsGS DEF SaveType
<1>. QED
  BY <1>2, DecodeShort
     DEF Init, IsLoaded, Session!Init, Session!MaybeContent

\* A load opens a session or is no step.
LEMMA LoadMaps ==
  ASSUME NEW buffer \in {p_raw_save, disk}, NEW ours, Load(buffer, ours)
  PROVE  [Session!Next]_Session!vars
<1>1. CASE ~Loads(buffer)
  <2>1. UNCHANGED <<disk, save_type, p_raw_save, intended>>
    BY <1>1 DEF Load
  <2>2. /\ Decode(disk)' = Decode(disk)
        /\ Decode(p_raw_save)' = Decode(p_raw_save)
    BY <2>1
  <2>. QED
    BY <2>1, <2>2 DEF Session!vars, IsLoaded
<1>2. CASE Loads(buffer)
  <2>1. ~IsLoaded /\ IsLoaded'
    BY <1>2 DEF Load, Loads, IsLoaded
  <2>2. p_raw_save' = buffer /\ disk' = disk /\ intended' = Decode(buffer)
    BY <1>2 DEF Load
  <2>3. /\ Decode(p_raw_save)' = Decode(buffer) /\ Decode(disk)' = Decode(disk)
    BY <2>2
  <2>4. Decode(buffer) # NoContent
    BY <1>2, LoadsGS
  <2>5. Session!Open(Decode(buffer))
    BY <2>1, <2>2, <2>3, <2>4 DEF Session!Open
  <2>. QED
    BY <2>5 DEF Session!Next
<1>. QED
  BY <1>1, <1>2

\* A step that keeps the session open and the file as it is changes what the
\* client sees at most.
LEMMA ChangeMaps ==
  ASSUME RInv, RInv', IsLoaded, IsLoaded', UNCHANGED disk
  PROVE  Session!Change
<1>1. /\ p_raw_save' \in Image /\ save_type' = "GS"
      /\ intended' = ContentOf("GS", p_raw_save')
  BY DEF RInv, Inv, GameInv, TypeOK, LoadedInv, ViewIsIntended, View, IsLoaded,
         SaveType
<1>2. Decode(p_raw_save') \in {intended', NoContent}
  BY <1>1, LoadsGS
<1>3. intended' \in Content
  BY <1>1, ContentType DEF SaveType
<1>4. Decode(disk)' = Decode(disk)
  OBVIOUS
<1>. QED
  BY <1>2, <1>3, <1>4 DEF Session!Change

\* A save that succeeds is one, and one that fails leaves no mixture.
LEMMA SaveMaps ==
  ASSUME RInv, SaveSucceeds \/ SaveFails
  PROVE  Session!Save \/ Session!FailedSave
<1>. DEFINE image == SetChecksums(p_raw_save, save_type)
<1>1. /\ IsLoaded /\ p_raw_save \in Image /\ save_type = "GS"
      /\ intended = ContentOf("GS", p_raw_save)
  BY OpenGS DEF SaveSucceeds, SaveFails
<1>2. Decode(image) = intended
  BY <1>1, DecodeSaved
<1>3. /\ p_raw_save' = image /\ intended' = intended /\ IsLoaded'
  BY <1>1 DEF SaveSucceeds, SaveFails, IsLoaded
<1>4. Decode(p_raw_save)' = Decode(image)
  BY <1>3
<1>5. CASE SaveSucceeds
  <2>1. disk' = image
    BY <1>5 DEF SaveSucceeds
  <2>2. Decode(disk)' = Decode(image)
    BY <2>1
  <2>. HIDE DEF image
  <2>3. Session!Save
    BY <1>1, <1>2, <1>3, <1>4, <2>2 DEF Session!Save
  <2>. QED
    BY <2>3
<1>6. CASE SaveFails
  <2>1. disk' \in {disk, image, Short}
    BY <1>6 DEF SaveFails, TornFiles
  <2>2. Decode(disk)' \in {Decode(disk), Decode(image), Decode(Short)}
    BY <2>1
  <2>. HIDE DEF image
  <2>3. Session!FailedSave
    BY <1>1, <1>2, <1>3, <1>4, <2>2, DecodeShort
       DEF Session!FailedSave, Session!Torn
  <2>. QED
    BY <2>3
<1>. QED
  BY <1>5, <1>6

\* The file survives the end of a session, and a write it interrupts.
LEMMA ClosedMaps ==
  ASSUME RInv, FreeSave \/ Crash
  PROVE  Session!Close \/ Session!Crash
<1>1. ~IsLoaded' /\ intended' = NoContent
  BY DEF FreeSave, Crash, ResetSave, IsLoaded
<1>2. CASE FreeSave
  <2>1. IsLoaded /\ Decode(disk)' = Decode(disk)
    BY <1>2 DEF FreeSave
  <2>2. p_raw_save' \in {p_raw_save, Short}
    BY <1>2 DEF FreeSave
  <2>3. Decode(p_raw_save)' \in {Decode(p_raw_save), NoContent}
    BY <2>2, DecodeShort
  <2>4. Session!Close
    BY <1>1, <2>1, <2>3 DEF Session!Close
  <2>. QED
    BY <2>4
<1>3. CASE Crash
  <2>1. Decode(p_raw_save)' = NoContent
    BY <1>3, DecodeShort DEF Crash
  <2>2. CASE ~IsLoaded
    <3>1. disk' = disk
      BY <1>3, <2>2 DEF Crash
    <3>2. Decode(disk)' = Decode(disk)
      BY <3>1
    <3>3. Session!Crash
      BY <1>1, <2>1, <2>2, <3>2 DEF Session!Crash
    <3>. QED
      BY <3>3
  <2>3. CASE IsLoaded
    <3>. DEFINE image == SetChecksums(p_raw_save, save_type)
    <3>1. Decode(image) = intended
      BY <2>3, OpenGS, DecodeSaved
    <3>2. disk' \in {disk, image, Short}
      BY <1>3, <2>3 DEF Crash, TornFiles
    <3>3. Decode(disk)' \in {Decode(disk), Decode(image), Decode(Short)}
      BY <3>2
    <3>. HIDE DEF image
    <3>4. Session!Crash
      BY <1>1, <2>1, <2>3, <3>1, <3>3, DecodeShort
         DEF Session!Crash, Session!Torn
    <3>. QED
      BY <3>4
  <2>. QED
    BY <2>2, <2>3
<1>. QED
  BY <1>2, <1>3

\* Each action in turn.
LEMMA NextMaps ==
  ASSUME RInv, RInv', [Next]_vars
  PROVE  [Session!Next]_Session!vars
<1>1. CASE LoadSaveFromBuffer \/ LoadSaveFromFile
  BY <1>1, LoadMaps DEF LoadSaveFromBuffer, LoadSaveFromFile
<1>2. CASE ReadFails
  <2>1. UNCHANGED <<disk, save_type, p_raw_save, intended>>
    BY <1>2 DEF ReadFails
  <2>2. /\ Decode(disk)' = Decode(disk)
        /\ Decode(p_raw_save)' = Decode(p_raw_save)
    BY <2>1
  <2>. QED
    BY <2>1, <2>2 DEF Session!vars, IsLoaded
<1>3. CASE ClientReadsFile
  <2>1. /\ ~IsLoaded /\ p_raw_save' = disk
        /\ UNCHANGED <<disk, save_type, intended>>
    BY <1>3 DEF ClientReadsFile
  <2>2. Decode(disk)' = Decode(disk) /\ Decode(p_raw_save)' = Decode(disk)
    BY <2>1
  <2>3. Session!TakeBuffer
    BY <2>1, <2>2 DEF Session!TakeBuffer, IsLoaded
  <2>. QED
    BY <2>3 DEF Session!Next
<1>4. CASE Edit \/ SetCurrentBox
  <2>1. IsLoaded /\ IsLoaded' /\ UNCHANGED disk
    BY <1>4 DEF Edit, SetCurrentBox, IsLoaded
  <2>. QED
    BY <2>1, ChangeMaps DEF Session!Next
<1>5. CASE SaveSucceeds \/ SaveFails
  BY <1>5, SaveMaps DEF Session!Next
<1>6. CASE FreeSave \/ Crash
  BY <1>6, ClosedMaps DEF Session!Next
<1>7. CASE UNCHANGED vars
  <2>1. UNCHANGED <<disk, save_type, p_raw_save, intended>>
    BY <1>7 DEF vars
  <2>2. /\ Decode(disk)' = Decode(disk)
        /\ Decode(p_raw_save)' = Decode(p_raw_save)
    BY <2>1
  <2>. QED
    BY <2>1, <2>2 DEF Session!vars, IsLoaded
<1>. QED
  BY <1>1, <1>2, <1>3, <1>4, <1>5, <1>6, <1>7 DEF Next

\* A session, its saves that fail and its crashes included, is one of the
\* abstract specification.
THEOREM Implements == Spec => ImplementsSession
<1>1. Init => Session!Init
  BY InitMaps
<1>2. RInv /\ RInv' /\ [Next]_vars => [Session!Next]_Session!vars
  BY NextMaps
<1>. QED
  BY <1>1, <1>2, RInvariance, PTL DEF Spec, ImplementsSession, Session!Spec
=============================================================================
