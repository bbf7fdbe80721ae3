------------------------------ MODULE FsProofs ------------------------------
(***************************************************************************)
(* What fs.c guarantees for files of any length and any number of streams, *)
(* whichever calls of the C library fail and wherever the process dies: a  *)
(* read is whole and a write is torn at most, if nobody else writes.       *)
(* Neither is inductive: ReadInv and WriteInv say how far a call has come. *)
(* With them each call is, to its caller, a single step of FileAccess.     *)
(***************************************************************************)
EXTENDS Fs, TLAPS

ReadStages == {"idle", "size_fopen", "size_fseek", "size_ftell", "size_fclose",
               "read_fopen", "read_calloc", "read_fread", "read_fclose"}

WriteStages == {"idle", "write_fopen", "write_fwrite", "write_fclose"}

\* The streams a call has open at a stage, leaving aside those lost before.
HoldsStream == pc \in {"size_fseek", "size_ftell", "size_fclose", "read_calloc",
                       "read_fread", "read_fclose", "write_fwrite",
                       "write_fclose"}

StreamInv == handles = lost + (IF HoldsStream THEN 1 ELSE 0)

StageInv ==
  /\ caller = "read" => pc \in ReadStages
  /\ caller = "write" => pc \in WriteStages
  /\ caller = "none" => pc = "idle"
  /\ pc \notin {"idle", "size_fopen", "write_fopen"} => file # Missing
  /\ pc # "idle" => error # "CRASH"

BufferInv ==
  /\ caller = "write" => buffer \in Seq(Byte)
  /\ pc = "read_fclose" /\ error = "NONE" => buffer \in Seq(Byte)

TypeInv == TypeOK /\ StageInv /\ StreamInv /\ BufferInv

\* A read has measured the file it reads, and what it has read is the file.
ReadInv ==
  caller = "read" /\ undisturbed =>
    /\ pc \in {"read_fopen", "read_calloc", "read_fread"}
         \/ (pc = "size_fclose" /\ error = "NONE")
       => filesize = Len(file)
    /\ pc \in {"read_fclose", "idle"} /\ error = "NONE" => buffer = file

\* A write has left the file alone, or put a prefix of known length there.
WriteInv ==
  caller = "write" /\ undisturbed =>
    /\ pc = "write_fopen" => file = before /\ flushed = 0
    /\ pc = "write_fwrite" => file = <<>> /\ flushed = 0
    /\ pc = "write_fclose" => /\ flushed \in 0..Len(buffer)
                              /\ file = SubSeq(buffer, 1, flushed)
    /\ pc = "idle" => file = before \/ file \in Prefixes(buffer)
    /\ pc = "idle" /\ error = "NONE" => file = buffer

Inv == TypeInv /\ ReadInv /\ WriteInv

-----------------------------------------------------------------------------
(* Files.                                                                  *)

\* An emptied file is a file.
LEMMA EmptyFile == <<>> \in Seq(Byte)
OBVIOUS

-----------------------------------------------------------------------------
(* Flushing.                                                               *)

\* What is flushed makes a file of bytes.
LEMMA FlushType ==
  ASSUME NEW n \in 0..Len(buffer), buffer \in Seq(Byte), file \in Seq(Byte),
         flushed \in Nat, FlushTo(n)
  PROVE  file' \in Seq(Byte) /\ flushed' \in Nat
<1>. DEFINE len == IF n > flushed /\ n > Len(file) THEN n ELSE Len(file)
<1>1. len \in Nat
  OBVIOUS
<1>2. \A i \in 1..len : file'[i] \in Byte
  BY ConstantAssumption DEF FlushTo
<1>3. DOMAIN file' = 1..len /\ file' = [i \in 1..len |-> file'[i]]
  BY DEF FlushTo
<1>4. file' \in [1..len -> Byte]
  <2>. HIDE DEF len
  <2>. QED
    BY <1>2, <1>3
<1>5. file' \in Seq(Byte)
  <2>. HIDE DEF len
  <2>. QED
    BY <1>1, <1>4
<1>. QED
  BY <1>5 DEF FlushTo

\* After a prefix of the buffer, more of it makes a longer one.
LEMMA FlushPrefix ==
  ASSUME buffer \in Seq(Byte), flushed \in 0..Len(buffer),
         file = SubSeq(buffer, 1, flushed),
         NEW n \in flushed..Len(buffer), FlushTo(n)
  PROVE  file' = SubSeq(buffer, 1, n) /\ flushed' = n
<1>1. Len(file) = flushed /\ \A i \in 1..flushed : file[i] = buffer[i]
  OBVIOUS
<1>2. file' = [i \in 1..n |-> buffer[i]]
  BY <1>1 DEF FlushTo
<1>3. SubSeq(buffer, 1, n) = [i \in 1..n |-> buffer[i]]
  OBVIOUS
<1>. QED
  BY <1>2, <1>3 DEF FlushTo

-----------------------------------------------------------------------------
(* Types and stages.                                                       *)

\* A function of the C library that is called at the right stage keeps the
\* types.
LEMMA TypeInvNext == TypeInv /\ [Next]_vars => TypeInv'
<1>. SUFFICES ASSUME TypeInv, [Next]_vars PROVE TypeInv'
  OBVIOUS
<1>. USE DEF TypeInv, TypeOK, StageInv, ReadStages, WriteStages,
             StreamInv, HoldsStream, BufferInv, File, GoTo, Fail
<1>1. CASE ReadFileToBuffer
  BY <1>1 DEF ReadFileToBuffer, Start
<1>2. CASE WriteBufferToFile
  BY <1>2, ConstantAssumption DEF WriteBufferToFile, Start
<1>3. CASE SizeFopen
  BY <1>3, ConstantAssumption DEF SizeFopen, CanOpen
<1>4. CASE SizeFseek
  BY <1>4 DEF SizeFseek
<1>5. CASE SizeFtell
  BY <1>5 DEF SizeFtell
<1>6. CASE SizeFclose
  <2>1. handles' \in 0..MaxHandles
    BY <1>6, ConstantAssumption DEF SizeFclose
  <2>. QED
    BY <1>6, <2>1 DEF SizeFclose
<1>7. CASE ReadFopen
  BY <1>7, ConstantAssumption DEF ReadFopen, CanOpen
<1>8. CASE ReadCalloc
  BY <1>8 DEF ReadCalloc
<1>9. CASE ReadFread
  <2>1. file \in Seq(Byte) /\ caller = "read"
    BY <1>9 DEF ReadFread
  <2>2. buffer' \in Seq(Byte) \cup {Missing}
    BY <1>9, <2>1 DEF ReadFread
  <2>. QED
    BY <1>9, <2>1, <2>2 DEF ReadFread
<1>10. CASE ReadFclose
  <2>1. handles' \in 0..MaxHandles
    BY <1>10, ConstantAssumption DEF ReadFclose
  <2>. QED
    BY <1>10, <2>1 DEF ReadFclose
<1>11. CASE WriteFopen
  <2>1. file' \in Seq(Byte) \/ file' = file
    BY <1>11, EmptyFile DEF WriteFopen
  <2>2. handles' \in 0..MaxHandles
    BY <1>11, ConstantAssumption DEF WriteFopen, CanOpen
  <2>3. file' # Missing \/ pc' = "idle"
    BY <1>11, ConstantAssumption, EmptyFile DEF WriteFopen
  <2>4. StreamInv'
    BY <1>11 DEF WriteFopen
  <2>. QED
    BY <1>11, <2>1, <2>2, <2>3, <2>4 DEF WriteFopen
<1>12. CASE WriteFwrite
  <2>1. /\ buffer \in Seq(Byte) /\ file \in Seq(Byte)
        /\ \E n \in 0..Len(buffer) : FlushTo(n)
    BY <1>12 DEF WriteFwrite
  <2>2. file' \in Seq(Byte) /\ flushed' \in Nat
    BY <2>1, FlushType
  <2>. QED
    BY <1>12, <2>1, <2>2, ConstantAssumption DEF WriteFwrite
<1>13. CASE WriteFclose
  <2>1. /\ buffer \in Seq(Byte) /\ file \in Seq(Byte)
        /\ \E n \in 0..Len(buffer) : FlushTo(n)
    BY <1>13 DEF WriteFclose
  <2>2. file' \in Seq(Byte) /\ flushed' \in Nat
    BY <2>1, FlushType
  <2>. QED
    BY <1>13, <2>1, <2>2, ConstantAssumption DEF WriteFclose
<1>14. CASE OtherProgram
  <2>1. file' \in Seq(Byte) /\ file' # Missing
    BY <1>14, ConstantAssumption, EmptyFile DEF OtherProgram
  <2>. QED
    BY <1>14, <2>1 DEF OtherProgram
<1>15. CASE Crash
  BY <1>15, ConstantAssumption DEF Crash
<1>16. CASE UNCHANGED vars
  BY <1>16 DEF vars
<1>. QED
  BY <1>1, <1>2, <1>3, <1>4, <1>5, <1>6, <1>7, <1>8, <1>9, <1>10, <1>11, <1>12,
     <1>13, <1>14, <1>15, <1>16 DEF Next

-----------------------------------------------------------------------------
(* How far a call has come.                                                *)

\* A read goes on from what it has measured, and then from what it has read.
LEMMA ReadInvNext == TypeInv /\ ReadInv /\ [Next]_vars => ReadInv'
<1>. SUFFICES ASSUME TypeInv, ReadInv, [Next]_vars PROVE ReadInv'
  OBVIOUS
<1>. USE DEF TypeInv, TypeOK, StageInv, ReadStages, WriteStages, File,
             ReadInv, GoTo, Fail
<1>1. CASE ReadFileToBuffer \/ WriteBufferToFile
  BY <1>1 DEF ReadFileToBuffer, WriteBufferToFile, Start
<1>2. CASE SizeFopen \/ SizeFseek \/ SizeFtell \/ SizeFclose
  BY <1>2 DEF SizeFopen, SizeFseek, SizeFtell, SizeFclose
<1>3. CASE ReadFopen \/ ReadCalloc \/ ReadFclose
  BY <1>3 DEF ReadFopen, ReadCalloc, ReadFclose
<1>4. CASE ReadFread
  <2>1. caller = "read" /\ file \in Seq(Byte)
    BY <1>4 DEF ReadFread
  <2>2. SubSeq(file, 1, Len(file)) = file
    BY <2>1
  <2>. QED
    BY <1>4, <2>1, <2>2 DEF ReadFread
<1>5. CASE WriteFopen \/ WriteFwrite \/ WriteFclose
  BY <1>5 DEF WriteFopen, WriteFwrite, WriteFclose
<1>6. CASE OtherProgram
  BY <1>6 DEF OtherProgram
<1>7. CASE Crash
  BY <1>7 DEF Crash
<1>8. CASE UNCHANGED vars
  BY <1>8 DEF vars
<1>. QED
  BY <1>1, <1>2, <1>3, <1>4, <1>5, <1>6, <1>7, <1>8 DEF Next

\* At each stage of a write the file is what it was or a prefix.
LEMMA WriteTorn ==
  ASSUME TypeInv, WriteInv, caller = "write", undisturbed
  PROVE  file = before \/ file \in Prefixes(buffer)
<1>. USE DEF TypeInv, TypeOK, StageInv, ReadStages, WriteStages, BufferInv,
             WriteInv
<1>1. CASE pc \in {"idle", "write_fopen"}
  BY <1>1
<1>2. CASE pc = "write_fwrite"
  <2>1. file = SubSeq(buffer, 1, 0) /\ 0 \in 0..Len(buffer)
    BY <1>2
  <2>. QED
    BY <2>1 DEF Prefixes
<1>3. CASE pc = "write_fclose"
  BY <1>3 DEF Prefixes
<1>. QED
  BY <1>1, <1>2, <1>3

\* A write goes on from the prefix it has put there.
LEMMA WriteInvNext == TypeInv /\ WriteInv /\ [Next]_vars => WriteInv'
<1>. SUFFICES ASSUME TypeInv, WriteInv, [Next]_vars PROVE WriteInv'
  OBVIOUS
<1>. USE DEF TypeInv, TypeOK, StageInv, ReadStages, WriteStages, BufferInv,
             File,
             WriteInv, GoTo, Fail
<1>1. CASE ReadFileToBuffer \/ WriteBufferToFile
  BY <1>1 DEF ReadFileToBuffer, WriteBufferToFile, Start
<1>2. CASE SizeFopen \/ SizeFseek \/ SizeFtell \/ SizeFclose
  BY <1>2 DEF SizeFopen, SizeFseek, SizeFtell, SizeFclose
<1>3. CASE ReadFopen \/ ReadCalloc \/ ReadFread \/ ReadFclose
  BY <1>3 DEF ReadFopen, ReadCalloc, ReadFread, ReadFclose
<1>4. CASE WriteFopen
  BY <1>4 DEF WriteFopen
<1>5. CASE WriteFwrite
  <2>1. caller = "write" /\ buffer \in Seq(Byte) /\ pc = "write_fwrite"
    BY <1>5 DEF WriteFwrite
  <2>2. CASE undisturbed
    <3>1. file = SubSeq(buffer, 1, 0) /\ flushed = 0
      BY <2>1, <2>2
    <3>2. PICK n \in 0..Len(buffer) : FlushTo(n)
      BY <1>5 DEF WriteFwrite
    <3>3. file' = SubSeq(buffer, 1, n) /\ flushed' = n
      BY <2>1, <3>1, <3>2, FlushPrefix
    <3>. QED
      BY <1>5, <2>1, <3>2, <3>3 DEF WriteFwrite
  <2>3. CASE ~undisturbed
    BY <1>5, <2>3 DEF WriteFwrite
  <2>. QED
    BY <2>2, <2>3
<1>6. CASE WriteFclose
  <2>1. caller = "write" /\ buffer \in Seq(Byte) /\ pc = "write_fclose"
    BY <1>6 DEF WriteFclose
  <2>2. CASE undisturbed
    <3>1. /\ flushed \in 0..Len(buffer) /\ file = SubSeq(buffer, 1, flushed)
          /\ Len(buffer) \in flushed..Len(buffer)
      BY <2>1, <2>2
    <3>2. CASE error = "NONE" /\ FlushTo(Len(buffer)) /\ GoTo("idle")
      <4>1. file' = SubSeq(buffer, 1, Len(buffer))
        BY <2>1, <3>1, <3>2, FlushPrefix
      <4>2. file' = buffer
        BY <2>1, <4>1
      <4>3. buffer \in Prefixes(buffer)
        <5>1. buffer = SubSeq(buffer, 1, Len(buffer))
                /\ Len(buffer) \in 0..Len(buffer)
          BY <2>1
        <5>. QED
          BY <5>1, Zenon DEF Prefixes
      <4>. QED
        BY <1>6, <3>2, <4>2, <4>3 DEF WriteFclose
    <3>3. CASE Fail("idle") /\ \E n \in flushed..Len(buffer) : FlushTo(n)
      <4>1. PICK n \in flushed..Len(buffer) : FlushTo(n)
        BY <3>3
      <4>2. file' = SubSeq(buffer, 1, n) /\ n \in 0..Len(buffer)
        BY <2>1, <3>1, <4>1, FlushPrefix
      <4>3. file' \in Prefixes(buffer)
        BY <4>2 DEF Prefixes
      <4>. QED
        BY <1>6, <3>3, <4>3 DEF WriteFclose
    <3>. QED
      BY <1>6, <3>2, <3>3 DEF WriteFclose
  <2>3. CASE ~undisturbed
    BY <1>6, <2>3 DEF WriteFclose
  <2>. QED
    BY <2>2, <2>3
<1>7. CASE OtherProgram
  BY <1>7 DEF OtherProgram
<1>8. CASE Crash
  <2>1. caller = "write" /\ undisturbed
          => file = before \/ file \in Prefixes(buffer)
    <3>. HIDE DEF TypeInv, WriteInv
    <3>. QED
      BY WriteTorn
  <2>2. /\ pc' = "idle" /\ error' = "CRASH"
        /\ UNCHANGED <<file, caller, buffer, before, undisturbed>>
    BY <1>8 DEF Crash
  <2>3. Prefixes(buffer)' = Prefixes(buffer)
    BY <2>2 DEF Prefixes
  <2>. QED
    BY <2>1, <2>2, <2>3
<1>9. CASE UNCHANGED vars
  BY <1>9 DEF vars
<1>. QED
  BY <1>1, <1>2, <1>3, <1>4, <1>5, <1>6, <1>7, <1>8, <1>9 DEF Next

-----------------------------------------------------------------------------
(* The theorems.                                                           *)

\* All of it holds at first.
LEMMA InitInv == Init => Inv
<1>. SUFFICES ASSUME Init PROVE Inv
  OBVIOUS
<1>1. file \in File
  BY ConstantAssumption, EmptyFile DEF Init, File
<1>2. TypeOK
  BY <1>1, ConstantAssumption DEF Init, TypeOK, File
<1>. QED
  BY <1>2 DEF Init, Inv, TypeInv, StageInv, StreamInv, HoldsStream, BufferInv,
              ReadInv, WriteInv

\* And always.
LEMMA Invariance == Spec => []Inv
<1>1. Inv /\ [Next]_vars => Inv'
  BY TypeInvNext, ReadInvNext, WriteInvNext DEF Inv
<1>. QED
  BY <1>1, InitInv, PTL DEF Spec

\* Every variable keeps its type; no more streams are closed than opened.
THEOREM TypeCorrect == Spec => []TypeOK
<1>1. Inv => TypeOK
  BY DEF Inv, TypeInv
<1>. QED
  BY <1>1, Invariance, PTL

\* Every call closes the stream it has opened exactly once, except where fseek
\* fails.
THEOREM StreamsCorrect == Spec => []StreamsAreAccounted
<1>1. Inv => StreamsAreAccounted
  BY DEF Inv, TypeInv, TypeOK, StreamInv, HoldsStream, StreamsAreAccounted
<1>. QED
  BY <1>1, Invariance, PTL

\* A read that reports no error has read all of the file, if nobody else
\* writes between the two streams it opens.
THEOREM ReadCorrect == Spec => []ReadIsWhole
<1>1. Inv => ReadIsWhole
  BY DEF Inv, ReadInv, ReadIsWhole, Returned
<1>. QED
  BY <1>1, Invariance, PTL

\* A write leaves what was there or a prefix of what is written, whatever
\* fails and wherever the process dies, if nobody else writes.
THEOREM WriteCorrect == Spec => []WriteIsTornAtMost
<1>1. Inv => WriteIsTornAtMost
  BY WriteTorn DEF Inv, WriteInv, WriteIsTornAtMost, Returned
<1>. QED
  BY <1>1, Invariance, PTL

-----------------------------------------------------------------------------
(* The calls as single steps.                                              *)

\* No call is under way at first.
LEMMA AccessInit == Init => Access!Init
BY DEF Init, Access!Init, Returned

\* Whatever the other program leaves is a file.
LEMMA AccessOther ==
  ASSUME Inv, OtherProgram PROVE Access!OtherProgram
BY DEF Inv, TypeInv, TypeOK, StageInv, ReadStages, WriteStages, OtherProgram,
       Returned, Access!OtherProgram

\* What the calls of the C library have in common: they leave alone what the
\* caller cannot see of a call, and a read the file, and a write the buffer.
LEMMA LibraryStepFacts ==
  ASSUME Inv, LibraryStep
  PROVE  /\ pc # "idle" /\ caller \in {"read", "write"}
         /\ UNCHANGED <<caller, before, undisturbed>>
         /\ caller = "read" => file' = file
         /\ caller = "write" => buffer' = buffer
         /\ pc' = "idle" => error' \in {"NONE", "FILE_IO"}
         /\ pc' = "idle" /\ caller = "read" /\ error' = "NONE"
              => pc = "read_fclose" /\ error = "NONE" /\ buffer' = buffer
<1>. USE DEF LibraryStep, GoTo, Fail, Inv, TypeInv, StageInv
<1>1. CASE SizeFopen \/ SizeFseek \/ SizeFtell \/ SizeFclose
  BY <1>1 DEF SizeFopen, SizeFseek, SizeFtell, SizeFclose, WriteStages, TypeOK
<1>2. CASE ReadFopen \/ ReadCalloc \/ ReadFread \/ ReadFclose
  BY <1>2 DEF ReadFopen, ReadCalloc, ReadFread, ReadFclose, WriteStages, TypeOK
<1>3. CASE WriteFopen \/ WriteFwrite \/ WriteFclose
  BY <1>3 DEF WriteFopen, WriteFwrite, WriteFclose, ReadStages, TypeOK
<1>. QED
  BY <1>1, <1>2, <1>3

\* A step inside a call is none.
LEMMA AccessInside ==
  ASSUME Inv, LibraryStep, pc' # "idle" PROVE UNCHANGED Access!vars
BY LibraryStepFacts DEF Access!vars, Returned

\* A read ends with the whole file or an error,
LEMMA AccessReadEnds ==
  ASSUME Inv, Inv', LibraryStep, pc' = "idle", caller = "read"
  PROVE  Access!Read \/ Access!ReadFails("FILE_IO")
<1>1. pc # "idle" /\ UNCHANGED <<file, caller, undisturbed>>
  BY LibraryStepFacts
<1>2. CASE error' = "FILE_IO"
  <2>1. Access!End("read", "FILE_IO")
    BY <1>1, <1>2 DEF Access!End
  <2>. QED
    BY <1>1, <1>2, <2>1 DEF Access!ReadFails, Returned
<1>3. CASE error' = "NONE"
  <2>1. pc = "read_fclose" /\ error = "NONE" /\ buffer' = buffer
    BY <1>3, LibraryStepFacts
  <2>2. Access!End("read", "NONE")
    BY <1>1, <1>3 DEF Access!End
  <2>3. buffer' \in Seq(Byte)
    BY <2>1 DEF Inv, TypeInv, BufferInv
  <2>4. undisturbed => buffer' = file
    BY <1>1, <2>1 DEF Inv, ReadInv
  <2>. QED
    BY <1>1, <1>3, <2>2, <2>3, <2>4 DEF Access!Read, Returned
<1>. QED
  BY <1>2, <1>3, LibraryStepFacts

\* and a write with all of the buffer in the file, or an error and part of it.
LEMMA AccessWriteEnds ==
  ASSUME Inv, Inv', LibraryStep, pc' = "idle", caller = "write"
  PROVE  Access!Write \/ Access!WriteFails("FILE_IO")
<1>1. pc # "idle" /\ UNCHANGED <<buffer, caller, before, undisturbed>>
  BY LibraryStepFacts
<1>2. file' \in Access!File
  BY DEF Inv, TypeInv, TypeOK, File, Access!File
<1>3. CASE error' = "FILE_IO"
  <2>1. Access!End("write", "FILE_IO")
    BY <1>1, <1>3 DEF Access!End
  <2>2. undisturbed => file' = before \/ file' \in Prefixes(buffer)
    BY <1>1 DEF Inv, WriteInv, Prefixes
  <2>. QED
    BY <1>1, <1>2, <1>3, <2>1, <2>2
    DEF Access!WriteFails, Returned, Access!Prefixes, Prefixes
<1>4. CASE error' = "NONE"
  <2>1. Access!End("write", "NONE")
    BY <1>1, <1>4 DEF Access!End
  <2>2. undisturbed => file' = buffer
    BY <1>1, <1>4 DEF Inv, WriteInv
  <2>. QED
    BY <1>1, <1>2, <1>4, <2>1, <2>2 DEF Access!Write, Returned
<1>. QED
  BY <1>3, <1>4, LibraryStepFacts

\* A call that dies with its process is one that fails.
LEMMA AccessCrash ==
  ASSUME Inv, Crash PROVE Access!Crash
<1>1. /\ pc # "idle" /\ pc' = "idle" /\ error' = "CRASH"
      /\ UNCHANGED <<file, caller, buffer, before, undisturbed>>
  BY DEF Crash
<1>2. caller \in {"read", "write"}
  BY <1>1 DEF Inv, TypeInv, TypeOK, StageInv
<1>3. CASE caller = "read"
  <2>1. Access!End("read", "CRASH")
    BY <1>1, <1>3 DEF Access!End
  <2>2. Access!ReadFails("CRASH")
    BY <1>1, <1>3, <2>1 DEF Access!ReadFails, Returned
  <2>. QED
    BY <2>2 DEF Access!Crash
<1>4. CASE caller = "write"
  <2>1. Access!End("write", "CRASH")
    BY <1>1, <1>4 DEF Access!End
  <2>2. undisturbed => file' = before \/ file' \in Prefixes(buffer)
    BY <1>1, <1>4, WriteTorn DEF Inv
  <2>3. file' \in Access!File
    BY <1>1 DEF Inv, TypeInv, TypeOK, File, Access!File
  <2>4. Access!WriteFails("CRASH")
    BY <1>1, <1>4, <2>1, <2>2, <2>3 DEF Access!WriteFails, Returned,
          Access!Prefixes, Prefixes
  <2>. QED
    BY <2>4 DEF Access!Crash
<1>. QED
  BY <1>2, <1>3, <1>4

\* Every step is one of a file that is accessed at once, or none of them.
LEMMA AccessNext ==
  ASSUME Inv, Inv', [Next]_vars PROVE [Access!Next]_Access!vars
<1>1. CASE ReadFileToBuffer
  <2>1. Access!BeginRead
    BY <1>1 DEF ReadFileToBuffer, Start, Access!BeginRead, Access!Begin, Returned
  <2>. QED
    BY <2>1 DEF Access!Next
<1>2. CASE WriteBufferToFile
  <2>1. Access!BeginWrite
    BY <1>2 DEF WriteBufferToFile, Start, Access!BeginWrite, Access!Begin, Returned
  <2>. QED
    BY <2>1 DEF Access!Next
<1>3. CASE LibraryStep
  <2>. QED
    BY <1>3, LibraryStepFacts, AccessInside, AccessReadEnds, AccessWriteEnds
    DEF Access!Next
<1>4. CASE OtherProgram
  BY <1>4, AccessOther DEF Access!Next
<1>5. CASE Crash
  BY <1>5, AccessCrash DEF Access!Next
<1>6. CASE UNCHANGED vars
  BY <1>6 DEF vars, Access!vars, Returned
<1>. QED
  BY <1>1, <1>2, <1>3, <1>4, <1>5, <1>6 DEF Next, LibraryStep

\* ImplementsFileAccess: to their caller the functions of fs.c are the single
\* steps the sessions take them for, for files of any length, whatever fails
\* and wherever the process dies.
THEOREM Implements == Spec => ImplementsFileAccess
<1>1. Inv /\ Inv' /\ [Next]_vars => [Access!Next]_Access!vars
  BY AccessNext
<1>. QED
  BY <1>1, AccessInit, Invariance, PTL DEF Spec, ImplementsFileAccess, Access!Spec
=============================================================================
