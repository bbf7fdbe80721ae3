--------------------------------- MODULE Fs ---------------------------------
(***************************************************************************)
(* Reading and writing a save file, lib/util/fs.c, one call of the C       *)
(* library at a time.  A process calls pksav_fs_read_file_to_buffer or     *)
(* pksav_fs_write_buffer_to_file on a file that another program, such as   *)
(* an emulator, may replace between any two steps; every call of the C     *)
(* library may fail, and the process may die.                              *)
(*                                                                         *)
(* The C library, as fs.c uses it: a stream that is written keeps bytes    *)
(* back until fclose; fclose gives the handle back even if it fails; and   *)
(* fopen fails when MaxHandles streams are open.                           *)
(***************************************************************************)
EXTENDS Integers, SequencesExt

CONSTANTS
  Byte,          \* contents of a byte; 0 fills holes
  Contents,      \* what the process and the other program write
  MaxHandles,    \* streams a process can have open
  Missing        \* no file, or no buffer

ASSUME ConstantAssumption ==
  /\ 0 \in Byte
  /\ Contents \subseteq Seq(Byte) \ {<<>>}
  /\ MaxHandles \in Nat
  /\ Missing \notin Seq(Byte)

VARIABLES
  file,         \* what the file holds
  pc,           \* the call of the C library that comes next
  caller,       \* "read" or "write": the function of fs.c that was called
  error,        \* what it returned, or will
  handles,      \* streams the process has open
  lost,         \* history: those of them that no call will close
  filesize,     \* what pksav_fs_filesize measured
  buffer,       \* what is read into or written from
  flushed,      \* bytes of it that have reached the file
  before,       \* the file when the function was called
  undisturbed   \* whether the other program has kept away since

vars == <<file, pc, caller, error, handles, lost, filesize, buffer, flushed,
          before, undisturbed>>

File == Seq(Byte) \cup {Missing}

-----------------------------------------------------------------------------
(* The start and the end of a call.                                        *)

Start(function, first) ==
  /\ pc = "idle"
  /\ pc' = first
  /\ caller' = function
  /\ error' = "NONE"
  /\ filesize' = 0
  /\ flushed' = 0
  /\ before' = file
  /\ undisturbed' = TRUE
  /\ UNCHANGED <<file, handles, lost>>

ReadFileToBuffer == Start("read", "size_fopen") /\ buffer' = Missing

WriteBufferToFile ==
  Start("write", "write_fopen") /\ \E b \in Contents : buffer' = b

GoTo(label) ==
  /\ pc' = label
  /\ UNCHANGED <<caller, error, before, undisturbed>>

Fail(label) ==
  /\ pc' = label
  /\ error' = "FILE_IO"
  /\ UNCHANGED <<caller, before, undisturbed>>

CanOpen == handles < MaxHandles

-----------------------------------------------------------------------------
(* pksav_fs_filesize                                                       *)

\* Wrong on purpose: a stream that was not opened is closed.
ClosesUnopened ==
  /\ pc = "size_fopen"
  /\ \/ /\ file # Missing /\ CanOpen
        /\ handles' = handles + 1
        /\ GoTo("size_fseek")
     \/ Fail("size_fclose") /\ UNCHANGED handles
  /\ UNCHANGED <<file, lost, filesize, buffer, flushed>>

SizeFopen ==
  /\ pc = "size_fopen"
  /\ \/ /\ file # Missing /\ CanOpen
        /\ handles' = handles + 1
        /\ GoTo("size_fseek")
     \/ Fail("idle") /\ UNCHANGED handles
  /\ UNCHANGED <<file, lost, filesize, buffer, flushed>>

\* When fseek fails the stream stays open.
SizeFseek ==
  /\ pc = "size_fseek"
  /\ \/ GoTo("size_ftell") /\ UNCHANGED lost
     \/ Fail("idle") /\ lost' = lost + 1
  /\ UNCHANGED <<file, handles, filesize, buffer, flushed>>

\* The size counts only if fclose succeeds, but it is the one ftell told.
SizeFtell ==
  /\ pc = "size_ftell"
  /\ \/ GoTo("size_fclose") /\ filesize' = Len(file)
     \/ Fail("size_fclose") /\ UNCHANGED filesize
  /\ UNCHANGED <<file, handles, lost, buffer, flushed>>

\* Wrong on purpose: on an error the stream is not closed.
ClosesIfNoError ==
  /\ pc = "size_fclose"
  /\ \/ error = "NONE" /\ handles' = handles - 1 /\ GoTo("read_fopen")
     \/ error = "FILE_IO" /\ Fail("idle") /\ UNCHANGED handles
  /\ UNCHANGED <<file, lost, filesize, buffer, flushed>>

SizeFclose ==
  /\ pc = "size_fclose"
  /\ handles' = handles - 1
  /\ \/ error = "NONE" /\ GoTo("read_fopen")
     \/ Fail("idle")
  /\ UNCHANGED <<file, lost, filesize, buffer, flushed>>

-----------------------------------------------------------------------------
(* The rest of pksav_fs_read_file_to_buffer                                *)

ReadFopen ==
  /\ pc = "read_fopen"
  /\ \/ CanOpen /\ handles' = handles + 1 /\ GoTo("read_calloc")
     \/ Fail("idle") /\ UNCHANGED handles
  /\ UNCHANGED <<file, lost, filesize, buffer, flushed>>

ReadCalloc ==
  /\ pc = "read_calloc"
  /\ GoTo("read_fread") \/ Fail("read_fclose")
  /\ UNCHANGED <<file, handles, lost, filesize, buffer, flushed>>

\* Wrong on purpose: a short read is tried again until it is long enough.
ReadsUntilLong ==
  /\ pc = "read_fread"
  /\ filesize <= Len(file)
  /\ buffer' = SubSeq(file, 1, filesize)
  /\ GoTo("read_fclose")
  /\ UNCHANGED <<file, handles, lost, filesize, flushed>>

\* Wrong on purpose: a short read is no error.
ReadsWhatItCan ==
  /\ pc = "read_fread"
  /\ \E num_read \in 0..filesize :
       /\ num_read <= Len(file)
       /\ buffer' = SubSeq(file, 1, num_read)
       /\ GoTo("read_fclose")
  /\ UNCHANGED <<file, handles, lost, filesize, flushed>>

ReadFread ==
  /\ pc = "read_fread"
  /\ \E num_read \in 0..filesize :
       /\ num_read <= Len(file)
       /\ \/ /\ num_read = filesize
             /\ buffer' = SubSeq(file, 1, num_read)
             /\ GoTo("read_fclose")
          \/ /\ num_read # filesize
             /\ Fail("read_fclose")
             /\ UNCHANGED buffer
  /\ UNCHANGED <<file, handles, lost, filesize, flushed>>

ReadFclose ==
  /\ pc = "read_fclose"
  /\ handles' = handles - 1
  /\ GoTo("idle") \/ Fail("idle")
  /\ UNCHANGED <<file, lost, filesize, buffer, flushed>>

-----------------------------------------------------------------------------
(* pksav_fs_write_buffer_to_file                                           *)

\* The bytes of the buffer up to the n-th reach the file, which another
\* program may have made shorter or longer since the last ones did.
FlushTo(n) ==
  /\ flushed' = n
  /\ file' = [i \in 1..(IF n > flushed /\ n > Len(file) THEN n ELSE Len(file)) |->
                CASE i \in (flushed + 1)..n -> buffer[i]
                  [] i \notin (flushed + 1)..n /\ i <= Len(file) -> file[i]
                  [] OTHER -> 0]

\* Wrong on purpose: the file is written in place, and not emptied first.
WritesInPlace ==
  /\ pc = "write_fopen"
  /\ \/ /\ CanOpen
        /\ handles' = handles + 1
        /\ file' = IF file = Missing THEN <<>> ELSE file
        /\ GoTo("write_fwrite")
     \/ Fail("idle") /\ UNCHANGED <<handles, file>>
  /\ UNCHANGED <<lost, filesize, buffer, flushed>>

\* The file is emptied when it is opened.
WriteFopen ==
  /\ pc = "write_fopen"
  /\ \/ /\ CanOpen
        /\ handles' = handles + 1
        /\ file' = <<>>
        /\ GoTo("write_fwrite")
     \/ Fail("idle") /\ UNCHANGED <<handles, file>>
  /\ UNCHANGED <<lost, filesize, buffer, flushed>>

WriteFwrite ==
  /\ pc = "write_fwrite"
  /\ \E n \in 0..Len(buffer) : FlushTo(n)
  /\ GoTo("write_fclose") \/ Fail("write_fclose")
  /\ UNCHANGED <<handles, lost, filesize, buffer>>

\* Wrong on purpose: that fclose failed is not looked at.
IgnoresFclose ==
  /\ pc = "write_fclose"
  /\ handles' = handles - 1
  /\ \E n \in flushed..Len(buffer) : FlushTo(n)
  /\ GoTo("idle")
  /\ UNCHANGED <<lost, filesize, buffer>>

WriteFclose ==
  /\ pc = "write_fclose"
  /\ handles' = handles - 1
  /\ \/ error = "NONE" /\ FlushTo(Len(buffer)) /\ GoTo("idle")
     \/ Fail("idle") /\ \E n \in flushed..Len(buffer) : FlushTo(n)
  /\ UNCHANGED <<lost, filesize, buffer>>

-----------------------------------------------------------------------------
(* The world around it.                                                    *)

\* Another program replaces what the file holds, or has just emptied it.
OtherProgram ==
  /\ file # Missing
  /\ file' \in Contents \cup {<<>>}
  /\ undisturbed' = FALSE
  /\ UNCHANGED <<pc, caller, error, handles, lost, filesize, buffer, flushed,
                 before>>

\* The process dies, and with it what its streams kept back.
Crash ==
  /\ pc # "idle"
  /\ pc' = "idle"
  /\ error' = "CRASH"
  /\ handles' = 0
  /\ lost' = 0
  /\ UNCHANGED <<file, caller, filesize, buffer, flushed, before, undisturbed>>

Init ==
  /\ file \in Contents \cup {<<>>, Missing}
  /\ pc = "idle"
  /\ caller = "none"
  /\ error = "NONE"
  /\ handles = 0
  /\ lost = 0
  /\ filesize = 0
  /\ buffer = Missing
  /\ flushed = 0
  /\ before = file
  /\ undisturbed = TRUE

Next ==
  \/ ReadFileToBuffer
  \/ WriteBufferToFile
  \/ SizeFopen
  \/ SizeFseek
  \/ SizeFtell
  \/ SizeFclose
  \/ ReadFopen
  \/ ReadCalloc
  \/ ReadFread
  \/ ReadFclose
  \/ WriteFopen
  \/ WriteFwrite
  \/ WriteFclose
  \/ OtherProgram
  \/ Crash

Spec == Init /\ [][Next]_vars

\* A call once made goes on: fs.c waits for nothing, and the C library returns.
\* Nothing is assumed of the client, of the other program or of crashes.
LibraryStep ==
  \/ SizeFopen \/ SizeFseek \/ SizeFtell \/ SizeFclose
  \/ ReadFopen \/ ReadCalloc \/ ReadFread \/ ReadFclose
  \/ WriteFopen \/ WriteFwrite \/ WriteFclose

FairSpec == Spec /\ WF_vars(LibraryStep)

-----------------------------------------------------------------------------
(* Properties.                                                             *)

Returned(function) == pc = "idle" /\ caller = function /\ error = "NONE"

\* Every variable keeps its type; no more streams are closed than opened.
TypeOK ==
  /\ file \in File
  /\ pc \in {"idle", "size_fopen", "size_fseek", "size_ftell", "size_fclose",
             "read_fopen", "read_calloc", "read_fread", "read_fclose",
             "write_fopen", "write_fwrite", "write_fclose"}
  /\ caller \in {"none", "read", "write"}
  /\ error \in {"NONE", "FILE_IO", "CRASH"}
  /\ handles \in 0..MaxHandles
  /\ lost \in 0..MaxHandles
  /\ filesize \in Nat
  /\ buffer \in File
  /\ flushed \in Nat
  /\ before \in File
  /\ undisturbed \in BOOLEAN

\* A read that reports no error has read all that the file holds and no more,
\* although the size is measured through one stream and the contents are read
\* through another (pksav_fs_read_file_to_buffer), if nobody else writes.
ReadIsWhole ==
  Returned("read") /\ undisturbed => buffer = file

\* While a file is written and after, whatever failed and wherever the process
\* died, it holds what it held or a prefix of what is written, never a mixture,
\* and all of it if no error was reported (pksav_fs_write_buffer_to_file), if
\* nobody else writes.  The sessions assume this of a save.
WriteIsTornAtMost ==
  caller = "write" /\ undisturbed =>
    /\ file = before \/ file \in Prefixes(buffer)
    /\ Returned("write") => file = buffer

\* Every call closes the stream it has opened exactly once, on whichever path
\* it returns and however often it is made, but for the one path that loses it:
\* where fseek fails in pksav_fs_filesize.
StreamsAreAccounted == pc = "idle" => handles = lost

\* Every call returns, also while another program keeps replacing the file
\* under it, and when no stream is left.
EveryCallReturns == pc # "idle" ~> pc = "idle"

\* A caller sees none of the steps of a call: the file changes when a write
\* ends, and what is read is there when a read has ended without an error.
Access ==
  INSTANCE FileAccess WITH
    file <- IF caller = "write" /\ pc # "idle" THEN before ELSE file,
    call <- IF pc = "idle" THEN "none" ELSE caller,
    error <- IF pc = "idle" THEN error ELSE "NONE",
    buffer <- IF caller = "read" /\ ~Returned("read") THEN Missing ELSE buffer

\* To its caller each function of fs.c is one step, the one the sessions take
\* reading and writing for, through all its calls of the C library and their
\* failures, crashes and other programs (pksav_fs_read_file_to_buffer,
\* pksav_fs_write_buffer_to_file).
ImplementsFileAccess == Access!Spec
=============================================================================
