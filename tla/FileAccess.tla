----------------------------- MODULE FileAccess -----------------------------
(***************************************************************************)
(* What the sessions assume of the file they read and write: a call on it  *)
(* takes effect at once, when it ends.  A read that succeeds is the whole  *)
(* file.  A write that succeeds replaces it; one that fails, or dies with  *)
(* its process, leaves it alone or leaves a prefix of what was written.    *)
(* Of a file another program writes meanwhile nothing is promised but that *)
(* the call ends as one of the two.                                        *)
(***************************************************************************)
EXTENDS Integers, SequencesExt

CONSTANTS
  Byte,
  Contents,   \* what is written
  Missing     \* no file, or nothing read

VARIABLES
  file,         \* what the file holds, as the last call on it left it
  call,         \* "read" or "write", or "none" between two calls
  error,        \* what the last call returned, "NONE" during a call
  buffer,       \* what was read, or is written
  undisturbed   \* whether the other program has kept away since it began

vars == <<file, call, error, buffer, undisturbed>>

File == Seq(Byte) \cup {Missing}

Init ==
  /\ file \in Contents \cup {<<>>, Missing}
  /\ call = "none"
  /\ error = "NONE"
  /\ buffer = Missing
  /\ undisturbed = TRUE

Begin(function) ==
  /\ call = "none"
  /\ call' = function
  /\ error' = "NONE"
  /\ undisturbed' = TRUE
  /\ UNCHANGED file

BeginRead == Begin("read") /\ buffer' = Missing
BeginWrite == Begin("write") /\ buffer' \in Contents

End(function, result) ==
  /\ call = function
  /\ call' = "none"
  /\ error' = result
  /\ UNCHANGED undisturbed

Read ==
  /\ End("read", "NONE")
  /\ buffer' \in Seq(Byte)
  /\ undisturbed => buffer' = file
  /\ UNCHANGED file

ReadFails(result) == End("read", result) /\ UNCHANGED <<file, buffer>>

Write ==
  /\ End("write", "NONE")
  /\ file' \in File
  /\ undisturbed => file' = buffer
  /\ UNCHANGED buffer

WriteFails(result) ==
  /\ End("write", result)
  /\ file' \in File
  /\ undisturbed => file' = file \/ file' \in Prefixes(buffer)
  /\ UNCHANGED buffer

Crash == ReadFails("CRASH") \/ WriteFails("CRASH")

\* What it writes during a write shows in the file that one leaves.
OtherProgram ==
  /\ file' \in IF call = "write" THEN {file} ELSE Contents \cup {<<>>}
  /\ undisturbed' = FALSE
  /\ UNCHANGED <<call, error, buffer>>

Next ==
  \/ BeginRead
  \/ BeginWrite
  \/ Read
  \/ ReadFails("FILE_IO")
  \/ Write
  \/ WriteFails("FILE_IO")
  \/ Crash
  \/ OtherProgram

Spec == Init /\ [][Next]_vars
=============================================================================
