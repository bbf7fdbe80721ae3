---------------------------- MODULE SaveSession -----------------------------
(***************************************************************************)
(* What a save session promises its client, whatever the file format: a    *)
(* file is loaded, changed in memory through the pointers of the save      *)
(* struct, and saved.  Contents are opaque.  A save that succeeds makes    *)
(* the file and the buffer behind the session hold what the client sees.   *)
(* A save that fails, or a crash during one, may leave the file as it was, *)
(* unreadable, holding what was last loaded or saved, or holding what was  *)
(* being saved, but never anything else.                                   *)
(*                                                                         *)
(* Generation 3 decrypts a copy of the save: after a failed save the       *)
(* session can only be closed.  In generations 1 and 2 the client works in *)
(* the buffer itself (Live), which its changes make unreadable until they  *)
(* are saved, and a session survives a failed save.                        *)
(***************************************************************************)
CONSTANTS
  Content,     \* what a client can see of a save
  NoContent,   \* of a file or buffer that does not load, or no session
  Live         \* whether the client works in the buffer itself

VARIABLES
  status,   \* "closed", "open", or "failed" after a save that failed
  view,     \* what the client sees through its pointers
  file,     \* what the file loads as
  buffer    \* what the session's buffer, or one the client holds, loads as

vars == <<status, view, file, buffer>>

MaybeContent == Content \cup {NoContent}

TypeOK ==
  /\ status \in {"closed", "open", "failed"}
  /\ view \in MaybeContent
  /\ file \in MaybeContent
  /\ buffer \in MaybeContent

Init ==
  /\ status = "closed"
  /\ view = NoContent
  /\ file \in MaybeContent
  /\ buffer = NoContent

Open(content) ==
  /\ status = "closed"
  /\ content # NoContent
  /\ status' = "open"
  /\ view' = content
  /\ buffer' = content
  /\ UNCHANGED file

\* The client reads the file into a buffer of its own, to load it from there.
TakeBuffer ==
  /\ status = "closed"
  /\ buffer' = file
  /\ UNCHANGED <<status, view, file>>

Change ==
  /\ status = "open"
  /\ view' \in Content
  /\ buffer' \in IF Live THEN {view', NoContent} ELSE {buffer}
  /\ UNCHANGED <<status, file>>

Save ==
  /\ status = "open"
  /\ file' = view
  /\ buffer' = view
  /\ UNCHANGED <<status, view>>

Torn == {file, buffer, view, NoContent}

FailedSave ==
  /\ status = "open"
  /\ status' = IF Live THEN "open" ELSE "failed"
  /\ file' \in Torn
  /\ buffer' = view
  /\ view' = IF Live THEN view ELSE NoContent

\* The buffer goes with the session unless it is the client's.
Close ==
  /\ status # "closed"
  /\ status' = "closed"
  /\ view' = NoContent
  /\ buffer' \in {buffer, NoContent}
  /\ UNCHANGED file

Crash ==
  /\ status' = "closed"
  /\ view' = NoContent
  /\ file' \in IF status = "open" THEN Torn ELSE {file}
  /\ buffer' = NoContent

Next ==
  \/ Open(file)
  \/ Open(buffer)
  \/ TakeBuffer
  \/ Change
  \/ Save
  \/ FailedSave
  \/ Close
  \/ Crash

Spec == Init /\ [][Next]_vars
=============================================================================
