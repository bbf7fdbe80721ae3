---------------------------- MODULE Gen1Session -----------------------------
(* Gen1Save implements SaveSession.                                        *)
EXTENDS Gen1Save

\* What a file with this content loads as.  The game is told by bytes among
\* them, whatever game the session was opened with: Yellow without anything in
\* its Pikachu area comes back as Red or Blue once the client has stored a
\* friendship of 0.
AsDetected(content) ==
  IF content = NoContent THEN NoContent
  ELSE [content EXCEPT !.type = IF content.friendship = 0 /\ content.pikachu = 0
                                THEN "RED_BLUE" ELSE "YELLOW"]

Session == INSTANCE SaveSession WITH
             status <- IF IsLoaded THEN "open" ELSE "closed",
             view   <- AsDetected(intended),
             file   <- Decode(disk),
             buffer <- Decode(p_raw_save),
             Live   <- TRUE

\* A session implements the abstract one: a save that succeeds makes the file
\* load as what the client had stored, all boxes included, and as the game that
\* this content tells (AsDetected); one that fails, or a crash, leaves the file
\* as it was, unreadable or loading as the content being saved; a session
\* survives a failed save; and the buffer, whose checksum is only set by a save,
\* never loads as anything but what the client sees.
ImplementsSession == Session!Spec
=============================================================================
