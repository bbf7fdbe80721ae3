---------------------------- MODULE Gen2Session -----------------------------
(* Gen2Save implements SaveSession.                                        *)
EXTENDS Gen2Save

Session == INSTANCE SaveSession WITH
             status <- IF IsLoaded THEN "open" ELSE "closed",
             view   <- intended,
             file   <- Decode(disk),
             buffer <- Decode(p_raw_save),
             Live   <- TRUE

\* A session implements the abstract one: a save that succeeds makes the file
\* load as what the client had stored, all boxes included; one that fails, or
\* a crash, leaves the file as it was, unreadable or loading as the content
\* being saved; a session survives a failed save; and the buffer, whose
\* checksums are only set by a save, never loads as anything but what the
\* client sees.
ImplementsSession == Session!Spec
=============================================================================
