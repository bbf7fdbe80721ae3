---------------------------- MODULE Gen3Session -----------------------------
(***************************************************************************)
(* Gen3Save implements SaveSession.  Two history variables record what the *)
(* file and the session's buffer load as; they constrain nothing.          *)
(***************************************************************************)
EXTENDS Gen3Save

VARIABLES file, buffer

HInit == Init /\ file = Decode(disk) /\ buffer = Decode(p_raw_save)

HNext == Next /\ file' = Decode(disk') /\ buffer' = Decode(p_raw_save')

HSpec == HInit /\ [][HNext]_<<vars, file, buffer>>

Session == INSTANCE SaveSession WITH
             view <- IF status = "open" THEN intended ELSE NoContent,
             Live <- FALSE

\* A session implements the abstract one: a save that succeeds makes the file
\* load as what the client had stored; one that fails, or a crash, leaves the
\* file as it was, unreadable, or loading as the content last loaded or saved
\* or as the one being saved, never as a mixture; and the game a file is
\* taken for never changes.
ImplementsSession == Session!Spec
=============================================================================
