--------------------------- MODULE MCGen3Session ----------------------------
(* Gen3Session on the save files of MCGen3Save. *)
EXTENDS MCGen3Save, Gen3Session
=============================================================================
