-------------------------------- MODULE MCFs --------------------------------
(* Fs with files of up to three bytes and two streams at most. *)
EXTENDS Fs

MCContents == {<<1>>, <<1, 2>>, <<2, 2, 1>>}
=============================================================================
