------------------------------- MODULE MCFields -------------------------------
(* Fields with the numbers at the edges of bytes and lists, and values at   *)
(* the edges of their fields: 0, 1, 12, 15, 16.                             *)
EXTENDS Fields

MCNumbers == {0, 1, 8, 9, 386, 387}
MCValues == {{}, {0}, {2, 3}, 0..3, {4}}
MCLoaded == {{}, 0..31}
=============================================================================
