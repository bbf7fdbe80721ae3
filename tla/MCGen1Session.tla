--------------------------- MODULE MCGen1Session ----------------------------
(* Gen1Session with three boxes and saves of both games. *)
EXTENDS Gen1Session

\* An image whose checksum is right.
Sound(image) == [image EXCEPT !.checksum = GetSaveChecksum(image)]

Saved(friendship, pikachu, num, box) ==
  Sound([money |-> 0, friendship |-> friendship, pikachu |-> pikachu,
         current_box_num |-> num, current_box |-> box,
         boxes |-> [n \in BoxNum |-> IF n = 1 THEN "full" ELSE "empty"],
         checksum |-> [money |-> 0, friendship |-> 0, pikachu |-> 0,
                       current_box_num |-> 0, current_box |-> "empty"]])

\* Bit 7 of the number says that the boxes were switched before.
MCInitialDisk ==
  { Saved(0, 0, 129, "full"),
    Saved(90, 0, 0, "empty"),
    Saved(0, 1, 2, "full"),
    [Saved(0, 0, 0, "empty") EXCEPT !.money = 1],
    Short }
=============================================================================
