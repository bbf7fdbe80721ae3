--------------------------- MODULE MCGen2Session ----------------------------
(* Gen2Session with three boxes and saves of all games. *)
EXTENDS Gen2Session

\* An image in which these checksums are right and no others.
Saved(num, box, cells) ==
  LET image ==
        [money |-> 0, current_box_num |-> num, unreached |-> "egg",
         current_box |-> box,
         boxes |-> [n \in BoxNum |-> IF n = 1 THEN "full" ELSE "empty"],
         checksum1 |-> [c \in Checksum1Cell |-> NoSum],
         checksum2 |-> [c \in Checksum2Cell |-> NoSum]]
  IN  [image EXCEPT
         !.checksum1 = [c \in Checksum1Cell |->
                          IF c \in cells THEN GetSaveChecksum1(image) ELSE NoSum],
         !.checksum2 = [c \in Checksum2Cell |->
                          IF c \in cells THEN GetSaveChecksum2(image) ELSE NoSum]]

MCInitialDisk ==
  { Saved(0, "empty", {"0x2D69", "0x7E6D"}),
    Saved(2, "full", {"0x2D69"}),
    Saved(1, "full", {"0x2D02", "0x1F0D"}),
    Saved(0, "empty", {"0x1F0D"}),
    Short }
=============================================================================
