----------------------------- MODULE MCGen3Save -----------------------------
(***************************************************************************)
(* Small instances of Gen3Save: four sections, one of them of the storage  *)
(* system, words of one low and one high bit, and saves of every game.     *)
(***************************************************************************)
EXTENDS Gen3Save, TLC

MCSection == {0, 1, 4, 5}
MCBit == {0, 1}
MCLowBit == {0}

Full == {0, 1}
High == {1}

\* Rows 0 (identity), 4 (blocks 0 -> 0, 1 -> 2 -> 3 -> 1) and 17: no row but
\* the first undoes itself.
Mon(row, key, growth) ==
  [row |-> row, key |-> key,
   blocks |-> [b \in Block |-> IF b = Growth THEN growth
                               ELSE IF b = Attacks THEN High ELSE Zero],
   checksum |-> BlocksSum([b \in Block |-> Zero])]

\* As the game stores it: checksummed, then encrypted.
Stored(mon) == CryptPokemon(SetPokemonChecksum(mon), TRUE)

\* Changed by a client that leaves the checksum to the library.
MCEditPokemon == {Mon(4, Full, One)}
MCEditWord == {One, High}

Words0(type) ==
  CASE type = "RS"      -> [code |-> Zero, e |-> Zero, f |-> Full, g |-> Zero]
    [] type = "EMERALD" -> [code |-> Full, e |-> Full, f |-> Zero, g |-> Zero]
    [] type = "FRLG"    -> [code |-> One,  e |-> Zero, f |-> Full, g |-> Full]

Data(type, s, money) ==
  LET w == Words0(type)
      word == [c \in WordCell |->
                 CASE s = 0 /\ c = "0x0AC" -> w.code
                   [] s = 0 /\ c = "0x1F4" -> w.e
                   [] s = 0 /\ c = "0xAF8" -> w.f
                   [] s = 0 /\ c = "0xF20" -> w.g
                   [] s = 1 /\ c = "money" -> money
                   [] OTHER -> Zero]
      mon == CASE s = 1 -> Stored(Mon(17, High, Zero))
               [] s = 4 -> Stored(Mon(0, Full, High))
               [] s = 5 -> Stored(Mon(4, One, Zero))
               [] OTHER -> ZeroPokemon
  IN  [word |-> word, mon |-> mon]

\* A slot in which the section ids are nums, as the game wrote it.
Slot(type, nums, index, money) ==
  [p \in Section |->
     LET d == Data(type, nums[p], money)
     IN  [id |-> nums[p], magic |-> TRUE, index |-> index,
          checksum |-> d, data |-> d]]

InOrder == (0 :> 0) @@ (1 :> 1) @@ (4 :> 4) @@ (5 :> 5)
Rotated == (0 :> 5) @@ (1 :> 0) @@ (4 :> 1) @@ (5 :> 4)
Swapped == (0 :> 1) @@ (1 :> 0) @@ (4 :> 5) @@ (5 :> 4)
\* No section 4: section 5 is there twice.
Doubled == (0 :> 5) @@ (1 :> 0) @@ (4 :> 1) @@ (5 :> 5)
\* No section 0.
Headless == (0 :> 1) @@ (1 :> 1) @@ (4 :> 4) @@ (5 :> 5)

\* Flash never written: every byte 0xFF.
Erased ==
  [p \in Section |-> [id |-> NoSection, magic |-> FALSE, index |-> IndexMod - 1,
                      checksum |-> ZeroData, data |-> ZeroData]]

\* A slot whose validation is wrong.
Spoilt(slot) == [slot EXCEPT ![4].magic = FALSE]

\* A section with a good validation and an id that is none.
Stray(slot) == [slot EXCEPT ![4].id = NoSection]

\* A slot the game was still writing: only the first section has the new index.
HalfWritten(slot, index) == [slot EXCEPT ![0].index = index]

MCInitialDisk ==
  { <<Slot("EMERALD", Rotated, 1, Zero), Slot("EMERALD", Swapped, 2, High)>>,
    <<Slot("FRLG", Rotated, 2, Zero), Spoilt(Slot("FRLG", Rotated, 1, High))>>,
    <<Slot("RS", Rotated, 1, Zero), Slot("RS", InOrder, 1, One)>>,
    <<Slot("EMERALD", Rotated, 1, Full)>>,
    <<HalfWritten(Slot("EMERALD", Swapped, 0, Zero), 2),
      HalfWritten(Slot("EMERALD", Rotated, 3, High), 1)>>,
    <<Slot("FRLG", InOrder, 2, Zero), Erased>>,
    <<Stray(Slot("RS", InOrder, 1, Zero))>>,
    <<>> }

\* Slots whose section ids are all in range and not all different.
MCDoubledDisk ==
  { <<Slot("EMERALD", Rotated, 1, Zero), Slot("EMERALD", Doubled, 2, High)>>,
    <<Slot("RS", Headless, 1, Zero)>> }
=============================================================================
