------------------------------ MODULE Gen3Crypt ------------------------------
(***************************************************************************)
(* The generation 3 encryption, lib/gen3/crypt.c, and the Pokemon checksum *)
(* it must agree with, lib/gen3/checksum.c.                                *)
(*                                                                         *)
(* A machine word is the set of its one bits.  Exclusive or is then the    *)
(* symmetric difference and a mask is an intersection, so the module says  *)
(* exactly what the code computes for words of any width.  A Pokemon is    *)
(* reduced to what decides its encryption (personality % 24 and the word   *)
(* ot_id ^ personality), its four blocks of words, each block standing for *)
(* the three words the code treats alike, and its checksum.                *)
(***************************************************************************)
EXTENDS Naturals, Sequences, FiniteSets, FiniteSetsExt

CONSTANTS
  Bit,      \* bits of a 32-bit word
  LowBit    \* those of its low half, what & 0xFFFF keeps

ASSUME BitAssumption == 0 \in LowBit /\ LowBit \subseteq Bit

Word == SUBSET Bit
Zero == {}
One  == {0}

Xor(a, b) == SymDiff(a, b)
LowHalf(w) == w \cap LowBit

-----------------------------------------------------------------------------
(* The four blocks of a Pokemon, numbered as they lie in the struct once   *)
(* decrypted: growth, attacks, effort, misc.                               *)

Growth  == 0
Attacks == 1
Effort  == 2
Misc    == 3
Block   == 0..3

Row == 0..23

\* Row r, for personality % 24 = r: where the attacks, effort, growth and
\* misc blocks lie once encrypted.
GEN3_BLOCK_ORDERS ==
  << <<1, 2, 0, 3>>, <<1, 3, 0, 2>>, <<2, 1, 0, 3>>, <<3, 1, 0, 2>>,
     <<2, 3, 0, 1>>, <<3, 2, 0, 1>>, <<0, 2, 1, 3>>, <<0, 3, 1, 2>>,
     <<0, 1, 2, 3>>, <<0, 1, 3, 2>>, <<0, 3, 2, 1>>, <<0, 2, 3, 1>>,
     <<2, 0, 1, 3>>, <<3, 0, 1, 2>>, <<1, 0, 2, 3>>, <<1, 0, 3, 2>>,
     <<3, 0, 2, 1>>, <<2, 0, 3, 1>>, <<2, 3, 1, 0>>, <<3, 2, 1, 0>>,
     <<1, 3, 2, 0>>, <<1, 2, 3, 0>>, <<3, 1, 2, 0>>, <<2, 1, 3, 0>> >>

\* Where each block of a Pokemon of row r lies once encrypted.
BlockIndex(r) ==
  LET order == GEN3_BLOCK_ORDERS[r + 1]
  IN  [b \in Block |-> CASE b = Growth  -> order[3]
                         [] b = Attacks -> order[1]
                         [] b = Effort  -> order[2]
                         [] b = Misc    -> order[4]]

-----------------------------------------------------------------------------
Blocks == [Block -> Word]

\* The checksum adds the words of all four blocks.  A sum forgets the order
\* of what it adds and, up to collisions, nothing else: it is modelled as
\* how often each word occurs.
Checksum == [Word -> 0..4]
BlocksSum(blocks) ==
  [w \in Word |-> Cardinality({b \in Block : blocks[b] = w})]

Pokemon == [row : Row, key : Word, blocks : Blocks, checksum : Checksum]

\* What memset(0) and calloc leave.
ZeroPokemon ==
  [row |-> 0, key |-> Zero, blocks |-> [b \in Block |-> Zero],
   checksum |-> BlocksSum([b \in Block |-> Zero])]

\* Wrong on purpose: blocks moved the way decryption moves them.
EncryptBlocksBackwards(row, blocks) ==
  [p \in Block |-> blocks[BlockIndex(row)[p]]]

\* pksav_gen3_crypt_pokemon: every word is xored with the Pokemon's key, then
\* the blocks move from their place in the struct to the place their row gives
\* them, or back.  The checksum is not touched.
EncryptBlocks(row, blocks) ==
  [p \in Block |-> blocks[CHOOSE b \in Block : BlockIndex(row)[b] = p]]

DecryptBlocks(row, blocks) ==
  [b \in Block |-> blocks[BlockIndex(row)[b]]]

CryptPokemon(mon, should_encrypt) ==
  LET xored == [b \in Block |-> Xor(mon.blocks[b], mon.key)]
  IN  [mon EXCEPT !.blocks = IF should_encrypt
                             THEN EncryptBlocks(mon.row, xored)
                             ELSE DecryptBlocks(mon.row, xored)]

\* pksav_gen3_set_pokemon_checksum
SetPokemonChecksum(mon) == [mon EXCEPT !.checksum = BlocksSum(mon.blocks)]

\* pksav_gen3_save_crypt_items, for one item of the bag: only the low half of
\* the save's key reaches the 16-bit count.
CryptItems(count, security_key) == Xor(count, LowHalf(security_key))
=============================================================================
