------------------------- MODULE Gen3SectionsProofs -------------------------
(***************************************************************************)
(* What the generation 3 encryption guarantees, for words of any width:    *)
(* decrypting undoes encrypting and encrypting undoes decrypting, for      *)
(* every personality, and what is not a block is left alone.  And what     *)
(* shuffling, encrypting and spreading out a save slot preserve, for any   *)
(* sections, any order of them and any contents.                           *)
(***************************************************************************)
EXTENDS Gen3Sections, FiniteSetTheorems, WellFoundedInduction, TLAPS

\* Exclusive or with the same word twice changes nothing.
LEMMA XorInvolution ==
  ASSUME NEW a \in Word, NEW k \in Word
  PROVE  Xor(a, k) \in Word /\ Xor(Xor(a, k), k) = a
  BY Zenon DEF Xor, SymDiff, Word

\* The same for the half of a word a 16-bit count is xored with.
LEMMA ItemsInvolution ==
  ASSUME NEW a \in Word, NEW k \in Word
  PROVE  /\ CryptItems(a, k) \in Word
         /\ CryptItems(CryptItems(a, k), k) = a
         /\ Xor(a, LowHalf(k)) \in Word
         /\ Xor(Xor(a, LowHalf(k)), LowHalf(k)) = a
  <1>1. LowHalf(k) \in Word
    BY Zenon DEF LowHalf, Word
  <1> QED
    BY <1>1, XorInvolution DEF CryptItems

\* Each row of GEN3_BLOCK_ORDERS is four places, no two of them the same.
LEMMA OrdersAreDistinct ==
  ASSUME NEW r \in Row
  PROVE  LET o == GEN3_BLOCK_ORDERS[r + 1]
         IN  /\ o[1] \in Block /\ o[2] \in Block
             /\ o[3] \in Block /\ o[4] \in Block
             /\ o[1] # o[2] /\ o[1] # o[3] /\ o[1] # o[4]
             /\ o[2] # o[3] /\ o[2] # o[4] /\ o[3] # o[4]
  <1>1. CASE r \in 0..7
    BY <1>1 DEF GEN3_BLOCK_ORDERS, Block
  <1>2. CASE r \in 8..15
    BY <1>2 DEF GEN3_BLOCK_ORDERS, Block
  <1>3. CASE r \in 16..23
    BY <1>3 DEF GEN3_BLOCK_ORDERS, Block
  <1> QED
    BY <1>1, <1>2, <1>3 DEF Row

\* So each row is a permutation of the blocks.
LEMMA BlockIndexIsPermutation ==
  ASSUME NEW r \in Row
  PROVE  /\ BlockIndex(r) \in [Block -> Block]
         /\ \A b, c \in Block : BlockIndex(r)[b] = BlockIndex(r)[c] => b = c
         /\ \A p \in Block : \E b \in Block : BlockIndex(r)[b] = p
  <1> DEFINE o == GEN3_BLOCK_ORDERS[r + 1]
  <1>1. /\ o[1] \in Block /\ o[2] \in Block /\ o[3] \in Block /\ o[4] \in Block
        /\ o[1] # o[2] /\ o[1] # o[3] /\ o[1] # o[4]
        /\ o[2] # o[3] /\ o[2] # o[4] /\ o[3] # o[4]
    BY OrdersAreDistinct
  <1>2. /\ DOMAIN BlockIndex(r) = Block
        /\ BlockIndex(r) = [b \in Block |-> BlockIndex(r)[b]]
        /\ BlockIndex(r)[0] = o[3] /\ BlockIndex(r)[1] = o[1]
        /\ BlockIndex(r)[2] = o[2] /\ BlockIndex(r)[3] = o[4]
    BY DEF BlockIndex, Block, Growth, Attacks, Effort, Misc
  <1>3. Block = {0, 1, 2, 3}
    BY DEF Block
  <1> HIDE DEF o
  <1>4. BlockIndex(r) \in [Block -> Block]
    BY <1>1, <1>2, <1>3
  <1>5. \A b, c \in Block : BlockIndex(r)[b] = BlockIndex(r)[c] => b = c
    BY <1>1, <1>2, <1>3
  <1>6. \A p \in Block : \E b \in Block : BlockIndex(r)[b] = p
    BY <1>1, <1>2, <1>3
  <1> QED
    BY <1>4, <1>5, <1>6

\* Moving blocks to where a row puts them is undone by moving them back, and
\* the other way round.
LEMMA BlocksInvolution ==
  ASSUME NEW r \in Row, NEW x \in Blocks
  PROVE  /\ EncryptBlocks(r, x) \in Blocks
         /\ DecryptBlocks(r, x) \in Blocks
         /\ DecryptBlocks(r, EncryptBlocks(r, x)) = x
         /\ EncryptBlocks(r, DecryptBlocks(r, x)) = x
  <1> DEFINE at == BlockIndex(r)
             home(p) == CHOOSE b \in Block : at[b] = p
  <1>1. /\ \A b \in Block : at[b] \in Block
        /\ \A b, c \in Block : at[b] = at[c] => b = c
        /\ \A p \in Block : \E b \in Block : at[b] = p
    BY BlockIndexIsPermutation
  <1> HIDE DEF at
  <1>2. \A p \in Block : home(p) \in Block /\ at[home(p)] = p
    BY <1>1
  <1>3. \A b \in Block : home(at[b]) = b
    BY <1>1, <1>2
  <1>4. /\ EncryptBlocks(r, x) = [p \in Block |-> x[home(p)]]
        /\ DecryptBlocks(r, x) = [b \in Block |-> x[at[b]]]
    BY DEF EncryptBlocks, DecryptBlocks, at
  <1> HIDE DEF home
  <1>5. EncryptBlocks(r, x) \in Blocks /\ DecryptBlocks(r, x) \in Blocks
    BY <1>1, <1>2, <1>4 DEF Blocks
  <1>6. DecryptBlocks(r, EncryptBlocks(r, x)) = x
    <2>1. DecryptBlocks(r, EncryptBlocks(r, x))
            = [b \in Block |-> EncryptBlocks(r, x)[at[b]]]
      BY DEF DecryptBlocks, at
    <2>2. \A b \in Block : EncryptBlocks(r, x)[at[b]] = x[b]
      BY <1>1, <1>3, <1>4
    <2> QED
      BY <2>1, <2>2 DEF Blocks
  <1>7. EncryptBlocks(r, DecryptBlocks(r, x)) = x
    <2>1. EncryptBlocks(r, DecryptBlocks(r, x))
            = [p \in Block |-> DecryptBlocks(r, x)[home(p)]]
      BY DEF EncryptBlocks, at, home
    <2>2. \A p \in Block : DecryptBlocks(r, x)[home(p)] = x[p]
      BY <1>2, <1>4
    <2> QED
      BY <2>1, <2>2 DEF Blocks
  <1> QED
    BY <1>5, <1>6, <1>7

\* Xoring every word of the blocks.
\* Crypting all words of a Pokemon twice gives them back.
LEMMA XorBlocks ==
  ASSUME NEW x \in Blocks, NEW k \in Word
  PROVE  /\ [b \in Block |-> Xor(x[b], k)] \in Blocks
         /\ [b \in Block |-> Xor([c \in Block |-> Xor(x[c], k)][b], k)] = x
  BY XorInvolution DEF Blocks

\* Permuting and xoring commute: the key is the same for every word.
LEMMA PermuteXor ==
  ASSUME NEW r \in Row, NEW x \in Blocks, NEW k \in Word
  PROVE  /\ [b \in Block |-> Xor(EncryptBlocks(r, x)[b], k)]
              = EncryptBlocks(r, [b \in Block |-> Xor(x[b], k)])
         /\ [b \in Block |-> Xor(DecryptBlocks(r, x)[b], k)]
              = DecryptBlocks(r, [b \in Block |-> Xor(x[b], k)])
  <1>1. /\ \A b \in Block : BlockIndex(r)[b] \in Block
        /\ \A p \in Block : (CHOOSE b \in Block : BlockIndex(r)[b] = p) \in Block
    BY BlockIndexIsPermutation
  <1> QED
    BY <1>1 DEF EncryptBlocks, DecryptBlocks

\* The fields of an encrypted or decrypted Pokemon.
LEMMA CryptFields ==
  ASSUME NEW mon \in Pokemon, NEW e \in BOOLEAN
  PROVE  LET c == CryptPokemon(mon, e)
             x == [b \in Block |-> Xor(mon.blocks[b], mon.key)]
         IN  /\ c \in Pokemon
             /\ c.row = mon.row /\ c.key = mon.key /\ c.checksum = mon.checksum
             /\ c.blocks = IF e THEN EncryptBlocks(mon.row, x)
                                ELSE DecryptBlocks(mon.row, x)
  <1> DEFINE x == [b \in Block |-> Xor(mon.blocks[b], mon.key)]
  <1>1. mon.row \in Row /\ mon.key \in Word /\ mon.blocks \in Blocks
    BY DEF Pokemon
  <1>2. x \in Blocks
    BY <1>1, XorBlocks
  <1> HIDE DEF x
  <1>3. EncryptBlocks(mon.row, x) \in Blocks /\ DecryptBlocks(mon.row, x) \in Blocks
    BY <1>1, <1>2, BlocksInvolution
  <1>4. CryptPokemon(mon, e) =
          [mon EXCEPT !.blocks = IF e THEN EncryptBlocks(mon.row, x)
                                      ELSE DecryptBlocks(mon.row, x)]
    BY DEF CryptPokemon, x
  <1>5. /\ CryptPokemon(mon, e) \in Pokemon
        /\ CryptPokemon(mon, e).row = mon.row
        /\ CryptPokemon(mon, e).key = mon.key
        /\ CryptPokemon(mon, e).checksum = mon.checksum
        /\ CryptPokemon(mon, e).blocks = IF e THEN EncryptBlocks(mon.row, x)
                                              ELSE DecryptBlocks(mon.row, x)
    BY <1>3, <1>4 DEF Pokemon
  <1> QED
    BY <1>5 DEF x

\* pksav_gen3_crypt_pokemon: decrypting what was encrypted, or encrypting what
\* was decrypted, gives the Pokemon back, whatever its personality and ids.
THEOREM CryptPokemonInvolution ==
  ASSUME NEW mon \in Pokemon, NEW e \in BOOLEAN
  PROVE  CryptPokemon(CryptPokemon(mon, e), ~e) = mon
  <1> DEFINE x == [b \in Block |-> Xor(mon.blocks[b], mon.key)]
             c == CryptPokemon(mon, e)
             d == CryptPokemon(c, ~e)
             y == [b \in Block |-> Xor(c.blocks[b], c.key)]
  <1>1. mon.row \in Row /\ mon.key \in Word /\ mon.blocks \in Blocks
    BY DEF Pokemon
  <1>2. /\ c \in Pokemon
        /\ c.row = mon.row /\ c.key = mon.key /\ c.checksum = mon.checksum
        /\ c.blocks = IF e THEN EncryptBlocks(mon.row, x)
                           ELSE DecryptBlocks(mon.row, x)
    BY CryptFields
  <1>3. /\ d \in Pokemon
        /\ d.row = c.row /\ d.key = c.key /\ d.checksum = c.checksum
        /\ d.blocks = IF e THEN DecryptBlocks(c.row, y)
                           ELSE EncryptBlocks(c.row, y)
    <2>1. (~e) \in BOOLEAN
      OBVIOUS
    <2> QED
      BY <1>2, <2>1, CryptFields
  <1>4. x \in Blocks /\ [b \in Block |-> Xor(x[b], mon.key)] = mon.blocks
    BY <1>1, XorBlocks
  <1> HIDE DEF x, c, d
  <1>5. d.blocks = mon.blocks
    <2>1. CASE e
      <3>1. y = [b \in Block |-> Xor(EncryptBlocks(mon.row, x)[b], mon.key)]
        BY <2>1, <1>2
      <3>2. y = EncryptBlocks(mon.row, [b \in Block |-> Xor(x[b], mon.key)])
        BY <3>1, <1>1, <1>4, PermuteXor
      <3>3. y = EncryptBlocks(mon.row, mon.blocks)
        BY <3>2, <1>4
      <3> QED
        BY <3>3, <2>1, <1>1, <1>2, <1>3, BlocksInvolution
    <2>2. CASE ~e
      <3>1. y = [b \in Block |-> Xor(DecryptBlocks(mon.row, x)[b], mon.key)]
        BY <2>2, <1>2
      <3>2. y = DecryptBlocks(mon.row, [b \in Block |-> Xor(x[b], mon.key)])
        BY <3>1, <1>1, <1>4, PermuteXor
      <3>3. y = DecryptBlocks(mon.row, mon.blocks)
        BY <3>2, <1>4
      <3> QED
        BY <3>3, <2>2, <1>1, <1>2, <1>3, BlocksInvolution
    <2> QED
      BY <2>1, <2>2
  <1>6. d = mon
    BY <1>2, <1>3, <1>5 DEF Pokemon
  <1> QED
    BY <1>6 DEF c, d

\* How often a word occurs in four blocks is a number up to four.
LEMMA BlocksSumType ==
  ASSUME NEW x \in Blocks
  PROVE  BlocksSum(x) \in Checksum
  <1>1. IsFiniteSet(Block) /\ Cardinality(Block) = 4
    <2>1. 0 \in Int /\ 3 \in Int
      OBVIOUS
    <2>2. /\ IsFiniteSet(0..3)
          /\ Cardinality(0..3) = IF 0 > 3 THEN 0 ELSE 3 - 0 + 1
      BY <2>1, FS_Interval, Zenon
    <2> QED
      BY <2>2 DEF Block
  <1>2. \A w \in Word : Cardinality({b \in Block : x[b] = w}) \in 0..4
    <2> TAKE w \in Word
    <2> DEFINE S == {b \in Block : x[b] = w}
    <2>1. IsFiniteSet(S) /\ Cardinality(S) <= Cardinality(Block)
      BY <1>1, FS_Subset
    <2>2. Cardinality(S) \in Nat
      BY <2>1, FS_CardinalityType
    <2> QED
      BY <1>1, <2>1, <2>2
  <1> QED
    BY <1>2 DEF BlocksSum, Checksum

\* Setting the checksum changes nothing else.
LEMMA SetChecksumFields ==
  ASSUME NEW mon \in Pokemon
  PROVE  LET c == SetPokemonChecksum(mon)
         IN  /\ c \in Pokemon
             /\ c.row = mon.row /\ c.key = mon.key /\ c.blocks = mon.blocks
             /\ c.checksum = BlocksSum(mon.blocks)
  BY BlocksSumType DEF SetPokemonChecksum, Pokemon

\* What calloc leaves is a Pokemon.
LEMMA ZeroPokemonType == ZeroPokemon \in Pokemon
  <1>1. [b \in Block |-> Zero] \in Blocks
    BY DEF Blocks, Zero, Word
  <1>2. Zero \in Word /\ 0 \in Row
    BY DEF Zero, Word, Row
  <1> QED
    BY <1>1, <1>2, BlocksSumType DEF ZeroPokemon, Pokemon

-----------------------------------------------------------------------------
\* The section numbers the code singles out, and where the boxes lie.
LEMMA SectionFacts ==
  /\ 0 \in Section /\ 1 \in Section /\ 4 \in Section /\ 5 \in Section
  /\ Section \subseteq Nat
  /\ PcSection \subseteq Section
  /\ 0 \notin PcSection /\ 1 \notin PcSection /\ 4 \notin PcSection
  BY SectionAssumption DEF NUM_SAVE_SECTIONS, PcSection

\* The position the loop of unshuffle keeps, the last, is one that holds the
\* section.
LEMMA LastHolder ==
  ASSUME NEW S \in SUBSET Section, S # {}
  PROVE  Max(S) \in S
  <1>1. S \subseteq 0..13
    BY SectionAssumption DEF NUM_SAVE_SECTIONS
  <1>2. \E x \in S : \A y \in S : x >= y
    <2> DEFINE T == {n \in Nat : 13 - n \in S}
    <2>1. PICK x \in S : x \in 0..13
      BY <1>1
    <2>2. 13 - x \in T
      BY <2>1
    <2>3. T \subseteq Nat /\ T # {}
      BY <2>2
    <2>4. PICK n \in T : \A m \in T : <<m, n>> \notin OpToRel(<, Nat)
      BY <2>3, NatLessThanWellFounded, WFMin, Zenon
    <2>5. \A m \in T : ~(m < n)
      BY <2>3, <2>4 DEF OpToRel
    <2>6. \A y \in S : 13 - n >= y
      <3> TAKE y \in S
      <3>1. y \in 0..13
        BY <1>1
      <3>2. 13 - y \in T
        BY <3>1
      <3>3. n \in Nat /\ 13 - y \in Nat
        BY <2>3, <3>1
      <3>4. ~(13 - y < n)
        BY <2>5, <3>2
      <3> QED
        BY <3>1, <3>3, <3>4
    <2> QED
      BY <2>6
  <1> QED
    BY <1>2, Zenon DEF Max

\* pksav_gen3_save_unshuffle_sections puts a section at its number.
LEMMA UnshuffleFields ==
  ASSUME NEW slot \in SaveSlot, NEW old \in SaveSlot
  PROVE  LET u == UnshuffleSections(slot, old)
         IN  /\ u \in SaveSlot
             /\ \A s \in Section : Holders(slot, s) # {} => u[s].id = s
  <1> DEFINE u == UnshuffleSections(slot, old)
  <1>1. \A s \in Section : Holders(slot, s) \in SUBSET Section
    BY DEF Holders
  <1>2. \A s \in Section : Holders(slot, s) # {} =>
           Max(Holders(slot, s)) \in Section /\ slot[Max(Holders(slot, s))].id = s
    <2> SUFFICES ASSUME NEW s \in Section, Holders(slot, s) # {}
                 PROVE  Max(Holders(slot, s)) \in Holders(slot, s)
      BY DEF Holders
    <2> QED
      BY <1>1, LastHolder
  <1>3. \A s \in Section :
           u[s] = IF Holders(slot, s) = {} THEN old[s]
                  ELSE slot[Max(Holders(slot, s))]
    BY DEF UnshuffleSections
  <1>4. u = [s \in Section |-> u[s]]
    BY DEF UnshuffleSections
  <1> HIDE DEF u
  <1>5. \A s \in Section : u[s] \in SaveSection
    BY <1>2, <1>3 DEF SaveSlot
  <1>6. u \in SaveSlot
    BY <1>4, <1>5, Zenon DEF SaveSlot
  <1>7. \A s \in Section : Holders(slot, s) # {} => u[s].id = s
    BY <1>2, <1>3
  <1> QED
    BY <1>6, <1>7 DEF u

\* What is shuffled out in some order and unshuffled again is what it was, for
\* every section the order mentions.
LEMMA ShuffleRoundTrip ==
  ASSUME NEW u \in SaveSlot, NEW nums \in [Section -> Section],
         NEW old \in SaveSlot,
         \A p \in Section : u[nums[p]].id = nums[p]
  PROVE  LET slot == ShuffleSections(u, nums)
         IN  /\ slot \in SaveSlot
             /\ SectionNums(slot) = nums
             /\ \A s \in Section :
                  UnshuffleSections(slot, old)[s] =
                    IF \E p \in Section : nums[p] = s THEN u[s] ELSE old[s]
  <1> DEFINE slot == ShuffleSections(u, nums)
  <1>1. \A p \in Section : slot[p] = u[nums[p]]
    BY DEF ShuffleSections
  <1>2. slot \in SaveSlot
    BY DEF ShuffleSections, SaveSlot
  <1>3. SectionNums(slot) = nums
    BY <1>1 DEF SectionNums
  <1> HIDE DEF slot
  <1>4. \A s \in Section : Holders(slot, s) = {p \in Section : nums[p] = s}
    BY <1>1 DEF Holders
  <1>5. ASSUME NEW s \in Section
        PROVE  UnshuffleSections(slot, old)[s] =
                 IF \E p \in Section : nums[p] = s THEN u[s] ELSE old[s]
    <2>1. UnshuffleSections(slot, old)[s] =
            IF Holders(slot, s) = {} THEN old[s]
            ELSE slot[Max(Holders(slot, s))]
      BY DEF UnshuffleSections
    <2>2. CASE \E p \in Section : nums[p] = s
      <3>1. Holders(slot, s) \in SUBSET Section /\ Holders(slot, s) # {}
        BY <1>4, <2>2
      <3>2. Max(Holders(slot, s)) \in Holders(slot, s)
        BY <3>1, LastHolder
      <3>3. slot[Max(Holders(slot, s))] = u[s]
        BY <3>2, <1>1, <1>4
      <3> QED
        BY <2>1, <2>2, <3>1, <3>3
    <2>3. CASE ~ \E p \in Section : nums[p] = s
      BY <1>4, <2>1, <2>3
    <2> QED
      BY <2>2, <2>3
  <1> QED
    BY <1>2, <1>3, <1>5 DEF slot

-----------------------------------------------------------------------------
(* Encryption in place.                                                    *)

\* Section 1 with its words and its party crypted.
LEMMA CryptTeamFields ==
  ASSUME NEW team \in SectionData, NEW key \in Word, NEW e \in BOOLEAN
  PROVE  LET t == CryptTeam(team, key, e)
         IN  /\ t \in SectionData
             /\ t.mon = CryptPokemon(team.mon, e)
             /\ t.word["bag"] = CryptItems(team.word["bag"], key)
             /\ t.word["money"] = Xor(team.word["money"], key)
             /\ t.word["coins"] = Xor(team.word["coins"], LowHalf(key))
             /\ \A c \in WordCell \ {"bag", "money", "coins"} :
                  t.word[c] = team.word[c]
  <1> DEFINE t == CryptTeam(team, key, e)
  <1>1. /\ team.mon \in Pokemon
        /\ team.word \in [WordCell -> Word]
        /\ "bag" \in WordCell /\ "money" \in WordCell /\ "coins" \in WordCell
    BY DEF SectionData, WordCell
  <1>2. CryptPokemon(team.mon, e) \in Pokemon
    BY <1>1, CryptFields
  <1>3. /\ CryptItems(team.word["bag"], key) \in Word
        /\ Xor(team.word["money"], key) \in Word
        /\ Xor(team.word["coins"], LowHalf(key)) \in Word
    BY <1>1, XorInvolution, ItemsInvolution
  <1>4. /\ t.mon = CryptPokemon(team.mon, e)
        /\ t.word = [team.word EXCEPT
                       !["bag"]   = CryptItems(@, key),
                       !["money"] = Xor(@, key),
                       !["coins"] = Xor(@, LowHalf(key))]
        /\ t = [word |-> t.word, mon |-> t.mon]
    BY DEF CryptTeam, SectionData
  <1> HIDE DEF t
  <1>5. /\ t.word \in [WordCell -> Word]
        /\ t.word["bag"] = CryptItems(team.word["bag"], key)
        /\ t.word["money"] = Xor(team.word["money"], key)
        /\ t.word["coins"] = Xor(team.word["coins"], LowHalf(key))
        /\ \A c \in WordCell \ {"bag", "money", "coins"} :
             t.word[c] = team.word[c]
    BY <1>1, <1>3, <1>4
  <1>6. t \in SectionData
    BY <1>2, <1>4, <1>5 DEF SectionData
  <1> QED
    BY <1>4, <1>5, <1>6 DEF t

\* Crypting section 1 twice with one key, in either order, gives it back.
LEMMA CryptTeamInvolution ==
  ASSUME NEW team \in SectionData, NEW key \in Word, NEW e \in BOOLEAN
  PROVE  CryptTeam(CryptTeam(team, key, e), key, ~e) = team
  <1> DEFINE t == CryptTeam(team, key, e)
             v == CryptTeam(t, key, ~e)
  <1>1. /\ team.mon \in Pokemon
        /\ team.word \in [WordCell -> Word]
        /\ "bag" \in WordCell /\ "money" \in WordCell /\ "coins" \in WordCell
    BY DEF SectionData, WordCell
  <1>2. (~e) \in BOOLEAN
    OBVIOUS
  <1>3. /\ t \in SectionData
        /\ t.mon = CryptPokemon(team.mon, e)
        /\ t.word["bag"] = CryptItems(team.word["bag"], key)
        /\ t.word["money"] = Xor(team.word["money"], key)
        /\ t.word["coins"] = Xor(team.word["coins"], LowHalf(key))
        /\ \A c \in WordCell \ {"bag", "money", "coins"} : t.word[c] = team.word[c]
    BY CryptTeamFields
  <1> HIDE DEF t
  <1>4. /\ v \in SectionData
        /\ v.mon = CryptPokemon(t.mon, ~e)
        /\ v.word["bag"] = CryptItems(t.word["bag"], key)
        /\ v.word["money"] = Xor(t.word["money"], key)
        /\ v.word["coins"] = Xor(t.word["coins"], LowHalf(key))
        /\ \A c \in WordCell \ {"bag", "money", "coins"} : v.word[c] = t.word[c]
    BY <1>2, <1>3, CryptTeamFields
  <1> HIDE DEF v
  <1>5. v.mon = team.mon
    BY <1>1, <1>3, <1>4, CryptPokemonInvolution
  <1>6. /\ v.word["bag"] = team.word["bag"]
        /\ v.word["money"] = team.word["money"]
        /\ v.word["coins"] = team.word["coins"]
    BY <1>1, <1>3, <1>4, XorInvolution, ItemsInvolution
  <1>7. \A c \in WordCell : v.word[c] = team.word[c]
    BY <1>3, <1>4, <1>6
  <1>8. v.word = team.word
    BY <1>1, <1>4, <1>7 DEF SectionData
  <1>9. v = team
    BY <1>4, <1>5, <1>8 DEF SectionData
  <1> QED
    BY <1>9 DEF t, v

\* Section 4: its words are left alone, its Pokemon crypts back and forth.
LEMMA CryptDaycareInvolution ==
  ASSUME NEW d \in SectionData, NEW e \in BOOLEAN
  PROVE  /\ CryptDaycare(d, e) \in SectionData
         /\ CryptDaycare(d, e).word = d.word
         /\ CryptDaycare(d, e).mon = CryptPokemon(d.mon, e)
         /\ CryptDaycare(CryptDaycare(d, e), ~e) = d
  <1>1. d.mon \in Pokemon /\ (~e) \in BOOLEAN
    BY DEF SectionData
  <1>2. CryptPokemon(d.mon, e) \in Pokemon
    BY <1>1, CryptFields
  <1>3. CryptPokemon(CryptPokemon(d.mon, e), ~e) = d.mon
    BY <1>1, CryptPokemonInvolution
  <1> QED
    BY <1>2, <1>3 DEF CryptDaycare, SectionData

\* The key lies in section 0, which is not crypted.
LEMMA SecurityKeyType ==
  ASSUME NEW u \in SaveSlot, NEW type \in SaveType
  PROVE  SecurityKey(u, type) \in Word
  <1>1. SecurityKey1[type] \in WordCell
    BY DEF SecurityKey1, SaveType, WordCell
  <1>2. u[0] \in SaveSection
    BY SectionFacts DEF SaveSlot
  <1>3. u[0].data.word \in [WordCell -> Word]
    BY <1>2 DEF SaveSection, SectionData
  <1> QED
    BY <1>1, <1>3 DEF SecurityKey

SameFooter(a, b) ==
  a.id = b.id /\ a.magic = b.magic /\ a.index = b.index /\ a.checksum = b.checksum

\* A section is its footer and its data.
LEMMA SectionEqual ==
  ASSUME NEW a \in SaveSection, NEW b \in SaveSection,
         SameFooter(a, b), a.data = b.data
  PROVE  a = b
  BY DEF SaveSection, SameFooter

\* Crypting a slot changes the data of sections 1 and 4 and nothing else.
LEMMA CryptSlotFields ==
  ASSUME NEW u \in SaveSlot, NEW type \in SaveType, NEW e \in BOOLEAN
  PROVE  LET c == CryptSlot(u, type, e)
             key == SecurityKey(u, type)
         IN  /\ c \in SaveSlot
             /\ c[1].data = CryptTeam(u[1].data, key, e)
             /\ c[4].data = CryptDaycare(u[4].data, e)
             /\ \A s \in Section \ {1, 4} : c[s] = u[s]
             /\ \A s \in Section : SameFooter(c[s], u[s])
  <1> DEFINE c == CryptSlot(u, type, e)
             key == SecurityKey(u, type)
  <1>1. key \in Word
    BY SecurityKeyType
  <1>2. \A s \in Section : u[s] \in SaveSection /\ u[s].data \in SectionData
    BY DEF SaveSlot, SaveSection
  <1> HIDE DEF key
  <1>3. /\ CryptTeam(u[1].data, key, e) \in SectionData
        /\ CryptDaycare(u[4].data, e) \in SectionData
    BY <1>1, <1>2, SectionFacts, CryptTeamFields, CryptDaycareInvolution
  <1>4. c = [s \in Section |->
               CASE s = 1 -> [u[s] EXCEPT !.data = CryptTeam(u[s].data, key, e)]
                 [] s = 4 -> [u[s] EXCEPT !.data = CryptDaycare(u[s].data, e)]
                 [] OTHER -> u[s]]
    BY DEF CryptSlot, key
  <1>5. /\ c[1] = [u[1] EXCEPT !.data = CryptTeam(u[1].data, key, e)]
        /\ c[4] = [u[4] EXCEPT !.data = CryptDaycare(u[4].data, e)]
        /\ \A s \in Section \ {1, 4} : c[s] = u[s]
        /\ c = [s \in Section |-> c[s]]
    BY <1>4, SectionFacts
  <1> HIDE DEF c
  <1>6. /\ c[1] \in SaveSection /\ SameFooter(c[1], u[1])
        /\ c[1].data = CryptTeam(u[1].data, key, e)
        /\ c[4] \in SaveSection /\ SameFooter(c[4], u[4])
        /\ c[4].data = CryptDaycare(u[4].data, e)
    BY <1>2, <1>3, <1>5, SectionFacts DEF SaveSection, SameFooter
  <1>7. \A s \in Section : c[s] \in SaveSection /\ SameFooter(c[s], u[s])
    BY <1>2, <1>5, <1>6 DEF SameFooter
  <1>8. c \in SaveSlot
    BY <1>5, <1>7, Zenon DEF SaveSlot
  <1> QED
    BY <1>5, <1>6, <1>7, <1>8 DEF c, key

\* What _pksav_gen3_set_save_pointers decrypts, pksav_gen3_save_save encrypts
\* back, and the other way round.
THEOREM CryptSlotInvolution ==
  ASSUME NEW u \in SaveSlot, NEW type \in SaveType, NEW e \in BOOLEAN
  PROVE  CryptSlot(CryptSlot(u, type, e), type, ~e) = u
  <1> DEFINE f == ~e
             c == CryptSlot(u, type, e)
             d == CryptSlot(c, type, f)
             key == SecurityKey(u, type)
  <1>1. f \in BOOLEAN
    OBVIOUS
  <1>2. /\ c \in SaveSlot
        /\ c[1].data = CryptTeam(u[1].data, key, e)
        /\ c[4].data = CryptDaycare(u[4].data, e)
        /\ \A s \in Section \ {1, 4} : c[s] = u[s]
        /\ \A s \in Section : SameFooter(c[s], u[s])
    BY CryptSlotFields
  <1> HIDE DEF c
  <1>3. SecurityKey(c, type) = key
    BY <1>2, SectionFacts DEF SecurityKey
  <1>4. key \in Word
    BY SecurityKeyType
  <1>5. \A s \in Section : u[s] \in SaveSection /\ u[s].data \in SectionData
    BY DEF SaveSlot, SaveSection
  <1>6. /\ CryptTeam(c[1].data, key, f) = u[1].data
        /\ CryptDaycare(c[4].data, f) = u[4].data
    BY <1>2, <1>4, <1>5, SectionFacts, CryptTeamInvolution, CryptDaycareInvolution
  <1> HIDE DEF f, key
  <1>7. /\ d \in SaveSlot
        /\ d[1].data = CryptTeam(c[1].data, SecurityKey(c, type), f)
        /\ d[4].data = CryptDaycare(c[4].data, f)
        /\ \A s \in Section \ {1, 4} : d[s] = c[s]
        /\ \A s \in Section : SameFooter(d[s], c[s])
    BY <1>1, <1>2, CryptSlotFields
  <1> HIDE DEF d
  <1>8. \A s \in Section : /\ d[s] \in SaveSection
                           /\ d[s].data = u[s].data
                           /\ SameFooter(d[s], u[s])
    BY <1>2, <1>3, <1>6, <1>7 DEF SaveSlot, SameFooter
  <1>9. \A s \in Section : d[s] = u[s]
    BY <1>5, <1>8, SectionEqual
  <1>10. d = u
    BY <1>7, <1>9 DEF SaveSlot
  <1> QED
    BY <1>10 DEF c, d, f

-----------------------------------------------------------------------------
(* The storage system, checksums and indexes.                              *)

\* pksav_gen3_load_pokemon_pc yields a Pokemon for every storage section.
LEMMA LoadPcFields ==
  ASSUME NEW u \in SaveSlot
  PROVE  LoadPokemonPc(u) \in [PcSection -> Pokemon]
  <1>1. \A s \in PcSection : u[s].data.mon \in Pokemon
    BY SectionFacts DEF SaveSlot, SaveSection, SectionData
  <1>2. \A s \in PcSection : CryptPokemon(u[s].data.mon, FALSE) \in Pokemon
    BY <1>1, CryptFields
  <1> QED
    BY <1>2 DEF LoadPokemonPc

\* Loading what was stored gives back each Pokemon, with its checksum set.
LEMMA StorePcFields ==
  ASSUME NEW pc \in [PcSection -> Pokemon]
  PROVE  /\ StorePokemonPc(pc) \in [PcSection -> Pokemon]
         /\ \A s \in PcSection :
              CryptPokemon(StorePokemonPc(pc)[s], FALSE) = SetPokemonChecksum(pc[s])
  <1>1. \A s \in PcSection : SetPokemonChecksum(pc[s]) \in Pokemon
    BY SetChecksumFields
  <1>2. \A s \in PcSection :
           /\ CryptPokemon(SetPokemonChecksum(pc[s]), TRUE) \in Pokemon
           /\ CryptPokemon(CryptPokemon(SetPokemonChecksum(pc[s]), TRUE), ~TRUE)
                = SetPokemonChecksum(pc[s])
    BY <1>1, CryptFields, CryptPokemonInvolution
  <1> QED
    BY <1>2 DEF StorePokemonPc

\* Putting the storage system back changes the Pokemon of its sections only.
LEMMA CopyPcFields ==
  ASSUME NEW stored \in [PcSection -> Pokemon], NEW u \in SaveSlot
  PROVE  LET c == CopyPokemonPc(stored, u)
         IN  /\ c \in SaveSlot
             /\ \A s \in Section : SameFooter(c[s], u[s])
             /\ \A s \in Section \ PcSection : c[s] = u[s]
             /\ \A s \in PcSection : c[s].data.mon = stored[s]
  <1> DEFINE c == CopyPokemonPc(stored, u)
  <1>1. \A s \in Section :
           c[s] = IF s \in PcSection THEN [u[s] EXCEPT !.data.mon = stored[s]]
                                     ELSE u[s]
    BY DEF CopyPokemonPc
  <1>2. c = [s \in Section |-> c[s]]
    BY DEF CopyPokemonPc
  <1> HIDE DEF c
  <1>3. ASSUME NEW s \in Section
        PROVE  /\ c[s] \in SaveSection
               /\ SameFooter(c[s], u[s])
               /\ s \in PcSection => c[s].data.mon = stored[s]
    <2>1. u[s] \in SaveSection /\ u[s].data \in SectionData
      BY DEF SaveSlot, SaveSection
    <2>2. CASE s \in PcSection
      <3>1. [u[s].data EXCEPT !.mon = stored[s]] \in SectionData
        BY <2>1, <2>2 DEF SectionData
      <3>2. c[s] = [u[s] EXCEPT !.data = [u[s].data EXCEPT !.mon = stored[s]]]
        BY <1>1, <2>1, <2>2 DEF SaveSection
      <3>3. [u[s].data EXCEPT !.mon = stored[s]].mon = stored[s]
        BY <2>1 DEF SectionData
      <3> QED
        BY <2>1, <3>1, <3>2, <3>3 DEF SaveSection, SameFooter
    <2>3. CASE s \notin PcSection
      BY <1>1, <2>1, <2>3 DEF SameFooter
    <2> QED
      BY <2>2, <2>3
  <1>4. c \in SaveSlot
    BY <1>2, <1>3, Zenon DEF SaveSlot
  <1> QED
    BY <1>1, <1>3, <1>4, SectionFacts DEF c

\* pksav_gen3_set_section_checksums changes nothing but the checksums.
LEMMA SetSectionChecksumsFields ==
  ASSUME NEW u \in SaveSlot
  PROVE  LET c == SetSectionChecksums(u)
         IN  /\ c \in SaveSlot
             /\ \A s \in Section :
                  /\ c[s].data = u[s].data /\ c[s].checksum = u[s].data
                  /\ c[s].id = u[s].id /\ c[s].index = u[s].index
                  /\ c[s].magic = u[s].magic
  BY DEF SetSectionChecksums, SaveSlot, SaveSection

\* Setting the save index changes nothing but the indexes, and all alike.
LEMMA SetSaveIndexFields ==
  ASSUME NEW u \in SaveSlot, NEW i \in SaveIndex
  PROVE  LET c == SetSaveIndex(u, i)
         IN  /\ c \in SaveSlot
             /\ UniformIndex(c)
             /\ \A s \in Section :
                  /\ c[s].data = u[s].data /\ c[s].checksum = u[s].checksum
                  /\ c[s].id = u[s].id /\ c[s].index = i
                  /\ c[s].magic = u[s].magic
  BY DEF SetSaveIndex, SaveSlot, SaveSection, UniformIndex

\* What calloc leaves is a slot.
LEMMA ZeroSlotType == ZeroSlot \in SaveSlot
  <1>1. ZeroData \in SectionData
    BY ZeroPokemonType DEF ZeroData, SectionData, Zero, Word
  <1>2. 0 \in Section \cup {NoSection} /\ 0 \in SaveIndex
    BY SectionFacts, IndexAssumption DEF SaveIndex
  <1> QED
    BY <1>1, <1>2 DEF ZeroSlot, SaveSlot, SaveSection

\* What sections 1 and 4 decrypt to depends on their data and the key alone.
LEMMA CryptSlotData ==
  ASSUME NEW u \in SaveSlot, NEW v \in SaveSlot, NEW type \in SaveType,
         NEW e \in BOOLEAN, \A s \in {0, 1, 4} : u[s].data = v[s].data
  PROVE  /\ CryptSlot(u, type, e)[1].data = CryptSlot(v, type, e)[1].data
         /\ CryptSlot(u, type, e)[4].data = CryptSlot(v, type, e)[4].data
  <1>1. SecurityKey(u, type) = SecurityKey(v, type)
    BY SectionFacts DEF SecurityKey
  <1>2. u[1].data = v[1].data /\ u[4].data = v[4].data
    BY SectionFacts
  <1> QED
    BY <1>1, <1>2, CryptSlotFields

\* The slot pksav_gen3_save_save writes, unshuffled and decrypted again, is
\* what was encrypted, whatever the order of the sections: the words and the
\* Pokemon the client sees, with the checksums of the boxes set.  Indexes and
\* section numbers stay where unshuffling will look for them.
RoundTrips(u, pc, type, nums, i) ==
  LET e == SetSectionChecksums(CopyPokemonPc(StorePokemonPc(pc),
                                             CryptSlot(u, type, TRUE)))
      out == SetSaveIndex(ShuffleSections(e, nums), i)
      back == UnshuffleSections(out, e)
  IN  /\ e \in SaveSlot
      /\ \A s \in Section : e[s].id = u[s].id /\ e[s].index = u[s].index
      /\ out \in SaveSlot
      /\ UniformIndex(out)
      /\ \A p \in Section : out[p].index = i /\ out[p].checksum = out[p].data
      /\ SectionNums(out) = nums
      /\ back \in SaveSlot
      /\ \A s \in Section : back[s].data = e[s].data
      /\ \A p \in Section : back[nums[p]].index = i
      /\ CryptSlot(back, type, FALSE)[1].data = u[1].data
      /\ CryptSlot(back, type, FALSE)[4].data = u[4].data
      /\ \A s \in PcSection :
           LoadPokemonPc(back)[s] = SetPokemonChecksum(pc[s])

\* The sections in any order, each under its own number: that is what a loaded
\* session has.
LEMMA SaveRoundTrip ==
  ASSUME NEW u \in SaveSlot, NEW pc \in [PcSection -> Pokemon],
         NEW type \in SaveType, NEW nums \in [Section -> Section],
         NEW i \in SaveIndex, \A p \in Section : u[nums[p]].id = nums[p]
  PROVE  RoundTrips(u, pc, type, nums, i)
  <1> DEFINE stored == StorePokemonPc(pc)
             c == CryptSlot(u, type, TRUE)
             d == CopyPokemonPc(stored, c)
             e == SetSectionChecksums(d)
             f == SetSaveIndex(e, i)
             out == SetSaveIndex(ShuffleSections(e, nums), i)
             back == UnshuffleSections(out, e)
  <1>1. /\ stored \in [PcSection -> Pokemon]
        /\ \A s \in PcSection :
             CryptPokemon(stored[s], FALSE) = SetPokemonChecksum(pc[s])
    BY StorePcFields
  <1>2. CryptSlot(c, type, ~TRUE) = u
    BY CryptSlotInvolution
  <1>3. /\ c \in SaveSlot
        /\ \A s \in Section : SameFooter(c[s], u[s])
    BY CryptSlotFields
  <1> HIDE DEF stored, c
  <1>4. /\ d \in SaveSlot
        /\ \A s \in Section : SameFooter(d[s], c[s])
        /\ \A s \in Section \ PcSection : d[s] = c[s]
        /\ \A s \in PcSection : d[s].data.mon = stored[s]
    BY <1>1, <1>3, CopyPcFields
  <1> HIDE DEF d
  <1>5. /\ e \in SaveSlot
        /\ \A s \in Section : /\ e[s].data = d[s].data /\ e[s].checksum = d[s].data
                              /\ e[s].id = d[s].id /\ e[s].index = d[s].index
    BY <1>4, SetSectionChecksumsFields
  <1> HIDE DEF e
  <1>6. \A s \in Section : e[s].id = u[s].id /\ e[s].index = u[s].index
    BY <1>3, <1>4, <1>5 DEF SameFooter
  <1>7. /\ f \in SaveSlot
        /\ \A s \in Section : /\ f[s].data = e[s].data /\ f[s].checksum = e[s].checksum
                              /\ f[s].id = e[s].id /\ f[s].index = i
    BY <1>5, SetSaveIndexFields
  <1>8. out = ShuffleSections(f, nums)
    BY DEF SetSaveIndex, ShuffleSections
  <1> HIDE DEF f
  <1>9. /\ out \in SaveSlot
        /\ SectionNums(out) = nums
        /\ \A s \in Section :
             back[s] = IF \E p \in Section : nums[p] = s THEN f[s] ELSE e[s]
    BY <1>5, <1>6, <1>7, <1>8, ShuffleRoundTrip
  <1>10. \A p \in Section : out[p].index = i /\ out[p].checksum = out[p].data
    BY <1>5, <1>7, <1>8 DEF ShuffleSections
  <1> HIDE DEF out
  <1>11. back \in SaveSlot
    BY <1>5, <1>9, UnshuffleFields
  <1> HIDE DEF back
  <1>12. \A s \in Section : back[s].data = e[s].data
    BY <1>7, <1>9
  <1>13. \A p \in Section : back[nums[p]].index = i
    BY <1>7, <1>9
  <1>14. \A s \in {0, 1, 4} : back[s].data = c[s].data
    BY <1>4, <1>5, <1>12, SectionFacts
  <1>15. /\ CryptSlot(back, type, FALSE)[1].data = u[1].data
         /\ CryptSlot(back, type, FALSE)[4].data = u[4].data
    BY <1>2, <1>3, <1>11, <1>14, CryptSlotData
  <1>16. \A s \in PcSection : LoadPokemonPc(back)[s] = SetPokemonChecksum(pc[s])
    <2>1. \A s \in PcSection : back[s].data.mon = stored[s]
      BY <1>4, <1>5, <1>12, SectionFacts
    <2>2. \A s \in PcSection :
             LoadPokemonPc(back)[s] = CryptPokemon(back[s].data.mon, FALSE)
      BY DEF LoadPokemonPc
    <2> QED
      BY <1>1, <2>1, <2>2
  <1> QED
    BY <1>5, <1>6, <1>9, <1>10, <1>11, <1>12, <1>13, <1>15, <1>16
       DEF out, back, e, d, c, stored, UniformIndex, RoundTrips
=============================================================================
