# A verification project for PKSav

PKSav (`include/pksav/`, `lib/`) is a C library for the save files of Pokemon
games. A client opens a save from a file or from a buffer of its own, reads and
writes its fields through a struct of pointers, and saves. The library finds the
game a file belongs to, undoes what the game does to its data (checksums,
encryption, shuffled sections), and does it again when saving. It is sequential
and has no threads; what makes it hard is that every save takes a chain of
transformations that must be undone in the exact reverse order, in memory the
client keeps pointers into, with a file that is overwritten in place.

This directory holds TLA+ models of the three save implementations, of the file
access below them and of the fields, numbers and names a client reads and writes
in a save; TLC configurations that check them on small instances; and TLAPS
proofs of what matters most for instances of any size.

## 1. The system

| component | source | state | operations |
|---|---|---|---|
| generation 3 save session | `lib/gen3/save.c`, `save_internal.h`, `sections_internal.h` | raw buffer, which of its two slots was loaded, order of its sections, an unshuffled and decrypted copy of the slot, the boxes gathered from several sections | detect, load from buffer or file, edit through pointers, save, free |
| generation 3 sections | `lib/gen3/shuffle.c`, `checksum.c` | none (functions of a slot) | shuffle, unshuffle, gather and spread the boxes, checksums |
| generation 3 encryption | `lib/gen3/crypt.c` | none | Pokemon blocks, item counts, money and coins |
| generation 3 Pokedex | `lib/gen3/pokedex.c`, `lib/common/pokedex.c` | three seen lists and one of those owned, three words of the national Pokedex, all in the save | mark as seen, get and set a bit, unlock, lock |
| generation 1 save session | `lib/gen1/save.c`, `save_internal.h` | the loaded buffer, which the client works in | detect, load, edit, switch boxes, save, free |
| generation 2 save session | `lib/gen2/save.c`, `save_internal.h` | the same, with two checksums at places that differ by game | the same |
| file access | `lib/util/fs.c` | the file, handles, what was allocated | size, read, write |
| packed fields | `lib/common/stats.c`, `pokerus.c`, `lib/gen2/time.c` | a word of a Pokemon, in the save | get and set individual values, strain and duration, time of day |
| numbers | `lib/math/bcd.c`, `base256.c` | a field of the save | import and export |
| text | `lib/gen1/text.c` to `gen3/text.c`, `lib/common/xds_common.c`, `lib/util/text_common.c` | a field of the save; the locale of the process | import and export |
| the rest | `lib/crypto/`, `lib/common/prng.h`, error strings | none | see "Not modelled" |

How they interact. The session of each generation calls the file access to read
a whole file and to write a whole file. The generation 3 session calls the
sections, which call the encryption and the checksums. The functions for
fields, numbers and names are called by the client, on the memory a session's
pointers lead to, and call nobody: to the sessions they are the stores of `Edit`.
Two parties hold pointers
into the session's memory, the library and the client; the client may store
anything anywhere between two calls. The file is shared with whatever else uses
it and outlives the process.

What is hard, component by component, and what makes it correct:

- **Generation 3 session.** A save copies the boxes back, encrypts everything in
  place, sets checksums, shuffles into the slot that was *not* loaded, counts the
  index up, writes, and finds the active slot again to decrypt it into the same
  memory. Correct: the client reads after a save what it stored; the file loads
  as that; what the client cannot reach in the slot is as it was; the slot is one
  the game accepts; the good slot is never overwritten; a failed or interrupted
  write leaves one of the two saves or nothing, never a mixture.
- **Sections, encryption.** The block orders are permutations that mostly are not
  their own inverses, and the key lies inside the data that is being encrypted.
  Correct: decrypting undoes encrypting, for every row and every key.
- **Generation 1 and 2 sessions.** The current box exists twice and only one copy
  is valid. The game is told from the data the client may change, and the buffer
  the client works in carries a checksum that is stale until it saves. Correct:
  switching boxes loses nothing; a save leaves a file with the client's contents,
  of the game they tell; a buffer that is not saved is refused rather than misread.
- **File access.** The write truncates first; size and contents are read through
  two streams. Correct: a call that reports no error has read or written the whole,
  one that fails or is interrupted leaves no mixture, every call returns, and it
  has closed the streams it opened.
- **Pokedex.** One fact is kept three times, in lists of bits counted from one or
  in words that share bits with others and differ by game. Correct: all copies say
  what the client said last, of every number.
- **Packed fields.** Neighbours share a word, HP shares bits with four other
  values, and each setter of the Pokerus may change what the other one stored.
  Correct: any sequence of stores reads as what was stored, and nothing else of
  the word changes.
- **Numbers and text.** Formats with a fixed width, boundary values, tables with
  several entries for one character, a locale that is switched for the whole
  process. Correct: what fits of what was written is what is read, again and again.

The hazards, each at its line and with the properties that guard it, are listed
in `PROJECT.json`.

## 2. The modules

    SaveSession            what a session promises (abstract)
      ^ implemented by
    Gen1Session  Gen2Session  Gen3Session     refinement mappings
      |            |            |
    Gen1Save     Gen2Save     Gen3Save        the sessions
                                |
                              Gen3Sections    slots, shuffling, boxes, detection
                                |
                              Gen3Crypt       Pokemon blocks, words

    FileAccess             what the sessions assume of the file (abstract)
      ^ implemented by
    Fs                     reading and writing a file, call by call

    Fields                                    calls on packed fields and the Pokedex
      |        |
    Pokedex  PackedFields                     the functions called

    Conversions                               reading and writing numbers and names
      |             |
    NumberFormats  TextFormats                the functions called

    MCGen1Session  MCGen2Session  MCGen3Save, MCGen3Session   instances for TLC
    MCFs  MCFields  MCConversions
    Gen1SessionProofs  Gen2SessionProofs                             proofs
    Gen3SectionsProofs  Gen3SaveProofs  Gen3SessionProofs
    FsProofs  FieldsProofs  ConversionsProofs

### Conventions

- Definitions have the name of the function, field or table they model, where
  the name fits. `PROJECT.json` maps each one to its lines.
- One action is one call of the library from entry to return, in all modules but
  `Fs`, where it is one call of the C library. What the code does
  on the way (find the active slot again, set checksums, encrypt) is part of the
  action. A call that can fail half-way has an action for that (`SaveFails`), with
  what is left behind as the code leaves it: nothing is undone.
- `Crash` is the process dying, also inside the write of the file. A file written
  in part is, in generations 1 and 2, too short to be a save; in generation 3 it
  may hold its first slot.
- `intended` is a history variable: what the client loaded and has since stored.
  It guards nothing. `op` and `error` are the last call and what it returned.
- A sum (checksum) is modelled as the data it sums, so two areas have one
  checksum exactly when they are equal. This leaves out collisions, and nothing
  else: where a checksum is taken, of what and when is as in the code.
- A word is the set of its one bits; exclusive or is the symmetric difference and
  a mask is an intersection, exact for any width.
- A file longer than a save keeps no trailer; null arguments are not passed.
- An operator marked "Wrong on purpose" is no part of a specification. It is what
  a plausible mistake in the code would look like, and the properties are checked
  to fail when it replaces the operator after it.

### Generation 3

`Gen3Crypt` has the table of block orders and the two directions of
`pksav_gen3_crypt_pokemon` as the code writes them: xor first, then move. A
Pokemon is its row (personality modulo 24), its key, four blocks of one word
each, which stand for three words treated alike, and its checksum.

`Gen3Sections` has a slot: sections with footers (id, validation, index,
checksum) and their data, reduced to the words that decide the game and hold the
key, the money, coins and one item count that are encrypted, and one Pokemon that
stands for the party in section 1, for the daycare in section 4 and for the boxes
from section 5 on. Any section can be read as any other, as in C. The detection
leaves its answer open where the code looks at an uninitialized union
(`DetectedTypes`).

`Gen3Save` has the session. `p_raw_save`, `is_save_from_first_slot`,
`shuffled_section_nums`, `unshuffled_save_slot` and `consolidated_pokemon_pc` are
the fields of `pksav_gen3_save_internal`. `SaveSucceeds` is
`pksav_gen3_save_save`: `EncryptedSlot`, `ShuffledSlot`, `SavedBuffer` are its
stages. `SaveFails` leaves the buffer changed, the memory encrypted and the
session "failed"; `ClientRetries` says whether the client goes on with it all the
same.

### Generations 1 and 2

A save is an `Image`: what each checksum sums, the checksums, the current box and
the stored ones. `Boxes` is what the client means by its boxes: the copy for the
current one and the stored one otherwise. In generation 1 the byte with the
number of the current box has a flag of the game's in its high bits, so `Low` and
`High` take it apart. In generation 2 the header asks for a mask as well
(`PKSAV_GEN2_CURRENT_POKEMON_BOX_NUM_MASK`, `gen2/save.h:148-155`), which is defined
nowhere; the code uses the byte as it is (`gen2/save.c:515`), and so does the model.
A file with other bits in that byte would index behind `pp_boxes`; the initial files
have none. The checksums of generation 2 are cells at offsets, with one table where
`pksav_gen2_get_buffer_save_type` looks for them and one where
`pksav_gen2_save_save` writes them, since for Crystal they differ. `unreached` is
the area of the second checksum. It holds the daycare among others, and no pointer
of a Gold or Silver session leads there: `p_daycare_data` (`gen2/save.h:285`) is
never set (`gen2/save.c:206-344`). So it is no part of what the client sees, and
nothing a client does through the struct can make the second checksum stale.

The game of a generation 1 file is told by its Pikachu area, friendship included
(`GameOf`). `AsDetected` says the same of what the client sees: a Yellow save with
nothing else in that area, of which the client sets the friendship to 0, comes back
as Red or Blue, and the refinement says so rather than leaving the case out.

### File access

The sessions take reading and writing as one step each. `Fs` looks inside: an
action is a call of `fopen`, `fseek`, `ftell`, `fclose`, `calloc`, `fread` or
`fwrite` in `lib/util/fs.c`, any of which may fail, and `pc` names the one that
comes next. `pksav_fs_filesize` is the first part of a read. Between two of the
steps another program may replace the file (`OtherProgram`) or the process may
die (`Crash`); `undisturbed` remembers whether anybody else wrote since the call
began, and `before` what the file was then. What is written reaches the file up to
any byte before `fclose` and all of it when `fclose` succeeds. `handles` counts
the streams a process has open over all its calls, at most `MaxHandles`, and
`lost` those of them that a failed `fseek` in `pksav_fs_filesize` left behind, the
one path that closes nothing (`fs.c:27`). The C library is outside the repository and modelled from how `fs.c` uses it.

`FileAccess` is what a session assumes of its file: a call takes effect in one
step, when it ends. A read is the whole file or an error, and a write leaves the old
file, a prefix of the new one, or the new one, the last whenever no error is
reported; these are the three outcomes `ReadFails`, `SaveFails` and `SaveSucceeds`
of the sessions have, where a prefix is `TornFiles`. `Fs` implements it
(`ImplementsFileAccess`): during a write the abstract file is still the one before,
and nothing is read before a read has returned without an error. None of it holds of
a file that another program writes at the same time: the size is measured in one
stream and the contents are read through another, and nothing is locked.

### Fields and the Pokedex

A behaviour of `Fields` is a client at one object of a save: the individual values
of a generation 3 or a Game Boy Pokemon, its Pokerus, its caught data, or the
Pokedex. Every action is one call with any argument, a refused one included
(`Refuse`). A word is again the set of its one bits, here of its real 8, 16 or 32;
the masks and offsets are those of the code. `fields`, `hour` and `known` are
history: what was loaded and then told. `GbStored` says what storing one of the
Game Boy's values means for the others: the same bits are HP and the lowest ones
of the four.

A Pokedex is the memory its struct points at. One of the two pointers to the
first word of the national Pokedex is NULL, by the game; the model's client passes
the game of its save, or NONE where that is taken for the same. Passing the other
kind makes the function follow the NULL pointer, which no documentation forbids.

### Numbers and names

A behaviour of `Conversions` is a client that reads and writes one field of a
save, a number in BCD or base 256 or a name in one of the four formats, left by a
game or written before. `number` and `name` are history: what the field was meant
to hold, cut to what fits, which for a name is the least of three things: the
characters the format has, the characters the field has room for, and the bytes
the library reads of a text (it passes the number of characters for the size of
the client's buffer in both directions).

The tables are reduced to nine characters, of one to four bytes in UTF-8; what is
kept of each format is what the functions depend on: codes in their order,
characters in the table twice or not at all, NULs in it, the codes that end a name
on reading, and the one that fills it on writing. XD and Colosseum have no table:
`Narrow` is the cast of a wide character to 16 bits (`xds_common.c:61`), which makes
U+10000 a 0, that ends the name for a reader, and U+10041 an A. `Coded` counts the
first as not fitting, and a name is expected back as `Narrowed`.

The client writes back the text it has read (`WriteBack`). `wcstombs` writes no NUL
when the bytes fill the client's buffer (`text_common.c:77`), which the header sizes
as `num_chars`; then the text that is written back goes on with whatever lies behind,
any text of the model. `Log10` of 0 is undefined in C and any number of bytes
here. The locale functions of the C library are modelled as `text_common.c` uses
them; the name of the old locale that `setlocale` returned is used after the
locale was changed, so except for "C" what is restored is left open. A client may
start in any locale and set any other.

### The abstract specification

`SaveSession` knows four things: whether a session is open, what the client sees,
what the file loads as and what the buffer loads as. `Live` tells generation 3,
which decrypts a copy, from the other two, whose clients work in the buffer. Each
`GenNSession` module gives the mapping: the view is `intended`, in generation 1
as the game it tells, the file and the buffer are `Decode` of the bytes. `Gen3Session` needs two history variables for
the last two, because TLC must see `Decode` as state: it chooses among the
answers an uninitialized union allows. `ImplementsSession` is the refinement.

## 3. What the runs check

| run | shows |
|---|---|
| `gen3_session` | types; the client reads what it stored (`ViewIsIntended`); what the client cannot reach in the written slot is as in the loaded one, section by section at its place, and everything is if nothing was changed (`SavesKeepTheRest`); the written slot is sound (`SavedSlotIsSound`); saves alternate between the slots (`SavesAlternate`); the session implements `SaveSession` |
| `gen3_retry` | finding: saving again after a failed write writes doubly encrypted data |
| `gen3_party_checksum` | finding: party and daycare Pokemon keep stale checksums |
| `gen3_doubled` | finding: a slot with a doubled and a missing section loads |
| `gen1_session` | types; box contents survive switching (`ViewIsIntended`); the session implements `SaveSession`, with the game a save comes back as |
| `gen1_invalid` | finding: loading what is not a save returns no error |
| `gen2_session` | as `gen1_session`, with both checksums |
| `gen2_crystal` | finding: a valid Crystal save is refused |
| `fs` | types; a read without an error is the whole file (`ReadIsWhole`); a write leaves the old file or a prefix of the new one, all of it if no error is reported (`WriteIsTornAtMost`); every call has closed its stream but for one path (`StreamsAreAccounted`) and returns (`EveryCallReturns`); to its caller each is one step (`ImplementsFileAccess`) |
| `fields` | types; individual values, Pokerus and caught data read as stored, with their neighbours untouched (`IVsAreIntended`, `GbIVsAreIntended`, `PokerusIsIntended`, `CaughtDataIsKept`); the copies in the Pokedex agree (`SeenListsAgree`, `NationalFlagsAgree`) |
| `caught_time` | finding: the hours of the times of day are not the documented ones |
| `conversions` | types, so no failed search of a table is stored; numbers (`NumberIsIntended`) and names (`NameIsIntended`) read as what fits of what was written |

The findings quote, in `PROJECT.json`, the comment, document or test that says
otherwise.

Weaknesses of the code that the properties are stated around, because no document
promises the opposite:

- After the save with index 2^32 - 1 the index wraps to 0 and the old slot stays
  the active one (`gen3/save.c:637`); the runs and proofs stay below (`NoWrap`).
- A slot may start with a section that is there again with another index: the
  active slot is told by the index at the start, the next index is taken from the
  section that unshuffling kept (`gen3/save.c:92-99`, `634-637`), and the slot that is
  saved may not become the active one. Different indexes alone, as an interrupted
  save of the game leaves them, do no harm where each section is there once
  (`WellHeadedFiles`).
- A Yellow save whose Pikachu area is otherwise zero and whose friendship the
  client sets to 0 comes back as Red/Blue (`gen1/save.c:56`; `AsDetected`).
- The daycare of generation 2 cannot be reached: `p_daycare_data` is NULL after
  every load. The mask the header asks for, for the number of the current box, does
  not exist.
- A failed `fseek` loses a stream (`lost` in `Fs`).
- `pksav_export_bcd` writes a number from the first byte on and fills with 0xFF,
  which the library reads back and a game, which expects zeros in front, may not;
  the export of 0 is undefined.
- Exported names of generations 1 to 3 are followed by the first NUL of the table
  (0x00, and 0xFA in generation 3), not by the terminator, as long as anything is
  left of the text's NULs; the library reads that as the end.
- A name for XD or Colosseum loses the characters above U+FFFF, and at some of them
  it ends (`Narrow`).
- A text that fills the client's buffer comes without a NUL. Written back with what
  lies behind it, the library reads the same name as before, since it stops at the
  same byte; a game, which counts characters, may show some of what lay behind.
- A locale of the client's own, neither "C" nor en_US.utf8, may not come back, and no
  property says that it does; without en_US.utf8 in the system, names are cut at the
  first character that is not ASCII.

### Bounds, and why they are enough

- Generation 3, four sections of fourteen: 0, 1, 4 and 5, the four the code
  treats in different ways (trainer, team and items, daycare, boxes). The other
  sections are copied like one of these. Three orders of sections, among them a
  rotation as the games write it and a pair of swaps.
- Words of two bits, one in the low half and one in the high half: a mask that is
  forgotten or a key that is applied twice shows on one bit.
- Pokemon of three rows, of which two are not their own inverses.
- `IndexMod` is 8, `MaxIndex` 4: a slot is saved until its index is 4, so that
  from indexes of 1 and 2 each slot is written at least once and the session is
  reloaded in between.
- The initial files are saves of all three games with the newer slot first, last
  and tied, two slots that the game was still writing, with one index at the start
  and another in the rest, one slot only, an erased second slot, an id out of range,
  a wrong validation and a file too short. Files with one id twice are in `gen3_doubled`
  only: they break the property stated there and more.
- The client edits the money, the party and the boxes. The bag and the coins are
  encrypted like the money but for the mask, the daycare like the party; they are
  in the model, loaded, encrypted and compared, and the proofs cover their edits.
- Generations 1 and 2: three boxes (current, new, another), two contents, edits to
  box 0, which is current or not depending on the switches, two values for the
  trainer's data. In generation 1 a friendship of 0 and of 90, and Yellow saves with
  and without something else in the Pikachu area; in generation 2 two contents of
  the area nobody reaches, of which the files have one.

- `fields`: words of their real width, loaded with all bits zero or all one, so
  that a bit lost and a bit gained both show; values 0, 1, 12, 15 and 16, of which
  the last is refused by all but the widest field and 12 is where the strain starts
  to follow the duration; Pokemon 0, 1, 8, 9, 386 and 387, at the edges of bytes
  and of the list; every hour. The number of calls is not bounded.
- `conversions`: numbers at the edges of digits, bytes and buffers, in buffers of
  one to three bytes, so that they fit, fit exactly and do not; names of up to four
  characters in buffers of one and three, with any code of a format at any place;
  three locales, of which the client starts in any, and the library's installed or
  not.
- Files of up to three bytes, one a prefix of another and one not, so that a
  mixture can be told from a prefix; a file that is missing or empty. Two streams,
  one of which can be lost, and both: then every later call fails in `fopen`.

TLC checks for deadlock in all runs: every state has a step, since a call can
always be made.

### Fairness

`Fs!FairSpec` assumes weak fairness of `LibraryStep`, the next call of the C
library in a call of `fs.c` that was made: the process runs, the code waits for
nothing between two of them, and the C library returns from each. Nothing is
assumed of the client, who need not call; of the other program, which may replace
the file for ever without stopping a read, as no step of `fs.c` waits for it or
tries again; or of crashes. `EveryCallReturns` follows from that.

The other modules take a call as one step and have no liveness: the library does
nothing on its own, and that a client eventually saves would be an assumption
about the client.

## 4. What is proved

For all values of the constants that meet the named assumptions: any number of
bits, sections up to 14, any boxes and contents, any initial files but for those the
table excludes; in `Fs` files of any length and any number of streams; in `Fields` any loaded words, any values and
any numbers of Pokemon; in `Conversions` any numbers below 2^31 in fields of up to
eight bytes, beyond which the powers the code multiplies with leave a `size_t`, and
any texts in buffers of any length.

| theorem | module | assumes besides |
|---|---|---|
| `CryptPokemonInvolution`: each direction undoes the other | `Gen3SectionsProofs` | |
| `CryptSlotInvolution`: the same for a slot under its own key | `Gen3SectionsProofs` | |
| `TypeCorrect` | `Gen3SaveProofs` | |
| `ViewCorrect`: `ViewIsIntended` always holds | `Gen3SaveProofs` | `NoRetry`, `NoWrap`, `WellHeadedFiles` |
| `SavedSoundly`: `SavedSlotIsSound` | `Gen3SaveProofs` | `NoRetry`, `NoWrap`, `WellHeadedFiles` |
| `Alternation`: `SavesAlternate` | `Gen3SaveProofs` | `NoRetry`, `NoWrap`, `WellHeadedFiles` |
| `Implements`: `ImplementsSession` | `Gen3SessionProofs` | `NoRetry`, `NoWrap`, `WholeFiles` |
| `FileCorrect`: `FileHoldsWhatWasSet`, which `gen3_retry` violates | `Gen3SessionProofs` | `NoRetry`, `NoWrap`, `WholeFiles` |
| `LoadedWhole`: `LoadedSaveIsWhole`, which `gen3_doubled` violates | `Gen3SessionProofs` | `NoRetry`, `NoWrap`, `WholeFiles` |
| `TypeCorrect`, `ViewCorrect` | `Gen1SessionProofs`, `Gen2SessionProofs` | |
| `Implements`: `ImplementsSession` | `Gen1SessionProofs`, `Gen2SessionProofs` | |
| `TypeCorrect` | `FsProofs` | |
| `ReadCorrect`: `ReadIsWhole` always holds | `FsProofs` | |
| `WriteCorrect`: `WriteIsTornAtMost` always holds | `FsProofs` | |
| `StreamsCorrect`: `StreamsAreAccounted` always holds | `FsProofs` | |
| `Implements`: `ImplementsFileAccess` | `FsProofs` | |
| `TypeCorrect`, `IVsCorrect`, `GbIVsCorrect`, `PokerusCorrect`, `CaughtDataCorrect`, `SeenListsCorrect`, `NationalCorrect` | `FieldsProofs` | |
| `TypeCorrect`, `NumberCorrect`, `NameCorrect` | `ConversionsProofs` | |

Without these assumptions the properties do not hold, except that
`SavedSoundly` needs its three only to know that the slot written is the active one.
`NoRetry` says that the
client does not go on with a session whose save failed (the run `gen3_retry`),
`NoWrap` that indexes stay below 2^32 - 1. `WellHeadedFiles` says of each slot of the
first file that passes for a save that the section it starts with is not there
again, later in the slot, with another index; other sections may be missing or
doubled, and the indexes in the footers may be any. `WholeFiles` says that each such
slot has every section, hence each once, again with any indexes; it implies
`WellHeadedFiles` (`WholeAreHeaded`), and leaves out the files of the run
`gen3_doubled`: without a section 0 what the library takes a file for is left
on its stack, so a file does not say what it loads as. `FileCorrect` and
`LoadedWhole` are the other side of two findings: of what the runs show to be
violated, they say under which conditions it holds.

**The argument for generation 3.** That the client reads what it stored is not
inductive: after a save it reads what is decrypted from *the slot that is found
to be active*, at the places *the footers tell*, with *the key in that slot*.
`Inv` adds what that needs:

- `StructInv`: the loaded slot exists, the remembered order is that of its
  sections, and each section lies unshuffled at its own number; so shuffling puts
  each where it was, and unshuffling finds it again;
- `BuffersInv`: the slots of the file and of the buffer are well headed, because
  the active slot is told by the index at the first position, but the next index is
  counted from the section that is there after unshuffling and shuffling, which is
  the last one with that id; a save keeps this, since it writes one index into all
  footers (`UniformHead`);
- `ActiveInv`: in an open session the loaded slot is the active one and the
  unshuffled sections carry its index; so the index that is counted up is the
  greatest, and the slot that is written is the one found afterwards (here
  `NoWrap` is needed);
- `ViewIsIntended` itself.

`StructInv` holds without `NoRetry` and `NoWrap`, and with the types it is
inductive (`TypeInv`), which gives `TypeCorrect`. `CryptSlotInvolution` and its
lemmas then say that what is decrypted from the written slot is what was
encrypted into it, the key included, which lies in section 0 and is not touched.
`Alternation` is read off the same invariant, and so is `SavedSoundly`, from how
the written slot is made.

For the refinement one must know that the file loads as the type of the session,
which is looked for in the file anew. `SInv` adds that to `Inv`: `WholeInv`, no
save takes a section from a slot, since it writes them in the order of one that
had them all; and `SlotInv`, the copy in memory has the right validations and its
section 0 tells the type of the session, which no edit and no encryption touches.
Then `SavedLoadsAsView` says what a whole write loads as, and `TornMaps` what
remains of one cut short: nothing, the slot that was written, or the first slot,
which is the one last loaded or saved.

**The argument for generations 1 and 2.** `LoadedInv` says that an open session
has an image. The lemmas `SwitchBoxView`, `EditBoxView` and their like say, for
each way an image changes, how what the client sees of it changes: a switch moves
boxes between their two places and changes nothing but the current number. For
the refinement one must know as which game a buffer loads. In generation 1 that is
a function of what the client sees (`DetectedContent`), so no invariant is needed.
In generation 2 it is that no Crystal session exists, which is a consequence of the
finding; if the load is corrected, that proof has to be made again, and will find
that Crystal's first checksum is written at one offset and looked for at another.

**The argument for the file access.** Each property speaks of the end of a call;
`ReadInv` and `WriteInv` say how far it has come at each stage: after `ftell` the
measured size is that of the file, after `fread` the buffer is the file, and until
`fclose` the file is the prefix of the buffer that `flushed` tells. `StreamInv`,
that a stage inside a stream has one, is why closing never brings `handles` below
zero; it holds although streams are lost, since a lost one is never closed. For
`StreamsCorrect` it says exactly how many are open at each stage: those lost and
the one of the stage. For `Implements`, each step of the C library that does not end
a call maps to a stutter (`AccessInside`), and the one that does to the end of a
read, of a write or to a crash, by what the same invariants say of the state after
it. It needs two things more: that what a successful read leaves is a file also when
it was disturbed (`BufferInv`), and that no call goes on after its process died
(`StageInv`).

**The argument for the fields.** What the getters return is not inductive as it is
stated, through buffers of every size: `IVInv` and `GbInv` say it value by value.
Underneath are lemmas on bits: `FieldStored`, a field that is stored reads as what
was stored and a disjoint one as before, under arithmetic conditions on offsets
and widths that hold of each pair in the code; `OwnPlace`, two numbers up to 386
have two places in a list, by division; and `ListTold`, from which it follows that
a list says what it was told. `OneObject` says that an action leaves the other
objects alone.

**The argument for numbers and names.** The functions are loops over data, and
the library's theorems on induction and recursion take operators as parameters,
which the provers cannot instantiate. They are proved anew where they are needed,
for sets and functions: `SetInduction`, from the fact that a set of numbers that
is not empty has a least one, and `Recursion`, that a function defined by a step
from its last value exists and obeys its definition. From there:

- A number in base 256 is read byte by byte as a sum of powers (`Base256Reads`),
  and the byte that is written at each place is the digit of the number there,
  though what is left of it is divided unscaled and cut to a width that grows
  (`Base256Writes`). `BcdReads` and `BcdWrites` say the same of pairs of digits,
  with the places behind the number, which the reading stops at. `NumberInv` says
  that the buffer holds the number read.
- A name is read up to its first terminator (`CutFacts`, `KeptWhole`,
  `KeptLess`) and each character through a table in which some appear twice
  (`GoodTables`, `IndexFacts`, `DecodedFacts`). `Shows` says that a buffer begins
  with the codes of a text and then ends or has a terminator; `WrittenShows` and
  `GameShows` that all writers leave that, and `ShownIsRead` that it reads as that
  text. `NameIsIntended` alone is not inductive: the text a client read and writes
  back must be the name that was read, and one without a locale to convert it is
  cut, so `NameInv` says what is known of the name with and without.
- Casting a character to 16 bits a second time changes nothing (`NarrowFacts`), so
  a name that fits fits as it is read, and is read the same after it is written back
  (`NarrowedFits`). Of a copy without an end, what
  is kept is the copy: a text that fills the buffer leaves no room for any of what
  follows it (`LongerIsLarger`, `KeptBefore`).
- The types follow from the tables: a code of a table fits in a unit of its
  format, and what the search for a missing character returns is never stored,
  because the writers end a name at the first character the table lacks.

Only model-checked: `EveryCallReturns`, a liveness property whose proof would need
`ENABLED` of `LibraryStep`, which the prover does not handle, and `SavesKeepTheRest`,
an action property that speaks of `Decode`, where TLC and not the prover chooses
among the answers of an uninitialized union. The other properties of the passing
runs are proved.

## 5. Not modelled, and the plan

Not modelled: text of generations 4 and 5, which is not part of the build
(`lib/CMakeLists.txt` adds generations 1 to 3); the rest of the character tables,
beyond one character of each kind; the Windows variant of the locale functions;
SHA-1, third-party and called by none of the save code; the linear congruence of
`prng.h`, which no function uses; the table of error messages; the endianness
macros; and the test suite, which was read as statements about the code. The
structs of Pokemon and items are layouts the library gives no functions for, other
than those above.

What is left to do:

1. The memory a failed read leaks (`fs.c:92`, and a read whose `fclose` fails
   after the buffer was handed out).
2. Threads that convert names at the same time, with the locale between them.
3. The storage system of generation 3 spread over sections by bytes, so that a box
   crosses a boundary.
4. Proofs: what still holds of a generation 3 session when its index wraps.
