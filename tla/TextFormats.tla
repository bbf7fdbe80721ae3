----------------------------- MODULE TextFormats -----------------------------
(***************************************************************************)
(* Names as the games store them: lib/gen1/text.c, lib/gen2/text.c,        *)
(* lib/gen3/text.c and lib/common/xds_common.c, over the conversions of    *)
(* the C library as lib/util/text_common.c calls them.                     *)
(*                                                                         *)
(* The tables are reduced to one character of each kind: of one to four    *)
(* bytes in UTF-8, in the table twice, behind the terminators, in no table *)
(* and, of four bytes, two that 16 bits do not hold.  A C string is the    *)
(* sequence of its characters.                                             *)
(***************************************************************************)
EXTENDS Integers, SequencesExt

Char == {"A", "space", "?", "newline", "e_acute", "male", "kanji",
         "U+10000", "U+10041"}
WideChar == Char \cup {"NUL"}

Utf8Length ==
  [c \in Char |-> CASE c = "e_acute"                -> 2
                    [] c \in {"male", "kanji"}      -> 3
                    [] c \in {"U+10000", "U+10041"} -> 4
                    [] OTHER                        -> 1]
Ascii == {c \in Char : Utf8Length[c] = 1}

\* The bytes of a text: which character's, and which of it.
Utf8Bytes(text) ==
  {byte \in (1..Len(text)) \X (1..4) : byte[2] <= Utf8Length[text[byte[1]]]}
Utf8Size(text) == Cardinality(Utf8Bytes(text))

-----------------------------------------------------------------------------
(* Entries of the tables in their order, <<code, character>>; the codes    *)
(* that end a name; and the one its rest is filled with.                   *)

GEN1 == [map  |-> << <<0, "NUL">>, <<80, "NUL">>, <<127, "space">>,
                     <<128, "A">>, <<186, "e_acute">>, <<230, "?">>,
                     <<239, "male">> >>,
         ends |-> {80},
         fill |-> 80]

GEN2 == [map  |-> << <<0, "NUL">>, <<80, "NUL">>, <<127, "space">>,
                     <<128, "A">>, <<230, "?">>, <<234, "e_acute">>,
                     <<239, "male">> >>,
         ends |-> {80},
         fill |-> 80]

\* Codes above PKSAV_GEN3_LAST_CHAR are control characters.
GEN3 == [map  |-> << <<0, "space">>, <<27, "e_acute">>, <<44, "?">>,
                     <<172, "?">>, <<181, "male">>, <<187, "A">>,
                     <<250, "NUL">>, <<254, "newline">>, <<255, "NUL">> >>,
         ends |-> {250, 254, 255},
         fill |-> 255]

\* XD and Colosseum store the wide characters themselves, in 16 bits.
XDS == [map  |-> << <<65, "A">>, <<32, "space">>, <<63, "?">>,
                    <<10, "newline">>, <<233, "e_acute">>, <<9794, "male">>,
                    <<28450, "kanji">>, <<0, "NUL">> >>,
        ends |-> {65535},
        fill |-> 65535]

Formats == [gen1 |-> GEN1, gen2 |-> GEN2, gen3 |-> GEN3, xds |-> XDS]

\* The cast to uint16_t: U+10041 loses its highest bit, and what is left of
\* U+10000 is 0.
Narrow(format, char) ==
  CASE format = "xds" /\ char = "U+10000" -> "NUL"
    [] format = "xds" /\ char = "U+10041" -> "A"
    [] OTHER                              -> char

Narrowed(format, text) == [i \in 1..Len(text) |-> Narrow(format, text[i])]

\* wchar_map_index: the first entry with the character, or -1.
MapIndex(format, char) ==
  LET i == SelectInSeq(Formats[format].map, LAMBDA entry : entry[2] = char)
  IN  IF i = 0 THEN -1 ELSE Formats[format].map[i][1]

Decoded(format, code) ==
  LET i == SelectInSeq(Formats[format].map, LAMBDA entry : entry[1] = code)
  IN  IF i = 0 THEN "NUL" ELSE Formats[format].map[i][2]

-----------------------------------------------------------------------------
(* The C library.                                                          *)

LongestPrefix(seq, Test(_)) ==
  SubSeq(seq, 1, Max({k \in 0..Len(seq) : Test(SubSeq(seq, 1, k))}))

Converted(utf8) == IF utf8 THEN Char ELSE Ascii

\* A conversion stops at what the locale cannot convert, and after num_chars
\* wide characters or num_chars bytes.
Mbstowcs(text, num_chars, utf8) ==
  LET cut == LongestPrefix(text, LAMBDA t : /\ Len(t) <= num_chars
                                            /\ Range(t) \subseteq Converted(utf8))
  IN  [i \in 1..num_chars |-> IF i <= Len(cut) THEN cut[i] ELSE "NUL"]

Wcstombs(widetext, utf8) ==
  LongestPrefix(widetext,
    LAMBDA t : /\ Range(t) \subseteq Converted(utf8)
               /\ Utf8Size(t) <= Len(widetext))

-----------------------------------------------------------------------------
(* Import and export.                                                      *)

ImportWidetext(format, buffer) ==
  [i \in 1..Len(buffer) |->
     IF \E j \in 1..i : buffer[j] \in Formats[format].ends
     THEN "NUL" ELSE Decoded(format, buffer[i])]

\* The code of a character, or -1.
CodeOf(format, char) == MapIndex(format, Narrow(format, char))

\* Wrong on purpose: the buffer is not filled first.
ExportOverOld(format, widetext, old) ==
  [i \in 1..Len(old) |->
     IF widetext[i] # "NUL" /\ CodeOf(format, widetext[i]) # -1
     THEN CodeOf(format, widetext[i]) ELSE old[i]]

\* Wrong on purpose: what is in no table is not looked at.
ExportUnchecked(format, widetext, old) ==
  [i \in 1..Len(old) |->
     IF format = "xds" /\ widetext[i] = "NUL" THEN Formats[format].fill
     ELSE CodeOf(format, widetext[i])]

\* Where a name ends, its NULs have a code of their own in the tables of the
\* games, the first, and it is this one that follows the name; for XD and
\* Colosseum they end the loop.
ExportWidetext(format, widetext, old) ==
  LET codes(c) == /\ CodeOf(format, c) # -1
                  /\ ~(format = "xds" /\ c = "NUL")
  IN  [i \in 1..Len(old) |->
         IF \A j \in 1..i : codes(widetext[j])
         THEN CodeOf(format, widetext[i]) ELSE Formats[format].fill]

ImportText(format, buffer, utf8) ==
  Wcstombs(ImportWidetext(format, buffer), utf8)

ExportText(format, text, old, utf8) ==
  ExportWidetext(format, Mbstowcs(text, Len(old), utf8), old)
=============================================================================
