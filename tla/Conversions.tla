----------------------------- MODULE Conversions -----------------------------
(***************************************************************************)
(* A client reads and writes a number or a name of a save, over and over.  *)
(* The buffer is the save's; the client keeps its own copy of a name, which*)
(* it may write back.  The conversion of a name needs a UTF-8 locale, sets *)
(* one for the whole process and sets the client's again.                  *)
(***************************************************************************)
EXTENDS NumberFormats, TextFormats

CONSTANTS
  Numbers,       \* that the client writes
  NumberSizes,   \* of the buffers of numbers, in bytes
  Texts,         \* that the client writes
  TextSizes      \* of the buffers of names: num_chars

\* As far as the floating-point arithmetic of the code is exact, and a size_t
\* wide enough for the powers it multiplies with.
ASSUME ConversionsAssumption ==
  /\ Numbers \subseteq Nat
  /\ \A num \in Numbers : num <= 2147483647
  /\ NumberSizes \subseteq 1..8
  /\ Texts \subseteq Seq(Char)
  /\ TextSizes \subseteq Nat \ {0}

VARIABLES
  format,          \* of what the buffer holds
  buffer,          \* a field of the save
  text,            \* the client's copy of a name
  locale,          \* LC_CTYPE of the process
  installed,       \* whether the locale the library asks for exists
  number,          \* history: the number the buffer was loaded with or set to
  name             \* history: the name

vars == <<format, buffer, text, locale, installed, number, name>>

NumberFormat == {"bcd", "base256"}
TextFormat == DOMAIN Formats
Locales == {"C", "en_US.utf8", "de_DE.utf8"}

-----------------------------------------------------------------------------
(* The locale, pksav_mbstowcs and pksav_wcstombs.                          *)

\* Setting a locale that does not exist changes nothing.
Utf8 == installed \/ locale # "C"

\* The name of the old locale is a pointer into the C library, which frees
\* what it points at when the locale changes, unless that is "C": then any
\* locale may be set, or none.
RestoredLocales ==
  IF installed /\ locale \notin {"C", "en_US.utf8"} THEN Locales ELSE {locale}

-----------------------------------------------------------------------------
(* Numbers.                                                                *)

Import == IF format = "bcd" THEN ImportBcd(buffer) ELSE ImportBase256(buffer)

\* The numbers of a format that fit in a buffer: all others lose their highest
\* digits.
Modulus(kind, size) == IF kind = "bcd" THEN Power(100, size)
                       ELSE Power(256, size)

WriteNumber ==
  /\ format \in NumberFormat
  /\ \E num \in Numbers :
       /\ buffer' \in IF format = "bcd" THEN ExportBcd(num, Len(buffer))
                      ELSE {ExportBase256(num, Len(buffer))}
       /\ number' = num % Modulus(format, Len(buffer))
  /\ UNCHANGED <<format, text, locale, installed, name>>

-----------------------------------------------------------------------------
(* Names.                                                                  *)

\* Characters that the format has a code for: no newline, which generation 3 can
\* write but reads as an end, and none of which 16 bits keep nothing.
Coded(kind, c) ==
  /\ CodeOf(kind, c) \notin {-1} \cup Formats[kind].ends
  /\ Narrow(kind, c) # "NUL"

\* As much of a name as the format has codes for and the buffers have room for:
\* the game's in its own characters, the client's in bytes.
Fitting(kind, t, size) ==
  LongestPrefix(t, LAMBDA s : /\ Len(s) <= size
                              /\ \A c \in Range(s) : Coded(kind, c)
                              /\ Utf8Size(Narrowed(kind, s)) <= size)

ReadName ==
  /\ format \in TextFormat
  /\ text' = ImportText(format, buffer, Utf8)
  /\ locale' \in RestoredLocales
  /\ UNCHANGED <<format, buffer, installed, number, name>>

WriteText(t) ==
  /\ format \in TextFormat
  /\ buffer' = ExportText(format, t, buffer, Utf8)
  /\ locale' \in RestoredLocales
  /\ UNCHANGED <<format, installed, number>>

\* The client's copy is out of date then.
WriteName ==
  /\ \E t \in Texts : WriteText(t) /\ name' = Fitting(format, t, Len(buffer))
  /\ text' = <<"none">>

\* The client writes back what it has read and so means no change.  Its copy has
\* as many bytes as the buffer has characters; if the name takes all of them,
\* wcstombs has written no NUL, and the name goes on with whatever lies behind.
WriteBack ==
  /\ text # <<"none">>
  /\ \E rest \in IF Utf8Size(text) < Len(buffer) THEN {<<>>}
                 ELSE {<<>>} \cup Texts :
       WriteText(text \o rest)
  /\ UNCHANGED <<text, name>>

\* The client sets its own locale again, or another one.
SetLocale ==
  /\ format \in TextFormat
  /\ locale' \in Locales
  /\ locale' = "en_US.utf8" => installed
  /\ UNCHANGED <<format, buffer, text, installed, number, name>>

-----------------------------------------------------------------------------
\* What a game leaves: a number, with zeros in front, or a name of codes it
\* knows, ended or as long as the buffer, and anything behind its end.
GameNumber(kind, num, size) ==
  [i \in 1..size |->
     IF kind = "bcd" THEN LET pair == (num \div Power(100, size - i)) % 100
                          IN  16 * (pair \div 10) + (pair % 10)
     ELSE (num \div Power(256, size - i)) % 256]

Codes(kind) ==
  {entry[1] : entry \in Range(Formats[kind].map)} \cup Formats[kind].ends

\* The name as the game shows it, cut to what the client's buffer holds.
GameName(kind, codes) ==
  LET last == SelectInSeq(codes, LAMBDA code : \/ code \in Formats[kind].ends
                                               \/ Decoded(kind, code) = "NUL")
      chars == [i \in 1..Len(codes) |-> Decoded(kind, codes[i])]
  IN  Fitting(kind, IF last = 0 THEN chars ELSE SubSeq(chars, 1, last - 1),
              Len(codes))

Init ==
  /\ text = <<"none">>
  /\ \/ /\ format \in NumberFormat
        /\ \E size \in NumberSizes, num \in Numbers :
             /\ num < Modulus(format, size)
             /\ buffer = GameNumber(format, num, size)
             /\ number = num
        /\ name = <<>>
        /\ locale = "C" /\ installed = TRUE
     \/ /\ format \in TextFormat
        /\ \E size \in TextSizes : buffer \in [1..size -> Codes(format)]
        /\ number = 0
        /\ name = GameName(format, buffer)
        /\ installed \in BOOLEAN
        /\ locale \in Locales /\ (locale = "en_US.utf8" => installed)

Next ==
  \/ WriteNumber
  \/ ReadName
  \/ WriteName
  \/ WriteBack
  \/ SetLocale

Spec == Init /\ [][Next]_vars

-----------------------------------------------------------------------------
(* Properties.                                                             *)

\* The largest element of a buffer: a uint16_t for XD and Colosseum, or a byte.
LastUnit(kind) == IF kind = "xds" THEN 65535 ELSE 255

\* Every variable keeps its type; a byte is a byte, and no failed search of a
\* table, -1, is written into a name.
TypeOK ==
  /\ format \in NumberFormat \cup TextFormat
  /\ buffer \in Seq(0..LastUnit(format))
  /\ text \in Seq(Char) \cup {<<"none">>}
  /\ locale \in Locales
  /\ installed \in BOOLEAN
  /\ number \in Nat
  /\ name \in Seq(Char)

\* A number reads as it was written, by the library or by a game, and one too
\* large as its last digits, whatever an undefined conversion of 0 does
\* (pksav_import_bcd and _export_bcd, pksav_import_base256 and _export_base256).
NumberIsIntended == format \in NumberFormat => Import = number

\* A name reads as what fits of it, of each character what the format keeps,
\* also after it was read and written back any number of times, and from a copy
\* without an end; and none of an earlier, longer name is read behind it.  If the
\* locale the library asks for is missing, that holds of names in ASCII
\* (pksav_gen1_import_text, _export_text and their like).
NameIsIntended ==
  format \in TextFormat /\ (installed \/ Range(name) \subseteq Ascii) =>
    ImportText(format, buffer, Utf8) = Narrowed(format, name)
=============================================================================
