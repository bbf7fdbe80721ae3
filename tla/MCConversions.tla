---------------------------- MODULE MCConversions ----------------------------
(* Conversions with numbers at the edges of digits, bytes and buffers, and  *)
(* names that fit, that do not, and that some format has no codes for.      *)
EXTENDS Conversions

MCNumbers ==
  (0..12) \cup {99, 100, 255, 256, 257, 999, 1000, 9999, 10000, 65535, 65536,
                65792, 99999, 100000, 999999, 1000000, 16777215, 16777216,
                123456789}
MCTexts ==
  {<<>>, <<"A">>, <<"A", "A", "A">>, <<"A", "e_acute">>, <<"male">>,
   <<"?", "space">>, <<"e_acute", "A", "A">>, <<"A", "kanji", "A">>,
   <<"A", "newline", "A">>, <<"A", "A", "A", "A">>,
   <<"A", "U+10041", "A">>, <<"A", "U+10000", "A">>, <<"U+10041">>}
=============================================================================
