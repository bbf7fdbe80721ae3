---------------------------- MODULE NumberFormats ----------------------------
(***************************************************************************)
(* Numbers as the games store them, lib/math/bcd.c (two decimal digits a   *)
(* byte) and lib/math/base256.c (big endian binary).  A buffer is a        *)
(* sequence of bytes; numbers stay below 2^31, where the floating-point    *)
(* arithmetic of the code is exact.                                        *)
(***************************************************************************)
EXTENDS Integers, SequencesExt

\* pow of the C library.
Power(base, exp) ==
  LET power[k \in Nat] == IF k = 0 THEN 1 ELSE base * power[k - 1]
  IN  power[exp]

High(byte) == byte \div 16
Low(byte) == byte % 16
IsDigit(nibble) == nibble < 10

\* pksav_import_bcd: digits are collected up to the first byte whose high half
\* is none; a low half that is none is left out.
ImportBcd(p_buffer) ==
  LET stop == SelectInSeq(p_buffer, LAMBDA byte : ~IsDigit(High(byte)))
      count == IF stop = 0 THEN Len(p_buffer) ELSE stop - 1
      append(num, byte) == IF IsDigit(Low(byte))
                           THEN 100 * num + 10 * High(byte) + Low(byte)
                           ELSE 10 * num + High(byte)
      value[index \in 0..count] ==
        IF index = 0 THEN 0 ELSE append(value[index - 1], p_buffer[index])
  IN  value[count]

\* (size_t)log10(num); for 0 the conversion of minus infinity is undefined and
\* any outcome asks for between none and all of the bytes.
Log10(num, num_bytes) ==
  IF num = 0 THEN 0..(2 * num_bytes)
  ELSE {CHOOSE k \in 0..9 : /\ Power(10, k) <= num
                            /\ k = 9 \/ num < Power(10, k + 1)}

\* Wrong on purpose: an odd number of digits gets a byte too few.
NeededBytesRoundedDown(log10_num) == (log10_num + 1) \div 2

NeededBytes(log10_num) ==
  (log10_num + 1) \div 2 + (IF log10_num % 2 = 0 THEN 1 ELSE 0)

\* pksav_export_bcd: the last digits of the number, from the first byte on,
\* and 0xFF behind them.
ExportBcd(num, num_bytes) ==
  {LET needed == NeededBytes(log10_num)
       actual == IF num_bytes < needed THEN num_bytes ELSE needed
   IN  [index \in 1..num_bytes |->
          IF index > actual THEN 255
          ELSE LET rest == num \div Power(100, actual - index)
               IN  16 * ((rest \div 10) % 10) + (rest % 10)] :
     log10_num \in Log10(num, num_bytes)}

-----------------------------------------------------------------------------
\* pksav_import_base256, from the last byte to the first.
ImportBase256(p_buffer) ==
  LET size == Len(p_buffer)
      value[exp \in 0..size] ==
        IF exp = 0 THEN 0
        ELSE value[exp - 1] + p_buffer[size - exp + 1] * Power(256, exp - 1)
  IN  value[size]

\* pksav_export_base256, from the last byte to the first: the byte written
\* last is taken from the number unscaled, and the rest divided and cut.
ExportBase256(num, buffer_size) ==
  LET step[exp \in 0..(buffer_size - 1)] ==
        IF exp = 0 THEN [num |-> num, byte |-> num % 256]
        ELSE LET left == step[exp - 1].num - step[exp - 1].byte
             IN  [num |-> left,
                  byte |-> ((left \div Power(256, exp)) % Power(256, exp)) % 256]
  IN  [index \in 1..buffer_size |-> step[buffer_size - index].byte]
=============================================================================
