------------------------------- MODULE Encoding -------------------------------
(***************************************************************************)
(* How numbers and strings are laid out in packets: what fxmy_write.c      *)
(* writes, and what fxmy_read.c is to read.                                *)
(***************************************************************************)
EXTENDS Integers, Sequences

Byte == 0 .. 255

\* The eight bytes of a number, from the lowest.
LittleEndian(v) ==
  LET q1 == v \div 256
      q2 == q1 \div 256
      q3 == q2 \div 256
      q4 == q3 \div 256
      q5 == q4 \div 256
      q6 == q5 \div 256
      q7 == q6 \div 256
  IN  <<v % 256, q1 % 256, q2 % 256, q3 % 256, q4 % 256, q5 % 256, q6 % 256, q7 % 256>>

U8(v)  == <<v>>
U16(v) == SubSeq(LittleEndian(v), 1, 2)

\* A length-coded binary: the number itself, or a byte that tells how many
\* bytes follow.
Lcb(v) ==
  IF v <= 250 THEN <<v>>
  ELSE IF v < 256 * 256 THEN <<252>> \o SubSeq(LittleEndian(v), 1, 2)
  ELSE IF v < 256 * 256 * 256 THEN <<253>> \o SubSeq(LittleEndian(v), 1, 3)
  ELSE <<254>> \o LittleEndian(v)

Terminated(s) == s \o <<0>>
=============================================================================
