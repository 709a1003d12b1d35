---------------------------------- MODULE Utf8 ----------------------------------
(***************************************************************************)
(* From UTF-8 to 16-bit characters: fxmy_fstrfromchar() of fxmy_string.c,  *)
(* one iteration of its loop (so one call of fxmy_utf8_to_ucs2) at a time. *)
(*                                                                         *)
(* A call is described by the bytes it is given and by its caller.         *)
(*   "packet": fxmy_handle_query and COM_INIT_DB convert what follows the  *)
(*             command byte, into an array that is one character longer.   *)
(*   "string": fxmy_parse_auth_packet converts strlen() + 1 bytes, the     *)
(*             terminator included, into an array of as many characters.   *)
(* In both cases fxmy_recv has put a zero after the last byte (`memory').  *)
(* What lies beyond that zero may be any byte of Stray.                    *)
(***************************************************************************)
EXTENDS Integers, Sequences

CONSTANTS
  Texts,          \* what clients send, as sequences of bytes
  Points,         \* code points the texts are made of, up to U+FFFF
  Stray           \* bytes that may lie beyond a block

Byte == 0 .. 255
MaxChar == 65535               \* of a wchar_t
Char == 0 .. MaxChar

ASSUME Utf8Assumption ==
  /\ Texts \subseteq Seq(Byte)
  /\ Points \subseteq Nat \ {0}
  /\ \A p \in Points : p < 65536
  /\ Stray \subseteq Byte /\ Stray # {}

VARIABLES
  debug,          \* whether ASSERT is compiled in (fxmy_core.h 15-19)
  pc,             \* "idle", "converting", "done", "aborted" or "overrun"
  memory,         \* the bytes from `src' on, the terminator included
  size,           \* how many of them are to be converted
  dest,           \* the array of characters
  src, i          \* the position in memory and in dest
vars == <<debug, pc, memory, size, dest, src, i>>

Zeros(n) == [k \in 0 .. n - 1 |-> 0]

Init ==
  /\ debug \in BOOLEAN
  /\ pc = "idle"
  /\ memory = Zeros(0) /\ size = 0
  /\ dest = Zeros(0)
  /\ src = 0 /\ i = 0

-----------------------------------------------------------------------------
(* The callers.                                                            *)

Block(text) == [a \in 0 .. Len(text) |-> IF a = Len(text) THEN 0 ELSE text[a + 1]]

Room_OneShort(n) == n - 1           \* seeded fault: calloc(query_num_bytes - 1)
Room_NoTerminator(n) == n           \* seeded fault: calloc(query_num_bytes) for + 1
Room(n) == n + 1

Call(text, n, room) ==
  /\ pc \in {"idle", "done"}
  /\ pc' = "converting"
  /\ memory' = Block(text)
  /\ size' = n
  /\ dest' = Zeros(room)
  /\ src' = 0 /\ i' = 0
  /\ UNCHANGED debug

ConvertPacket(text) == Call(text, Len(text), Room(Len(text)))

\* n is the first zero of the block, which is where strlen() stops.
ConvertString(text) ==
  \E n \in DOMAIN Block(text) :
    /\ Block(text)[n] = 0
    /\ \A k \in 0 .. n - 1 : Block(text)[k] # 0
    /\ Call(text, n + 1, n + 1)

-----------------------------------------------------------------------------
(* fxmy_utf8_to_ucs2: x & 0x3F is x % 64, and so on, and x << 6 is x * 64. *)

TwoBytes(b0, b1)       == (b0 % 32) * 64 + (b1 % 64)
ThreeBytes_Shifted(b0, b1, b2) ==    \* seeded fault: << 6 for << 12
  (b0 % 16) * 64 + (b1 % 64) * 64 + (b2 % 64)
ThreeBytes(b0, b1, b2) == (b0 % 16) * 4096 + (b1 % 64) * 64 + (b2 % 64)

InText  == src < size
Reads(a) == IF a \in DOMAIN memory THEN {memory[a]} ELSE Stray

\* dest[i] = c; a character outside of the array ends the process, if not
\* now then when the loop has gone further.
Put(c) ==
  /\ \/ i \in DOMAIN dest /\ dest' = [dest EXCEPT ![i] = c] /\ pc' = pc
     \/ i \notin DOMAIN dest /\ dest' = dest /\ pc' = "overrun"
  /\ i' = i + 1

Converting(b) ==
  /\ pc = "converting" /\ InText
  /\ b \in Reads(src)
  /\ UNCHANGED <<debug, memory, size>>

\* A zero is not passed over: it is converted again by the next iteration.
StepAtZero_Passed == src + 1        \* seeded fault: *out = in + 1 for a zero too
StepAtZero == src

ConvertZero ==
  /\ Converting(0)
  /\ Put(0)
  /\ src' = StepAtZero

ConvertAscii ==
  \E b \in 1 .. 127 :
    /\ Converting(b)
    /\ Put(b)
    /\ src' = src + 1

Abort == pc' = "aborted" /\ UNCHANGED <<dest, i, src>>

StepOverThree_Four == src + 4       \* seeded fault: in + 4
StepOverThree == src + 3

\* Any lead byte from 0xE0 on, those of four bytes included.
ConvertThree ==
  \E b0 \in 224 .. 255, b1 \in Reads(src + 1), b2 \in Reads(src + 2) :
    /\ Converting(b0)
    /\ \/ debug /\ b1 = 0 /\ b2 = 0 /\ Abort
       \/ /\ ~(debug /\ b1 = 0 /\ b2 = 0)
          /\ Put(ThreeBytes(b0, b1, b2))
          /\ src' = StepOverThree

StepOverTwo == src + 2

ConvertTwo ==
  \E b0 \in 192 .. 223, b1 \in Reads(src + 1) :
    /\ Converting(b0)
    /\ \/ debug /\ b1 = 0 /\ Abort
       \/ /\ ~(debug /\ b1 = 0)
          /\ Put(TwoBytes(b0, b1))
          /\ src' = StepOverTwo

\* A byte 10xxxxxx cannot begin a character.
ConvertContinuation ==
  \E b \in 128 .. 191 : Converting(b) /\ Abort

Return ==
  /\ pc = "converting" /\ ~InText
  /\ pc' = "done"
  /\ UNCHANGED <<debug, memory, size, dest, src, i>>

Next ==
  \/ \E text \in Texts : ConvertPacket(text) \/ ConvertString(text)
  \/ ConvertZero \/ ConvertAscii \/ ConvertTwo \/ ConvertThree
  \/ ConvertContinuation \/ Return

Spec == Init /\ [][Next]_vars

-----------------------------------------------------------------------------
(* Properties.                                                             *)

\* Positions are where the loop can be: in the array or at its end, and at
\* most two bytes, the rest of a last character, beyond the text.
TypeOK ==
  /\ debug \in BOOLEAN
  /\ pc \in {"idle", "converting", "done", "aborted", "overrun"}
  /\ memory \in [DOMAIN memory -> Byte]
  /\ size \in Nat /\ 0 .. size - 1 \subseteq DOMAIN memory
  /\ src \in 0 .. size + 2
  /\ dest \in [DOMAIN dest -> Char]
  /\ i \in Nat /\ (pc # "overrun" => 0 .. i - 1 \subseteq DOMAIN dest)

\* Characters are stored outside of the array only by a call that has come
\* to a zero before the end of its bytes, and stays there: without one no
\* text, well formed or not, makes more characters than it has bytes.
OverrunsAtZeroOnly ==
  pc = "overrun" => src < size /\ memory[src] = 0

\* A call that returns leaves a terminated string, although neither the loop
\* nor two of its three callers write the terminator.
ReturnsTerminated ==
  pc = "done" => \E k \in DOMAIN dest : dest[k] = 0 /\ k >= i

\* A call whose bytes include a zero does not return, unless a lead byte
\* just before swallows the zero: converting strlen() + 1 bytes, as
\* fxmy_parse_auth_packet does, comes to no end on any well-formed name.
ReturnsPastSwallowedZero ==
  pc = "done" =>
    \A k \in 0 .. size - 1 :
      memory[k] = 0 => \E l \in 1 .. 2 : l <= k /\ memory[k - l] >= 192

\* UTF-8, as the reference for the code points that 16 bits hold.
Encode(p) ==
  IF p < 128 THEN <<p>>
  ELSE IF p < 2048 THEN <<192 + p \div 64, 128 + (p % 64)>>
  ELSE <<224 + p \div 4096, 128 + ((p \div 64) % 64), 128 + (p % 64)>>

\* The bytes of point p are next to be converted, and all of them are there.
NextIs(p) ==
  /\ pc = "converting"
  /\ src + Len(Encode(p)) <= size
  /\ \A k \in 1 .. Len(Encode(p)) : memory[src + k - 1] = Encode(p)[k]

\* Wherever the encoding of a code point is next, the loop appends that code
\* point and goes on behind the encoding: nothing is split, merged or lost,
\* and neither an assertion nor the end of the array is in the way.
DecodesUtf8 ==
  [][\A p \in Points : NextIs(p) =>
       /\ dest' = [dest EXCEPT ![i] = p] /\ i \in DOMAIN dest /\ i' = i + 1
       /\ src' = src + Len(Encode(p))
       /\ pc' = "converting"]_vars

=============================================================================
