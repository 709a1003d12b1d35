------------------------------ MODULE Utf8_proofs ------------------------------
(***************************************************************************)
(* Proofs about Utf8, for every text, every set of code points and         *)
(* whatever lies beyond a block.                                           *)
(*                                                                         *)
(* The argument: as long as no zero has been met, the loop has stored no   *)
(* more characters than it has passed bytes (Follows), and the array has   *)
(* at least as many places as there are bytes to convert (Shape).          *)
(***************************************************************************)
EXTENDS Utf8, TLAPS

Width(n) == 0 .. n - 1

\* The array is one place longer than the text, or the text ends in a zero.
Shape ==
  \/ DOMAIN dest = 0 .. size
  \/ DOMAIN dest = Width(size) /\ size >= 1 /\ memory[size - 1] = 0

AtZero == src < size /\ memory[src] = 0

Follows ==
  /\ pc = "converting" => AtZero \/ (i <= src /\ (src >= size => i \in DOMAIN dest))
  /\ pc = "done" => src >= size /\ i \in DOMAIN dest

Unwritten == \A k \in DOMAIN dest : k >= i => dest[k] = 0

Swallowed ==
  \A k \in Width(size) :
    k < src /\ memory[k] = 0 => \E l \in 1 .. 2 : l <= k /\ memory[k - l] >= 192

IInv ==
  /\ TypeOK
  /\ OverrunsAtZeroOnly
  /\ pc # "idle" => Shape
  /\ Follows
  /\ Unwritten
  /\ Swallowed

-----------------------------------------------------------------------------
(* The calls.                                                              *)

LEMMA InRange ==
  ASSUME NEW m \in Nat, NEW k \in Nat, k <= m
  PROVE  k \in 0 .. m
OBVIOUS

LEMMA InByte ==
  ASSUME NEW k \in Nat, k <= 255
  PROVE  k \in Byte
<1>1. 255 \in Nat
  OBVIOUS
<1>2. QED
  BY <1>1, InRange, Zenon DEF Byte

LEMMA InChar ==
  ASSUME NEW k \in Nat, k <= 65535
  PROVE  k \in Char
<1>1. MaxChar \in Nat /\ k <= MaxChar
  BY DEF MaxChar
<1>2. QED
  BY <1>1, InRange DEF Char

LEMMA ZeroIn == 0 \in Byte /\ 0 \in Char
<1>1. 0 \in Nat /\ 0 <= 255 /\ 0 <= 65535
  OBVIOUS
<1>2. QED
  BY <1>1, InByte, InChar

LEMMA InitInv == Init => IInv
<1> SUFFICES ASSUME Init PROVE IInv
  OBVIOUS
<1>1. DOMAIN dest = {} /\ DOMAIN memory = {} /\ size = 0 /\ src = 0 /\ i = 0 /\ pc = "idle"
  BY DEF Init, Zeros
<1>2. dest \in [DOMAIN dest -> Char] /\ memory \in [DOMAIN memory -> Byte]
  BY DEF Init, Zeros
<1>3. debug \in BOOLEAN
  BY DEF Init
<1>4. TypeOK
  BY <1>1, <1>2, <1>3 DEF TypeOK
<1>5. QED
  BY <1>1, <1>4 DEF IInv, OverrunsAtZeroOnly, Follows, Unwritten, Swallowed, Width

LEMMA BlockType ==
  ASSUME NEW text \in Texts
  PROVE  /\ Len(text) \in Nat
         /\ DOMAIN Block(text) = 0 .. Len(text)
         /\ Block(text) \in [DOMAIN Block(text) -> Byte]
         /\ Block(text)[Len(text)] = 0
<1>1. text \in Seq(Byte) /\ Len(text) \in Nat
  BY Utf8Assumption
<1>2. ASSUME NEW a \in 0 .. Len(text)
      PROVE  (IF a = Len(text) THEN 0 ELSE text[a + 1]) \in Byte
  <2>1. CASE a = Len(text)
    BY <2>1, ZeroIn
  <2>2. CASE a # Len(text)
    <3>1. a + 1 \in 1 .. Len(text)
      BY <1>1, <2>2
    <3>2. text[a + 1] \in Byte
      BY <1>1, <3>1
    <3>3. QED
      BY <2>2, <3>2
  <2>3. QED
    BY <2>1, <2>2
<1>3. QED
  BY <1>1, <1>2 DEF Block

LEMMA CallInv ==
  ASSUME IInv, NEW text \in Texts, NEW n \in Nat, NEW room \in Nat,
         Call(text, n, room), n <= Len(text) + 1,
         \/ room = n + 1
         \/ room = n /\ n >= 1 /\ Block(text)[n - 1] = 0
  PROVE  IInv'
<1>1. /\ pc' = "converting" /\ memory' = Block(text) /\ size' = n
      /\ dest' = Zeros(room) /\ src' = 0 /\ i' = 0 /\ debug' = debug
  BY DEF Call
<1>2. /\ Len(text) \in Nat /\ DOMAIN memory' = 0 .. Len(text)
      /\ memory' \in [DOMAIN memory' -> Byte]
  BY <1>1, BlockType
<1>3. DOMAIN dest' = 0 .. room - 1 /\ \A k \in DOMAIN dest' : dest'[k] = 0
  BY <1>1 DEF Zeros
<1>4. dest' \in [DOMAIN dest' -> Char]
  BY <1>1, ZeroIn DEF Zeros
<1>5. TypeOK'
  <2>1. 0 .. n - 1 \subseteq DOMAIN memory'
    BY <1>2
  <2>2. debug \in BOOLEAN
    BY DEF IInv, TypeOK
  <2>3. QED
    BY <1>1, <1>2, <1>4, <2>1, <2>2 DEF TypeOK
<1>6. Shape'
  BY <1>1, <1>3 DEF Shape, Width
<1>7. Follows'
  BY <1>1, <1>3 DEF Follows
<1>8. Unwritten' /\ Swallowed' /\ OverrunsAtZeroOnly'
  BY <1>1, <1>3 DEF Unwritten, Swallowed, OverrunsAtZeroOnly, Width
<1>9. QED
  BY <1>5, <1>6, <1>7, <1>8 DEF IInv

LEMMA ConvertInv ==
  ASSUME IInv, NEW text \in Texts, ConvertPacket(text) \/ ConvertString(text)
  PROVE  IInv'
<1>1. Len(text) \in Nat
  BY BlockType
<1>2. CASE ConvertPacket(text)
  <2>1. Call(text, Len(text), Len(text) + 1)
    BY <1>2 DEF ConvertPacket, Room
  <2>2. QED
    BY <1>1, <2>1, CallInv
<1>3. CASE ConvertString(text)
  <2>1. PICK n \in DOMAIN Block(text) : Block(text)[n] = 0 /\ Call(text, n + 1, n + 1)
    BY <1>3 DEF ConvertString
  <2>2. n \in Nat /\ n + 1 \in Nat /\ n + 1 <= Len(text) + 1 /\ n + 1 - 1 = n
    BY <1>1, <2>1, BlockType
  <2>3. QED
    BY <2>1, <2>2, CallInv
<1>4. QED
  BY <1>2, <1>3

-----------------------------------------------------------------------------
(* The loop.                                                               *)

\* What is read of the text is what it is; anything read is a byte.
LEMMA ReadsByte ==
  ASSUME IInv, NEW a
  PROVE  /\ Reads(a) \subseteq Byte
         /\ \A b \in Reads(a) : a \in Width(size) => b = memory[a]
<1>1. Width(size) \subseteq DOMAIN memory /\ memory \in [DOMAIN memory -> Byte]
  BY DEF IInv, TypeOK, Width
<1>2. Stray \subseteq Byte
  BY Utf8Assumption
<1>3. QED
  BY <1>1, <1>2 DEF Reads

LEMMA ConvertingFacts ==
  ASSUME IInv, NEW b, Converting(b)
  PROVE  /\ pc = "converting" /\ src < size /\ src \in Nat /\ size \in Nat /\ i \in Nat
         /\ src \in Width(size) /\ b = memory[src] /\ b \in Byte
         /\ debug' = debug /\ memory' = memory /\ size' = size
<1>1. pc = "converting" /\ src < size /\ b \in Reads(src)
      /\ debug' = debug /\ memory' = memory /\ size' = size
  BY DEF Converting, InText
<1>2. size \in Nat /\ src \in 0 .. size + 2 /\ i \in Nat
  BY DEF IInv, TypeOK
<1>3. src \in Nat /\ src \in Width(size)
  BY <1>1, <1>2 DEF Width
<1>4. QED
  BY <1>1, <1>2, <1>3, ReadsByte

\* Before a byte that is not zero there is room.
LEMMA RoomLeft ==
  ASSUME IInv, NEW b, Converting(b), b # 0
  PROVE  i <= src /\ i \in DOMAIN dest
<1>1. pc = "converting" /\ src < size /\ src \in Nat /\ size \in Nat /\ i \in Nat
      /\ memory[src] # 0
  BY ConvertingFacts
<1>2. i <= src
  BY <1>1 DEF IInv, Follows, AtZero
<1>3. Shape
  BY <1>1 DEF IInv
<1>4. QED
  BY <1>1, <1>2, <1>3 DEF Shape, Width

\* A character is stored, and the loop goes on behind its bytes.
LEMMA StepInv ==
  ASSUME IInv, NEW b, Converting(b), b # 0, NEW c \in Char, NEW w \in 1 .. 3,
         w > 1 => b >= 192, Put(c), src' = src + w
  PROVE  IInv'
<1>1. /\ pc = "converting" /\ src < size /\ src \in Nat /\ size \in Nat /\ i \in Nat
      /\ src \in Width(size) /\ b = memory[src] /\ b \in Byte
      /\ debug' = debug /\ memory' = memory /\ size' = size
  BY ConvertingFacts
<1>2. i <= src /\ i \in DOMAIN dest
  BY RoomLeft
<1>3. dest' = [dest EXCEPT ![i] = c] /\ pc' = "converting" /\ i' = i + 1
  BY <1>1, <1>2 DEF Put
<1>4. DOMAIN dest' = DOMAIN dest
  BY <1>3
<1>5. dest' \in [DOMAIN dest' -> Char]
  <2>1. dest \in [DOMAIN dest -> Char]
    BY DEF IInv, TypeOK
  <2>2. QED
    BY <1>2, <1>3, <2>1
<1>6. src' \in 0 .. size' + 2 /\ src' \in Nat
  BY <1>1
<1>7. 0 .. i' - 1 \subseteq DOMAIN dest'
  <2>1. 0 .. i - 1 \subseteq DOMAIN dest
    BY <1>1 DEF IInv, TypeOK
  <2>2. QED
    BY <1>1, <1>2, <1>3, <1>4, <2>1
<1>8. TypeOK'
  <2>1. debug \in BOOLEAN /\ 0 .. size - 1 \subseteq DOMAIN memory
        /\ memory \in [DOMAIN memory -> Byte]
    BY DEF IInv, TypeOK
  <2>2. i' \in Nat
    BY <1>1, <1>3
  <2>3. QED
    BY <1>1, <1>3, <1>5, <1>6, <1>7, <2>1, <2>2 DEF TypeOK
<1>9. Shape /\ Shape'
  BY <1>1, <1>4 DEF IInv, Shape
<1>10. i' <= src' /\ (src' >= size' => i' \in DOMAIN dest')
  <2>1. i' <= src'
    BY <1>1, <1>2, <1>3
  <2>2. CASE DOMAIN dest = 0 .. size
    BY <1>1, <1>2, <1>3, <1>4, <2>1, <2>2
  <2>3. CASE DOMAIN dest = Width(size) /\ size >= 1 /\ memory[size - 1] = 0
    <3>1. src # size - 1
      BY <1>1, <2>3
    <3>2. i + 1 \in Width(size)
      BY <1>1, <1>2, <3>1 DEF Width
    <3>3. QED
      BY <1>3, <1>4, <2>1, <2>3, <3>2
  <2>4. QED
    BY <1>9, <2>2, <2>3 DEF Shape
<1>11. Follows'
  BY <1>3, <1>10 DEF Follows
<1>12. Unwritten'
  <2>1. \A k \in DOMAIN dest : k >= i => dest[k] = 0
    BY DEF IInv, Unwritten
  <2>2. \A k \in DOMAIN dest : k \in Int
    BY <1>1, <1>9 DEF Shape, Width
  <2>3. ASSUME NEW k \in DOMAIN dest, k >= i + 1 PROVE dest'[k] = 0
    BY <1>1, <1>3, <2>1, <2>2, <2>3
  <2>4. QED
    BY <1>3, <1>4, <2>3 DEF Unwritten
<1>13. Swallowed'
  <2>1. SUFFICES ASSUME NEW k \in Width(size), k < src + w, memory[k] = 0
                 PROVE  \E l \in 1 .. 2 : l <= k /\ memory[k - l] >= 192
    BY <1>1 DEF Swallowed
  <2>2. k \in Nat
    BY <1>1 DEF Width
  <2>3. CASE k < src
    BY <2>1, <2>3 DEF IInv, Swallowed
  <2>4. CASE k >= src
    <3>1. k # src
      BY <1>1, <2>1
    <3>2. k - src \in 1 .. 2 /\ w > 1
      BY <1>1, <2>1, <2>2, <2>4, <3>1
    <3>3. memory[k - (k - src)] >= 192 /\ k - src <= k
      <4>1. k - (k - src) = src
        BY <1>1, <2>2
      <4>2. QED
        BY <1>1, <2>2, <3>2, <4>1
    <3>4. QED
      BY <3>2, <3>3
  <2>5. QED
    BY <1>1, <2>2, <2>3, <2>4
<1>14. OverrunsAtZeroOnly'
  BY <1>3 DEF OverrunsAtZeroOnly
<1>15. QED
  BY <1>8, <1>9, <1>11, <1>12, <1>13, <1>14 DEF IInv

\* At a zero the loop stays, and stores zeros from there on.
LEMMA ZeroInv ==
  ASSUME IInv, ConvertZero
  PROVE  IInv'
<1>1. /\ Converting(0) /\ Put(0) /\ src' = src
  BY DEF ConvertZero, StepAtZero
<1>2. /\ pc = "converting" /\ src < size /\ src \in Nat /\ size \in Nat /\ i \in Nat
      /\ memory[src] = 0 /\ debug' = debug /\ memory' = memory /\ size' = size
  BY <1>1, ConvertingFacts
<1>3. /\ i' = i + 1 /\ DOMAIN dest' = DOMAIN dest
      /\ \/ i \in DOMAIN dest /\ dest' = [dest EXCEPT ![i] = 0] /\ pc' = pc
         \/ i \notin DOMAIN dest /\ dest' = dest /\ pc' = "overrun"
  BY <1>1 DEF Put
<1>4. dest' \in [DOMAIN dest' -> Char]
  <2>1. dest \in [DOMAIN dest -> Char] /\ 0 \in Char
    BY ZeroIn DEF IInv, TypeOK
  <2>2. QED
    BY <1>3, <2>1
<1>5. TypeOK'
  <2>1. /\ debug \in BOOLEAN /\ 0 .. size - 1 \subseteq DOMAIN memory
        /\ memory \in [DOMAIN memory -> Byte] /\ src \in 0 .. size + 2
        /\ 0 .. i - 1 \subseteq DOMAIN dest
    BY <1>2 DEF IInv, TypeOK
  <2>2. pc' # "overrun" => 0 .. i' - 1 \subseteq DOMAIN dest'
    BY <1>2, <1>3, <2>1
  <2>3. i' \in Nat /\ pc' \in {"idle", "converting", "done", "aborted", "overrun"}
    BY <1>2, <1>3
  <2>4. QED
    BY <1>1, <1>2, <1>4, <2>1, <2>2, <2>3 DEF TypeOK
<1>6. Shape /\ Shape'
  BY <1>2, <1>3 DEF IInv, Shape
<1>7. Follows' /\ OverrunsAtZeroOnly'
  BY <1>1, <1>2, <1>3 DEF Follows, AtZero, OverrunsAtZeroOnly
<1>8. Unwritten'
  <2>1. \A k \in DOMAIN dest : k >= i => dest[k] = 0
    BY DEF IInv, Unwritten
  <2>2. \A k \in DOMAIN dest : k \in Int
    BY <1>2, <1>6 DEF Shape, Width
  <2>3. ASSUME NEW k \in DOMAIN dest, k >= i + 1 PROVE dest'[k] = 0
    BY <1>2, <1>3, <2>1, <2>2, <2>3
  <2>4. QED
    BY <1>3, <2>3 DEF Unwritten
<1>9. Swallowed'
  BY <1>1, <1>2 DEF IInv, Swallowed
<1>10. QED
  BY <1>5, <1>6, <1>7, <1>8, <1>9 DEF IInv

\* Bytes are ranges of numbers.
LEMMA AsciiRange == \A b \in 1 .. 127 : b \in Nat /\ b # 0 /\ b < 128
OBVIOUS

LEMMA ContinuationRange == \A b \in 128 .. 191 : b \in Nat /\ b >= 128 /\ b < 192
OBVIOUS

LEMMA LeadTwoRange == \A b \in 192 .. 223 : b \in Nat /\ b >= 192 /\ b < 224
OBVIOUS

LEMMA LeadThreeRange == \A b \in 224 .. 255 : b \in Nat /\ b >= 224
OBVIOUS

LEMMA ByteRange == \A b \in Byte : b \in Nat /\ b < 256
BY DEF Byte

LEMMA AsciiInv ==
  ASSUME IInv, ConvertAscii
  PROVE  IInv'
<1>1. PICK b \in 1 .. 127 : Converting(b) /\ Put(b) /\ src' = src + 1
  BY Zenon DEF ConvertAscii
<1>2. b \in Nat /\ b # 0 /\ b <= 65535
  <2>1. b \in Nat /\ b # 0 /\ b < 128
    BY AsciiRange, Zenon
  <2>2. QED
    BY <2>1
<1>3. b \in Char
  BY <1>2, InChar
<1>4. QED
  BY <1>1, <1>2, <1>3, StepInv

LEMMA TwoBytesType ==
  ASSUME NEW b0 \in Nat, NEW b1 \in Nat
  PROVE  TwoBytes(b0, b1) \in Char
<1>1. TwoBytes(b0, b1) \in Nat /\ TwoBytes(b0, b1) <= 65535
  BY DEF TwoBytes
<1>2. QED
  BY <1>1, InChar

LEMMA ThreeBytesType ==
  ASSUME NEW b0 \in Nat, NEW b1 \in Nat, NEW b2 \in Nat
  PROVE  ThreeBytes(b0, b1, b2) \in Char
<1>1. ThreeBytes(b0, b1, b2) \in Nat /\ ThreeBytes(b0, b1, b2) <= 65535
  BY DEF ThreeBytes
<1>2. QED
  BY <1>1, InChar

\* An assertion that fails leaves everything as it was.
LEMMA AbortInv ==
  ASSUME IInv, NEW b, Converting(b), Abort
  PROVE  IInv'
<1>1. /\ pc' = "aborted" /\ dest' = dest /\ i' = i /\ src' = src
      /\ debug' = debug /\ memory' = memory /\ size' = size /\ pc = "converting"
  BY DEF Abort, Converting
<1>2. TypeOK'
  BY <1>1 DEF IInv, TypeOK
<1>3. Shape' /\ Unwritten' /\ Swallowed' /\ Follows' /\ OverrunsAtZeroOnly'
  BY <1>1 DEF IInv, Shape, Unwritten, Swallowed, Follows, OverrunsAtZeroOnly
<1>4. QED
  BY <1>2, <1>3 DEF IInv

LEMMA TwoInv ==
  ASSUME IInv, ConvertTwo
  PROVE  IInv'
<1>1. PICK b0 \in 192 .. 223, b1 \in Reads(src + 1) :
        /\ Converting(b0)
        /\ \/ Abort
           \/ Put(TwoBytes(b0, b1)) /\ src' = src + 2
  BY Zenon DEF ConvertTwo, StepOverTwo
<1>2. b0 \in Nat /\ b0 >= 192 /\ b1 \in Nat
  <2>1. b1 \in Byte
    BY ReadsByte
  <2>2. QED
    BY <2>1, LeadTwoRange, ByteRange, Zenon
<1>3. TwoBytes(b0, b1) \in Char
  BY <1>2, TwoBytesType
<1>4. CASE Abort
  BY <1>1, <1>4, AbortInv
<1>5. CASE Put(TwoBytes(b0, b1)) /\ src' = src + 2
  <2>1. b0 # 0
    BY <1>2
  <2>2. QED
    BY <1>1, <1>2, <1>3, <1>5, <2>1, StepInv
<1>6. QED
  BY <1>1, <1>4, <1>5

LEMMA ThreeInv ==
  ASSUME IInv, ConvertThree
  PROVE  IInv'
<1>1. PICK b0 \in 224 .. 255, b1 \in Reads(src + 1), b2 \in Reads(src + 2) :
        /\ Converting(b0)
        /\ \/ Abort
           \/ Put(ThreeBytes(b0, b1, b2)) /\ src' = src + 3
  BY Zenon DEF ConvertThree, StepOverThree
<1>2. b0 \in Nat /\ b0 >= 224 /\ b1 \in Nat /\ b2 \in Nat
  <2>1. b1 \in Byte /\ b2 \in Byte
    BY ReadsByte
  <2>2. QED
    BY <2>1, LeadThreeRange, ByteRange, Zenon
<1>3. ThreeBytes(b0, b1, b2) \in Char
  BY <1>2, ThreeBytesType
<1>4. CASE Abort
  BY <1>1, <1>4, AbortInv
<1>5. CASE Put(ThreeBytes(b0, b1, b2)) /\ src' = src + 3
  <2>1. b0 # 0 /\ b0 >= 192
    BY <1>2
  <2>2. QED
    BY <1>1, <1>3, <1>5, <2>1, StepInv
<1>6. QED
  BY <1>1, <1>4, <1>5

LEMMA ContinuationInv ==
  ASSUME IInv, ConvertContinuation
  PROVE  IInv'
<1>1. PICK b : Converting(b) /\ Abort
  BY Zenon DEF ConvertContinuation
<1>2. QED
  BY <1>1, AbortInv

LEMMA ReturnInv ==
  ASSUME IInv, Return
  PROVE  IInv'
<1>1. /\ pc = "converting" /\ ~(src < size) /\ pc' = "done"
      /\ debug' = debug /\ memory' = memory /\ size' = size
      /\ dest' = dest /\ src' = src /\ i' = i
  BY DEF Return, InText
<1>2. src \in Nat /\ size \in Nat
  BY DEF IInv, TypeOK
<1>3. TypeOK'
  BY <1>1 DEF IInv, TypeOK
<1>4. Shape' /\ Unwritten' /\ Swallowed' /\ OverrunsAtZeroOnly'
  BY <1>1 DEF IInv, Shape, Unwritten, Swallowed, OverrunsAtZeroOnly
<1>5. Follows'
  BY <1>1, <1>2 DEF IInv, Follows, AtZero
<1>6. QED
  BY <1>3, <1>4, <1>5 DEF IInv

LEMMA NextInv == IInv /\ [Next]_vars => IInv'
<1> SUFFICES ASSUME IInv, [Next]_vars PROVE IInv'
  OBVIOUS
<1>1. CASE Next
  BY <1>1, ConvertInv, ZeroInv, AsciiInv, TwoInv, ThreeInv, ContinuationInv, ReturnInv DEF Next
<1>2. CASE UNCHANGED vars
  BY <1>2 DEF vars, IInv, TypeOK, OverrunsAtZeroOnly, Shape, Follows, AtZero, Unwritten,
     Swallowed
<1>3. QED
  BY <1>1, <1>2

-----------------------------------------------------------------------------
(* What follows from the invariant.                                        *)

\* The invariant holds in every reachable state.
THEOREM Utf8Invariance == Spec => []IInv
BY InitInv, NextInv, PTL DEF Spec

\* Every position and character has its type, for every text.
THEOREM Utf8TypeCorrect == Spec => []TypeOK
<1>1. IInv => TypeOK
  BY DEF IInv
<1>2. QED
  BY <1>1, Utf8Invariance, PTL

\* Without a zero before the end of its bytes no text, well formed or not,
\* makes the loop write behind the array.
THEOREM NoOverrunWithoutZero == Spec => []OverrunsAtZeroOnly
<1>1. IInv => OverrunsAtZeroOnly
  BY DEF IInv
<1>2. QED
  BY <1>1, Utf8Invariance, PTL

\* A call that returns leaves the string terminated.
THEOREM AlwaysTerminated == Spec => []ReturnsTerminated
<1>1. IInv => ReturnsTerminated
  <2>1. SUFFICES ASSUME IInv, pc = "done"
                 PROVE  \E k \in DOMAIN dest : dest[k] = 0 /\ k >= i
    BY DEF ReturnsTerminated
  <2>2. i \in DOMAIN dest /\ i \in Nat
    BY <2>1 DEF IInv, Follows, TypeOK
  <2>3. dest[i] = 0 /\ i >= i
    BY <2>1, <2>2 DEF IInv, Unwritten
  <2>4. QED
    BY <2>2, <2>3
<1>2. QED
  BY <1>1, Utf8Invariance, PTL

\* A call returns past a zero only if a lead byte before it takes the zero
\* for the rest of its character.
THEOREM ZerosStopTheLoop == Spec => []ReturnsPastSwallowedZero
<1>1. IInv => ReturnsPastSwallowedZero
  <2>1. SUFFICES ASSUME IInv, pc = "done", NEW k \in 0 .. size - 1, memory[k] = 0
                 PROVE  \E l \in 1 .. 2 : l <= k /\ memory[k - l] >= 192
    BY DEF ReturnsPastSwallowedZero
  <2>2. k \in Width(size) /\ k < src
    BY <2>1 DEF IInv, Follows, TypeOK, Width
  <2>3. QED
    BY <2>1, <2>2 DEF IInv, Swallowed
<1>2. QED
  BY <1>1, Utf8Invariance, PTL

-----------------------------------------------------------------------------
(* The loop reads UTF-8.                                                   *)

LEMMA TwoDigits ==
  ASSUME NEW p \in Nat, p >= 128, p < 2048
  PROVE  /\ 192 + p \div 64 >= 192 /\ 192 + p \div 64 < 224 /\ 128 + (p % 64) # 0
         /\ TwoBytes(192 + p \div 64, 128 + (p % 64)) = p
<1> DEFINE a == p \div 64
           c == p % 64
<1>1. a \in Nat /\ c \in Nat /\ c < 64 /\ p = 64 * a + c /\ a < 32
  OBVIOUS
<1> HIDE DEF a, c
<1>2. (192 + a) % 32 = a /\ (128 + c) % 64 = c
  BY <1>1
<1>3. QED
  BY <1>1, <1>2 DEF TwoBytes, a, c

LEMMA ThreeDigits ==
  ASSUME NEW p \in Nat, p >= 2048, p < 65536
  PROVE  /\ 224 + p \div 4096 >= 224 /\ 128 + ((p \div 64) % 64) # 0
         /\ ThreeBytes(224 + p \div 4096, 128 + ((p \div 64) % 64), 128 + (p % 64)) = p
<1> DEFINE a == p \div 4096
           b == (p \div 64) % 64
           c == p % 64
<1>1. a \in Nat /\ b \in Nat /\ c \in Nat /\ b < 64 /\ c < 64 /\ a < 16
      /\ p = 4096 * a + 64 * b + c
  OBVIOUS
<1> HIDE DEF a, b, c
<1>2. (224 + a) % 16 = a /\ (128 + b) % 64 = b /\ (128 + c) % 64 = c
  BY <1>1
<1>3. QED
  BY <1>1, <1>2 DEF ThreeBytes, a, b, c

\* What the next iteration does depends on the byte it begins with.
LEMMA NextByFirstByte ==
  ASSUME IInv, Next, pc = "converting", src < size
  PROVE  \/ memory[src] = 0
         \/ memory[src] < 128 /\ Put(memory[src]) /\ src' = src + 1
         \/ memory[src] >= 128 /\ memory[src] < 192
         \/ /\ memory[src] >= 192 /\ memory[src] < 224
            /\ \E b1 \in Reads(src + 1) :
                 b1 = 0 \/ (Put(TwoBytes(memory[src], b1)) /\ src' = src + 2)
         \/ /\ memory[src] >= 224
            /\ \E b1 \in Reads(src + 1), b2 \in Reads(src + 2) :
                 b1 = 0 \/ (Put(ThreeBytes(memory[src], b1, b2)) /\ src' = src + 3)
<1>1. ConvertZero \/ ConvertAscii \/ ConvertTwo \/ ConvertThree \/ ConvertContinuation
  BY DEF Next, ConvertPacket, ConvertString, Call, Return, InText
<1>2. CASE ConvertZero
  BY <1>2, ConvertingFacts DEF ConvertZero
<1>3. CASE ConvertAscii
  <2>1. PICK b \in 1 .. 127 : Converting(b) /\ Put(b) /\ src' = src + 1
    BY <1>3, Zenon DEF ConvertAscii
  <2>2. b < 128
    BY AsciiRange, Zenon
  <2>3. b = memory[src]
    BY <2>1, ConvertingFacts
  <2>4. QED
    BY <2>1, <2>2, <2>3
<1>4. CASE ConvertTwo
  <2>1. PICK b0 \in 192 .. 223, b1 \in Reads(src + 1) :
          Converting(b0) /\ (b1 = 0 \/ (Put(TwoBytes(b0, b1)) /\ src' = src + 2))
    BY <1>4, Zenon DEF ConvertTwo, StepOverTwo
  <2>2. b0 >= 192 /\ b0 < 224
    BY LeadTwoRange, Zenon
  <2>3. b0 = memory[src]
    BY <2>1, ConvertingFacts
  <2>4. QED
    BY <2>1, <2>2, <2>3
<1>5. CASE ConvertThree
  <2>1. PICK b0 \in 224 .. 255, b1 \in Reads(src + 1), b2 \in Reads(src + 2) :
          Converting(b0) /\ (b1 = 0 \/ (Put(ThreeBytes(b0, b1, b2)) /\ src' = src + 3))
    BY <1>5, Zenon DEF ConvertThree, StepOverThree
  <2>2. b0 >= 224
    BY LeadThreeRange, Zenon
  <2>3. b0 = memory[src]
    BY <2>1, ConvertingFacts
  <2>4. QED
    BY <2>1, <2>2, <2>3
<1>6. CASE ConvertContinuation
  <2>1. PICK b \in 128 .. 191 : Converting(b)
    BY <1>6, Zenon DEF ConvertContinuation
  <2>2. b >= 128 /\ b < 192
    BY ContinuationRange, Zenon
  <2>3. b = memory[src]
    BY <2>1, ConvertingFacts
  <2>4. QED
    BY <2>2, <2>3
<1>7. QED
  BY <1>1, <1>2, <1>3, <1>4, <1>5, <1>6

\* The code point p, n bytes long, is taken from the text.
Decoded(p, n) ==
  /\ dest' = [dest EXCEPT ![i] = p] /\ i \in DOMAIN dest /\ i' = i + 1
  /\ src' = src + n
  /\ pc' = "converting"

LEMMA PutDecodes ==
  ASSUME IInv, pc = "converting", src < size, memory[src] # 0, NEW p, NEW n,
         Put(p), src' = src + n
  PROVE  Decoded(p, n)
<1>1. src \in Nat /\ size \in Nat /\ i \in Nat
  BY DEF IInv, TypeOK
<1>2. i <= src
  BY <1>1 DEF IInv, Follows, AtZero
<1>3. i \in DOMAIN dest
  BY <1>1, <1>2 DEF IInv, Shape, Width
<1>4. QED
  BY <1>3 DEF Put, Decoded

LEMMA DecodesAscii ==
  ASSUME IInv, Next, pc = "converting", NEW p \in Nat, p # 0, p < 128,
         src + 1 <= size, memory[src] = p
  PROVE  Decoded(p, 1)
<1>1. src \in Nat /\ size \in Nat
  BY DEF IInv, TypeOK
<1>2. Put(p) /\ src' = src + 1
  BY <1>1, NextByFirstByte
<1>3. QED
  BY <1>1, <1>2, PutDecodes

LEMMA DecodesTwo ==
  ASSUME IInv, Next, pc = "converting", NEW p \in Nat, p >= 128, p < 2048,
         src + 2 <= size, memory[src] = 192 + p \div 64, memory[src + 1] = 128 + (p % 64)
  PROVE  Decoded(p, 2)
<1>1. src \in Nat /\ size \in Nat /\ src < size /\ src + 1 \in Width(size)
  BY DEF IInv, TypeOK, Width
<1>2. memory[src] >= 192 /\ memory[src] < 224 /\ memory[src] \in Nat
  BY TwoDigits
<1>3. PICK b1 \in Reads(src + 1) :
        b1 = 0 \/ (Put(TwoBytes(memory[src], b1)) /\ src' = src + 2)
  BY <1>1, <1>2, NextByFirstByte
<1>4. b1 = memory[src + 1]
  BY <1>1, ReadsByte
<1>5. b1 # 0 /\ TwoBytes(memory[src], b1) = p
  BY <1>4, TwoDigits
<1>6. memory[src] # 0
  BY <1>2
<1>7. QED
  BY <1>1, <1>3, <1>5, <1>6, PutDecodes

LEMMA DecodesThree ==
  ASSUME IInv, Next, pc = "converting", NEW p \in Nat, p >= 2048, p < 65536,
         src + 3 <= size, memory[src] = 224 + p \div 4096,
         memory[src + 1] = 128 + ((p \div 64) % 64), memory[src + 2] = 128 + (p % 64)
  PROVE  Decoded(p, 3)
<1>1. /\ src \in Nat /\ size \in Nat /\ src < size
      /\ src + 1 \in Width(size) /\ src + 2 \in Width(size)
  BY DEF IInv, TypeOK, Width
<1>2. memory[src] >= 224 /\ memory[src] \in Nat
  BY ThreeDigits
<1>3. PICK b1 \in Reads(src + 1), b2 \in Reads(src + 2) :
        b1 = 0 \/ (Put(ThreeBytes(memory[src], b1, b2)) /\ src' = src + 3)
  BY <1>1, <1>2, NextByFirstByte
<1>4. b1 = memory[src + 1] /\ b2 = memory[src + 2]
  BY <1>1, ReadsByte
<1>5. b1 # 0 /\ ThreeBytes(memory[src], b1, b2) = p
  BY <1>4, ThreeDigits
<1>6. memory[src] # 0
  BY <1>2
<1>7. QED
  BY <1>1, <1>3, <1>5, <1>6, PutDecodes

LEMMA NextDecodes ==
  ASSUME IInv, Next, NEW p \in Points, NextIs(p)
  PROVE  Decoded(p, Len(Encode(p)))
<1>1. p \in Nat /\ p # 0 /\ p < 65536
  BY Utf8Assumption
<1>2. /\ pc = "converting" /\ src + Len(Encode(p)) <= size
      /\ \A k \in 1 .. Len(Encode(p)) : memory[src + k - 1] = Encode(p)[k]
      /\ src \in Nat /\ src + 1 - 1 = src /\ src + 2 - 1 = src + 1 /\ src + 3 - 1 = src + 2
  BY DEF NextIs, IInv, TypeOK
<1>3. CASE p < 128
  <2>1. Encode(p) = <<p>>
    BY <1>3 DEF Encode
  <2>2. memory[src] = p /\ src + 1 <= size
    BY <1>2, <2>1
  <2>3. QED
    BY <1>1, <1>2, <1>3, <2>1, <2>2, DecodesAscii
<1>4. CASE p >= 128 /\ p < 2048
  <2>1. Encode(p) = <<192 + p \div 64, 128 + (p % 64)>>
    BY <1>1, <1>4 DEF Encode
  <2> DEFINE e == Encode(p)
  <2>2. Len(e) = 2 /\ e[1] = 192 + p \div 64 /\ e[2] = 128 + (p % 64)
    BY <2>1
  <2> HIDE DEF e
  <2>3. memory[src + 1 - 1] = e[1] /\ memory[src + 2 - 1] = e[2] /\ src + 2 <= size
    BY <1>2, <2>2 DEF e
  <2>4. Decoded(p, 2)
    BY <1>1, <1>2, <1>4, <2>2, <2>3, DecodesTwo
  <2>5. QED
    BY <2>2, <2>4 DEF e
<1>5. CASE p >= 2048
  <2>1. Encode(p) = <<224 + p \div 4096, 128 + ((p \div 64) % 64), 128 + (p % 64)>>
    BY <1>1, <1>5 DEF Encode
  <2> DEFINE e == Encode(p)
  <2>2. /\ Len(e) = 3 /\ e[1] = 224 + p \div 4096
        /\ e[2] = 128 + ((p \div 64) % 64) /\ e[3] = 128 + (p % 64)
    BY <2>1
  <2> HIDE DEF e
  <2>3. /\ memory[src + 1 - 1] = e[1] /\ memory[src + 2 - 1] = e[2]
        /\ memory[src + 3 - 1] = e[3] /\ src + 3 <= size
    BY <1>2, <2>2 DEF e
  <2>4. Decoded(p, 3)
    <3>1. /\ memory[src] = 224 + p \div 4096
          /\ memory[src + 1] = 128 + ((p \div 64) % 64)
          /\ memory[src + 2] = 128 + (p % 64)
      <4>1. memory[src] = e[1] /\ memory[src + 1] = e[2] /\ memory[src + 2] = e[3]
        BY <1>2, <2>3
      <4>2. QED
        BY <2>2, <4>1
    <3>2. QED
      BY <1>1, <1>2, <1>5, <2>3, <3>1, DecodesThree
  <2>5. QED
    BY <2>2, <2>4 DEF e
<1>6. QED
  BY <1>1, <1>3, <1>4, <1>5

\* Every code point of up to 16 bits, wherever its encoding is next, is
\* appended, and the loop goes on behind its bytes.
THEOREM DecodesEveryPoint == Spec => DecodesUtf8
<1> DEFINE Step == \A p \in Points : NextIs(p) =>
                     /\ dest' = [dest EXCEPT ![i] = p] /\ i \in DOMAIN dest /\ i' = i + 1
                     /\ src' = src + Len(Encode(p))
                     /\ pc' = "converting"
<1>1. IInv /\ [Next]_vars => [Step]_vars
  BY NextDecodes DEF Decoded
<1>2. QED
  BY <1>1, Utf8Invariance, PTL DEF Spec, DecodesUtf8
=============================================================================
