-------------------------- MODULE Serializer_proofs --------------------------
(***************************************************************************)
(* Proofs about Serializer, for every page size, all numbers and strings,  *)
(* and any number of calls.                                                *)
(***************************************************************************)
EXTENDS Serializer, SequenceTheorems, TLAPS

Cell == Byte \cup {Uninitialized}

IInv == TypeOK /\ WasteBounded

-----------------------------------------------------------------------------
(* Arithmetic.                                                             *)

LEMMA Types == Page \in Nat /\ Page > 0 /\ MaxNeed \in Nat /\ MaxNeed >= 9
BY SerializerAssumption

\* A size is rounded up, by less than a page.
LEMMA RoundUp ==
  ASSUME NEW x \in Nat, NEW p \in Nat, p > 0
  PROVE  /\ ((x + p - 1) \div p) * p \in Nat
         /\ x <= ((x + p - 1) \div p) * p
         /\ ((x + p - 1) \div p) * p <= x + p - 1
<1> DEFINE y == x + p - 1
           q == y \div p
<1>1. y \in Nat
  OBVIOUS
<1> HIDE DEF y
<1>2. q \in Nat /\ y % p \in 0 .. p - 1 /\ y = p * q + (y % p)
  BY <1>1
<1> HIDE DEF q
<1>3. p * q = q * p /\ q * p \in Nat
  BY <1>2
<1>4. q * p = y - (y % p)
  BY <1>1, <1>2, <1>3
<1>5. x <= q * p /\ q * p <= x + p - 1
  BY <1>2, <1>3, <1>4 DEF y
<1>6. QED
  BY <1>3, <1>5 DEF q, y

\* Room for `need' bytes is there after fxmy_ensure_buffer_room, and not
\* much more than that.
LEMMA EnsureRoom ==
  ASSUME TypeOK, NEW need \in Nat
  PROVE  /\ EnsuredSize(need) \in Nat
         /\ cursor + need <= EnsuredSize(need)
         /\ \/ EnsuredSize(need) = size
            \/ EnsuredSize(need) < cursor + 2 * need + Page
<1>1. size \in Nat /\ cursor \in 0 .. size /\ size + need \in Nat
  BY DEF TypeOK
<1>2. CASE need < size - cursor
  BY <1>1, <1>2 DEF EnsuredSize, HasRoom
<1>3. CASE ~(need < size - cursor)
  <2>1. /\ NewSize(need) \in Nat
        /\ size + need <= NewSize(need)
        /\ NewSize(need) <= size + need + Page - 1
    BY <1>1, Types, RoundUp DEF NewSize
  <2>2. EnsuredSize(need) = NewSize(need)
    BY <1>3 DEF EnsuredSize, HasRoom
  <2>3. QED
    BY <1>1, <1>3, <2>1, <2>2, Types
<1>4. QED
  BY <1>2, <1>3

LEMMA EnsureContents ==
  ASSUME TypeOK, NEW need \in Nat
  PROVE  /\ EnsuredMemory(need) \in [0 .. EnsuredSize(need) - 1 -> Cell]
         /\ \A a \in 0 .. cursor - 1 : EnsuredMemory(need)[a] = memory[a]
<1>1. /\ size \in Nat /\ cursor \in 0 .. size
      /\ memory \in [0 .. size - 1 -> Cell]
  BY DEF TypeOK, Cell
<1>2. CASE HasRoom(need)
  BY <1>1, <1>2 DEF EnsuredMemory, EnsuredSize
<1>3. CASE ~HasRoom(need)
  <2> DEFINE n == NewSize(need)
  <2>1. EnsuredMemory(need) = Moved(n) /\ EnsuredSize(need) = n
    BY <1>3 DEF EnsuredMemory, EnsuredSize
  <2>2. n \in Nat /\ cursor <= n
    BY <1>1, <2>1, EnsureRoom
  <2> HIDE DEF n
  <2>3. Moved(n) \in [0 .. n - 1 -> Cell]
    BY <1>1 DEF Moved, Cell
  <2>4. ASSUME NEW a \in 0 .. cursor - 1
        PROVE  Moved(n)[a] = memory[a]
    <3>1. a \in 0 .. n - 1 /\ a \in DOMAIN memory
      BY <1>1, <2>2, <2>4
    <3>2. QED
      BY <3>1 DEF Moved
  <2>5. QED
    BY <2>1, <2>3, <2>4
<1>4. QED
  BY <1>2, <1>3

-----------------------------------------------------------------------------
(* Writing.                                                                *)

LEMMA SerializeFacts ==
  ASSUME IInv, NEW need \in Nat, NEW chunk \in Seq(Byte), Len(chunk) <= need,
         need <= MaxNeed, Serialize(need, chunk)
  PROVE  /\ IInv'
         /\ cursor' = cursor + Len(chunk) /\ cursor \in Nat /\ Len(chunk) \in Nat
         /\ \A a \in 0 .. cursor - 1 : memory'[a] = memory[a]
         /\ \A k \in 1 .. Len(chunk) : memory'[cursor + k - 1] = chunk[k]
<1> DEFINE s == EnsuredSize(need)
           m == EnsuredMemory(need)
           n == Len(chunk)
           W == cursor .. cursor + n - 1
<1>1. /\ size \in Nat /\ cursor \in 0 .. size /\ n \in Nat
      /\ DOMAIN chunk = 1 .. n /\ \A k \in 1 .. n : chunk[k] \in Byte
  BY LenProperties DEF IInv, TypeOK
<1>2. s \in Nat /\ cursor + need <= s /\ (s = size \/ s < cursor + 2 * need + Page)
  BY EnsureRoom DEF IInv
<1>3. m \in [0 .. s - 1 -> Cell] /\ \A a \in 0 .. cursor - 1 : m[a] = memory[a]
  BY EnsureContents DEF IInv
<1>4. /\ size' = s /\ cursor' = cursor + n
      /\ memory' = [a \in DOMAIN m \cup W |->
                      IF a \in W THEN chunk[a - cursor + 1] ELSE m[a]]
  BY DEF Serialize, Written
<1> HIDE DEF s, m, n
<1>5. n <= need
  BY DEF n
<1>6. DOMAIN m \cup W = 0 .. s - 1
  BY <1>1, <1>2, <1>3, <1>5
<1>7. memory' \in [0 .. s - 1 -> Cell]
  <2>1. ASSUME NEW a \in W
        PROVE  chunk[a - cursor + 1] \in Cell
    <3>1. a - cursor + 1 \in 1 .. n
      BY <1>1, <2>1
    <3>2. QED
      BY <1>1, <3>1 DEF Cell
  <2>2. \A a \in (0 .. s - 1) \ W : m[a] \in Cell
    BY <1>3
  <2>3. QED
    BY <1>4, <1>6, <2>1, <2>2
<1>8. TypeOK'
  <2>1. cursor' \in 0 .. size' /\ size' \in Nat
    BY <1>1, <1>2, <1>4, <1>5
  <2>2. QED
    BY <1>4, <1>7, <2>1 DEF TypeOK, Cell
<1>9. WasteBounded'
  <2>1. size < cursor + 2 * MaxNeed + Page
    BY DEF IInv, WasteBounded
  <2>2. QED
    BY <1>1, <1>2, <1>4, <2>1, Types DEF WasteBounded
<1>10. \A a \in 0 .. cursor - 1 : memory'[a] = memory[a]
  <2> SUFFICES ASSUME NEW a \in 0 .. cursor - 1 PROVE memory'[a] = memory[a]
    OBVIOUS
  <2>1. a \notin W /\ a \in 0 .. s - 1
    BY <1>1, <1>2
  <2>2. QED
    BY <1>3, <1>4, <1>6, <2>1
<1>11. \A k \in 1 .. n : memory'[cursor + k - 1] = chunk[k]
  <2> SUFFICES ASSUME NEW k \in 1 .. n PROVE memory'[cursor + k - 1] = chunk[k]
    OBVIOUS
  <2>1. cursor + k - 1 \in W /\ (cursor + k - 1) - cursor + 1 = k
    BY <1>1
  <2>2. QED
    BY <1>4, <2>1
<1>12. IInv'
  BY <1>8, <1>9 DEF IInv
<1>13. \A k \in 1 .. Len(chunk) : memory'[cursor + k - 1] = chunk[k]
  BY <1>11 DEF n
<1>14. cursor' = cursor + Len(chunk) /\ cursor \in Nat /\ Len(chunk) \in Nat
  BY <1>1, <1>4 DEF n
<1>15. QED
  BY <1>10, <1>12, <1>13, <1>14

LEMMA ContentsType ==
  ASSUME NEW s \in Nat, NEW c \in 0 .. s, NEW m \in [0 .. s - 1 -> Cell]
  PROVE  LET q == [k \in 1 .. c |-> m[k - 1]]
         IN  /\ q \in Seq(Cell) /\ Len(q) = c
             /\ \A k \in 1 .. c : q[k] = m[k - 1]
<1> DEFINE q == [k \in 1 .. c |-> m[k - 1]]
<1>1. c \in Nat
  OBVIOUS
<1>2. \A k \in 1 .. c : m[k - 1] \in Cell
  OBVIOUS
<1>3. q \in [1 .. c -> Cell]
  BY <1>2
<1>4. QED
  BY <1>1, <1>3

\* A call appends its encoding to the contents.
LEMMA SerializeAppends ==
  ASSUME IInv, NEW need \in Nat, NEW chunk \in Seq(Byte), Len(chunk) <= need,
         need <= MaxNeed, Serialize(need, chunk)
  PROVE  IInv' /\ Contents' = Contents \o chunk
<1>1. /\ IInv'
      /\ cursor' = cursor + Len(chunk) /\ cursor \in Nat /\ Len(chunk) \in Nat
      /\ \A a \in 0 .. cursor - 1 : memory'[a] = memory[a]
      /\ \A k \in 1 .. Len(chunk) : memory'[cursor + k - 1] = chunk[k]
  BY SerializeFacts
<1>2. /\ Contents \in Seq(Cell) /\ Len(Contents) = cursor
      /\ \A k \in 1 .. cursor : Contents[k] = memory[k - 1]
  <2>1. size \in Nat /\ cursor \in 0 .. size /\ memory \in [0 .. size - 1 -> Cell]
    BY DEF IInv, TypeOK, Cell
  <2>2. QED
    BY <2>1, ContentsType DEF Contents
<1>3. /\ Contents' \in Seq(Cell) /\ Len(Contents') = cursor'
      /\ \A k \in 1 .. cursor' : Contents'[k] = memory'[k - 1]
  <2>1. size' \in Nat /\ cursor' \in 0 .. size' /\ memory' \in [0 .. size' - 1 -> Cell]
    BY <1>1 DEF IInv, TypeOK, Cell
  <2> DEFINE s == size'
             c == cursor'
             m == memory'
  <2>2. s \in Nat /\ c \in 0 .. s /\ m \in [0 .. s - 1 -> Cell]
    BY <2>1
  <2>3. Contents' = [k \in 1 .. c |-> m[k - 1]]
    BY DEF Contents
  <2> HIDE DEF s, c, m
  <2>4. /\ Contents' \in Seq(Cell) /\ Len(Contents') = c
        /\ \A k \in 1 .. c : Contents'[k] = m[k - 1]
    BY <2>2, <2>3, ContentsType
  <2>5. QED
    BY <2>4 DEF c, m
<1>4. chunk \in Seq(Cell)
  BY DEF Cell
<1>5. /\ Contents \o chunk \in Seq(Cell)
      /\ Len(Contents \o chunk) = cursor + Len(chunk)
      /\ \A k \in 1 .. cursor + Len(chunk) :
           (Contents \o chunk)[k] = IF k <= cursor THEN Contents[k] ELSE chunk[k - cursor]
  BY <1>2, <1>4, ConcatProperties
<1>6. ASSUME NEW k \in 1 .. cursor + Len(chunk)
      PROVE  Contents'[k] = (Contents \o chunk)[k]
  <2>1. Contents'[k] = memory'[k - 1]
    BY <1>1, <1>3
  <2>2. CASE k <= cursor
    <3>1. k - 1 \in 0 .. cursor - 1 /\ k \in 1 .. cursor
      BY <1>1, <2>2
    <3>2. QED
      BY <1>1, <1>2, <1>5, <2>1, <2>2, <3>1
  <2>3. CASE ~(k <= cursor)
    <3>1. k - cursor \in 1 .. Len(chunk) /\ cursor + (k - cursor) - 1 = k - 1
      BY <1>1, <2>3
    <3>2. memory'[cursor + (k - cursor) - 1] = chunk[k - cursor]
      BY <1>1, <3>1
    <3>3. QED
      BY <1>5, <2>1, <2>3, <3>1, <3>2
  <2>4. QED
    BY <2>2, <2>3
<1>7. Contents' = Contents \o chunk
  BY <1>1, <1>3, <1>5, <1>6, SeqEqual
<1>8. QED
  BY <1>1, <1>7

-----------------------------------------------------------------------------
(* Encodings fit the room their functions ask for.                         *)

LEMMA LittleEndianType ==
  ASSUME NEW v \in Nat
  PROVE  LittleEndian(v) \in Seq(Byte) /\ Len(LittleEndian(v)) = 8
<1> DEFINE q1 == v \div 256
           q2 == q1 \div 256
           q3 == q2 \div 256
           q4 == q3 \div 256
           q5 == q4 \div 256
           q6 == q5 \div 256
           q7 == q6 \div 256
<1>1. \A x \in Nat : x \div 256 \in Nat /\ x % 256 \in Byte
  BY DEF Byte
<1>2. q1 \in Nat /\ q2 \in Nat /\ q3 \in Nat /\ q4 \in Nat
  BY <1>1
<1>3. q5 \in Nat /\ q6 \in Nat /\ q7 \in Nat
  BY <1>1, <1>2
<1>4. LittleEndian(v) =
        <<v % 256, q1 % 256, q2 % 256, q3 % 256, q4 % 256, q5 % 256, q6 % 256, q7 % 256>>
  BY DEF LittleEndian
<1> HIDE DEF q1, q2, q3, q4, q5, q6, q7
<1>5. QED
  BY <1>1, <1>2, <1>3, <1>4

LEMMA Digits ==
  ASSUME NEW v \in Nat, NEW n \in 1 .. 8
  PROVE  /\ SubSeq(LittleEndian(v), 1, n) \in Seq(Byte)
         /\ Len(SubSeq(LittleEndian(v), 1, n)) = n
<1>1. \A k \in 1 .. n : LittleEndian(v)[k] \in Byte
  BY LittleEndianType
<1>2. QED
  BY <1>1, SubSeqProperties

LEMMA U8Type ==
  ASSUME NEW v \in Values8
  PROVE  U8(v) \in Seq(Byte) /\ Len(U8(v)) = 1
BY SerializerAssumption DEF U8

LEMMA U16Type ==
  ASSUME NEW v \in Values16
  PROVE  U16(v) \in Seq(Byte) /\ Len(U16(v)) = 2
BY SerializerAssumption, Digits DEF U16

\* What a length-coded binary is, whatever its form.
Encoding(s) == s \in Seq(Byte) /\ Len(s) \in Nat /\ Len(s) <= 9

LEMMA LcbType ==
  ASSUME NEW v \in ValuesLcb
  PROVE  Encoding(Lcb(v))
<1>1. v \in Nat
  BY SerializerAssumption
<1>2. ASSUME NEW b \in Byte, NEW s \in Seq(Byte), Len(s) <= 8
      PROVE  Encoding(<<b>> \o s)
  <2>1. <<b>> \in Seq(Byte) /\ Len(<<b>>) = 1
    OBVIOUS
  <2>2. QED
    <3>1. <<b>> \o s \in Seq(Byte) /\ Len(<<b>> \o s) = 1 + Len(s)
      BY <2>1, ConcatProperties
    <3>2. Len(s) \in Nat
      BY LenProperties
    <3>3. QED
      BY <1>2, <3>1, <3>2 DEF Encoding
<1>3. 252 \in Byte /\ 253 \in Byte /\ 254 \in Byte
  BY DEF Byte
<1>4. CASE v <= 250
  <2>1. Lcb(v) = <<v>> /\ v \in Byte
    BY <1>1, <1>4 DEF Lcb, Byte
  <2>2. QED
    BY <2>1 DEF Encoding
<1>5. CASE ~(v <= 250) /\ v < 256 * 256
  <2>1. Lcb(v) = <<252>> \o SubSeq(LittleEndian(v), 1, 2)
    BY <1>5 DEF Lcb
  <2>2. SubSeq(LittleEndian(v), 1, 2) \in Seq(Byte) /\ Len(SubSeq(LittleEndian(v), 1, 2)) <= 8
    BY <1>1, Digits
  <2>3. Encoding(<<252>> \o SubSeq(LittleEndian(v), 1, 2))
    BY <1>2, <1>3, <2>2, Zenon
  <2>4. QED
    BY <2>1, <2>3, Zenon
<1>6. CASE ~(v <= 250) /\ ~(v < 256 * 256) /\ v < 256 * 256 * 256
  <2>1. Lcb(v) = <<253>> \o SubSeq(LittleEndian(v), 1, 3)
    BY <1>6 DEF Lcb
  <2>2. SubSeq(LittleEndian(v), 1, 3) \in Seq(Byte) /\ Len(SubSeq(LittleEndian(v), 1, 3)) <= 8
    BY <1>1, Digits
  <2>3. Encoding(<<253>> \o SubSeq(LittleEndian(v), 1, 3))
    BY <1>2, <1>3, <2>2, Zenon
  <2>4. QED
    BY <2>1, <2>3, Zenon
<1>7. CASE ~(v <= 250) /\ ~(v < 256 * 256) /\ ~(v < 256 * 256 * 256)
  <2>1. Lcb(v) = <<254>> \o LittleEndian(v)
    BY <1>7 DEF Lcb
  <2>2. LittleEndian(v) \in Seq(Byte) /\ Len(LittleEndian(v)) <= 8
    <3>1. LittleEndian(v) \in Seq(Byte) /\ Len(LittleEndian(v)) = 8
      BY <1>1, LittleEndianType, Zenon
    <3>2. 8 <= 8
      OBVIOUS
    <3>3. QED
      BY <3>1, <3>2, Zenon
  <2>3. Encoding(<<254>> \o LittleEndian(v))
    BY <1>2, <1>3, <2>2, Zenon
  <2>4. QED
    BY <2>1, <2>3, Zenon
<1>8. QED
  BY <1>4, <1>5, <1>6, <1>7

LEMMA StringType ==
  ASSUME NEW s \in Strings
  PROVE  /\ s \in Seq(Byte) /\ Len(s) \in Nat /\ Len(s) + 1 <= MaxNeed
         /\ Terminated(s) \in Seq(Byte) /\ Len(Terminated(s)) = Len(s) + 1
<1>1. s \in Seq(1 .. 255) /\ Len(s) < MaxNeed
  BY SerializerAssumption
<1>2. s \in Seq(Byte) /\ Len(s) \in Nat
  BY <1>1 DEF Byte
<1>3. <<0>> \in Seq(Byte) /\ Len(<<0>>) = 1
  BY DEF Byte
<1>4. QED
  BY <1>1, <1>2, <1>3, ConcatProperties, Types DEF Terminated

-----------------------------------------------------------------------------
(* The steps.                                                              *)

\* Every call keeps the invariant, and appends an encoding or empties the
\* stream.
LEMMA StepFacts ==
  ASSUME IInv, Next
  PROVE  IInv' /\ Stream!Next
<1>1. ASSUME NEW v \in Values8, SerializeU8(v)
      PROVE  IInv' /\ Contents' = Contents \o U8(v)
  <2>1. U8(v) \in Seq(Byte) /\ Len(U8(v)) = 1
    BY U8Type
  <2>2. 1 \in Nat /\ 1 <= MaxNeed /\ Len(U8(v)) <= 1
    BY <2>1, Types
  <2>3. Serialize(1, U8(v))
    BY <1>1 DEF SerializeU8
  <2>4. QED
    BY <2>1, <2>2, <2>3, SerializeAppends
<1>2. ASSUME NEW v \in Values16, SerializeU16(v)
      PROVE  IInv' /\ Contents' = Contents \o U16(v)
  <2>1. U16(v) \in Seq(Byte) /\ Len(U16(v)) = 2
    BY U16Type
  <2>2. 2 \in Nat /\ 2 <= MaxNeed /\ Len(U16(v)) <= 2
    BY <2>1, Types
  <2>3. Serialize(2, U16(v))
    BY <1>2 DEF SerializeU16
  <2>4. QED
    BY <2>1, <2>2, <2>3, SerializeAppends
<1>3. ASSUME NEW v \in ValuesLcb, SerializeLcb(v)
      PROVE  IInv' /\ Contents' = Contents \o Lcb(v)
  <2>1. Lcb(v) \in Seq(Byte) /\ Len(Lcb(v)) \in Nat /\ Len(Lcb(v)) <= 9
    BY LcbType DEF Encoding
  <2>2. 9 \in Nat /\ 9 <= MaxNeed
    BY Types
  <2>3. Serialize(9, Lcb(v))
    BY <1>3 DEF SerializeLcb
  <2>4. QED
    BY <2>1, <2>2, <2>3, SerializeAppends
<1>4. ASSUME NEW s \in Strings, SerializeString(s)
      PROVE  IInv' /\ Contents' = Contents \o s
  BY <1>4, StringType, Types, SerializeAppends DEF SerializeString
<1>5. ASSUME NEW s \in Strings, SerializeTerminatedString(s)
      PROVE  IInv' /\ Contents' = Contents \o Terminated(s)
  BY <1>5, StringType, Types, SerializeAppends DEF SerializeTerminatedString
<1>6. CASE Reset
  <2>1. memory' \in [0 .. -1 -> Cell] /\ size' = 0 /\ cursor' = 0
    BY <1>6 DEF Reset, NoMemory, Cell
  <2>2. IInv'
    BY <2>1, Types DEF IInv, TypeOK, WasteBounded, Cell
  <2>3. Contents' = <<>>
    BY <2>1 DEF Contents
  <2>4. QED
    BY <2>2, <2>3 DEF Stream!Next, Stream!Clear
<1>7. ASSUME NEW chunk \in Chunks, IInv', Contents' = Contents \o chunk
      PROVE  IInv' /\ Stream!Next
  BY <1>7 DEF Stream!Next, Stream!Write
<1>8. /\ \A v \in Values8 : U8(v) \in Chunks
      /\ \A v \in Values16 : U16(v) \in Chunks
      /\ \A v \in ValuesLcb : Lcb(v) \in Chunks
      /\ \A s \in Strings : s \in Chunks /\ Terminated(s) \in Chunks
  BY DEF Chunks
<1>9. QED
  BY <1>1, <1>2, <1>3, <1>4, <1>5, <1>6, <1>7, <1>8 DEF Next

LEMMA SerializerInit ==
  ASSUME Init
  PROVE  IInv /\ Stream!Init
<1>1. memory \in [0 .. -1 -> Cell] /\ size = 0 /\ cursor = 0
  BY DEF Init, NoMemory, Cell
<1>2. IInv
  BY <1>1, Types DEF IInv, TypeOK, WasteBounded, Cell
<1>3. Contents = <<>>
  BY <1>1 DEF Contents
<1>4. QED
  BY <1>2, <1>3 DEF Stream!Init

LEMMA SerializerNext == IInv /\ [Next]_vars => IInv' /\ [Stream!Next]_Contents
<1> SUFFICES ASSUME IInv, [Next]_vars PROVE IInv' /\ [Stream!Next]_Contents
  OBVIOUS
<1>1. CASE Next
  BY <1>1, StepFacts
<1>2. CASE UNCHANGED vars
  BY <1>2 DEF vars, IInv, TypeOK, WasteBounded, Contents
<1>3. QED
  BY <1>1, <1>2

\* The inductive invariant holds in every reachable state.
THEOREM SerializerInvariance == Spec => []IInv
<1>1. Init => IInv
  BY SerializerInit
<1>2. QED
  BY <1>1, SerializerNext, PTL DEF Spec

\* Nothing is written beyond the block.
THEOREM SerializerTypeCorrect == Spec => []TypeOK
<1>1. IInv => TypeOK
  BY DEF IInv
<1>2. QED
  BY <1>1, SerializerInvariance, PTL

\* The buffer is never larger than it has to be by more than two requests
\* and a page.
THEOREM WasteIsBounded == Spec => []WasteBounded
<1>1. IInv => WasteBounded
  BY DEF IInv
<1>2. QED
  BY <1>1, SerializerInvariance, PTL

\* The buffer implements the stream of bytes.
THEOREM SerializerRefinement == Spec => ImplementsStream
<1>1. Init => Stream!Init
  BY SerializerInit
<1>2. QED
  BY <1>1, SerializerInvariance, SerializerNext, PTL
     DEF Spec, ImplementsStream, Stream!Spec
=============================================================================
