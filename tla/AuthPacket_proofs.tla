--------------------------- MODULE AuthPacket_proofs ---------------------------
(***************************************************************************)
(* Proofs about AuthPacket, for every packet a client can write, however   *)
(* it is cut short.                                                        *)
(***************************************************************************)
EXTENDS AuthPacket, SequenceTheorems, TLAPS

-----------------------------------------------------------------------------
(* Bytes and sequences of bytes.                                           *)

LEMMA InRange ==
  ASSUME NEW m \in Nat, NEW k \in Nat, k <= m
  PROVE  k \in 0 .. m
OBVIOUS

LEMMA InByte ==
  ASSUME NEW k \in Nat, k <= 255
  PROVE  k \in Byte
<1>1. 255 \in Nat
  OBVIOUS
<1>2. QED
  BY <1>1, InRange, Zenon DEF Byte

LEMMA ByteRange == \A b \in Byte : b \in Nat /\ b < 256
BY DEF Byte

LEMMA LetterRange == \A k \in 1 .. 255 : k \in Byte /\ k # 0
<1>1. \A k \in 1 .. 255 : k \in Nat /\ k <= 255 /\ k # 0
  OBVIOUS
<1>2. QED
  BY <1>1, InByte, Zenon

LEMMA Remainder ==
  ASSUME NEW v \in Nat
  PROVE  v % 256 \in Byte /\ v \div 256 \in Nat
<1>1. v % 256 \in Nat /\ v % 256 <= 255 /\ v \div 256 \in Nat
  OBVIOUS
<1>2. QED
  BY <1>1, InByte

\* The elements of a concatenation.
LEMMA Parts ==
  ASSUME NEW s \in Seq(Byte), NEW t \in Seq(Byte)
  PROVE  /\ s \o t \in Seq(Byte)
         /\ Len(s \o t) = Len(s) + Len(t)
         /\ \A i \in 1 .. Len(s) : (s \o t)[i] = s[i]
         /\ \A i \in 1 .. Len(t) : (s \o t)[Len(s) + i] = t[i]
         /\ Len(s) \in Nat /\ Len(t) \in Nat
<1> DEFINE c == s \o t
<1>1. /\ c \in Seq(Byte) /\ Len(c) = Len(s) + Len(t)
      /\ \A i \in 1 .. Len(s) + Len(t) : c[i] = IF i <= Len(s) THEN s[i] ELSE t[i - Len(s)]
  BY ConcatProperties
<1>2. Len(s) \in Nat /\ Len(t) \in Nat
  BY LenProperties
<1> HIDE DEF c
<1>3. \A i \in 1 .. Len(s) : c[i] = s[i]
  BY <1>1, <1>2
<1>4. ASSUME NEW i \in 1 .. Len(t) PROVE c[Len(s) + i] = t[i]
  <2>1. Len(s) + i \in 1 .. Len(s) + Len(t) /\ ~(Len(s) + i <= Len(s)) /\ Len(s) + i - Len(s) = i
    BY <1>2
  <2>2. QED
    BY <1>1, <2>1
<1>5. QED
  BY <1>1, <1>2, <1>3, <1>4 DEF c

\* The first four bytes of a number.
Digit1(v) == v % 256
Digit2(v) == (v \div 256) % 256
Digit3(v) == ((v \div 256) \div 256) % 256
Digit4(v) == (((v \div 256) \div 256) \div 256) % 256

LEMMA LittleEndianType ==
  ASSUME NEW v \in Nat
  PROVE  /\ LittleEndian(v) \in Seq(Byte) /\ Len(LittleEndian(v)) = 8
         /\ LittleEndian(v)[1] = Digit1(v)
         /\ LittleEndian(v)[2] = Digit2(v)
         /\ LittleEndian(v)[3] = Digit3(v)
         /\ LittleEndian(v)[4] = Digit4(v)
<1> DEFINE q1 == v \div 256
           q2 == q1 \div 256
           q3 == q2 \div 256
           q4 == q3 \div 256
           q5 == q4 \div 256
           q6 == q5 \div 256
           q7 == q6 \div 256
<1>1. q1 \in Nat /\ v % 256 \in Byte
  BY Remainder
<1>2. q2 \in Nat /\ q1 % 256 \in Byte
  BY <1>1, Remainder
<1>3. q3 \in Nat /\ q2 % 256 \in Byte
  BY <1>2, Remainder
<1>4. q4 \in Nat /\ q3 % 256 \in Byte
  BY <1>3, Remainder
<1>5. q5 \in Nat /\ q4 % 256 \in Byte
  BY <1>4, Remainder
<1>6. q6 \in Nat /\ q5 % 256 \in Byte
  BY <1>5, Remainder
<1>7. q7 \in Nat /\ q6 % 256 \in Byte
  BY <1>6, Remainder
<1>8. q7 % 256 \in Byte
  BY <1>7, Remainder
<1>9. LittleEndian(v) = <<v % 256, q1 % 256, q2 % 256, q3 % 256, q4 % 256, q5 % 256,
                          q6 % 256, q7 % 256>>
  BY DEF LittleEndian
<1> DEFINE b0 == v % 256
           b1 == q1 % 256
           b2 == q2 % 256
           b3 == q3 % 256
           b4 == q4 % 256
           b5 == q5 % 256
           b6 == q6 % 256
           b7 == q7 % 256
<1>10. /\ LittleEndian(v) = <<b0, b1, b2, b3, b4, b5, b6, b7>>
       /\ b0 \in Byte /\ b1 \in Byte /\ b2 \in Byte /\ b3 \in Byte
       /\ b4 \in Byte /\ b5 \in Byte /\ b6 \in Byte /\ b7 \in Byte
  BY <1>1, <1>2, <1>3, <1>4, <1>5, <1>6, <1>7, <1>8, <1>9
<1>11. b0 = Digit1(v) /\ b1 = Digit2(v) /\ b2 = Digit3(v) /\ b3 = Digit4(v)
  BY DEF Digit1, Digit2, Digit3, Digit4
<1> HIDE DEF b0, b1, b2, b3, b4, b5, b6, b7
<1>12. /\ LittleEndian(v) \in Seq(Byte) /\ Len(LittleEndian(v)) = 8
       /\ LittleEndian(v)[1] = b0 /\ LittleEndian(v)[2] = b1
       /\ LittleEndian(v)[3] = b2 /\ LittleEndian(v)[4] = b3
  BY <1>10
<1>13. QED
  BY <1>11, <1>12, Zenon

LEMMA FirstBytes ==
  ASSUME NEW v \in Nat, NEW n \in 1 .. 4
  PROVE  /\ SubSeq(LittleEndian(v), 1, n) \in Seq(Byte)
         /\ Len(SubSeq(LittleEndian(v), 1, n)) = n
         /\ \A i \in 1 .. n : SubSeq(LittleEndian(v), 1, n)[i] = LittleEndian(v)[i]
<1> DEFINE d == LittleEndian(v)
<1>1. d \in Seq(Byte) /\ Len(d) = 8
  BY LittleEndianType
<1> HIDE DEF d
<1>2. \A i \in 1 .. n : d[i] \in Byte
  <2>1. \A i \in 1 .. n : i \in 1 .. 8
    OBVIOUS
  <2>2. \A i \in 1 .. 8 : d[i] \in Byte
    BY <1>1, ElementOfSeq, Zenon
  <2>3. QED
    BY <2>1, <2>2, Zenon
<1>3. /\ SubSeq(d, 1, n) \in Seq(Byte)
      /\ Len(SubSeq(d, 1, n)) = IF 1 <= n THEN n - 1 + 1 ELSE 0
      /\ \A i \in 1 .. n - 1 + 1 : SubSeq(d, 1, n)[i] = d[1 + i - 1]
  BY <1>2, SubSeqProperties
<1>4. n - 1 + 1 = n /\ 1 <= n /\ \A i \in 1 .. n : 1 + i - 1 = i
  OBVIOUS
<1>5. QED
  BY <1>3, <1>4 DEF d

\* Numbers of two and of four bytes.
Short(n) == n < 65536
Long(v)  == v \div 65536 < 65536

\* The number that four bytes stand for.
Value(b0, b1, b2, b3) == b0 + 256 * (b1 + 256 * (b2 + 256 * b3))

LEMMA U32Type ==
  ASSUME NEW v \in Nat
  PROVE  U32(v) \in Seq(Byte) /\ Len(U32(v)) = 4
BY FirstBytes DEF U32

LEMMA U32Value ==
  ASSUME NEW v \in Nat, Long(v)
  PROVE  Value(U32(v)[1], U32(v)[2], U32(v)[3], U32(v)[4]) = v
<1>1. /\ U32(v)[1] = Digit1(v) /\ U32(v)[2] = Digit2(v)
      /\ U32(v)[3] = Digit3(v) /\ U32(v)[4] = Digit4(v)
  <2>1. \A i \in 1 .. 4 : U32(v)[i] = LittleEndian(v)[i]
    BY FirstBytes DEF U32
  <2> DEFINE l == LittleEndian(v)
  <2>2. U32(v)[1] = l[1] /\ U32(v)[2] = l[2] /\ U32(v)[3] = l[3] /\ U32(v)[4] = l[4]
    BY <2>1
  <2>3. l[1] = Digit1(v) /\ l[2] = Digit2(v) /\ l[3] = Digit3(v) /\ l[4] = Digit4(v)
    BY LittleEndianType, Zenon
  <2> HIDE DEF l
  <2>4. QED
    BY <2>2, <2>3
<1> DEFINE q1 == v \div 256
           q2 == q1 \div 256
           q3 == q2 \div 256
<1>2. /\ q1 \in Nat /\ v % 256 \in Nat /\ v = q1 * 256 + (v % 256)
      /\ q2 \in Nat /\ q1 % 256 \in Nat /\ q1 = q2 * 256 + (q1 % 256)
      /\ q3 \in Nat /\ q2 % 256 \in Nat /\ q2 = q3 * 256 + (q2 % 256)
      /\ q3 < 256
  BY DEF Long
<1>3. /\ Digit1(v) = v % 256 /\ Digit2(v) = q1 % 256
      /\ Digit3(v) = q2 % 256 /\ Digit4(v) = q3 % 256
  BY DEF Digit1, Digit2, Digit3, Digit4
<1> HIDE DEF q1, q2, q3
<1>4. q3 % 256 = q3
  BY <1>2
<1>5. QED
  BY <1>1, <1>2, <1>3, <1>4 DEF Value

\* A length-coded binary of up to two bytes: how long it is, and how it begins.
Width(n) == IF n <= 250 THEN 1 ELSE 3
First(n) == IF n <= 250 THEN n ELSE 252

LEMMA LcbType ==
  ASSUME NEW n \in Nat, Short(n)
  PROVE  Lcb(n) \in Seq(Byte) /\ Len(Lcb(n)) = Width(n) /\ Lcb(n)[1] = First(n)
<1>1. CASE n <= 250
  <2>1. n \in Byte
    BY <1>1, InByte
  <2>2. Lcb(n) = <<n>>
    BY <1>1 DEF Lcb
  <2>3. QED
    BY <1>1, <2>1, <2>2 DEF Width, First
<1>2. CASE ~(n <= 250)
  <2> DEFINE t == SubSeq(LittleEndian(n), 1, 2)
             h == <<252>>
  <2>1. t \in Seq(Byte) /\ Len(t) = 2
    BY FirstBytes
  <2>2. 252 \in Byte
    BY InByte
  <2>3. h \in Seq(Byte) /\ Len(h) = 1 /\ h[1] = 252
    BY <2>2
  <2>4. Lcb(n) = h \o t
    BY <1>2 DEF Lcb, Short
  <2> HIDE DEF h, t
  <2>5. /\ h \o t \in Seq(Byte) /\ Len(h \o t) = Len(h) + Len(t)
        /\ \A i \in 1 .. Len(h) : (h \o t)[i] = h[i]
    <3>1. h \in Seq(Byte) /\ t \in Seq(Byte)
      BY <2>1, <2>3
    <3>2. QED
      BY <3>1, Parts
  <2>6. QED
    BY <1>2, <2>1, <2>3, <2>4, <2>5 DEF Width, First
<1>3. QED
  BY <1>1, <1>2

-----------------------------------------------------------------------------
(* The layout of a packet.                                                 *)

Letters == 1 .. 255

LEMMA LetterSeq ==
  ASSUME NEW s \in Seq(Letters)
  PROVE  s \in Seq(Byte) /\ Len(s) \in Nat /\ \A k \in 1 .. Len(s) : s[k] # 0
<1>1. Letters \subseteq Byte /\ 0 \notin Letters
  BY LetterRange DEF Letters
<1>2. QED
  BY <1>1

LEMMA TerminatedType ==
  ASSUME NEW s \in Seq(Letters)
  PROVE  /\ Terminated(s) \in Seq(Byte) /\ Len(Terminated(s)) = Len(s) + 1
         /\ \A k \in 1 .. Len(s) : Terminated(s)[k] = s[k]
         /\ Terminated(s)[Len(s) + 1] = 0
<1> DEFINE z == <<0>>
<1>1. 0 \in Byte
  BY InByte
<1>2. z \in Seq(Byte) /\ Len(z) = 1 /\ z[1] = 0
  BY <1>1
<1>3. s \in Seq(Byte) /\ Len(s) \in Nat
  BY LetterSeq
<1>4. Terminated(s) = s \o z
  BY DEF Terminated
<1> HIDE DEF z
<1>5. /\ s \o z \in Seq(Byte) /\ Len(s \o z) = Len(s) + Len(z)
      /\ \A i \in 1 .. Len(s) : (s \o z)[i] = s[i]
      /\ \A i \in 1 .. Len(z) : (s \o z)[Len(s) + i] = z[i]
  BY <1>2, <1>3, Parts, Zenon
<1>6. QED
  BY <1>2, <1>4, <1>5

LEMMA FieldType ==
  ASSUME NEW f \in Packets
  PROVE  /\ f.client_flags \in Nat /\ Long(f.client_flags)
         /\ f.max_packet_size \in Nat /\ Long(f.max_packet_size)
         /\ f.charset \in Byte
         /\ f.user \in Seq(Letters) /\ f.database \in Seq(Letters)
         /\ f.scramble \in Seq(Byte) /\ Len(f.scramble) \in Nat /\ Short(Len(f.scramble))
<1>1. f \in Field
  BY AuthPacketAssumption
<1>2. /\ f.client_flags \in Nat /\ f.max_packet_size \in Nat /\ f.charset \in Byte
      /\ f.user \in Seq(Letters) /\ f.database \in Seq(Letters) /\ f.scramble \in Seq(Byte)
  BY <1>1, Zenon DEF Field, Letters
<1>3. /\ Long(f.client_flags) /\ Long(f.max_packet_size)
      /\ Short(Len(f.scramble))
  BY AuthPacketAssumption DEF Long, Short
<1>4. Len(f.scramble) \in Nat
  BY <1>2, LenProperties
<1>5. QED
  BY <1>2, <1>3, <1>4

\* The fixed fields are 32 bytes; the numbers are the first nine.
LEMMA FixedType ==
  ASSUME NEW f \in Packets
  PROVE  /\ Fixed(f) \in Seq(Byte) /\ Len(Fixed(f)) = 32
         /\ \A i \in 1 .. 4 : Fixed(f)[i] = U32(f.client_flags)[i]
         /\ \A i \in 1 .. 4 : Fixed(f)[4 + i] = U32(f.max_packet_size)[i]
         /\ Fixed(f)[9] = f.charset
<1> DEFINE a == U32(f.client_flags)
           b == U32(f.max_packet_size)
           c == U8(f.charset)
           d == Padding
<1>1. a \in Seq(Byte) /\ Len(a) = 4 /\ b \in Seq(Byte) /\ Len(b) = 4
  BY FieldType, U32Type
<1>2. c \in Seq(Byte) /\ Len(c) = 1 /\ c[1] = f.charset
  BY FieldType DEF U8
<1>3. d \in Seq(Byte) /\ Len(d) = 23
  <2>1. 0 \in Byte
    BY InByte
  <2>2. QED
    BY <2>1 DEF Padding
<1>4. Fixed(f) = ((a \o b) \o c) \o d
  BY DEF Fixed
<1> HIDE DEF a, b, c, d
<1>5. /\ a \o b \in Seq(Byte) /\ Len(a \o b) = 8
      /\ \A i \in 1 .. 4 : (a \o b)[i] = a[i]
      /\ \A i \in 1 .. 4 : (a \o b)[4 + i] = b[i]
  <2>1. /\ a \o b \in Seq(Byte) /\ Len(a \o b) = Len(a) + Len(b)
        /\ \A i \in 1 .. Len(a) : (a \o b)[i] = a[i]
        /\ \A i \in 1 .. Len(b) : (a \o b)[Len(a) + i] = b[i]
    BY <1>1, Parts, Zenon
  <2>2. QED
    BY <1>1, <2>1
<1> DEFINE x == a \o b
<1>6. /\ x \in Seq(Byte) /\ Len(x) = 8
      /\ \A i \in 1 .. 4 : x[i] = a[i] /\ x[4 + i] = b[i]
  BY <1>5
<1> HIDE DEF x
<1>7. /\ x \o c \in Seq(Byte) /\ Len(x \o c) = 9
      /\ \A i \in 1 .. 8 : (x \o c)[i] = x[i]
      /\ (x \o c)[9] = f.charset
  <2>1. /\ x \o c \in Seq(Byte) /\ Len(x \o c) = Len(x) + Len(c)
        /\ \A i \in 1 .. Len(x) : (x \o c)[i] = x[i]
        /\ \A i \in 1 .. Len(c) : (x \o c)[Len(x) + i] = c[i]
    BY <1>2, <1>6, Parts, Zenon
  <2>2. QED
    BY <1>2, <1>6, <2>1
<1> DEFINE y == x \o c
<1>8. /\ y \in Seq(Byte) /\ Len(y) = 9
      /\ \A i \in 1 .. 8 : y[i] = x[i]
      /\ y[9] = f.charset
  BY <1>7
<1> HIDE DEF y
<1>9. /\ y \o d \in Seq(Byte) /\ Len(y \o d) = Len(y) + Len(d)
      /\ \A i \in 1 .. Len(y) : (y \o d)[i] = y[i]
  <2>1. y \in Seq(Byte) /\ d \in Seq(Byte)
    BY <1>3, <1>8, Zenon
  <2>2. QED
    BY <2>1, Parts, Zenon
<1>10. Fixed(f) = y \o d
  BY <1>4 DEF x, y
<1>11. Fixed(f) \in Seq(Byte) /\ Len(Fixed(f)) = 32 /\ \A i \in 1 .. 9 : Fixed(f)[i] = y[i]
  <2>1. Len(y) = 9 /\ Len(y) + Len(d) = 32
    BY <1>3, <1>8
  <2>2. QED
    BY <1>9, <1>10, <2>1, Zenon
<1>12. \A i \in 1 .. 4 : Fixed(f)[i] = a[i] /\ Fixed(f)[4 + i] = b[i]
  BY <1>6, <1>8, <1>11
<1>13. QED
  BY <1>8, <1>11, <1>12 DEF a, b

\* Behind them are the name of the user, a zero and the length of the scramble.
LEMMA NamesType ==
  ASSUME NEW f \in Packets
  PROVE  LET u == Len(f.user)
             n == Len(f.scramble)
         IN  /\ Names(f) \in Seq(Byte)
             /\ Len(Names(f)) = u + 1 + Width(n) + n
             /\ \A k \in 1 .. u : Names(f)[k] # 0
             /\ Names(f)[u + 1] = 0
             /\ Names(f)[u + 2] = First(n)
<1> DEFINE u == Len(f.user)
           n == Len(f.scramble)
           w == Width(n)
           a == Terminated(f.user)
           b == Lcb(n)
           c == f.scramble
<1>1. f.user \in Seq(Letters) /\ c \in Seq(Byte) /\ n \in Nat /\ Short(n)
  BY FieldType
<1>2. u \in Nat /\ \A k \in 1 .. u : f.user[k] # 0
  BY <1>1, LetterSeq
<1>3. /\ a \in Seq(Byte) /\ Len(a) = u + 1 /\ a[u + 1] = 0
      /\ \A k \in 1 .. u : a[k] = f.user[k]
  BY <1>1, TerminatedType
<1>4. \A k \in 1 .. u : a[k] # 0
  BY <1>2, <1>3
<1>5. b \in Seq(Byte) /\ Len(b) = w /\ b[1] = First(n)
  BY <1>1, LcbType, Zenon
<1>6. w \in {1, 3}
  BY DEF Width
<1>7. Names(f) = (a \o b) \o c /\ Len(c) = n
  BY DEF Names
<1> HIDE DEF a, b, c, w, u, n
<1> DEFINE x == a \o b
<1>8. /\ x \in Seq(Byte) /\ Len(x) = Len(a) + Len(b)
      /\ \A i \in 1 .. Len(a) : x[i] = a[i]
      /\ \A i \in 1 .. Len(b) : x[Len(a) + i] = b[i]
  BY <1>3, <1>5, Parts, Zenon
<1> HIDE DEF x
<1>9. /\ Len(x) = u + 1 + w
      /\ \A i \in 1 .. u + 1 : x[i] = a[i]
      /\ x[u + 1 + 1] = b[1]
  BY <1>2, <1>3, <1>5, <1>6, <1>8
<1>10. /\ x \o c \in Seq(Byte) /\ Len(x \o c) = Len(x) + Len(c)
       /\ \A i \in 1 .. Len(x) : (x \o c)[i] = x[i]
  BY <1>1, <1>8, Parts, Zenon
<1>11. /\ Names(f) \in Seq(Byte) /\ Len(Names(f)) = u + 1 + w + n
       /\ \A i \in 1 .. u + 1 + w : Names(f)[i] = x[i]
  BY <1>7, <1>9, <1>10 DEF x
<1>12. /\ \A k \in 1 .. u : k \in 1 .. u + 1 /\ k \in 1 .. u + 1 + w
       /\ u + 1 \in 1 .. u + 1 /\ u + 1 \in 1 .. u + 1 + w
       /\ u + 2 \in 1 .. u + 1 + w /\ u + 1 + 1 = u + 2
  BY <1>2, <1>6
<1>13. /\ \A k \in 1 .. u : Names(f)[k] # 0
       /\ Names(f)[u + 1] = 0
       /\ Names(f)[u + 2] = First(n)
  BY <1>3, <1>4, <1>5, <1>9, <1>11, <1>12
<1>14. QED
  BY <1>11, <1>13 DEF w, u, n

\* What the positions of a packet hold.
Laid(f) ==
  LET u == Len(f.user)
      n == Len(f.scramble)
      B == Bytes(f)
  IN  /\ u \in Nat /\ n \in Nat /\ Short(n)
      /\ B \in Seq(Byte)
      /\ Len(B) >= 33 + u + Width(n) + n
      /\ \A i \in 1 .. 4 : B[i] = U32(f.client_flags)[i]
      /\ \A i \in 1 .. 4 : B[4 + i] = U32(f.max_packet_size)[i]
      /\ B[9] = f.charset
      /\ \A k \in 1 .. u : B[32 + k] # 0
      /\ B[33 + u] = 0
      /\ B[34 + u] = First(n)

LEMMA BytesType ==
  ASSUME NEW f \in Packets
  PROVE  Laid(f)
<1> DEFINE u == Len(f.user)
           n == Len(f.scramble)
           w == Width(n)
           h == First(n)
           a == Fixed(f)
           b == Names(f)
           c == Database(f)
<1>1. u \in Nat /\ n \in Nat /\ Short(n)
  BY FieldType, LetterSeq
<1>2. /\ a \in Seq(Byte) /\ Len(a) = 32
      /\ \A i \in 1 .. 4 : a[i] = U32(f.client_flags)[i]
      /\ \A i \in 1 .. 4 : a[4 + i] = U32(f.max_packet_size)[i]
      /\ a[9] = f.charset
  BY FixedType
<1>3. /\ b \in Seq(Byte) /\ Len(b) = u + 1 + w + n
      /\ \A k \in 1 .. u : b[k] # 0
      /\ b[u + 1] = 0
      /\ b[u + 2] = h
  BY NamesType, Zenon
<1>4. c \in Seq(Byte)
  <2>1. f.database \in Seq(Letters)
    BY FieldType
  <2>2. Terminated(f.database) \in Seq(Byte)
    BY <2>1, TerminatedType
  <2>3. QED
    BY <2>2 DEF Database
<1>5. Bytes(f) = (a \o b) \o c
  BY DEF Bytes
<1>6. w \in {1, 3}
  BY DEF Width
<1> HIDE DEF a, b, c, w, h, u, n
<1> DEFINE x == a \o b
<1>7. /\ x \in Seq(Byte) /\ Len(x) = Len(a) + Len(b)
      /\ \A i \in 1 .. Len(a) : x[i] = a[i]
      /\ \A i \in 1 .. Len(b) : x[Len(a) + i] = b[i]
  BY <1>2, <1>3, Parts, Zenon
<1> HIDE DEF x
<1>8. /\ x \o c \in Seq(Byte) /\ Len(x \o c) = Len(x) + Len(c) /\ Len(c) \in Nat
      /\ \A i \in 1 .. Len(x) : (x \o c)[i] = x[i]
  BY <1>4, <1>7, Parts, Zenon
<1> DEFINE B == Bytes(f)
<1>9. B = x \o c
  BY <1>5 DEF x
<1> HIDE DEF B
<1>10. B \in Seq(Byte) /\ Len(B) >= 33 + u + w + n
  <2>1. Len(x) = 33 + u + w + n
    BY <1>1, <1>2, <1>3, <1>6, <1>7
  <2>2. B \in Seq(Byte) /\ Len(B) = Len(x) + Len(c) /\ Len(c) \in Nat
    BY <1>8, <1>9
  <2>3. QED
    BY <1>1, <1>6, <2>1, <2>2
<1>11. Len(a) \in Nat /\ Len(b) \in Nat /\ Len(a) + Len(b) = Len(x)
  BY <1>1, <1>2, <1>3, <1>6, <1>7
<1>12. ASSUME NEW i \in 1 .. Len(a) PROVE B[i] = a[i]
  <2>1. i \in 1 .. Len(x)
    BY <1>11
  <2>2. QED
    BY <1>7, <1>8, <1>9, <2>1
<1>13. ASSUME NEW i \in 1 .. Len(b) PROVE B[Len(a) + i] = b[i]
  <2>1. Len(a) + i \in 1 .. Len(x)
    BY <1>11
  <2>2. QED
    BY <1>7, <1>8, <1>9, <2>1
<1>14. /\ \A i \in 1 .. 4 : B[i] = U32(f.client_flags)[i]
       /\ \A i \in 1 .. 4 : B[4 + i] = U32(f.max_packet_size)[i]
       /\ B[9] = f.charset
  <2>1. /\ \A i \in 1 .. 4 : i \in 1 .. Len(a) /\ 4 + i \in 1 .. Len(a)
        /\ 9 \in 1 .. Len(a)
    BY <1>2
  <2>2. QED
    BY <1>2, <1>12, <2>1
<1>15. /\ \A k \in 1 .. u : B[32 + k] # 0
       /\ B[33 + u] = 0
       /\ B[34 + u] = h
  <2>1. /\ Len(a) + (u + 1) = 33 + u /\ Len(a) + (u + 2) = 34 + u
        /\ u + 1 \in 1 .. Len(b) /\ u + 2 \in 1 .. Len(b)
        /\ \A k \in 1 .. u : k \in 1 .. Len(b) /\ Len(a) + k = 32 + k
    BY <1>1, <1>2, <1>3, <1>6
  <2>2. QED
    BY <1>3, <1>13, <2>1
<1>16. QED
  BY <1>1, <1>10, <1>14, <1>15 DEF Laid, u, n, w, h, B

-----------------------------------------------------------------------------
(* The invariant.                                                          *)

User     == Len(packet.user)
Scramble == Len(packet.scramble)

Received ==
  /\ packet \in Packets
  /\ size \in Nat /\ size <= Len(Bytes(packet))
  /\ memory \in [0 .. size -> Byte]
  /\ memory[size] = 0
  /\ \A a \in 0 .. size - 1 : memory[a] = Bytes(packet)[a + 1]

States == {"client_flags", "max_packet_size", "charset", "user", "scramble",
           "parsed", "verify"}

\* Where the cursor is.  Behind the name of the user it is either where the
\* length of the scramble begins or, if that is not there, out of the packet.
Place ==
  /\ cursor \in Nat /\ pc \in States
  /\ pc = "client_flags" => cursor = 0
  /\ pc = "max_packet_size" => cursor = 4 /\ size >= 4
  /\ pc = "charset" => cursor = 8 /\ size >= 8
  /\ pc = "user" => cursor = 9 /\ size >= 9
  /\ pc = "scramble" =>
       \/ size >= 33 + User /\ cursor = 33 + User
       \/ size < 33 + User /\ cursor > size
  /\ pc = "parsed" =>
       /\ size >= 34 + User
       /\ Whole => cursor = IF Scramble <= 250 THEN 34 + User + Scramble ELSE 289 + User
  /\ Whole => pc # "verify"

\* What has been read of a whole packet.
FlagsRead == pc # "client_flags"
SizeRead  == pc \notin {"client_flags", "max_packet_size"}
CharsetRead == pc \notin {"client_flags", "max_packet_size", "charset"}

ReadSoFar ==
  /\ client_flags \in Nat /\ max_packet_size \in Nat
  /\ charset \in Byte /\ database \in Seq(Byte)
  /\ Whole =>
       /\ FlagsRead => client_flags = packet.client_flags
       /\ SizeRead => max_packet_size = packet.max_packet_size
       /\ CharsetRead => charset = packet.charset

IInv == Received /\ Place /\ ReadSoFar

LEMMA LaidOut ==
  ASSUME Received
  PROVE  Laid(packet)
BY BytesType DEF Received

LEMMA InitInv == Init => IInv
<1> SUFFICES ASSUME Init PROVE IInv
  OBVIOUS
<1>1. packet \in Packets /\ size \in 0 .. Len(Bytes(packet))
      /\ memory = [a \in 0 .. size |-> IF a = size THEN 0 ELSE Bytes(packet)[a + 1]]
  BY DEF Init
<1>2. Bytes(packet) \in Seq(Byte) /\ Len(Bytes(packet)) \in Nat
      /\ Len(Bytes(packet)) >= 33 + User /\ User \in Nat
  <2>1. Laid(packet)
    BY <1>1, BytesType
  <2>2. Bytes(packet) \in Seq(Byte) /\ User \in Nat /\ Scramble \in Nat
        /\ Len(Bytes(packet)) >= 33 + User + Width(Scramble) + Scramble
    BY <2>1 DEF Laid, User, Scramble
  <2>3. Len(Bytes(packet)) \in Nat
    BY <2>2, LenProperties
  <2>4. QED
    BY <2>2, <2>3 DEF Width
<1>3. size \in Nat /\ size <= Len(Bytes(packet))
  BY <1>1, <1>2
<1>4. memory[size] = 0 /\ \A a \in 0 .. size - 1 : memory[a] = Bytes(packet)[a + 1]
  BY <1>1, <1>3
<1>5. ASSUME NEW a \in 0 .. size PROVE memory[a] \in Byte
  <2>1. 0 \in Byte
    BY InByte
  <2>2. CASE a = size
    BY <1>4, <2>1, <2>2
  <2>3. CASE a # size
    <3>1. a \in 0 .. size - 1 /\ a + 1 \in 1 .. Len(Bytes(packet))
      BY <1>2, <1>3, <2>3
    <3>2. Bytes(packet)[a + 1] \in Byte
      BY <1>2, <3>1
    <3>3. QED
      BY <1>4, <3>1, <3>2
  <2>4. QED
    BY <2>2, <2>3
<1>6. Received
  <2>1. memory \in [0 .. size -> Byte]
    BY <1>1, <1>5
  <2>2. QED
    BY <1>1, <1>3, <1>4, <2>1 DEF Received
<1>7. Place
  BY DEF Init, Place, States
<1>8. ReadSoFar
  <2>1. 0 \in Byte /\ <<>> \in Seq(Byte)
    BY InByte
  <2>2. QED
    BY <2>1 DEF Init, ReadSoFar, FlagsRead, SizeRead, CharsetRead
<1>9. QED
  BY <1>6, <1>7, <1>8 DEF IInv

-----------------------------------------------------------------------------
(* The reads.                                                              *)

\* What is read is a byte; in a whole packet it is the one that was written.
LEMMA AtByte ==
  ASSUME IInv, NEW a \in Nat
  PROVE  /\ At(a) \subseteq Byte
         /\ a < size => At(a) = {Bytes(packet)[a + 1]}
         /\ a = size => At(a) = {0}
<1>1. /\ size \in Nat /\ memory \in [0 .. size -> Byte] /\ memory[size] = 0
      /\ \A k \in 0 .. size - 1 : memory[k] = Bytes(packet)[k + 1]
  BY DEF IInv, Received
<1>2. Stray \subseteq Byte
  BY AuthPacketAssumption
<1>3. QED
  BY <1>1, <1>2 DEF At

LEMMA U32AtType ==
  ASSUME IInv, NEW a \in Nat, NEW v \in U32At(a)
  PROVE  /\ v \in Nat
         /\ a + 4 <= size =>
              v = Value(Bytes(packet)[a + 1], Bytes(packet)[a + 2],
                        Bytes(packet)[a + 3], Bytes(packet)[a + 4])
<1>1. PICK b0 \in At(a), b1 \in At(a + 1), b2 \in At(a + 2), b3 \in At(a + 3) :
        v = b0 + 256 * (b1 + 256 * (b2 + 256 * b3))
  BY DEF U32At
<1>2. a + 1 \in Nat /\ a + 2 \in Nat /\ a + 3 \in Nat /\ size \in Nat
  BY DEF IInv, Received
<1>3. b0 \in Byte /\ b1 \in Byte /\ b2 \in Byte /\ b3 \in Byte
  BY <1>1, <1>2, AtByte
<1>4. b0 \in Nat /\ b1 \in Nat /\ b2 \in Nat /\ b3 \in Nat
  BY <1>3, ByteRange, Zenon
<1>5. v \in Nat
  BY <1>1, <1>4
<1>6. ASSUME a + 4 <= size
      PROVE  v = Value(Bytes(packet)[a + 1], Bytes(packet)[a + 2],
                       Bytes(packet)[a + 3], Bytes(packet)[a + 4])
  <2> DEFINE B == Bytes(packet)
  <2>1. /\ At(a) = {B[a + 1]} /\ At(a + 1) = {B[a + 1 + 1]}
        /\ At(a + 2) = {B[a + 2 + 1]} /\ At(a + 3) = {B[a + 3 + 1]}
    BY <1>2, <1>6, AtByte
  <2> HIDE DEF B
  <2>2. b0 = B[a + 1] /\ b1 = B[a + 2] /\ b2 = B[a + 3] /\ b3 = B[a + 4]
    BY <1>1, <2>1
  <2>3. v = Value(B[a + 1], B[a + 2], B[a + 3], B[a + 4])
    BY <1>1, <2>2 DEF Value
  <2>4. QED
    BY <2>3 DEF B
<1>7. QED
  BY <1>5, <1>6

\* Whole packets hold the numbers that were written.
LEMMA NumbersWritten ==
  ASSUME Received
  PROVE  LET B == Bytes(packet)
         IN  /\ Value(B[1], B[2], B[3], B[4]) = packet.client_flags
             /\ Value(B[5], B[6], B[7], B[8]) = packet.max_packet_size
             /\ B[9] = packet.charset
<1> DEFINE B == Bytes(packet)
           x == U32(packet.client_flags)
           y == U32(packet.max_packet_size)
<1>1. /\ \A i \in 1 .. 4 : B[i] = x[i]
      /\ \A i \in 1 .. 4 : B[4 + i] = y[i]
      /\ B[9] = packet.charset
  BY LaidOut DEF Laid
<1>2. packet \in Packets
  BY DEF Received
<1>3. Value(x[1], x[2], x[3], x[4]) = packet.client_flags
      /\ Value(y[1], y[2], y[3], y[4]) = packet.max_packet_size
  BY <1>2, FieldType, U32Value
<1> HIDE DEF B, x, y
<1>4. B[1] = x[1] /\ B[2] = x[2] /\ B[3] = x[3] /\ B[4] = x[4]
      /\ B[5] = y[1] /\ B[6] = y[2] /\ B[7] = y[3] /\ B[8] = y[4]
  BY <1>1
<1>5. Value(B[1], B[2], B[3], B[4]) = packet.client_flags
      /\ Value(B[5], B[6], B[7], B[8]) = packet.max_packet_size
  BY <1>3, <1>4
<1>6. QED
  BY <1>1, <1>5 DEF B

LEMMA WholeSize ==
  ASSUME Received, Whole
  PROVE  /\ User \in Nat /\ Scramble \in Nat
         /\ size >= 33 + User + Width(Scramble) + Scramble
         /\ size >= 34 + User
<1>1. /\ User \in Nat /\ Scramble \in Nat
      /\ size >= 33 + User + Width(Scramble) + Scramble
  BY LaidOut DEF Whole, Laid, User, Scramble
<1>2. size \in Nat
  BY DEF Received
<1>3. QED
  BY <1>1, <1>2 DEF Width

LEMMA FlagsInv ==
  ASSUME IInv, ReadFlags
  PROVE  IInv'
<1>1. /\ pc = "client_flags" /\ cursor = 0 /\ cursor' = 4
      /\ pc' = (IF 4 <= size THEN "max_packet_size" ELSE "verify")
      /\ packet' = packet /\ memory' = memory /\ size' = size
      /\ client_flags' \in U32At(0)
      /\ max_packet_size' = max_packet_size /\ charset' = charset /\ database' = database
  BY DEF ReadFlags, Advance, Verify, buffer, IInv, Place
<1>2. Received /\ size \in Nat
  BY DEF IInv, Received
<1>3. Received'
  BY <1>1 DEF IInv, Received
<1>4. Whole => 4 <= size
  BY <1>2, WholeSize
<1>5. Whole' <=> Whole
  BY <1>1 DEF Whole
<1>6. Place'
  BY <1>1, <1>2, <1>4, <1>5 DEF Place, States
<1>7. client_flags' \in Nat
  BY <1>1, U32AtType
<1>8. Whole => client_flags' = packet.client_flags
  <2>1. SUFFICES ASSUME Whole PROVE client_flags' = packet.client_flags
    OBVIOUS
  <2> DEFINE B == Bytes(packet)
  <2>2. client_flags' = Value(B[0 + 1], B[0 + 2], B[0 + 3], B[0 + 4])
    BY <1>1, <1>2, <1>4, <2>1, U32AtType
  <2>3. Value(B[1], B[2], B[3], B[4]) = packet.client_flags
    BY <1>2, NumbersWritten
  <2> HIDE DEF B
  <2>4. QED
    BY <2>2, <2>3
<1>9. ReadSoFar'
  BY <1>1, <1>4, <1>5, <1>7, <1>8 DEF IInv, ReadSoFar, FlagsRead, SizeRead, CharsetRead
<1>10. QED
  BY <1>3, <1>6, <1>9 DEF IInv

LEMMA MaxPacketSizeInv ==
  ASSUME IInv, ReadMaxPacketSize
  PROVE  IInv'
<1>1. /\ pc = "max_packet_size" /\ cursor = 4 /\ cursor' = 8
      /\ pc' = (IF 8 <= size THEN "charset" ELSE "verify")
      /\ packet' = packet /\ memory' = memory /\ size' = size
      /\ max_packet_size' \in U32At(4)
      /\ client_flags' = client_flags /\ charset' = charset /\ database' = database
  BY DEF ReadMaxPacketSize, Advance, Verify, buffer, IInv, Place
<1>2. Received /\ size \in Nat
  BY DEF IInv, Received
<1>3. Received'
  BY <1>1 DEF IInv, Received
<1>4. Whole => 8 <= size
  BY <1>2, WholeSize
<1>5. Whole' <=> Whole
  BY <1>1 DEF Whole
<1>6. Place'
  BY <1>1, <1>2, <1>4, <1>5 DEF Place, States
<1>7. max_packet_size' \in Nat
  BY <1>1, U32AtType
<1>8. Whole => max_packet_size' = packet.max_packet_size
  <2>1. SUFFICES ASSUME Whole PROVE max_packet_size' = packet.max_packet_size
    OBVIOUS
  <2> DEFINE B == Bytes(packet)
  <2>2. max_packet_size' = Value(B[4 + 1], B[4 + 2], B[4 + 3], B[4 + 4])
    BY <1>1, <1>2, <1>4, <2>1, U32AtType
  <2>3. Value(B[5], B[6], B[7], B[8]) = packet.max_packet_size
    BY <1>2, NumbersWritten
  <2> HIDE DEF B
  <2>4. QED
    BY <2>2, <2>3
<1>9. ReadSoFar'
  BY <1>1, <1>4, <1>5, <1>7, <1>8 DEF IInv, ReadSoFar, FlagsRead, SizeRead, CharsetRead
<1>10. QED
  BY <1>3, <1>6, <1>9 DEF IInv

LEMMA CharsetInv ==
  ASSUME IInv, ReadCharset
  PROVE  IInv'
<1>1. /\ pc = "charset" /\ cursor = 8 /\ cursor' = 9
      /\ pc' = (IF 9 <= size THEN "user" ELSE "verify")
      /\ packet' = packet /\ memory' = memory /\ size' = size
      /\ charset' \in At(8)
      /\ client_flags' = client_flags /\ max_packet_size' = max_packet_size
      /\ database' = database
  BY DEF ReadCharset, Advance, Verify, buffer, IInv, Place
<1>2. Received /\ size \in Nat
  BY DEF IInv, Received
<1>3. Received'
  BY <1>1 DEF IInv, Received
<1>4. Whole => 9 <= size
  BY <1>2, WholeSize
<1>5. Whole' <=> Whole
  BY <1>1 DEF Whole
<1>6. Place'
  BY <1>1, <1>2, <1>4, <1>5 DEF Place, States
<1>7. charset' \in Byte
  BY <1>1, AtByte
<1>8. Whole => charset' = packet.charset
  <2>1. SUFFICES ASSUME Whole PROVE charset' = packet.charset
    OBVIOUS
  <2> DEFINE B == Bytes(packet)
  <2>2. charset' = B[8 + 1]
    BY <1>1, <1>2, <1>4, <2>1, AtByte
  <2>3. B[9] = packet.charset
    BY <1>2, NumbersWritten
  <2> HIDE DEF B
  <2>4. QED
    BY <2>2, <2>3
<1>9. ReadSoFar'
  BY <1>1, <1>4, <1>5, <1>7, <1>8 DEF IInv, ReadSoFar, FlagsRead, SizeRead, CharsetRead
<1>10. QED
  BY <1>3, <1>6, <1>9 DEF IInv

\* The padding and the name of the user are skipped.
LEMMA UserInv ==
  ASSUME IInv, SkipUser
  PROVE  IInv'
<1>1. PICK end \in 9 + 23 .. size + 23 + 1 :
        /\ 0 \in At(end)
        /\ \A a \in 9 + 23 .. end - 1 : At(a) # {0}
        /\ cursor' = end + 1
  BY DEF SkipUser, PaddingSize, IInv, Place
<1>2. /\ pc = "user" /\ pc' = "scramble" /\ packet' = packet /\ memory' = memory
      /\ size' = size /\ client_flags' = client_flags /\ max_packet_size' = max_packet_size
      /\ charset' = charset /\ database' = database
  BY DEF SkipUser, buffer, fields
<1>3. Received /\ size \in Nat
  BY DEF IInv, Received
<1>4. Received'
  BY <1>2 DEF IInv, Received
<1>5. /\ User \in Nat /\ \A k \in 1 .. User : Bytes(packet)[32 + k] # 0
      /\ Bytes(packet)[33 + User] = 0
  BY <1>3, LaidOut DEF Laid, User
<1>6. end \in Nat /\ end >= 32 /\ \A a \in Nat : a >= 32 /\ a < end => At(a) # {0}
  BY <1>1, <1>3
<1>7. CASE size >= 33 + User
  <2>1. 32 + User \in Nat /\ At(32 + User) = {0}
    <3>1. 32 + User \in Nat /\ 32 + User < size /\ 32 + User + 1 = 33 + User
      BY <1>3, <1>5, <1>7
    <3>2. QED
      BY <1>5, <3>1, AtByte
  <2>2. end <= 32 + User
    BY <1>5, <1>6, <2>1
  <2>3. ~(end < 32 + User)
    <3>1. SUFFICES ASSUME end < 32 + User PROVE FALSE
      OBVIOUS
    <3>2. end - 31 \in 1 .. User /\ 32 + (end - 31) = end + 1 /\ end < size
      BY <1>3, <1>5, <1>6, <1>7, <3>1
    <3>3. Bytes(packet)[end + 1] # 0
      BY <1>5, <3>2
    <3>4. At(end) = {Bytes(packet)[end + 1]}
      BY <1>6, <3>2, AtByte
    <3>5. QED
      BY <1>1, <3>3, <3>4
  <2>4. cursor' = 33 + User
    BY <1>1, <1>5, <1>6, <2>2, <2>3
  <2>5. QED
    BY <1>7, <2>4, <1>2, <1>3, <1>4, <1>5 DEF IInv, Place, States, ReadSoFar, Whole, User,
       FlagsRead, SizeRead, CharsetRead
<1>8. CASE size < 33 + User
  <2>1. end >= size
    <3>1. SUFFICES ASSUME end < size PROVE FALSE
      BY <1>3, <1>6
    <3>2. end - 31 \in 1 .. User /\ 32 + (end - 31) = end + 1
      BY <1>3, <1>5, <1>6, <1>8, <3>1
    <3>3. Bytes(packet)[end + 1] # 0
      BY <1>5, <3>2
    <3>4. At(end) = {Bytes(packet)[end + 1]}
      BY <1>6, <3>1, AtByte
    <3>5. QED
      BY <1>1, <3>3, <3>4
  <2>2. cursor' \in Nat /\ cursor' > size
    BY <1>1, <1>3, <1>6, <2>1
  <2>3. QED
    BY <1>8, <2>2, <1>2, <1>3, <1>4, <1>5 DEF IInv, Place, States, ReadSoFar, Whole, User,
       FlagsRead, SizeRead, CharsetRead
<1>9. QED
  BY <1>3, <1>5, <1>7, <1>8

\* The name of the database is a string of bytes.
LEMMA NameType ==
  ASSUME IInv, NEW end \in DOMAIN memory
  PROVE  NameBytes(end) \in Seq(Byte)
<1>1. /\ size \in Nat /\ memory \in [0 .. size -> Byte] /\ end \in 0 .. size
  BY DEF IInv, Received
<1>2. \A k \in 1 .. end + 1 : memory[k - 1] \in Byte
  BY <1>1
<1>3. end + 1 \in Nat
  BY <1>1
<1>4. QED
  BY <1>2, <1>3 DEF NameBytes

\* The scramble is skipped.
LEMMA ScrambleInv ==
  ASSUME IInv, SkipScramble
  PROVE  IInv'
<1>1. PICK b \in At(cursor) :
        \/ /\ ~(cursor + LcbWidth(b) <= size)
           /\ pc' = "verify"
           /\ cursor' = cursor + LcbWidth(b)
           /\ UNCHANGED database
        \/ /\ cursor + LcbWidth(b) <= size
           /\ pc' = "parsed"
           /\ cursor' = cursor + LcbWidth(b) + b
           /\ database' = database \/ \E end \in DOMAIN memory : database' = NameBytes(end)
  BY DEF SkipScramble, Verify
<1>2. /\ pc = "scramble" /\ packet' = packet /\ memory' = memory
      /\ size' = size /\ client_flags' = client_flags /\ max_packet_size' = max_packet_size
      /\ charset' = charset
  BY DEF SkipScramble, buffer
<1>3. Received /\ size \in Nat /\ cursor \in Nat
  BY DEF IInv, Received, Place
<1>4. Received'
  BY <1>2 DEF IInv, Received
<1>5. /\ User \in Nat /\ Scramble \in Nat
      /\ Bytes(packet)[34 + User] = First(Scramble)
  BY <1>3, LaidOut DEF Laid, User, Scramble
<1>6. b \in Byte /\ b \in Nat
  <2>1. b \in Byte
    BY <1>1, <1>3, AtByte
  <2>2. QED
    BY <2>1, ByteRange, Zenon
<1>7. LcbWidth(b) \in Nat /\ LcbWidth(b) >= 1
  BY DEF LcbWidth
<1>8. /\ size >= 33 + User => cursor = 33 + User
      /\ size < 33 + User => cursor > size
  BY <1>2, <1>3, <1>5 DEF IInv, Place
<1>9. Whole => /\ cursor + LcbWidth(b) <= size
               /\ LcbWidth(b) + b = IF Scramble <= 250 THEN 1 + Scramble ELSE 256
               /\ cursor = 33 + User
  <2>1. SUFFICES ASSUME Whole
                 PROVE  /\ cursor + LcbWidth(b) <= size
                        /\ LcbWidth(b) + b = IF Scramble <= 250 THEN 1 + Scramble ELSE 256
                        /\ cursor = 33 + User
    OBVIOUS
  <2>2. size >= 33 + User + Width(Scramble) + Scramble /\ size >= 34 + User
    BY <1>3, <2>1, WholeSize
  <2>3. cursor = 33 + User /\ cursor < size /\ cursor + 1 = 34 + User
    BY <1>3, <1>5, <1>8, <2>2
  <2>4. b = First(Scramble)
    BY <1>1, <1>3, <1>5, <2>3, AtByte
  <2>5. CASE Scramble <= 250
    <3>1. b = Scramble /\ LcbWidth(b) = 1
      BY <1>5, <2>4, <2>5 DEF First, LcbWidth
    <3>2. QED
      BY <1>3, <1>5, <2>2, <2>3, <2>5, <3>1 DEF Width
  <2>6. CASE Scramble > 250
    <3>1. b = 252 /\ LcbWidth(b) = 4
      BY <1>5, <2>4, <2>6 DEF First, LcbWidth
    <3>2. QED
      BY <1>3, <1>5, <2>2, <2>3, <2>6, <3>1 DEF Width
  <2>7. QED
    BY <1>5, <2>5, <2>6
<1>10. Whole' <=> Whole
  BY <1>2 DEF Whole
<1>11. User' = User /\ Scramble' = Scramble
  BY <1>2 DEF User, Scramble
<1>12. ReadSoFar'
  <2>1. database' \in Seq(Byte)
    BY <1>1, NameType DEF IInv, ReadSoFar
  <2>2. QED
    BY <1>2, <1>10, <2>1 DEF IInv, ReadSoFar, FlagsRead, SizeRead, CharsetRead
<1>13. CASE pc' = "verify"
  <2>1. ~(cursor + LcbWidth(b) <= size) /\ cursor' = cursor + LcbWidth(b)
    BY <1>1, <1>13
  <2>2. ~Whole
    BY <1>9, <2>1
  <2>3. cursor' \in Nat
    BY <1>3, <1>7, <2>1
  <2>4. Place'
    BY <1>10, <1>13, <2>2, <2>3 DEF Place, States
  <2>5. QED
    BY <1>4, <1>12, <2>4 DEF IInv
<1>14. CASE pc' = "parsed"
  <2>1. cursor + LcbWidth(b) <= size /\ cursor' = cursor + LcbWidth(b) + b
    BY <1>1, <1>14
  <2>2. cursor' \in Nat
    BY <1>3, <1>6, <1>7, <2>1
  <2>3. size >= 34 + User
    BY <1>3, <1>5, <1>7, <1>8, <2>1
  <2>4. Whole => cursor' = IF Scramble <= 250 THEN 34 + User + Scramble ELSE 289 + User
    BY <1>5, <1>6, <1>7, <1>9, <2>1
  <2>5. Place'
    BY <1>2, <1>10, <1>11, <1>14, <2>2, <2>3, <2>4 DEF Place, States
  <2>6. QED
    BY <1>4, <1>12, <2>5 DEF IInv
<1>15. QED
  BY <1>1, <1>13, <1>14

LEMMA NextInv == IInv /\ [Next]_vars => IInv'
<1> SUFFICES ASSUME IInv, [Next]_vars PROVE IInv'
  OBVIOUS
<1>1. CASE Next
  BY <1>1, FlagsInv, MaxPacketSizeInv, CharsetInv, UserInv, ScrambleInv DEF Next
<1>2. CASE UNCHANGED vars
  <2>1. /\ packet' = packet /\ memory' = memory /\ size' = size /\ cursor' = cursor /\ pc' = pc
        /\ client_flags' = client_flags /\ max_packet_size' = max_packet_size
        /\ charset' = charset /\ database' = database
    BY <1>2 DEF vars, buffer, fields
  <2>2. Received' = Received
    BY <2>1 DEF Received
  <2>3. Whole' = Whole /\ User' = User /\ Scramble' = Scramble
    BY <2>1 DEF Whole, User, Scramble
  <2>4. Place' = Place
    BY <2>1, <2>3 DEF Place
  <2>5. ReadSoFar' = ReadSoFar
    BY <2>1, <2>3 DEF ReadSoFar, FlagsRead, SizeRead, CharsetRead
  <2>6. QED
    BY <2>2, <2>4, <2>5 DEF IInv
<1>3. QED
  BY <1>1, <1>2

-----------------------------------------------------------------------------
(* What follows from the invariant.                                        *)

\* The invariant holds in every reachable state.
THEOREM AuthInvariance == Spec => []IInv
BY InitInv, NextInv, PTL DEF Spec

\* Every value has its width, and the cursor is in the packet until the name
\* of the user is skipped, for every packet and wherever it is cut.
THEOREM AuthTypeCorrect == Spec => []TypeOK
<1>1. IInv => TypeOK
  <2>1. SUFFICES ASSUME IInv PROVE TypeOK
    OBVIOUS
  <2>2. /\ size \in 0 .. Len(Bytes(packet)) /\ size \in Nat
    <3>1. Bytes(packet) \in Seq(Byte)
      BY <2>1, LaidOut DEF IInv, Laid
    <3>2. Len(Bytes(packet)) \in Nat
      BY <3>1, LenProperties
    <3>3. QED
      BY <2>1, <3>2 DEF IInv, Received
  <2>3. pc \in {"client_flags", "max_packet_size", "charset", "user"} => cursor <= size
    BY <2>1, <2>2 DEF IInv, Place
  <2>4. QED
    BY <2>1, <2>2, <2>3 DEF IInv, Received, Place, States, ReadSoFar, TypeOK
<1>2. QED
  BY <1>1, AuthInvariance, PTL

LEMMA HeaderLength ==
  ASSUME Received
  PROVE  /\ Len(Fixed(packet)) + Len(Terminated(packet.user)) = 33 + User
         /\ Len(Fixed(packet) \o Names(packet)) = 33 + User + Width(Scramble) + Scramble
         /\ User \in Nat /\ Scramble \in Nat
<1>1. packet \in Packets
  BY DEF Received
<1>2. User \in Nat /\ Scramble \in Nat
  BY <1>1, FieldType, LetterSeq DEF User, Scramble
<1>3. Fixed(packet) \in Seq(Byte) /\ Len(Fixed(packet)) = 32
  BY <1>1, FixedType
<1>4. Names(packet) \in Seq(Byte) /\ Len(Names(packet)) = User + 1 + Width(Scramble) + Scramble
  BY <1>1, NamesType DEF User, Scramble
<1>5. Len(Terminated(packet.user)) = User + 1
  BY <1>1, FieldType, TerminatedType DEF User
<1>6. Len(Fixed(packet) \o Names(packet)) = Len(Fixed(packet)) + Len(Names(packet))
  BY <1>3, <1>4, Parts, Zenon
<1>7. Width(Scramble) \in Nat
  BY DEF Width
<1>8. QED
  BY <1>2, <1>3, <1>4, <1>5, <1>6, <1>7

\* No whole packet is refused, and none that lacks its fixed fields, the name
\* of its user or the length of its scramble is accepted.
THEOREM WholePacketsAccepted == Spec => []AcceptsWhole
<1>1. IInv => AcceptsWhole
  BY HeaderLength DEF IInv, Place, Received, AcceptsWhole
<1>2. QED
  BY <1>1, AuthInvariance, PTL

\* The numbers of a whole packet are read as they were written; the cursor is
\* left where the name of the database begins exactly if the length of the
\* scramble takes one byte, or is 253.
THEOREM NumbersReadBack == Spec => []ReadsBack
<1>1. IInv => ReadsBack
  <2>1. SUFFICES ASSUME IInv, pc = "parsed", Whole
                 PROVE  /\ client_flags = packet.client_flags
                        /\ max_packet_size = packet.max_packet_size
                        /\ charset = packet.charset
                        /\ cursor = Len(Fixed(packet) \o Names(packet))
                             <=> Len(packet.scramble) \in 0 .. 250 \cup {253}
    BY DEF ReadsBack
  <2>2. /\ client_flags = packet.client_flags
        /\ max_packet_size = packet.max_packet_size
        /\ charset = packet.charset
    BY <2>1 DEF IInv, ReadSoFar, FlagsRead, SizeRead, CharsetRead
  <2>3. /\ Len(Fixed(packet) \o Names(packet)) = 33 + User + Width(Scramble) + Scramble
        /\ User \in Nat /\ Scramble \in Nat
    BY <2>1, HeaderLength DEF IInv
  <2>4. cursor = IF Scramble <= 250 THEN 34 + User + Scramble ELSE 289 + User
    BY <2>1 DEF IInv, Place
  <2>5. cursor = Len(Fixed(packet) \o Names(packet)) <=> Scramble <= 250 \/ Scramble = 253
    BY <2>3, <2>4 DEF Width
  <2>6. Scramble \in 0 .. 250 <=> Scramble <= 250
    <3> DEFINE m == 250
    <3>1. m \in Nat
      OBVIOUS
    <3> HIDE DEF m
    <3>2. Scramble \in 0 .. m <=> Scramble <= m
      BY <2>3, <3>1
    <3>3. QED
      BY <3>2, Zenon DEF m
  <2>7. QED
    BY <2>2, <2>5, <2>6 DEF Scramble
<1>2. QED
  BY <1>1, AuthInvariance, PTL
=============================================================================
