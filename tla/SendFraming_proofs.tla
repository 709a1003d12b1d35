------------------------- MODULE SendFraming_proofs -------------------------
(***************************************************************************)
(* Proofs about SendFraming, for messages of every size, every packet size *)
(* a header can express and every limit on the number of packets.          *)
(***************************************************************************)
EXTENDS SendFraming, SequenceTheorems, TLAPS

\* Where packet j starts in the message and in the buffer.
Start(j)   == IF j * MaxPacket < length THEN j * MaxPacket ELSE length
Address(j) == Start(j) + HeaderSize * j

\* num_packets packets are needed for the message.
Enough  == length <= num_packets * MaxPacket
NotOver == num_packets # 0 => (num_packets - 1) * MaxPacket < length

CountInv ==
  pc = "count" =>
    /\ NotOver
    /\ i = num_packets * MaxPacket
    /\ alloc_size = length + HeaderSize * num_packets
    /\ size = length /\ src = 0 /\ dest = 0
    /\ position = 0 /\ received = <<>>

BufferInv ==
  pc \in {"copy", "sent"} =>
    /\ NotOver /\ Enough /\ num_packets <= MaxPackets
    /\ alloc_size = length + HeaderSize * num_packets
    /\ DOMAIN memory = 0 .. alloc_size - 1
    /\ i \in 0 .. num_packets
    /\ src = Start(i) /\ dest = Address(i) /\ size = length - src

\* The first n packets of the buffer are packets of the message.
Laid(n) ==
  \A j \in 0 .. n - 1 :
    /\ SizeInHeader(Address(j)) = Start(j + 1) - Start(j)
    /\ \A t \in Start(j) .. Start(j + 1) - 1 :
         memory[t + HeaderSize * (j + 1)].value = t

LayoutInv == pc \in {"copy", "sent"} => Laid(i)

\* The peer is between two packets and has all of those before.
PeerInv ==
  /\ pc = "copy" => position = 0 /\ received = <<>>
  /\ pc = "sent" =>
       \E r \in 0 .. num_packets :
         /\ position = Address(r)
         /\ received \in Seq(Nat) /\ Len(received) = Start(r)
         /\ \A k \in 1 .. Len(received) : received[k] = k - 1

SentInv == pc = "sent" => i = num_packets

IInv ==
  /\ TypeOK
  /\ CountInv
  /\ BufferInv
  /\ LayoutInv
  /\ PeerInv
  /\ SentInv
  /\ RefusesOnlyTooLong

-----------------------------------------------------------------------------
(* Arithmetic.                                                             *)

LEMMA Types ==
  /\ MaxPacket \in Nat /\ MaxPacket >= 1 /\ MaxPacket < 256 * 256 * 256
  /\ MaxPackets \in Nat
BY SendFramingAssumption, SMT

LEMMA Multiples ==
  ASSUME NEW a \in Nat, NEW b \in Nat, NEW m \in Nat, a <= b
  PROVE  a * m \in Nat /\ b * m \in Nat /\ a * m <= b * m
<1>1. a * m \in Nat /\ b * m \in Nat /\ (b - a) * m \in Nat
  OBVIOUS
<1>2. b * m = a * m + (b - a) * m
  OBVIOUS
<1>3. QED
  BY <1>1, <1>2

\* The size written in a header is the size read from it.
LEMMA HeaderRoundTrip ==
  ASSUME NEW n \in Nat, n < 256 * 256 * 256
  PROVE  (n % 256) + ((n \div 256) % 256) * 256 + ((n \div (256 * 256)) % 256) * (256 * 256) = n
<1> DEFINE q == n \div 256
           p == q \div 256
<1>1. n \in Nat /\ q \in Nat /\ n = (n % 256) + q * 256
  BY SMT
<1>2. p \in Nat /\ q = (q % 256) + p * 256
  BY <1>1, SMT
<1>3. n \div (256 * 256) = p
  BY SMTT(30)
<1>4. p < 256
  BY <1>1, <1>2, SMT
<1>5. p % 256 = p
  BY <1>2, <1>4, SMT
<1>6. QED
  BY <1>1, <1>2, <1>3, <1>5, SMT

LEMMA StartType ==
  ASSUME length \in Nat, NEW j \in Nat
  PROVE  /\ Start(j) \in 0 .. length
         /\ Address(j) \in Nat
         /\ Address(j) = Start(j) + 4 * j
<1>1. j * MaxPacket \in Nat
  BY Types, Multiples
<1>2. QED
  BY <1>1 DEF Start, Address, HeaderSize

\* Packet j of the message is not empty and not too large.
LEMMA PacketBounds ==
  ASSUME length \in Nat, num_packets \in Nat, NotOver, NEW j \in 0 .. num_packets - 1
  PROVE  /\ Start(j) = j * MaxPacket
         /\ Start(j + 1) = IF MaxPacket < length - Start(j) THEN Start(j) + MaxPacket
                           ELSE length
         /\ Start(j + 1) > Start(j)
         /\ Start(j + 1) - Start(j) \in 1 .. MaxPacket
<1>1. num_packets - 1 \in Nat /\ j \in Nat /\ j <= num_packets - 1
  OBVIOUS
<1>2. j * MaxPacket \in Nat /\ j * MaxPacket <= (num_packets - 1) * MaxPacket
  BY <1>1, Types, Multiples
<1>3. (num_packets - 1) * MaxPacket < length /\ (num_packets - 1) * MaxPacket \in Nat
  BY <1>1, Types, Multiples DEF NotOver
<1>4. j * MaxPacket < length
  BY <1>2, <1>3
<1>5. (j + 1) * MaxPacket = j * MaxPacket + MaxPacket
  BY Types
<1>6. QED
  BY <1>2, <1>4, <1>5, Types DEF Start

LEMMA StartEnds ==
  ASSUME length \in Nat, num_packets \in Nat, Enough
  PROVE  Start(0) = 0 /\ Start(num_packets) = length
<1>1. 0 * MaxPacket = 0 /\ num_packets * MaxPacket \in Nat
  BY Types, Multiples
<1>2. QED
  BY <1>1 DEF Start, Enough

\* Packets follow one another, in the message and in the buffer.
LEMMA StartMonotone ==
  ASSUME length \in Nat, NEW a \in Nat, NEW b \in Nat, a <= b
  PROVE  Start(a) <= Start(b) /\ Address(a) <= Address(b)
<1>1. a * MaxPacket \in Nat /\ b * MaxPacket \in Nat /\ a * MaxPacket <= b * MaxPacket
  BY Types, Multiples
<1>2. Start(a) <= Start(b)
  BY <1>1 DEF Start
<1>3. QED
  BY <1>2, StartType

\* Two packets never start at one address.
LEMMA AddressIncreases ==
  ASSUME length \in Nat, NEW a \in Nat, NEW b \in Nat, a < b
  PROVE  Address(a) + HeaderSize <= Address(b)
<1>1. Start(a) <= Start(b) /\ Start(a) \in Nat /\ Start(b) \in Nat
  BY StartMonotone, StartType
<1>2. QED
  BY <1>1 DEF Address, HeaderSize

-----------------------------------------------------------------------------
(* Counting.                                                               *)

LEMMA BeginInv ==
  ASSUME NEW n \in Sizes, NEW id \in Ids, BeginSend(n, id)
  PROVE  IInv'
<1>1. n \in Nat /\ id \in Nat
  BY SendFramingAssumption
<1>2. 0 * MaxPacket = 0
  BY Types
<1>3. TypeOK'
  BY <1>1 DEF BeginSend, TypeOK
<1>4. CountInv'
  BY <1>1, <1>2 DEF BeginSend, CountInv, NotOver, HeaderSize
<1>5. QED
  BY <1>3, <1>4 DEF BeginSend, IInv, BufferInv, LayoutInv, PeerInv, SentInv,
     RefusesOnlyTooLong

LEMMA CountPacketInv ==
  ASSUME IInv, CountPacket
  PROVE  IInv'
<1>1. TypeOK /\ CountInv
  BY DEF IInv
<1>2. TypeOK'
  BY <1>1, Types DEF CountPacket, TypeOK, RoomForHeader, HeaderSize, counting
<1>3. (num_packets + 1) * MaxPacket = num_packets * MaxPacket + MaxPacket
  BY <1>1, Types DEF TypeOK
<1>4. NotOver'
  <2>1. num_packets' - 1 = num_packets
    BY <1>1 DEF CountPacket, TypeOK
  <2>2. QED
    BY <1>1, <2>1 DEF CountPacket, CountInv, NotOver, MorePackets, counting
<1>5. CountInv'
  BY <1>1, <1>3, <1>4
     DEF CountPacket, CountInv, RoomForHeader, HeaderSize, TypeOK, counting, peer
<1>6. QED
  BY <1>2, <1>5 DEF CountPacket, IInv, BufferInv, LayoutInv, PeerInv, SentInv,
     RefusesOnlyTooLong

LEMMA TooManyInv ==
  ASSUME IInv, TooMany
  PROVE  IInv'
<1>1. TypeOK /\ CountInv
  BY DEF IInv
<1>2. TypeOK'
  BY <1>1 DEF TooMany, TypeOK, counting
<1>3. length > MaxPackets * MaxPacket
  <2>1. num_packets - 1 \in Nat /\ MaxPackets <= num_packets - 1 /\ num_packets # 0
    BY <1>1, Types DEF TooMany, TypeOK
  <2>2. /\ MaxPackets * MaxPacket \in Nat
        /\ (num_packets - 1) * MaxPacket \in Nat
        /\ MaxPackets * MaxPacket <= (num_packets - 1) * MaxPacket
    BY <2>1, Types, Multiples
  <2>3. (num_packets - 1) * MaxPacket < length
    BY <1>1, <2>1 DEF TooMany, CountInv, NotOver
  <2>4. QED
    BY <1>1, <2>2, <2>3 DEF TypeOK
<1>4. QED
  BY <1>2, <1>3 DEF TooMany, IInv, CountInv, BufferInv, LayoutInv, PeerInv,
     SentInv, RefusesOnlyTooLong, counting

LEMMA AllocateInv ==
  ASSUME IInv, Allocate
  PROVE  IInv'
<1>1. TypeOK /\ CountInv /\ pc = "count"
  BY DEF IInv, Allocate
<1>2. TypeOK'
  BY <1>1 DEF Allocate, TypeOK, counting
<1>3. /\ NotOver /\ Enough /\ num_packets <= MaxPackets
      /\ alloc_size = length + HeaderSize * num_packets
  <2>1. num_packets * MaxPacket \in Nat
    BY <1>1, Types, Multiples DEF TypeOK
  <2>2. QED
    BY <1>1, <2>1 DEF Allocate, CountInv, Enough, MorePackets, TypeOK
<1>4. Start(0) = 0 /\ Address(0) = 0
  BY <1>1, <1>3, StartEnds DEF TypeOK, Address, HeaderSize
<1>5. BufferInv'
  <2>1. (NotOver /\ Enough)'
    BY <1>3 DEF Allocate, NotOver, Enough, counting
  <2>2. Start(i)' = 0 /\ Address(i)' = 0
    BY <1>4 DEF Allocate, Start, Address, counting
  <2>3. src' = 0 /\ dest' = 0 /\ size' = length' /\ i' \in 0 .. num_packets'
    BY <1>1 DEF Allocate, CountInv, TypeOK, counting
  <2>4. QED
    BY <1>1, <1>3, <2>1, <2>2, <2>3 DEF Allocate, BufferInv, TypeOK, counting
<1>6. LayoutInv'
  BY DEF Allocate, LayoutInv, Laid
<1>7. PeerInv'
  BY <1>1 DEF Allocate, PeerInv, CountInv, peer
<1>8. RefusesOnlyTooLong'
  <2>1. num_packets * MaxPacket <= MaxPackets * MaxPacket
    BY <1>1, <1>3, Types, Multiples DEF TypeOK
  <2>2. num_packets * MaxPacket \in Nat /\ MaxPackets * MaxPacket \in Nat
    BY <1>1, <1>3, Types, Multiples DEF TypeOK
  <2>3. QED
    BY <1>1, <1>3, <2>1, <2>2 DEF Allocate, RefusesOnlyTooLong, Enough, TypeOK, counting
<1>9. QED
  BY <1>2, <1>5, <1>6, <1>7, <1>8 DEF Allocate, IInv, CountInv, SentInv

-----------------------------------------------------------------------------
(* Copying.                                                                *)

\* One iteration writes packet i, exactly where packet i belongs.
LEMMA CopyFacts ==
  ASSUME IInv, CopyPacket
  PROVE  /\ length \in Nat /\ num_packets \in Nat /\ i \in 0 .. num_packets - 1
         /\ PacketSize = Start(i + 1) - Start(i)
         /\ PacketSize \in Nat /\ PacketSize < 256 * 256 * 256
         /\ dest = Start(i) + 4 * i /\ src = Start(i)
         /\ dest \in Nat /\ src \in Nat
         /\ dest + 4 + PacketSize = Address(i + 1)
         /\ Address(i + 1) <= alloc_size /\ alloc_size \in Nat
         /\ Start(i + 1) \in 0 .. length
<1>1. TypeOK /\ BufferInv /\ pc = "copy"
  BY DEF IInv, CopyPacket
<1>2. length \in Nat /\ num_packets \in Nat /\ alloc_size \in Nat /\ NotOver /\ Enough
  BY <1>1 DEF TypeOK, BufferInv
<1>3. i \in 0 .. num_packets - 1 /\ i \in Nat /\ i + 1 \in Nat /\ i + 1 <= num_packets
  BY <1>1, <1>2 DEF CopyPacket, BufferInv
<1>4. /\ Start(i + 1) = IF MaxPacket < length - Start(i) THEN Start(i) + MaxPacket
                        ELSE length
      /\ Start(i + 1) - Start(i) \in 1 .. MaxPacket
  BY <1>2, <1>3, PacketBounds
<1>5. src = Start(i) /\ dest = Address(i) /\ size = length - Start(i)
  BY <1>1 DEF BufferInv
<1>6. Start(i) \in 0 .. length /\ Start(i + 1) \in 0 .. length
  BY <1>2, <1>3, StartType
<1>7. PacketSize = Start(i + 1) - Start(i)
  BY <1>2, <1>4, <1>5, <1>6, Types DEF PacketSize
<1>8. PacketSize \in Nat /\ PacketSize < 256 * 256 * 256
  BY <1>4, <1>7, Types
<1>9. dest = Start(i) + 4 * i /\ dest + 4 + PacketSize = Address(i + 1)
  BY <1>3, <1>5, <1>6, <1>7 DEF Address, HeaderSize
<1>10. Address(i + 1) <= alloc_size
  <2>1. Address(i + 1) <= Address(num_packets)
    BY <1>2, <1>3, StartMonotone
  <2>2. Address(num_packets) = alloc_size
    BY <1>1, <1>2, StartEnds DEF Address, BufferInv
  <2>3. QED
    BY <2>1, <2>2
<1>11. QED
  BY <1>2, <1>3, <1>5, <1>6, <1>7, <1>8, <1>9, <1>10

\* What the buffer holds afterwards.
LEMMA CopyMemory ==
  ASSUME IInv, CopyPacket
  PROVE  /\ DOMAIN memory' = DOMAIN memory
         /\ \A a \in 0 .. dest - 1 : memory'[a] = memory[a]
         /\ \A k \in 0 .. 3 : memory'[dest + k] = HeaderCell(Header(PacketSize)[k + 1])
         /\ \A t \in 0 .. PacketSize - 1 : memory'[dest + 4 + t] = DataCell(src + t)
<1>1. /\ dest \in Nat /\ src \in Nat /\ PacketSize \in Nat /\ alloc_size \in Nat
      /\ dest + 4 + PacketSize <= alloc_size
  BY CopyFacts
<1>2. DOMAIN memory = 0 .. alloc_size - 1
  BY DEF IInv, BufferInv, CopyPacket
<1> DEFINE n == PacketSize
           W == dest .. dest + 4 + n - 1
<1>3. memory' =
        [a \in DOMAIN memory \cup W |->
           IF a \notin W THEN memory[a]
           ELSE IF a < dest + 4 THEN HeaderCell(Header(n)[a - dest + 1])
           ELSE DataCell(src + a - dest - 4)]
  BY DEF CopyPacket, Copied, HeaderSize
<1>4. W \subseteq 0 .. alloc_size - 1
  BY <1>1
<1>5. DOMAIN memory \cup W = DOMAIN memory
  BY <1>2, <1>4
<1> HIDE DEF n
<1>6. ASSUME NEW a \in 0 .. dest - 1
      PROVE  memory'[a] = memory[a]
  <2>1. a \in DOMAIN memory /\ a \notin W
    BY <1>1, <1>2, <1>6 DEF n
  <2>2. QED
    BY <1>3, <2>1
<1>7. ASSUME NEW k \in 0 .. 3
      PROVE  memory'[dest + k] = HeaderCell(Header(PacketSize)[k + 1])
  <2>1. dest + k \in W /\ dest + k < dest + 4 /\ (dest + k) - dest + 1 = k + 1
    BY <1>1, <1>7 DEF n
  <2>2. memory'[dest + k] = HeaderCell(Header(n)[(dest + k) - dest + 1])
    BY <1>3, <2>1
  <2>3. QED
    BY <2>1, <2>2 DEF n
<1>8. ASSUME NEW t \in 0 .. PacketSize - 1
      PROVE  memory'[dest + 4 + t] = DataCell(src + t)
  <2>1. /\ dest + 4 + t \in W /\ ~(dest + 4 + t < dest + 4)
        /\ src + (dest + 4 + t) - dest - 4 = src + t
    BY <1>1, <1>8 DEF n
  <2>2. memory'[dest + 4 + t] = DataCell(src + (dest + 4 + t) - dest - 4)
    BY <1>3, <2>1
  <2>3. QED
    BY <2>1, <2>2
<1>9. DOMAIN memory' = DOMAIN memory
  BY <1>3, <1>5
<1>10. QED
  BY <1>6, <1>7, <1>8, <1>9

LEMMA CopyLayout ==
  ASSUME IInv, CopyPacket
  PROVE  LayoutInv'
<1>1. /\ length \in Nat /\ num_packets \in Nat /\ i \in 0 .. num_packets - 1 /\ i \in Nat
      /\ PacketSize = Start(i + 1) - Start(i)
      /\ PacketSize \in Nat /\ PacketSize < 256 * 256 * 256
      /\ dest = Start(i) + 4 * i /\ src = Start(i)
      /\ dest \in Nat /\ src \in Nat
      /\ Start(i + 1) \in 0 .. length
  BY CopyFacts
<1>2. /\ \A a \in 0 .. dest - 1 : memory'[a] = memory[a]
      /\ \A k \in 0 .. 3 : memory'[dest + k] = HeaderCell(Header(PacketSize)[k + 1])
      /\ \A t \in 0 .. PacketSize - 1 : memory'[dest + 4 + t] = DataCell(src + t)
  BY CopyMemory
<1>3. i' = i + 1 /\ length' = length
  BY DEF CopyPacket, counting
<1>4. Laid(i)
  BY DEF IInv, LayoutInv, CopyPacket
<1>5. ASSUME NEW j \in 0 .. i - 1
      PROVE  /\ SizeInHeader(Address(j))' = Start(j + 1) - Start(j)
             /\ \A t \in Start(j) .. Start(j + 1) - 1 :
                  memory'[t + HeaderSize * (j + 1)].value = t
  <2>1. j \in Nat /\ j + 1 \in Nat /\ j < i /\ j + 1 <= i
    BY <1>1, <1>5
  <2>2. /\ Start(j) \in Nat /\ Start(j + 1) \in Nat
        /\ Address(j) = Start(j) + 4 * j /\ Address(j + 1) = Start(j + 1) + 4 * (j + 1)
        /\ Start(j) <= Start(j + 1)
    <3>1. Start(j) \in Nat /\ Address(j) = Start(j) + 4 * j
      BY <1>1, <2>1, StartType
    <3>2. Start(j + 1) \in Nat /\ Address(j + 1) = Start(j + 1) + 4 * (j + 1)
      BY <1>1, <2>1, StartType
    <3>3. Start(j) <= Start(j + 1)
      BY <1>1, <2>1, StartMonotone
    <3>4. QED
      BY <3>1, <3>2, <3>3
  <2>3. Address(j + 1) <= dest
    BY <1>1, <2>1, StartMonotone, StartType
  <2>4. /\ Address(j) \in 0 .. dest - 1
        /\ Address(j) + 1 \in 0 .. dest - 1
        /\ Address(j) + 2 \in 0 .. dest - 1
    BY <1>1, <2>1, <2>2, <2>3
  <2>5. SizeInHeader(Address(j))' = SizeInHeader(Address(j))
    <3>1. Address(j)' = Address(j)
      BY <1>3 DEF Address, Start
    <3>2. QED
      BY <1>2, <2>4, <3>1 DEF SizeInHeader
  <2>6. ASSUME NEW t \in Start(j) .. Start(j + 1) - 1
        PROVE  memory'[t + HeaderSize * (j + 1)].value = t
    <3>1. t + HeaderSize * (j + 1) \in 0 .. dest - 1
      BY <1>1, <2>1, <2>2, <2>3, <2>6 DEF HeaderSize
    <3>2. QED
      BY <1>2, <1>4, <1>5, <2>6, <3>1 DEF Laid
  <2>7. QED
    BY <1>4, <2>5, <2>6 DEF Laid
<1>6. ASSUME NEW j, j = i
      PROVE  /\ SizeInHeader(Address(j))' = Start(j + 1) - Start(j)
             /\ \A t \in Start(j) .. Start(j + 1) - 1 :
                  memory'[t + HeaderSize * (j + 1)].value = t
  <2>1. Address(j)' = dest
    <3>1. Address(j) = dest
      BY <1>1, <1>6, StartType
    <3>2. QED
      BY <1>3, <3>1 DEF Address, Start
  <2>2. SizeInHeader(Address(j))' = PacketSize
    <3>1. /\ memory'[dest].value = PacketSize % 256
          /\ memory'[dest + 1].value = (PacketSize \div 256) % 256
          /\ memory'[dest + 2].value = (PacketSize \div (256 * 256)) % 256
      <4>1. memory'[dest + 0] = HeaderCell(Header(PacketSize)[1])
        BY <1>2
      <4>2. memory'[dest + 1] = HeaderCell(Header(PacketSize)[2])
        BY <1>2
      <4>3. memory'[dest + 2] = HeaderCell(Header(PacketSize)[3])
        BY <1>2
      <4>4. dest + 0 = dest
        BY <1>1
      <4>5. QED
        BY <4>1, <4>2, <4>3, <4>4 DEF HeaderCell, Header
    <3>2. QED
      BY <1>1, <2>1, <3>1, HeaderRoundTrip DEF SizeInHeader
  <2>3. ASSUME NEW t \in Start(j) .. Start(j + 1) - 1
        PROVE  memory'[t + HeaderSize * (j + 1)].value = t
    <3>1. t - src \in 0 .. PacketSize - 1
      BY <1>1, <1>6, <2>3
    <3>2. t + HeaderSize * (j + 1) = dest + 4 + (t - src) /\ src + (t - src) = t
      BY <1>1, <1>6, <2>3 DEF HeaderSize
    <3>3. memory'[dest + 4 + (t - src)] = DataCell(src + (t - src))
      BY <1>2, <3>1
    <3>4. QED
      BY <3>2, <3>3 DEF DataCell
  <2>4. QED
    BY <1>1, <1>6, <2>2, <2>3
<1>7. \A j \in 0 .. i : Start(j)' = Start(j) /\ Start(j + 1)' = Start(j + 1)
  BY <1>3 DEF Start
<1>8. \A j \in 0 .. i :
        /\ SizeInHeader(Address(j))' = Start(j + 1) - Start(j)
        /\ \A t \in Start(j) .. Start(j + 1) - 1 :
             memory'[t + HeaderSize * (j + 1)].value = t
  BY <1>1, <1>5, <1>6
<1>9. i' - 1 = i
  BY <1>1, <1>3
<1>10. QED
  BY <1>7, <1>8, <1>9 DEF LayoutInv, Laid

LEMMA CopyPacketInv ==
  ASSUME IInv, CopyPacket
  PROVE  IInv'
<1>1. TypeOK /\ BufferInv /\ pc = "copy"
  BY DEF IInv, CopyPacket
<1>2. /\ length \in Nat /\ num_packets \in Nat /\ i \in 0 .. num_packets - 1
      /\ PacketSize = Start(i + 1) - Start(i) /\ PacketSize \in Nat
      /\ src = Start(i) /\ dest \in Nat /\ src \in Nat
      /\ dest + 4 + PacketSize = Address(i + 1)
      /\ Start(i + 1) \in 0 .. length
  BY CopyFacts
<1>3. /\ i' = i + 1 /\ length' = length /\ num_packets' = num_packets
      /\ alloc_size' = alloc_size /\ pc' = pc
      /\ src' = Start(i + 1) /\ dest' = Address(i + 1)
      /\ size' = length - Start(i + 1)
  <2>1. /\ i' = i + 1 /\ length' = length /\ num_packets' = num_packets
        /\ alloc_size' = alloc_size /\ pc' = pc
        /\ src' = src + PacketSize /\ dest' = dest + PacketSize + 4
        /\ size' = size - PacketSize
    BY DEF CopyPacket, NextSrc, NextDest, HeaderSize, counting
  <2>2. size = length - src
    BY <1>1 DEF BufferInv
  <2>3. QED
    BY <1>2, <2>1, <2>2
<1>4. Start(i)' = Start(i + 1) /\ Address(i)' = Address(i + 1)
  BY <1>3 DEF Start, Address
<1>5. DOMAIN memory' = DOMAIN memory
  BY CopyMemory
<1>6. TypeOK'
  <2>1. dest' \in Nat /\ src' \in 0 .. length' /\ size' \in 0 .. length' /\ i' \in Nat
    BY <1>2, <1>3
  <2>2. packet_number' = packet_number
    BY DEF CopyPacket, counting
  <2>3. DOMAIN memory' = 0 .. alloc_size' - 1
    BY <1>1, <1>3, <1>5 DEF TypeOK
  <2>4. QED
    BY <1>1, <1>3, <2>1, <2>2, <2>3 DEF TypeOK
<1>7. BufferInv'
  <2>1. NotOver' /\ Enough' /\ num_packets' <= MaxPackets
    BY <1>1, <1>3 DEF BufferInv, NotOver, Enough
  <2>2. i' \in 0 .. num_packets'
    BY <1>2, <1>3
  <2>3. QED
    BY <1>1, <1>3, <1>4, <1>5, <2>1, <2>2 DEF BufferInv
<1>8. LayoutInv'
  BY CopyLayout
<1>9. PeerInv' /\ RefusesOnlyTooLong' /\ CountInv' /\ SentInv'
  BY <1>1, <1>3 DEF IInv, CopyPacket, PeerInv, RefusesOnlyTooLong, CountInv, SentInv, peer
<1>10. QED
  BY <1>6, <1>7, <1>8, <1>9 DEF IInv

LEMMA TransmitInv ==
  ASSUME IInv, Transmit
  PROVE  IInv'
<1>1. /\ TypeOK /\ BufferInv /\ LayoutInv /\ PeerInv /\ RefusesOnlyTooLong
      /\ pc = "copy" /\ i = num_packets
  BY DEF IInv, Transmit
<1>2. UNCHANGED <<counting, size, i, num_packets, alloc_size, memory, dest, src, peer>>
      /\ pc' = "sent"
  BY DEF Transmit
<1>3. TypeOK' /\ RefusesOnlyTooLong' /\ CountInv' /\ SentInv'
  BY <1>1, <1>2 DEF TypeOK, RefusesOnlyTooLong, CountInv, SentInv, counting
<1>4. BufferInv'
  BY <1>1, <1>2 DEF BufferInv, NotOver, Enough, Start, Address, counting
<1>5. LayoutInv'
  BY <1>1, <1>2 DEF LayoutInv, Laid, SizeInHeader, Start, Address, counting
<1>6. PeerInv'
  <2>1. length \in Nat /\ num_packets \in Nat /\ Enough
    BY <1>1 DEF TypeOK, BufferInv
  <2>2. Start(0) = 0 /\ Address(0) = 0
    BY <2>1, StartEnds DEF Address, HeaderSize
  <2>3. Start(0)' = 0 /\ Address(0)' = 0
    BY <1>2, <2>2 DEF Start, Address, counting
  <2>4. position' = 0 /\ received' = <<>> /\ 0 \in 0 .. num_packets'
    BY <1>1, <1>2, <2>1 DEF PeerInv, peer
  <2>5. QED
    BY <1>2, <2>3, <2>4 DEF PeerInv
<1>7. QED
  BY <1>3, <1>4, <1>5, <1>6 DEF IInv

-----------------------------------------------------------------------------
(* The peer.                                                               *)

LEMMA SentFacts ==
  ASSUME IInv, pc = "sent"
  PROVE  /\ length \in Nat /\ num_packets \in Nat /\ alloc_size \in Nat
         /\ NotOver /\ Enough /\ Laid(num_packets)
         /\ Start(num_packets) = length /\ Address(num_packets) = alloc_size
<1>1. TypeOK /\ BufferInv /\ LayoutInv /\ i = num_packets
  BY DEF IInv, SentInv
<1>2. /\ length \in Nat /\ num_packets \in Nat /\ alloc_size \in Nat
      /\ NotOver /\ Enough /\ Laid(num_packets)
  BY <1>1 DEF TypeOK, BufferInv, LayoutInv
<1>3. Start(num_packets) = length
  BY <1>2, StartEnds
<1>4. Address(num_packets) = alloc_size
  BY <1>1, <1>3 DEF BufferInv, Address
<1>5. QED
  BY <1>2, <1>3, <1>4

LEMMA PeerReadsInv ==
  ASSUME IInv, PeerReads
  PROVE  IInv'
<1>1. pc = "sent" /\ position < alloc_size
  BY DEF PeerReads
<1>2. /\ length \in Nat /\ num_packets \in Nat /\ alloc_size \in Nat
      /\ NotOver /\ Enough /\ Laid(num_packets)
      /\ Start(num_packets) = length /\ Address(num_packets) = alloc_size
  BY <1>1, SentFacts
<1>3. UNCHANGED <<pc, counting, size, i, num_packets, alloc_size, memory, dest, src>>
  BY DEF PeerReads
<1>4. TypeOK' /\ RefusesOnlyTooLong' /\ CountInv' /\ SentInv'
  BY <1>1, <1>3 DEF IInv, TypeOK, RefusesOnlyTooLong, CountInv, SentInv, counting
<1>5. BufferInv'
  BY <1>3 DEF IInv, BufferInv, NotOver, Enough, Start, Address, counting
<1>6. LayoutInv'
  BY <1>3 DEF IInv, LayoutInv, Laid, SizeInHeader, Start, Address, counting
<1>7. PICK r \in 0 .. num_packets :
        /\ position = Address(r)
        /\ received \in Seq(Nat) /\ Len(received) = Start(r)
        /\ \A k \in 1 .. Len(received) : received[k] = k - 1
  BY <1>1 DEF IInv, PeerInv
<1>8. r \in 0 .. num_packets - 1 /\ r \in Nat /\ r + 1 \in 0 .. num_packets
  BY <1>1, <1>2, <1>7
<1>9. /\ Start(r) \in Nat /\ Start(r + 1) \in Nat /\ Start(r) <= Start(r + 1)
      /\ Address(r) = Start(r) + 4 * r
      /\ Address(r + 1) = Start(r + 1) + 4 * (r + 1)
  <2>1. Start(r) \in Nat /\ Address(r) = Start(r) + 4 * r
    BY <1>2, <1>8, StartType
  <2>2. Start(r + 1) \in Nat /\ Address(r + 1) = Start(r + 1) + 4 * (r + 1)
    BY <1>2, <1>8, StartType
  <2>3. Start(r) <= Start(r + 1)
    BY <1>2, <1>8, StartMonotone
  <2>4. QED
    BY <2>1, <2>2, <2>3
<1> DEFINE n == Start(r + 1) - Start(r)
           payload == [k \in 1 .. n |-> memory[position + HeaderSize + k - 1].value]
<1>10. SizeInHeader(position) = n
  BY <1>2, <1>7, <1>8 DEF Laid
<1>11. position' = position + HeaderSize + n /\ received' = received \o payload
  BY <1>10 DEF PeerReads
<1>12. position' = Address(r + 1)
  BY <1>7, <1>9, <1>11 DEF HeaderSize
<1>13. \A k \in 1 .. n : payload[k] = Start(r) + k - 1
  <2> SUFFICES ASSUME NEW k \in 1 .. n
               PROVE  payload[k] = Start(r) + k - 1
    OBVIOUS
  <2>1. Start(r) + k - 1 \in Start(r) .. Start(r + 1) - 1
    BY <1>9
  <2>2. memory[(Start(r) + k - 1) + HeaderSize * (r + 1)].value = Start(r) + k - 1
    BY <1>2, <1>8, <2>1 DEF Laid
  <2>3. position + HeaderSize + k - 1 = (Start(r) + k - 1) + HeaderSize * (r + 1)
    BY <1>7, <1>8, <1>9 DEF HeaderSize
  <2>4. payload[k] = memory[position + HeaderSize + k - 1].value
    OBVIOUS
  <2>5. QED
    BY <2>2, <2>3, <2>4
<1>14. n \in Nat
  BY <1>9
<1>15. payload \in Seq(Nat) /\ Len(payload) = n
  <2>1. \A k \in 1 .. n : payload[k] \in Nat
    BY <1>9, <1>13
  <2>2. DOMAIN payload = 1 .. n
    OBVIOUS
  <2> HIDE DEF payload
  <2>3. payload = [k \in 1 .. n |-> payload[k]]
    BY DEF payload
  <2>4. payload \in [1 .. n -> Nat]
    BY <2>1, <2>3
  <2> HIDE DEF n
  <2>5. QED
    BY <1>14, <2>4
<1> HIDE DEF payload
<1>16. /\ received' \in Seq(Nat)
       /\ Len(received') = Start(r + 1)
       /\ \A k \in 1 .. Len(received') : received'[k] = k - 1
  <2>1. received' \in Seq(Nat) /\ Len(received') = Len(received) + Len(payload)
    BY <1>7, <1>11, <1>15, ConcatProperties
  <2>2. Len(received') = Start(r + 1)
    BY <1>7, <1>9, <1>15, <2>1
  <2>3. ASSUME NEW k \in 1 .. Len(received')
        PROVE  received'[k] = k - 1
    <3>1. CASE k <= Len(received)
      BY <1>7, <1>11, <1>15, <2>3, <3>1, ConcatProperties
    <3>2. CASE k > Len(received)
      <4>1. received'[k] = payload[k - Len(received)]
        <5>1. Len(received) \in Nat /\ Len(payload) \in Nat
          BY <1>7, <1>15, LenProperties
        <5>2. k \in Len(received) + 1 .. Len(received) + Len(payload)
          BY <2>1, <2>3, <3>2, <5>1
        <5>3. /\ received' = received \o payload
              /\ received \in Seq(Nat) /\ payload \in Seq(Nat)
          BY <1>7, <1>11, <1>15
        <5>4. \A j \in 1 .. Len(received) + Len(payload) :
                (received \o payload)[j] =
                  IF j <= Len(received) THEN received[j] ELSE payload[j - Len(received)]
          BY <5>3, ConcatProperties
        <5>5. k \in 1 .. Len(received) + Len(payload) /\ ~(k <= Len(received))
          BY <5>1, <5>2
        <5>6. QED
          BY <5>3, <5>4, <5>5
      <4>2. k - Len(received) \in 1 .. n
        BY <1>7, <1>9, <2>2, <2>3, <3>2
      <4>3. payload[k - Len(received)] = Start(r) + (k - Len(received)) - 1
        BY <1>13, <4>2
      <4>4. Start(r) + (k - Len(received)) - 1 = k - 1
        BY <1>7, <1>9, <2>2, <2>3
      <4>5. QED
        BY <4>1, <4>3, <4>4
    <3>3. QED
      BY <1>7, <2>1, <2>3, <3>1, <3>2
  <2>4. QED
    BY <2>1, <2>2, <2>3
<1>17. PeerInv'
  <2>1. Start(r + 1)' = Start(r + 1) /\ Address(r + 1)' = Address(r + 1)
    BY <1>3 DEF Start, Address, counting
  <2>2. \E s \in 0 .. num_packets' :
          /\ position' = Address(s)'
          /\ received' \in Seq(Nat) /\ Len(received') = Start(s)'
          /\ \A k \in 1 .. Len(received') : received'[k] = k - 1
    BY <1>3, <1>8, <1>12, <1>16, <2>1
  <2>3. QED
    BY <1>1, <1>3, <2>2 DEF PeerInv
<1>18. QED
  BY <1>4, <1>5, <1>6, <1>17 DEF IInv

LEMMA PeerDoneInv ==
  ASSUME IInv, PeerDone
  PROVE  IInv'
BY DEF PeerDone, IInv, TypeOK, CountInv, BufferInv, LayoutInv, PeerInv, SentInv,
   RefusesOnlyTooLong, counting

-----------------------------------------------------------------------------
(* The invariant and what follows from it.                                 *)

LEMMA FramingInit == Init => IInv
BY DEF Init, IInv, TypeOK, CountInv, BufferInv, LayoutInv, PeerInv, SentInv,
   RefusesOnlyTooLong

LEMMA FramingNext == IInv /\ [Next]_vars => IInv'
<1> SUFFICES ASSUME IInv, [Next]_vars PROVE IInv'
  OBVIOUS
<1>1. CASE Next
  BY <1>1, BeginInv, CountPacketInv, TooManyInv, AllocateInv, CopyPacketInv,
     TransmitInv, PeerReadsInv, PeerDoneInv DEF Next
<1>2. CASE UNCHANGED vars
  BY <1>2 DEF vars, counting, peer, IInv, TypeOK, CountInv, BufferInv, LayoutInv,
     PeerInv, SentInv, RefusesOnlyTooLong, NotOver, Enough, Laid, SizeInHeader,
     Start, Address
<1>3. QED
  BY <1>1, <1>2

\* The inductive invariant holds in every reachable state.
THEOREM FramingInvariance == Spec => []IInv
BY FramingInit, FramingNext, PTL DEF Spec

\* The counting loop makes room for all that the copying loop writes.
THEOREM FramingTypeCorrect == Spec => []TypeOK
<1>1. IInv => TypeOK
  BY DEF IInv
<1>2. QED
  BY <1>1, FramingInvariance, PTL

\* When the buffer goes to send(), the copying loop has reached the end of
\* the message and of the buffer together.
SendsExactly == pc = "sent" => src = length /\ size = 0 /\ dest = alloc_size

\* The two loops of fxmy_begin_send end together: what is sent is all of the message and
\* nothing that was not written.
THEOREM FramingExact == Spec => []SendsExactly
<1>1. IInv => SendsExactly
  <2> SUFFICES ASSUME IInv, pc = "sent" PROVE src = length /\ size = 0 /\ dest = alloc_size
    BY DEF SendsExactly
  <2>1. i = num_packets /\ src = Start(i) /\ dest = Address(i) /\ size = length - src
    BY DEF IInv, SentInv, BufferInv
  <2>2. QED
    BY <2>1, SentFacts
<1>2. QED
  BY <1>1, FramingInvariance, PTL

\* The peer gets the message that was sent.
THEOREM MessageArrives == Spec => []Reassembles
<1>1. IInv => Reassembles
  <2> SUFFICES ASSUME IInv, pc = "sent"
               PROVE  /\ \A k \in 1 .. Len(received) : received[k] = k - 1
                      /\ position >= alloc_size => Len(received) = length
    BY DEF Reassembles
  <2>1. PICK r \in 0 .. num_packets :
          /\ position = Address(r) /\ Len(received) = Start(r)
          /\ \A k \in 1 .. Len(received) : received[k] = k - 1
    BY DEF IInv, PeerInv
  <2>2. /\ length \in Nat /\ num_packets \in Nat /\ alloc_size \in Nat
        /\ Start(num_packets) = length /\ Address(num_packets) = alloc_size
    BY SentFacts
  <2>3. ASSUME r # num_packets
        PROVE  position < alloc_size
    <3>1. r \in Nat /\ r < num_packets
      BY <2>2, <2>3
    <3>2. Address(r) + HeaderSize <= Address(num_packets) /\ Address(r) \in Nat
      BY <2>2, <3>1, AddressIncreases, StartType
    <3>3. QED
      BY <2>1, <2>2, <3>2 DEF HeaderSize
  <2>4. position >= alloc_size => r = num_packets
    <3>1. position \in Nat
      BY <2>1, <2>2, StartType
    <3>2. QED
      BY <2>2, <2>3, <3>1
  <2>5. QED
    BY <2>1, <2>2, <2>4
<1>2. QED
  BY <1>1, FramingInvariance, PTL

\* Only a message too long for MaxPackets packets is refused.
THEOREM FramingRefusal == Spec => []RefusesOnlyTooLong
<1>1. IInv => RefusesOnlyTooLong
  BY DEF IInv
<1>2. QED
  BY <1>1, FramingInvariance, PTL
=============================================================================
