----------------------------- MODULE SendFraming -----------------------------
(***************************************************************************)
(* How a message becomes packets: fxmy_begin_send() and fxmy_send() of     *)
(* fxmy_conn.c, and a peer that takes the packets apart the way            *)
(* fxmy_begin_recv() reads a header.                                       *)
(*                                                                         *)
(* The function makes two passes with loop bounds of their own: one counts *)
(* packets and adds up the room they need, one copies.  A step is one      *)
(* iteration.  A cell of the buffer holds a byte of a header, a byte of    *)
(* the message, known by its position in it, or nothing yet.  The function *)
(* is entered with an empty packet buffer (BufferHandOff of Session), and  *)
(* the size of the message fits the argument of send().                    *)
(***************************************************************************)
EXTENDS Integers, Sequences

CONSTANTS
  MaxPacket,      \* (1 << 24) - 1: the most a packet carries
  MaxPackets,     \* 256: the most packets of a message
  Sizes,          \* sizes of the messages that are sent
  Ids             \* packet numbers they are sent with

ASSUME SendFramingAssumption ==
  /\ MaxPacket \in Nat /\ MaxPacket > 0 /\ MaxPacket < 256 * 256 * 256
  /\ MaxPackets \in Nat
  /\ Sizes \subseteq Nat
  /\ Ids \subseteq Nat

HeaderSize == 4

VARIABLES
  pc,             \* "idle", "count", "copy", "sent" or, after VERIFY, "aborted"
  length,         \* the size the function was called with
  size,           \* its parameter size: what is left to copy
  packet_number,
  i,              \* the loop variable
  num_packets,
  alloc_size,
  memory,         \* the packet buffer
  dest, src,      \* offsets of the two pointers
  position,       \* where the peer is in the stream
  received        \* what the peer has taken out of it

counting == <<length, packet_number>>
peer     == <<position, received>>
vars == <<pc, counting, size, i, num_packets, alloc_size, memory, dest, src, peer>>

NoMemory      == <<>>
Uninitialized == [kind |-> "uninitialized", value |-> 0]
HeaderCell(b) == [kind |-> "header", value |-> b]
DataCell(k)   == [kind |-> "data", value |-> k]

Init ==
  /\ pc = "idle"
  /\ length = 0 /\ size = 0 /\ packet_number = 0
  /\ i = 0 /\ num_packets = 0 /\ alloc_size = 0
  /\ memory = NoMemory /\ dest = 0 /\ src = 0
  /\ position = 0 /\ received = <<>>

-----------------------------------------------------------------------------
BeginSend(n, id) ==
  /\ pc = "idle"
  /\ pc' = "count"
  /\ length' = n /\ size' = n /\ alloc_size' = n
  /\ packet_number' = id
  /\ i' = 0 /\ num_packets' = 0
  /\ memory' = NoMemory /\ dest' = 0 /\ src' = 0
  /\ position' = 0 /\ received' = <<>>

MorePackets_OrEqual == i <= size     \* seeded fault: <= for < in the bound
MorePackets == i < size

RoomForHeader_None == 0              \* seeded fault: fxmy_conn.c 37 dropped
RoomForHeader == HeaderSize

CountPacket ==
  /\ pc = "count" /\ MorePackets
  /\ i' = i + MaxPacket
  /\ alloc_size' = alloc_size + RoomForHeader
  /\ num_packets' = num_packets + 1
  /\ UNCHANGED <<pc, counting, size, memory, dest, src, peer>>

TooMany ==
  /\ pc = "count" /\ ~MorePackets
  /\ num_packets > MaxPackets
  /\ pc' = "aborted"
  /\ UNCHANGED <<counting, size, i, num_packets, alloc_size, memory, dest, src, peer>>

Allocate ==
  /\ pc = "count" /\ ~MorePackets
  /\ num_packets <= MaxPackets
  /\ pc' = "copy"
  /\ i' = 0
  /\ memory' = [a \in 0 .. alloc_size - 1 |-> Uninitialized]
  /\ UNCHANGED <<counting, size, num_packets, alloc_size, dest, src, peer>>

\* The header of a packet: its size in three bytes, and its number in one.
Header(n) ==
  <<n % 256, (n \div 256) % 256, (n \div (256 * 256)) % 256, packet_number % 256>>

PacketSize == IF MaxPacket < size THEN MaxPacket ELSE size

\* The buffer after the writes of one iteration.  An address outside of the
\* buffer enters its domain here.
Copied(n) ==
  [a \in DOMAIN memory \cup (dest .. dest + HeaderSize + n - 1) |->
     IF a \notin dest .. dest + HeaderSize + n - 1 THEN memory[a]
     ELSE IF a < dest + HeaderSize THEN HeaderCell(Header(n)[a - dest + 1])
     ELSE DataCell(src + a - dest - HeaderSize)]

NextDest(n) == dest + n + HeaderSize

NextSrc_Same(n) == src               \* seeded fault: fxmy_conn.c 59 dropped
NextSrc(n) == src + n

CopyPacket ==
  /\ pc = "copy" /\ i < num_packets
  /\ memory' = Copied(PacketSize)
  /\ size' = size - PacketSize
  /\ dest' = NextDest(PacketSize)
  /\ src' = NextSrc(PacketSize)
  /\ i' = i + 1
  /\ UNCHANGED <<pc, counting, num_packets, alloc_size, peer>>

\* send() is given the whole buffer.
Transmit ==
  /\ pc = "copy" /\ i = num_packets
  /\ pc' = "sent"
  /\ UNCHANGED <<counting, size, i, num_packets, alloc_size, memory, dest, src, peer>>

-----------------------------------------------------------------------------
(* The peer.                                                               *)

SizeInHeader(a) ==
  memory[a].value + memory[a + 1].value * 256 + memory[a + 2].value * (256 * 256)

PeerReads ==
  /\ pc = "sent" /\ position < alloc_size
  /\ LET n == SizeInHeader(position)
     IN  /\ position' = position + HeaderSize + n
         /\ received' = received \o
              [k \in 1 .. n |-> memory[position + HeaderSize + k - 1].value]
  /\ UNCHANGED <<pc, counting, size, i, num_packets, alloc_size, memory, dest, src>>

PeerDone ==
  /\ pc = "sent" /\ position >= alloc_size
  /\ pc' = "idle"
  /\ UNCHANGED <<counting, size, i, num_packets, alloc_size, memory, dest, src, peer>>

Next ==
  \/ \E n \in Sizes, id \in Ids : BeginSend(n, id)
  \/ CountPacket \/ TooMany \/ Allocate \/ CopyPacket \/ Transmit
  \/ PeerReads \/ PeerDone

Spec == Init /\ [][Next]_vars

-----------------------------------------------------------------------------
(* Properties.                                                             *)

\* The server's variables have their types; while packets are copied, the cells that
\* exist are those that were allocated: the counting loop made room for
\* everything the copying loop writes.
TypeOK ==
  /\ pc \in {"idle", "count", "copy", "sent", "aborted"}
  /\ length \in Nat /\ size \in 0 .. length /\ packet_number \in Nat
  /\ i \in Nat /\ num_packets \in Nat /\ alloc_size \in Nat
  /\ dest \in Nat /\ src \in 0 .. length
  /\ pc \in {"copy", "sent"} => DOMAIN memory = 0 .. alloc_size - 1

\* What the peer takes out of the packets is the message, from its start and
\* without a gap or a repetition, and all of it in the end; every packet
\* announces a size that leads to the next header.
Reassembles ==
  pc = "sent" =>
    /\ \A k \in 1 .. Len(received) : received[k] = k - 1
    /\ position >= alloc_size => Len(received) = length

\* A message is refused exactly when it does not fit in MaxPackets packets
\* ("There can be at most 256 packets", fxmy_conn.c 17).
RefusesOnlyTooLong ==
  /\ pc = "aborted" => length > MaxPackets * MaxPacket
  /\ pc \in {"copy", "sent"} => length <= MaxPackets * MaxPacket
=============================================================================
