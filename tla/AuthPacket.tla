------------------------------ MODULE AuthPacket ------------------------------
(***************************************************************************)
(* The authentication packet: fxmy_parse_auth_packet() of fxmy_main.c, one *)
(* function of fxmy_read.c at a time.                                      *)
(*                                                                         *)
(* The client lays out the packet as the protocol says, but what arrives   *)
(* may be cut short.  fxmy_recv puts a zero behind the bytes received, and *)
(* what lies beyond that zero may be any byte of Stray.  A failed VERIFY   *)
(* ends the process.                                                       *)
(***************************************************************************)
EXTENDS Encoding

CONSTANTS
  Packets,        \* what clients write, field by field
  Stray           \* bytes that may lie beyond a block

CLIENT_CONNECT_WITH_DB == 8

Field == [client_flags : Nat, max_packet_size : Nat, charset : Byte,
          user : Seq(1 .. 255), scramble : Seq(Byte), database : Seq(1 .. 255)]

ASSUME AuthPacketAssumption ==
  /\ Packets \subseteq Field
  /\ \A f \in Packets :
       /\ f.client_flags \div 65536 < 65536 /\ f.max_packet_size \div 65536 < 65536
       /\ Len(f.scramble) < 65536
  /\ Stray \subseteq Byte /\ Stray # {}

WithDb(flags) == (flags \div CLIENT_CONNECT_WITH_DB) % 2 = 1

-----------------------------------------------------------------------------
(* The packet as a client writes it.                                       *)

U32(v)     == SubSeq(LittleEndian(v), 1, 4)
Padding    == [k \in 1 .. 23 |-> 0]
Fixed(f)   == U32(f.client_flags) \o U32(f.max_packet_size) \o U8(f.charset) \o Padding
Names(f)   == Terminated(f.user) \o Lcb(Len(f.scramble)) \o f.scramble
Database(f) == IF WithDb(f.client_flags) THEN Terminated(f.database) ELSE <<>>
Bytes(f)   == Fixed(f) \o Names(f) \o Database(f)

VARIABLES
  packet,         \* what the client wrote
  memory, size, cursor,           \* conn->xfer_buffer
  pc,             \* the next field to be read, "parsed" or "verify"
  client_flags, max_packet_size, charset,
  database        \* the bytes that the name of the database is made from
buffer == <<memory, size>>
fields == <<client_flags, max_packet_size, charset, database>>
vars   == <<packet, buffer, cursor, pc, fields>>

Init ==
  /\ packet \in Packets
  /\ size \in 0 .. Len(Bytes(packet))
  /\ memory = [a \in 0 .. size |-> IF a = size THEN 0 ELSE Bytes(packet)[a + 1]]
  /\ cursor = 0
  /\ pc = "client_flags"
  /\ client_flags = 0 /\ max_packet_size = 0 /\ charset = 0
  /\ database = <<>>

-----------------------------------------------------------------------------
(* fxmy_read.c: the bytes are read first, and their position verified then.*)

At(a) == IF a \in DOMAIN memory THEN {memory[a]} ELSE Stray

Verify_Never(c) == TRUE                    \* seeded fault: the VERIFYs of fxmy_read.c dropped
Verify_Overallocated(c) == c <= size + 1   \* seeded fault: the terminator counted
Verify(c) == c <= size

Advance(n, next) ==
  /\ cursor' = cursor + n
  /\ pc' = IF Verify(cursor + n) THEN next ELSE "verify"
  /\ UNCHANGED <<packet, buffer>>

U32At(a) ==
  {b0 + 256 * (b1 + 256 * (b2 + 256 * b3)) :
     b0 \in At(a), b1 \in At(a + 1), b2 \in At(a + 2), b3 \in At(a + 3)}

ReadFlags ==
  /\ pc = "client_flags"
  /\ Advance(4, "max_packet_size")
  /\ client_flags' \in U32At(cursor)
  /\ UNCHANGED <<max_packet_size, charset, database>>

ReadMaxPacketSize ==
  /\ pc = "max_packet_size"
  /\ Advance(4, "charset")
  /\ max_packet_size' \in U32At(cursor)
  /\ UNCHANGED <<client_flags, charset, database>>

ReadCharset ==
  /\ pc = "charset"
  /\ Advance(1, "user")
  /\ charset' \in At(cursor)
  /\ UNCHANGED <<client_flags, max_packet_size, database>>

PaddingSize_24 == 24                       \* seeded fault: the filler of a later protocol
PaddingSize == 23

\* Neither the padding nor the name is verified to lie in the packet.  A
\* name that begins beyond the block ends at some zero there.
SkipUser ==
  /\ pc = "user"
  /\ \E end \in cursor + PaddingSize .. size + PaddingSize + 1 :
       /\ 0 \in At(end)
       /\ \A a \in cursor + PaddingSize .. end - 1 : At(a) # {0}
       /\ cursor' = end + 1
  /\ pc' = "scramble"
  /\ UNCHANGED <<packet, buffer, fields>>

\* fxmy_read_lcb: the cases of its switch fall through, so that the cursor
\* moves by the sum of what they add, and the value is the first byte.
LcbWidth(b) ==
  IF b = 254 THEN 9 + 4 + 3 + 1
  ELSE IF b = 253 THEN 4 + 3 + 1
  ELSE IF b = 252 THEN 3 + 1
  ELSE 1

NameBytes(end) == [k \in 1 .. end + 1 |-> memory[k - 1]]

\* The name of the database is taken from where the buffer begins, with its
\* terminator.
SkipScramble ==
  /\ pc = "scramble"
  /\ \E b \in At(cursor) :
       \/ /\ ~Verify(cursor + LcbWidth(b))
          /\ pc' = "verify"
          /\ cursor' = cursor + LcbWidth(b)
          /\ UNCHANGED database
       \/ /\ Verify(cursor + LcbWidth(b))
          /\ pc' = "parsed"
          /\ cursor' = cursor + LcbWidth(b) + b
          /\ \/ ~WithDb(client_flags) /\ UNCHANGED database
             \/ /\ WithDb(client_flags)
                /\ \E end \in DOMAIN memory :
                     /\ memory[end] = 0
                     /\ \A a \in 0 .. end - 1 : memory[a] # 0
                     /\ database' = NameBytes(end)
  /\ UNCHANGED <<packet, buffer, client_flags, max_packet_size, charset>>

Next == ReadFlags \/ ReadMaxPacketSize \/ ReadCharset \/ SkipUser \/ SkipScramble

Spec == Init /\ [][Next]_vars

-----------------------------------------------------------------------------
(* Properties.                                                             *)

\* Values have the width they are declared with, and as long as each read is
\* verified the cursor is in the packet.
TypeOK ==
  /\ packet \in Packets
  /\ size \in 0 .. Len(Bytes(packet))
  /\ memory \in [0 .. size -> Byte]
  /\ cursor \in Nat
  /\ pc \in {"client_flags", "max_packet_size", "charset", "user"} => cursor <= size
  /\ pc \in {"client_flags", "max_packet_size", "charset", "user", "scramble",
             "parsed", "verify"}
  /\ client_flags \in Nat /\ max_packet_size \in Nat /\ charset \in Byte
  /\ database \in Seq(Byte)

\* What was received is the whole packet.
Whole == size = Len(Bytes(packet))

\* A whole packet fails no VERIFY, and one that is cut before the end of its
\* fixed fields, of the user's name or of the length of the scramble fails
\* one, although the padding and the name are skipped without a look at the
\* size.
AcceptsWhole ==
  /\ Whole => pc # "verify"
  /\ pc = "parsed" =>
       size > Len(Fixed(packet)) + Len(Terminated(packet.user))

\* The numbers in a whole packet are read back as they were written, and the
\* cursor ends behind the scramble, where the name of the database begins,
\* unless the length of the scramble takes more than a byte: then it is read
\* as 252, and the width of 4 that belongs to another form makes that the
\* right place for a length of 253 only.
ReadsBack ==
  pc = "parsed" /\ Whole =>
    /\ client_flags = packet.client_flags
    /\ max_packet_size = packet.max_packet_size
    /\ charset = packet.charset
    /\ cursor = Len(Fixed(packet) \o Names(packet))
         <=> Len(packet.scramble) \in 0 .. 250 \cup {253}

-----------------------------------------------------------------------------
(* What comments in the code say.                                          *)

\* fxmy_main.c 185-195: padding, user name and scramble are skipped over, so
\* that the name of the database is what comes behind them.
NamesDatabase ==
  pc = "parsed" /\ Whole /\ WithDb(client_flags) => database = Database(packet)
=============================================================================
