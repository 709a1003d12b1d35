------------------------------ MODULE Serializer ------------------------------
(***************************************************************************)
(* A serialization buffer: fxmy_write.c and fxmy_reset_xfer_buffer() of    *)
(* fxmy_common.c, called in any order.  Each function asks for room, which *)
(* may move the buffer to a larger block, and then writes at the cursor.   *)
(*                                                                         *)
(* A string is a sequence of bytes without a zero; a NULL string changes   *)
(* nothing and is left out.  Memory is taken to be available and sizes to  *)
(* fit size_t.                                                             *)
(***************************************************************************)
EXTENDS Encoding

CONSTANTS
  Page,           \* 4096: sizes are multiples of it
  Values8, Values16, ValuesLcb,   \* numbers that are written
  Strings,        \* strings that are written
  MaxNeed,        \* the most room a call asks for
  MaxCursor       \* bound: no call is made from this position on

ASSUME SerializerAssumption ==
  /\ Page \in Nat \ {0}
  /\ Values8 \subseteq Byte
  /\ Values16 \subseteq Nat
  /\ ValuesLcb \subseteq Nat
  /\ Strings \subseteq Seq(1 .. 255)
  /\ MaxNeed \in Nat /\ MaxNeed >= 9
  /\ \A s \in Strings : Len(s) < MaxNeed

VARIABLES memory, size, cursor
vars == <<memory, size, cursor>>

Uninitialized == -1

NoMemory == [a \in 0 .. -1 |-> Uninitialized]

Init == memory = NoMemory /\ size = 0 /\ cursor = 0

-----------------------------------------------------------------------------
(* fxmy_ensure_buffer_room.                                                *)

HasRoom_Never(need) == FALSE                 \* seeded fault: fxmy_write.c 15-16 dropped
HasRoom(need) == need < size - cursor

NewSize_RoundedDown(need) ==                 \* seeded fault: + 4095 dropped
  ((size + need) \div Page) * Page
NewSize(need) == ((size + need + Page - 1) \div Page) * Page

Moved_Fresh(n) ==                            \* seeded fault: malloc for realloc
  [a \in 0 .. n - 1 |-> Uninitialized]
Moved(n) ==
  [a \in 0 .. n - 1 |-> IF a \in DOMAIN memory THEN memory[a] ELSE Uninitialized]

EnsuredSize(need)   == IF HasRoom(need) THEN size ELSE NewSize(need)
EnsuredMemory(need) == IF HasRoom(need) THEN memory ELSE Moved(NewSize(need))

\* Bytes written into a block from an address on.  An address outside of the
\* block enters its domain here.
Written(block, at, chunk) ==
  [a \in DOMAIN block \cup (at .. at + Len(chunk) - 1) |->
     IF a \in at .. at + Len(chunk) - 1 THEN chunk[a - at + 1] ELSE block[a]]

Serialize(need, chunk) ==
  /\ cursor < MaxCursor
  /\ size' = EnsuredSize(need)
  /\ memory' = Written(EnsuredMemory(need), cursor, chunk)
  /\ cursor' = cursor + Len(chunk)

SerializeU8(v)  == Serialize(1, U8(v))
SerializeU16(v) == Serialize(2, U16(v))
SerializeLcb(v) == Serialize(9, Lcb(v))
SerializeString(s) == Serialize(Len(s), s)
SerializeTerminatedString(s) == Serialize(Len(s) + 1, Terminated(s))

Reset == memory' = NoMemory /\ size' = 0 /\ cursor' = 0

Next ==
  \/ \E v \in Values8 : SerializeU8(v)
  \/ \E v \in Values16 : SerializeU16(v)
  \/ \E v \in ValuesLcb : SerializeLcb(v)
  \/ \E s \in Strings : SerializeString(s) \/ SerializeTerminatedString(s)
  \/ Reset

Spec == Init /\ [][Next]_vars

-----------------------------------------------------------------------------
(* Properties.                                                             *)

\* The block has the size the structure says and the cursor is inside it:
\* after fxmy_ensure_buffer_room no function writes beyond the block.
TypeOK ==
  /\ size \in Nat /\ cursor \in 0 .. size
  /\ memory \in [0 .. size - 1 -> Byte \cup {Uninitialized}]

\* The buffer grows by what it lacks and no more: what it has in excess of
\* its contents is bounded by two requests and a page, however many calls
\* were made.
WasteBounded == size < cursor + 2 * MaxNeed + Page

\* What the functions write.
Chunks ==
  {U8(v) : v \in Values8} \cup {U16(v) : v \in Values16} \cup {Lcb(v) : v \in ValuesLcb}
    \cup Strings \cup {Terminated(s) : s \in Strings}

\* The bytes before the cursor, which fxmy_send_result() gives to fxmy_send().
Contents == [k \in 1 .. cursor |-> memory[k - 1]]

Stream == INSTANCE OutputStream WITH stream <- Contents

\* The bytes before the cursor are a stream to which each fxmy_serialize_*
\* call appends exactly its own encoding; moving the block loses nothing.
ImplementsStream == Stream!Spec
=============================================================================
