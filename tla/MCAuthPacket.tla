---------------------------- MODULE MCAuthPacket ----------------------------
(***************************************************************************)
(* AuthPacket with and without a database, cut at every byte.              *)
(***************************************************************************)
EXTENDS AuthPacket

Client(flags, user, scramble) ==
  [client_flags |-> flags, max_packet_size |-> 16777216, charset |-> 33,
   user |-> user, scramble |-> scramble, database |-> <<100, 98>>]

\* 33293 is a set of flags of 4.1 clients; it has CLIENT_CONNECT_WITH_DB.
Flags == {33285, 33293}
Repeat(n) == [k \in 1 .. n |-> 170]

\* Scrambles of the longest length that takes one byte, and of more.
MCPackets ==
  {Client(f, u, Repeat(n)) : f \in Flags, u \in {<<>>, <<114, 111>>}, n \in {0, 3, 250}}
    \cup {Client(f, <<114>>, Repeat(n)) : f \in Flags, n \in {251, 253, 300}}

MCStray == {0, 65}
=============================================================================
