--------------------------- MODULE MCSendFraming ---------------------------
(***************************************************************************)
(* SendFraming with packets of at most 258 bytes, so that the size in a    *)
(* header takes two bytes, and at most three packets.                      *)
(***************************************************************************)
EXTENDS SendFraming

\* Around every multiple of the packet size, around the first byte that
\* carries in a header, and beyond what is accepted.
MCSizes == {0, 1, 255, 256, 257, 258, 259, 515, 516, 517, 773, 774, 775, 1033}

\* A number that fits its byte, and the one after the last that does.
MCIds == {1, 256}
=============================================================================
