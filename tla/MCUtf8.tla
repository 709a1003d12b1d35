-------------------------------- MODULE MCUtf8 --------------------------------
(***************************************************************************)
(* Utf8 on texts of up to three code points, and on texts that are cut in  *)
(* the middle of a character, begin in one, or hold a zero.                *)
(***************************************************************************)
EXTENDS Utf8

\* Both sides of each change of length, and the last point of 16 bits.
MCPoints == {1, 127, 128, 2047, 2048, 65535}

MCTexts ==
  {<<>>}
    \cup {Encode(p) \o Encode(q) : p, q \in MCPoints}
    \cup {Encode(2047) \o Encode(p) \o Encode(65535) : p \in MCPoints}
    \cup {<<195>>, <<65, 195>>, <<226>>, <<226, 130>>, <<195, 65>>,
          <<128>>, <<65, 191>>, <<240, 159, 152, 128>>,
          <<65, 0, 66>>, <<0>>, <<195, 0, 65>>, <<232, 0, 0>>, <<226, 65, 0, 0>>}

MCStray == {0, 65, 191}
=============================================================================
