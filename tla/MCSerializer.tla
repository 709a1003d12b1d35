---------------------------- MODULE MCSerializer ----------------------------
(***************************************************************************)
(* Serializer with pages of eight bytes: every form of a length-coded      *)
(* binary, and strings that fit, fill and exceed what is left of a page.   *)
(***************************************************************************)
EXTENDS Serializer

MCValues8   == {255}
MCValues16  == {513}
MCValuesLcb == {250, 251, 65535, 65536, 16777216}
MCStrings   == {<<>>, <<65, 66>>, <<65, 66, 67, 68, 69, 70, 71>>}
=============================================================================
