---------------------------- MODULE OutputStream ----------------------------
(***************************************************************************)
(* What fxmy_write.c promises to fxmy_send_result(): a stream of bytes     *)
(* that grows at its end by one whole encoding at a time, and is emptied   *)
(* by fxmy_reset_xfer_buffer().                                            *)
(***************************************************************************)
EXTENDS Sequences

CONSTANT Chunks      \* the encodings that can be written

VARIABLE stream

Init == stream = <<>>

Write == \E chunk \in Chunks : stream' = stream \o chunk

Clear == stream' = <<>>

Next == Write \/ Clear
Spec == Init /\ [][Next]_stream
=============================================================================
