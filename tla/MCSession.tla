------------------------------ MODULE MCSession ------------------------------
(***************************************************************************)
(* Session on a small instance.                                            *)
(***************************************************************************)
EXTENDS Session

\* One native code of each sort: of a driver manager record, of a success,
\* of an error in the table, and of an error that is not (login failed).
MCNatives == {0, 5701, 208, 18456}

\* The first packet of a command, and the one after which the 8-bit ID wraps.
MCIds == {0, 255}
=============================================================================
