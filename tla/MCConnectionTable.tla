-------------------------- MODULE MCConnectionTable --------------------------
(***************************************************************************)
(* ConnectionTable on the small instances of the configurations.           *)
(***************************************************************************)
EXTENDS ConnectionTable
=============================================================================
