------------------------- MODULE MCConnectionPolicy -------------------------
(***************************************************************************)
(* Instances of ConnectionPolicy for TLC.                                  *)
(***************************************************************************)
EXTENDS ConnectionPolicy
=============================================================================
