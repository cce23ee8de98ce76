------------------------ MODULE MCPersistenceAdapter ------------------------
(***************************************************************************)
(* Instances of PersistenceAdapter for TLC.                                *)
(***************************************************************************)
EXTENDS PersistenceAdapter
=============================================================================
