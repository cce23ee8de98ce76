---------------------------- MODULE MCDiscovery ----------------------------
(***************************************************************************)
(* Instances of PluginLifecycle, with Discovery in it, for TLC.            *)
(***************************************************************************)
EXTENDS PluginLifecycle
=============================================================================
