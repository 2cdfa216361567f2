----------------------------- MODULE MCPstnCache -----------------------------
(* One required operator and one that the settings page adds, switches and   *)
(* deletes, with two refreshes.                                              *)
EXTENDS PstnCache
===============================================================================
