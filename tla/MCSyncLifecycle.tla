--------------------------- MODULE MCSyncLifecycle ---------------------------
(* SyncLifecycle on small instances. *)
EXTENDS SyncLifecycle, TLC

Symmetry == Permutations(Runs)
=============================================================================
