----------------------------- MODULE MCExportJobs -----------------------------
(* One inventory kind, or the two in the order of rebuild_catalog_snapshots. *)
EXTENDS ExportJobs, TLC

OneKind == <<"free">>
BothKinds == <<"free", "purchased">>
Symmetry == Permutations(Jobs)
===============================================================================
