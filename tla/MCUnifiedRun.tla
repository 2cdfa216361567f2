---------------------------- MODULE MCUnifiedRun -----------------------------
(* UnifiedRun with a free-only provider, a disabled one, one without        *)
(* dictionaries, a full one and one without purchased numbers.             *)
EXTENDS UnifiedRun

CONSTANTS pFull, pFree, pOff, pNoDict, pNoPur

MCOrder == <<pFree, pOff, pNoDict, pFull, pNoPur>>
=============================================================================
