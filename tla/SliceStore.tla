----------------------------- MODULE SliceStore ------------------------------
(***************************************************************************)
(* What staging and cutover promise to the readers of the catalog: the     *)
(* inventory slice of a provider (its free or its purchased numbers) is    *)
(* replaced as a whole, by the numbers of one fetch, and in one step.      *)
(***************************************************************************)
CONSTANTS Slices,    \* the inventory slices, provider and kind
          Contents   \* the sets of rows a fetch can amount to

VARIABLE store       \* [Slices -> SUBSET rows]: what a reader sees

SInit == store \in [Slices -> Contents \cup {{}}]

Replace(s) == \E c \in Contents : store' = [store EXCEPT ![s] = c]

SSpec == SInit /\ [][\E s \in Slices : Replace(s)]_store
=============================================================================
