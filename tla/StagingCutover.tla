--------------------------- MODULE StagingCutover ----------------------------
(***************************************************************************)
(* persist_*_numbers and staging.py: the rows of a fetch are deduplicated, *)
(* inserted in committed batches into staging tables that all slices (the  *)
(* catalog one) or all runs (the raw one) share, and copied over the live  *)
(* slice in one transaction.  Any step may fail; staging then keeps what   *)
(* it has, for the next slice to find.                                     *)
(*                                                                         *)
(* Source: src/backend/app/modules/sync_engine/{staging,persist,safety}.py *)
(* There is one writer: SyncLifecycle says when that is so.                *)
(***************************************************************************)
EXTENDS Naturals, Sequences, FiniteSets

CONSTANTS
    Slices,     \* inventory slices: a provider and a kind
    RawSlices,  \* the slices with a raw table beside the catalog
    Fetches,    \* what an adapter may return: sequences of <<key, value>>
    NoKey,      \* the provider_number_key of a number that did not map
    NoSlice,    \* no slice is being persisted
    BatchSize   \* rows per staging INSERT (8000 in the code)

ASSUME SlicesAssumption == RawSlices \subseteq Slices /\ NoSlice \notin Slices
ASSUME BatchAssumption  == BatchSize \in Nat \ {0}
ASSUME FetchAssumption  == \A f \in Fetches : Len(f) \in Nat /\ DOMAIN f = 1..Len(f)

\* Mutated form of LastWins: duplicates are not dropped.
EveryRow(f) == {f[i] : i \in {j \in DOMAIN f : f[j][1] # NoKey}}

\* deduped[num.provider_number_key] = num: the last number of a key wins.
LastWins(f) ==
    {f[i] : i \in {j \in DOMAIN f :
                      /\ f[j][1] # NoKey
                      /\ \A k \in DOMAIN f : k > j => f[k][1] # f[j][1]}}

\* count_unique_provider_keys counts these.
Keys(f) == {f[i][1] : i \in DOMAIN f} \ {NoKey}

\* The rows of a fetch without those of the given keys.
Without(f, keys) == {r \in LastWins(f) : r[1] \notin keys}

AllKeys  == UNION {Keys(f) : f \in Fetches}
AllRows  == UNION {LastWins(f) : f \in Fetches}
Contents == {Without(f, keys) : f \in Fetches, keys \in SUBSET AllKeys}
Tag(s, rows) == {<<s, r>> : r \in rows}
Steps == {"idle", "ensureRaw", "ensureCat", "insertRaw", "insertCat", "cutover"}

VARIABLES
    catalog,  \* numbers_catalog_normalized: a set of <<slice, row>>
    raw,      \* [Slices -> set of rows]: the live raw tables
    stgCat,   \* numbers_catalog_normalized_stg, shared by every slice
    stgRaw,   \* [Slices -> set of rows]: the <raw table>_stg tables
    step,     \* how far the persist call is
    cur,      \* the slice it persists
    incoming, \* its deduplicated rows
    todo      \* the rows not yet inserted into the present staging table

svars == <<catalog, raw, stgCat, stgRaw, step, cur, incoming, todo>>
live == <<catalog, raw>>
staging == <<stgCat, stgRaw>>

StagingTypeOK ==
    /\ catalog \subseteq Slices \X AllRows
    /\ raw \in [Slices -> SUBSET AllRows]
    /\ stgCat \subseteq Slices \X AllRows
    /\ stgRaw \in [Slices -> SUBSET AllRows]
    /\ step \in Steps
    /\ cur \in Slices \cup {NoSlice}
    /\ incoming \subseteq AllRows
    /\ todo \subseteq AllRows

\* The live catalog rows of a slice, what count_present_numbers counts.
LiveRows(s) == {x[2] : x \in {y \in catalog : y[1] = s}}

\* The previous runs left every slice with the rows of some fetch, or none.
StagingInit ==
    /\ \E c \in [Slices -> {LastWins(f) : f \in Fetches} \cup {{}}] :
          /\ catalog = UNION {Tag(s, c[s]) : s \in Slices}
          /\ raw = [s \in Slices |-> IF s \in RawSlices THEN c[s] ELSE {}]
    /\ stgCat = {}
    /\ stgRaw = [s \in Slices |-> {}]
    /\ step = "idle"
    /\ cur = NoSlice
    /\ incoming = {}
    /\ todo = {}

\* persist_*_numbers is called with the numbers of a fetch, but for those
\* that the caller leaves out.
BeginPersist(s, f, keys) ==
    /\ step = "idle"
    /\ cur' = s
    /\ incoming' = Without(f, keys)
    /\ step' = IF s \in RawSlices THEN "ensureRaw" ELSE "ensureCat"
    /\ UNCHANGED <<live, staging, todo>>

\* ensure_temp_staging: DROP, CREATE, commit. First the raw table ...
EnsureRaw ==
    /\ step = "ensureRaw"
    /\ stgRaw' = [stgRaw EXCEPT ![cur] = {}]
    /\ step' = "ensureCat"
    /\ UNCHANGED <<live, stgCat, cur, incoming, todo>>

\* Mutated form of EnsureCat: CREATE TABLE IF NOT EXISTS.
EnsureCatKept ==
    /\ step = "ensureCat"
    /\ todo' = incoming
    /\ step' = IF cur \in RawSlices THEN "insertRaw" ELSE "insertCat"
    /\ UNCHANGED <<live, staging, cur, incoming>>

\* ... then the catalog one.
EnsureCat ==
    /\ step = "ensureCat"
    /\ stgCat' = {}
    /\ todo' = incoming
    /\ step' = IF cur \in RawSlices THEN "insertRaw" ELSE "insertCat"
    /\ UNCHANGED <<live, stgRaw, cur, incoming>>

\* The next INSERT: BatchSize rows, or all that are left.
Batches == {b \in SUBSET todo :
               Cardinality(b) = BatchSize \/ (b = todo /\ Cardinality(b) < BatchSize)}

\* insert_staging_batches into the raw table; after the last batch all rows
\* are to be inserted again, into the catalog table.
InsertRaw ==
    /\ step = "insertRaw"
    /\ \E b \in Batches :
          /\ stgRaw' = [stgRaw EXCEPT ![cur] = @ \cup b]
          /\ \/ b # todo /\ todo' = todo \ b /\ step' = step
             \/ b = todo /\ todo' = incoming /\ step' = "insertCat"
    /\ UNCHANGED <<live, stgCat, cur, incoming>>

\* Mutated form of InsertCat: the loop stops before the last, short batch.
InsertCatFull ==
    /\ step = "insertCat"
    /\ \E b \in Batches :
          \/ /\ Cardinality(b) = BatchSize /\ b # todo
             /\ stgCat' = stgCat \cup Tag(cur, b) /\ todo' = todo \ b /\ step' = step
          \/ b = todo /\ todo' = {} /\ stgCat' = stgCat /\ step' = "cutover"
    /\ UNCHANGED <<live, stgRaw, cur, incoming>>

InsertCat ==
    /\ step = "insertCat"
    /\ \E b \in Batches :
          /\ stgCat' = stgCat \cup Tag(cur, b)
          /\ todo' = todo \ b
          /\ step' = IF b = todo THEN "cutover" ELSE step
    /\ UNCHANGED <<live, stgRaw, cur, incoming>>

\* The catalog after wipe_provider_numbers and INSERT ... SELECT *.
Replaced == {x \in catalog : x[1] # cur} \cup stgCat

\* uq_catalog_provider_kind_key.
UniqueKeys(cat) == \A x, y \in cat : x[1] = y[1] /\ x[2][1] = y[2][1] => x = y

\* Back to the caller.
PersistReturns == step' = "idle" /\ cur' = NoSlice /\ incoming' = {} /\ todo' = {}

\* cutover_from_staging: wipe, copy and TRUNCATE, one transaction.
CommitCutover ==
    /\ step = "cutover"
    /\ UniqueKeys(Replaced)
    /\ catalog' = Replaced
    /\ stgCat' = {}
    /\ IF cur \in RawSlices
       THEN /\ raw' = [raw EXCEPT ![cur] = stgRaw[cur]]
            /\ stgRaw' = [stgRaw EXCEPT ![cur] = {}]
       ELSE UNCHANGED <<raw, stgRaw>>
    /\ PersistReturns

\* An exception in any statement: what was committed stays, the transaction
\* of the failing statement is rolled back. A process crash does the same.
PersistFails ==
    /\ step # "idle"
    /\ PersistReturns
    /\ UNCHANGED <<live, staging>>

StagingNext ==
    \/ \E s \in Slices, f \in Fetches, keys \in SUBSET AllKeys : BeginPersist(s, f, keys)
    \/ EnsureRaw \/ EnsureCat \/ InsertRaw \/ InsertCat \/ CommitCutover \/ PersistFails

StagingSpec == StagingInit /\ [][StagingNext]_svars

-----------------------------------------------------------------------------
\* Every catalog row has its raw row and the other way round: raw_source_id
\* never dangles, also when a persist call fails half-way.
RawBacksCatalog == \A s \in RawSlices : raw[s] = LiveRows(s)

\* The constraint uq_catalog_provider_kind_key never refuses a cutover: what is
\* staged has one row per number and nothing left over from another slice.
CutoverAdmissible == step = "cutover" => UniqueKeys(Replaced)

\* Batches, shared staging and leftovers implement the atomic replacement of
\* whole slices.
Store == INSTANCE SliceStore WITH store <- [s \in Slices |-> LiveRows(s)]
ImplementsStore == Store!SSpec
=============================================================================
