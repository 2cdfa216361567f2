------------------------- MODULE ProviderSyncProofs -------------------------
(***************************************************************************)
(* Proofs about StagingCutover and ProviderSync, for every set of          *)
(* providers, slices, fetches and faults and every batch size.             *)
(*                                                                         *)
(* Of staging alone: the raw tables back the catalog, the unique           *)
(* constraint never refuses a cutover, and staging implements SliceStore.  *)
(* A provider job uses staging only the way StagingCutover says, so that   *)
(* its guarantees carry over; it never empties a slice, and what it says   *)
(* at its end is true: "ok" means that the catalog shows the fetch, and a  *)
(* half-done inventory is reported as split.                               *)
(***************************************************************************)
EXTENDS ProviderSync, WellFoundedInduction, TLAPS

-----------------------------------------------------------------------------
(* Staging: LastWins *)

\* Two rows that LastWins keeps have different keys.
LEMMA LastWinsUnique ==
    ASSUME NEW f \in Fetches, NEW x \in LastWins(f), NEW y \in LastWins(f),
           x[1] = y[1]
    PROVE  x = y
<1>1. Len(f) \in Nat /\ DOMAIN f = 1..Len(f)
    BY FetchAssumption
<1>2. PICK i \in DOMAIN f : x = f[i] /\ \A k \in DOMAIN f : k > i => f[k][1] # f[i][1]
    BY DEF LastWins
<1>3. PICK j \in DOMAIN f : y = f[j] /\ \A k \in DOMAIN f : k > j => f[k][1] # f[j][1]
    BY DEF LastWins
<1>4. i = j
    BY <1>1, <1>2, <1>3
<1> QED
    BY <1>2, <1>3, <1>4

\* A set of naturals below a bound that is not empty has a greatest element.
LEMMA GreatestIndex ==
    ASSUME NEW n \in Nat, NEW S \in SUBSET (1..n), S # {}
    PROVE  \E i \in S : \A j \in S : j <= i
<1> DEFINE T == {n - i : i \in S}
<1>1. T \subseteq Nat /\ T # {}
    <2>1. \A i \in S : i \in 1..n /\ n - i \in Nat
        OBVIOUS
    <2> QED
        BY <2>1
<1>2. PICK x \in T : \A y \in T : ~ (<<y, x>> \in OpToRel(<, Nat))
    BY <1>1, NatLessThanWellFounded, WFMin
<1>3. \A y \in T : ~ (y < x)
    BY <1>1, <1>2 DEF OpToRel
<1>4. PICK i \in S : x = n - i
    OBVIOUS
<1>5. \A j \in S : j <= i
    BY <1>3, <1>4
<1> QED
    BY <1>5

\* LastWins loses no number: every key that mapped keeps a row.
LEMMA LastWinsKeepsKeys ==
    ASSUME NEW f \in Fetches, NEW key \in Keys(f)
    PROVE  \E r \in LastWins(f) : r[1] = key
<1>1. Len(f) \in Nat /\ DOMAIN f = 1..Len(f)
    BY FetchAssumption
<1> DEFINE S == {i \in DOMAIN f : f[i][1] = key}
<1>2. S # {} /\ key # NoKey
    BY DEF Keys
<1>3. PICK i \in S : \A j \in S : j <= i
    BY <1>1, <1>2, GreatestIndex
<1>4. f[i] \in LastWins(f)
    BY <1>1, <1>2, <1>3 DEF LastWins
<1> QED
    BY <1>4

\* A fetch without any keys is a set of rows, one per key.
LEMMA WithoutFacts ==
    ASSUME NEW f \in Fetches, NEW keys
    PROVE  /\ Without(f, keys) \subseteq AllRows
           /\ Without(f, keys) \in Contents
           /\ \A x, y \in Without(f, keys) : x[1] = y[1] => x = y
<1>1. Without(f, keys) \subseteq AllRows
    BY DEF Without, AllRows
<1>2. Without(f, keys) = Without(f, keys \cap AllKeys)
    <2>1. \A r \in LastWins(f) : r[1] \in AllKeys
        BY DEF LastWins, AllKeys, Keys
    <2> QED
        BY <2>1 DEF Without
<1>3. Without(f, keys \cap AllKeys) \in Contents
    BY DEF Contents
<1> QED
    BY <1>1, <1>2, <1>3, LastWinsUnique DEF Without

LEMMA ContentsFacts ==
    ASSUME NEW c \in Contents
    PROVE  /\ c \subseteq AllRows
           /\ \A x, y \in c : x[1] = y[1] => x = y
BY WithoutFacts DEF Contents

-----------------------------------------------------------------------------
(* Staging: the inductive invariant *)

\* What the staging tables hold, at each step of a persist call.
StagedInv ==
    /\ step # "idle" => cur \in Slices /\ incoming \in Contents
    /\ step = "ensureRaw" => cur \in RawSlices
    /\ step = "ensureCat" /\ cur \in RawSlices => stgRaw[cur] = {}
    /\ step = "insertRaw" => /\ cur \in RawSlices
                             /\ stgRaw[cur] = incoming \ todo
                             /\ stgCat = {}
    /\ step = "insertCat" => /\ stgCat = Tag(cur, incoming \ todo)
                             /\ cur \in RawSlices => stgRaw[cur] = incoming
    /\ step = "cutover"   => /\ stgCat = Tag(cur, incoming)
                             /\ cur \in RawSlices => stgRaw[cur] = incoming
    /\ step \in {"insertRaw", "insertCat"} => todo \subseteq incoming

StagingInv ==
    /\ StagingTypeOK
    /\ StagedInv
    /\ UniqueKeys(catalog)
    /\ RawBacksCatalog

LEMMA LiveRowsOf ==
    ASSUME catalog \subseteq Slices \X AllRows, NEW s, NEW r
    PROVE  r \in LiveRows(s) <=> <<s, r>> \in catalog
BY DEF LiveRows

LEMMA TagUnique ==
    ASSUME NEW s, NEW c \in Contents
    PROVE  UniqueKeys(Tag(s, c))
BY ContentsFacts DEF UniqueKeys, Tag

\* The cutover replaces the rows of its slice and no others.
LEMMA ReplacedFacts ==
    ASSUME StagingInv, step = "cutover"
    PROVE  /\ Replaced \subseteq Slices \X AllRows
           /\ UniqueKeys(Replaced)
           /\ {x[2] : x \in {y \in Replaced : y[1] = cur}} = incoming
           /\ \A s \in Slices \ {cur} :
                 {x[2] : x \in {y \in Replaced : y[1] = s}} = LiveRows(s)
<1>1. cur \in Slices /\ incoming \in Contents /\ stgCat = Tag(cur, incoming)
    BY DEF StagingInv, StagedInv
<1>2. incoming \subseteq AllRows /\ catalog \subseteq Slices \X AllRows
    BY <1>1, ContentsFacts DEF StagingInv, StagingTypeOK
<1>3. Replaced \subseteq Slices \X AllRows
    BY <1>1, <1>2 DEF Replaced, Tag
<1>4. UniqueKeys(Replaced)
    <2>1. UniqueKeys(Tag(cur, incoming)) /\ UniqueKeys(catalog)
        BY <1>1, TagUnique DEF StagingInv
    <2>2. \A x \in Tag(cur, incoming) : x[1] = cur
        BY DEF Tag
    <2>3. SUFFICES ASSUME NEW x \in Replaced, NEW y \in Replaced,
                          x[1] = y[1], x[2][1] = y[2][1]
                   PROVE  x = y
        BY DEF UniqueKeys
    <2>4. CASE x[1] = cur
        BY <1>1, <2>1, <2>3, <2>4 DEF Replaced, UniqueKeys
    <2>5. CASE x[1] # cur
        BY <1>1, <2>1, <2>2, <2>3, <2>5 DEF Replaced, UniqueKeys
    <2> QED
        BY <2>4, <2>5
<1>5. {x[2] : x \in {y \in Replaced : y[1] = cur}} = incoming
    <2>1. {y \in Replaced : y[1] = cur} = Tag(cur, incoming)
        BY <1>1 DEF Replaced, Tag
    <2>2. {x[2] : x \in Tag(cur, incoming)} = incoming
        <3>1. \A r \in incoming : <<cur, r>> \in Tag(cur, incoming) /\ <<cur, r>>[2] = r
            BY DEF Tag
        <3>2. \A x \in Tag(cur, incoming) : x[2] \in incoming
            BY DEF Tag
        <3> QED
            BY <3>1, <3>2
    <2> QED
        BY <2>1, <2>2
<1>6. ASSUME NEW s \in Slices \ {cur}
      PROVE  {x[2] : x \in {y \in Replaced : y[1] = s}} = LiveRows(s)
    <2>1. {y \in Replaced : y[1] = s} = {y \in catalog : y[1] = s}
        BY <1>1 DEF Replaced, Tag
    <2> QED
        BY <2>1 DEF LiveRows
<1> QED
    BY <1>3, <1>4, <1>5, <1>6

-----------------------------------------------------------------------------
(* Staging: the invariant is inductive *)

LEMMA StagingInvInit == StagingInit => StagingInv
<1> SUFFICES ASSUME StagingInit PROVE StagingInv
    OBVIOUS
<1>1. PICK c \in [Slices -> {LastWins(f) : f \in Fetches} \cup {{}}] :
          /\ catalog = UNION {Tag(s, c[s]) : s \in Slices}
          /\ raw = [s \in Slices |-> IF s \in RawSlices THEN c[s] ELSE {}]
    BY DEF StagingInit
<1>2. \A s \in Slices : c[s] \subseteq AllRows
    BY <1>1 DEF AllRows
<1>3. \A s \in Slices : \A x, y \in c[s] : x[1] = y[1] => x = y
    BY <1>1, LastWinsUnique
<1>4. \A x : x \in catalog <=> \E s \in Slices : \E r \in c[s] : x = <<s, r>>
    BY <1>1 DEF Tag
<1>5. StagingTypeOK
    BY <1>1, <1>2, <1>4 DEF StagingInit, StagingTypeOK, Steps
<1>6. UniqueKeys(catalog)
    BY <1>3, <1>4 DEF UniqueKeys
<1>7. \A s \in Slices : LiveRows(s) = c[s]
    <2>1. \A s \in Slices : \A r : r \in LiveRows(s) <=> <<s, r>> \in catalog
        BY <1>5, LiveRowsOf DEF StagingTypeOK
    <2>2. \A s \in Slices : \A r : <<s, r>> \in catalog <=> r \in c[s]
        BY <1>4
    <2> QED
        BY <2>1, <2>2
<1>8. RawBacksCatalog
    BY <1>1, <1>7, SlicesAssumption DEF RawBacksCatalog
<1>9. StagedInv
    BY DEF StagingInit, StagedInv
<1> QED
    BY <1>5, <1>6, <1>8, <1>9 DEF StagingInv

\* A step that leaves the live tables alone keeps what is said about them.
LEMMA LiveUnchanged ==
    ASSUME StagingInv, UNCHANGED live
    PROVE  /\ UniqueKeys(catalog)'
           /\ RawBacksCatalog'
           /\ (catalog \subseteq Slices \X AllRows)'
           /\ (raw \in [Slices -> SUBSET AllRows])'
           /\ \A s : LiveRows(s)' = LiveRows(s)
BY DEF StagingInv, StagingTypeOK, live, UniqueKeys, RawBacksCatalog, LiveRows

LEMMA StagingInvInductive ==
    ASSUME StagingInv, [StagingNext]_svars
    PROVE  StagingInv'
<1> USE DEF StagingInv, StagingTypeOK, Steps
<1>1. ASSUME NEW s \in Slices, NEW f \in Fetches, NEW keys \in SUBSET AllKeys,
             BeginPersist(s, f, keys)
      PROVE  StagingInv'
    <2>1. incoming' \in Contents /\ incoming' \subseteq AllRows
        BY <1>1, WithoutFacts DEF BeginPersist
    <2>2. StagingTypeOK'
        BY <1>1, <2>1, LiveUnchanged DEF BeginPersist, staging
    <2>3. StagedInv'
        BY <1>1, <2>1 DEF BeginPersist, StagedInv
    <2> QED
        BY <1>1, <2>2, <2>3, LiveUnchanged DEF BeginPersist
<1>2. CASE EnsureRaw
    <2>1. cur \in Slices /\ cur \in RawSlices
        BY <1>2 DEF EnsureRaw, StagedInv
    <2>2. StagingTypeOK'
        BY <1>2, <2>1, LiveUnchanged DEF EnsureRaw
    <2>3. StagedInv'
        BY <1>2, <2>1 DEF EnsureRaw, StagedInv
    <2> QED
        BY <1>2, <2>2, <2>3, LiveUnchanged DEF EnsureRaw
<1>3. CASE EnsureCat
    <2>1. StagingTypeOK'
        BY <1>3, LiveUnchanged DEF EnsureCat
    <2>2. StagedInv'
        BY <1>3 DEF EnsureCat, StagedInv, Tag
    <2> QED
        BY <1>3, <2>1, <2>2, LiveUnchanged DEF EnsureCat
<1>4. CASE InsertRaw
    <2>1. PICK b \in SUBSET todo :
              /\ stgRaw' = [stgRaw EXCEPT ![cur] = @ \cup b]
              /\ \/ b # todo /\ todo' = todo \ b /\ step' = step
                 \/ b = todo /\ todo' = incoming /\ step' = "insertCat"
        BY <1>4 DEF InsertRaw, Batches
    <2>2. /\ step = "insertRaw" /\ cur \in Slices /\ cur \in RawSlices
          /\ stgRaw[cur] = incoming \ todo /\ stgCat = {} /\ todo \subseteq incoming
        BY <1>4 DEF InsertRaw, StagedInv
    <2>3. StagingTypeOK'
        BY <1>4, <2>1, <2>2, LiveUnchanged DEF InsertRaw
    <2>4. stgRaw'[cur] = (incoming \ todo) \cup b
        BY <2>1, <2>2
    <2>5. UNCHANGED <<stgCat, cur, incoming>>
        BY <1>4 DEF InsertRaw
    <2>6. StagedInv'
        <3>1. CASE b # todo /\ todo' = todo \ b /\ step' = step
            BY <2>2, <2>4, <2>5, <3>1 DEF StagedInv
        <3>2. CASE b = todo /\ todo' = incoming /\ step' = "insertCat"
            BY <2>2, <2>4, <2>5, <3>2 DEF StagedInv, Tag
        <3> QED
            BY <2>1, <3>1, <3>2
    <2> QED
        BY <1>4, <2>3, <2>6, LiveUnchanged DEF InsertRaw
<1>5. CASE InsertCat
    <2>1. PICK b \in SUBSET todo :
              /\ stgCat' = stgCat \cup Tag(cur, b)
              /\ todo' = todo \ b
              /\ step' = IF b = todo THEN "cutover" ELSE step
        BY <1>5 DEF InsertCat, Batches
    <2>2. /\ step = "insertCat" /\ cur \in Slices
          /\ stgCat = Tag(cur, incoming \ todo) /\ todo \subseteq incoming
        BY <1>5 DEF InsertCat, StagedInv
    <2>3. stgCat' = Tag(cur, incoming \ todo')
        BY <2>1, <2>2 DEF Tag
    <2>4. UNCHANGED <<stgRaw, cur, incoming>>
        BY <1>5 DEF InsertCat
    <2>5. StagingTypeOK'
        BY <1>5, <2>1, <2>2, <2>3, <2>4, LiveUnchanged DEF InsertCat, Tag
    <2>6. StagedInv'
        <3>1. CASE b = todo
            <4>1. todo' = {} /\ step' = "cutover"
                BY <2>1, <3>1
            <4>2. stgCat' = Tag(cur, incoming)
                BY <2>3, <4>1 DEF Tag
            <4> QED
                BY <2>2, <2>4, <4>1, <4>2 DEF StagedInv
        <3>2. CASE b # todo
            BY <2>1, <2>2, <2>3, <2>4, <3>2 DEF StagedInv
        <3> QED
            BY <3>1, <3>2
    <2> QED
        BY <1>5, <2>5, <2>6, LiveUnchanged DEF InsertCat
<1>6. CASE CommitCutover
    <2>1. step = "cutover" /\ catalog' = Replaced /\ stgCat' = {} /\ step' = "idle"
        BY <1>6 DEF CommitCutover, PersistReturns
    <2>2. cur \in Slices /\ (cur \in RawSlices => stgRaw[cur] = incoming)
        BY <2>1 DEF StagedInv
    <2>3. StagedInv'
        BY <2>1 DEF StagedInv
    <2>4. catalog' \subseteq Slices \X AllRows /\ UniqueKeys(catalog)'
        BY <2>1, ReplacedFacts DEF UniqueKeys
    <2>5. StagingTypeOK'
        BY <1>6, <2>1, <2>2, <2>4 DEF CommitCutover, PersistReturns
    <2>6. \A s \in Slices : LiveRows(s)' = IF s = cur THEN incoming ELSE LiveRows(s)
        BY <2>1, ReplacedFacts DEF LiveRows
    <2>7. RawBacksCatalog'
        BY <1>6, <2>2, <2>6, SlicesAssumption DEF CommitCutover, RawBacksCatalog
    <2> QED
        BY <2>3, <2>4, <2>5, <2>7
<1>7. CASE PersistFails
    <2>1. StagingTypeOK' /\ StagedInv'
        BY <1>7, LiveUnchanged DEF PersistFails, PersistReturns, StagedInv, staging
    <2> QED
        BY <1>7, <2>1, LiveUnchanged DEF PersistFails
<1>8. CASE UNCHANGED svars
    <2>1. StagingTypeOK' /\ StagedInv'
        BY <1>8 DEF svars, StagedInv
    <2> QED
        BY <1>8, <2>1, LiveUnchanged DEF svars, live
<1> HIDE DEF StagingInv, StagingTypeOK, Steps
<1> QED
    BY <1>1, <1>2, <1>3, <1>4, <1>5, <1>6, <1>7, <1>8 DEF StagingNext

-----------------------------------------------------------------------------
(* Staging: theorems *)

\* Staging is well typed.
THEOREM StagingTypeCorrect == StagingSpec => []StagingTypeOK
<1>1. StagingInv => StagingTypeOK
    BY DEF StagingInv
<1> QED
    BY StagingInvInit, StagingInvInductive, <1>1, PTL DEF StagingSpec

\* raw_source_id never dangles: the raw rows of a slice are its catalog rows,
\* whatever fails and wherever.
THEOREM RawBacksCatalogHolds == StagingSpec => []RawBacksCatalog
<1>1. StagingInv => RawBacksCatalog
    BY DEF StagingInv
<1> QED
    BY StagingInvInit, StagingInvInductive, <1>1, PTL DEF StagingSpec

\* The unique constraint of the catalog admits every cutover.
THEOREM CutoverAdmissibleHolds == StagingSpec => []CutoverAdmissible
<1>1. StagingInv => CutoverAdmissible
    BY ReplacedFacts DEF CutoverAdmissible
<1> QED
    BY StagingInvInit, StagingInvInductive, <1>1, PTL DEF StagingSpec

\* Every step of staging is the replacement of a whole slice, or is invisible.
LEMMA StagingStepReplaces ==
    ASSUME StagingInv, [StagingNext]_svars
    PROVE  [\E s \in Slices : Store!Replace(s)]_([s \in Slices |-> LiveRows(s)])
<1> DEFINE store == [s \in Slices |-> LiveRows(s)]
<1>1. CASE CommitCutover
    <2>1. step = "cutover" /\ catalog' = Replaced
        BY <1>1 DEF CommitCutover
    <2>2. cur \in Slices /\ incoming \in Contents
        BY <2>1 DEF StagingInv, StagedInv
    <2>3. \A s \in Slices : LiveRows(s)' = IF s = cur THEN incoming ELSE LiveRows(s)
        BY <2>1, ReplacedFacts DEF LiveRows
    <2>4. store' = [store EXCEPT ![cur] = incoming]
        BY <2>2, <2>3
    <2> QED
        BY <2>2, <2>4 DEF Store!Replace
<1>2. CASE UNCHANGED live
    <2>1. \A s : LiveRows(s)' = LiveRows(s)
        BY <1>2 DEF live, LiveRows
    <2> QED
        BY <2>1
<1>3. CommitCutover \/ UNCHANGED live
    BY DEF StagingNext, BeginPersist, EnsureRaw, EnsureCat, InsertRaw, InsertCat,
           PersistFails, svars, live
<1> QED
    BY <1>1, <1>2, <1>3

\* A reader of the catalog sees slices replaced whole, in one step, by the
\* numbers of one fetch: batches, shared staging tables, leftovers and
\* failures are invisible.
THEOREM StagingImplementsStore == StagingSpec => ImplementsStore
<1>1. StagingInit => Store!SInit
    <2> SUFFICES ASSUME StagingInit PROVE Store!SInit
        OBVIOUS
    <2>1. PICK c \in [Slices -> {LastWins(f) : f \in Fetches} \cup {{}}] :
              catalog = UNION {Tag(s, c[s]) : s \in Slices}
        BY DEF StagingInit
    <2>2. \A s \in Slices : \A r : <<s, r>> \in catalog <=> r \in c[s]
        BY <2>1 DEF Tag
    <2>3. catalog \subseteq Slices \X AllRows
        BY StagingInvInit DEF StagingInv, StagingTypeOK
    <2>4. \A s \in Slices : LiveRows(s) = c[s]
        BY <2>2, <2>3, LiveRowsOf
    <2>5. \A f \in Fetches : LastWins(f) \in Contents
        <3>1. \A f \in Fetches : LastWins(f) = Without(f, {})
            BY DEF Without
        <3> QED
            BY <3>1, WithoutFacts
    <2> QED
        BY <2>4, <2>5 DEF Store!SInit
<1> QED
    BY <1>1, StagingInvInit, StagingInvInductive, StagingStepReplaces, PTL
    DEF StagingSpec, ImplementsStore, Store!SSpec

-----------------------------------------------------------------------------
(* Provider jobs *)

\* The slice being synchronised exists.
SliceInv == prov \in Providers /\ <<prov, kind>> \in Slices

LEMMA FreeIsASlice ==
    ASSUME NEW p \in Providers
    PROVE  /\ <<p, "free">> \in Slices
           /\ HasPurchased(p) => <<p, "purchased">> \in Slices
BY ShapeAssumption DEF Kinds, HasPurchased

\* The actions that leave the tables and the persist call alone.
LEMMA StepOfStaging ==
    ASSUME [Next]_vars
    PROVE  \/ UNCHANGED svars
           \/ /\ UNCHANGED <<prov, kind>>
              /\ \/ Reload
                 \/ EnsureRaw \/ EnsureCat \/ InsertRaw \/ InsertCat
                 \/ CommitCutover
                 \/ PersistFails
<1>1. CASE Start \/ Enter \/ SkipDictionaries \/ BeginDictionaries \/ EndDictionaries
           \/ DictionariesFail \/ BeginFree \/ BeginPurchased \/ SkipPurchased
    BY <1>1 DEF Start, Enter, SkipDictionaries, BeginDictionaries, EndDictionaries,
                DictionariesFail, BeginFree, BeginPurchased, SkipPurchased
<1>2. CASE AcceptEmpty \/ Refuse \/ Record \/ EndSlice \/ JobFailed \/ Escape
           \/ Finish \/ FinishUnjudged \/ ReturnFailed \/ ReturnEscaped \/ ReturnOk
           \/ ReturnRaises \/ Abort
    BY <1>2 DEF AcceptEmpty, Refuse, Record, EndSlice, JobFailed, Escape, Finish, FinishUnjudged,
                ReturnFailed, ReturnEscaped, ReturnOk, SkipPending, ReturnRaises, Abort
<1>3. CASE Reload
    BY <1>3 DEF Reload
<1>4. CASE Persist
    BY <1>4 DEF Persist, control
<1>5. CASE Cutover
    BY <1>5 DEF Cutover
<1>6. CASE AdapterFails \/ DbError \/ Stopped \/ Crash
    BY <1>6 DEF AdapterFails, DbError, Stopped, Crash, Raise
<1>7. CASE UNCHANGED vars
    BY <1>7 DEF vars
<1> QED
    BY <1>1, <1>2, <1>3, <1>4, <1>5, <1>6, <1>7 DEF Next

LEMMA SliceInvInductive ==
    ASSUME SliceInv, [Next]_vars
    PROVE  SliceInv'
<1>1. CASE Start
    BY <1>1, FreeIsASlice DEF SliceInv, Start
<1>2. CASE BeginFree
    BY <1>2, FreeIsASlice DEF SliceInv, BeginFree
<1>3. CASE BeginPurchased
    BY <1>3, FreeIsASlice DEF SliceInv, BeginPurchased
<1>4. CASE UNCHANGED <<prov, kind>>
    BY <1>4 DEF SliceInv
<1>5. \/ Start \/ BeginFree \/ BeginPurchased \/ UNCHANGED <<prov, kind>>
    <2>1. CASE Enter \/ SkipDictionaries \/ BeginDictionaries \/ EndDictionaries
               \/ DictionariesFail \/ SkipPurchased \/ Reload \/ AcceptEmpty \/ Refuse
        BY <2>1 DEF Enter, SkipDictionaries, BeginDictionaries, EndDictionaries,
                    DictionariesFail, SkipPurchased, Reload, AcceptEmpty, Refuse
    <2>2. CASE Persist \/ Cutover \/ Record \/ EndSlice \/ AdapterFails \/ DbError
               \/ Stopped \/ JobFailed \/ Escape \/ Finish \/ FinishUnjudged
        BY <2>2 DEF Persist, control, Cutover, Record, EndSlice, AdapterFails, DbError,
                    Stopped, Raise, JobFailed, Escape, Finish, FinishUnjudged
    <2>3. CASE ReturnFailed \/ ReturnEscaped \/ ReturnOk \/ ReturnRaises \/ Abort \/ Crash
               \/ UNCHANGED vars
        BY <2>3 DEF ReturnFailed, ReturnEscaped, ReturnOk, SkipPending, ReturnRaises, Abort, Crash,
                    vars, control
    <2> QED
        BY <2>1, <2>2, <2>3 DEF Next
<1> QED
    BY <1>1, <1>2, <1>3, <1>4, <1>5

LEMMA SliceInvInit == Init => SliceInv
BY FreeIsASlice, ShapeAssumption DEF Init, Fresh, SliceInv

\* REG may leave out any keys, but only keys that some fetch can have matter.
LEMMA ReloadBegins ==
    ASSUME SliceInv, Reload
    PROVE  \E f \in Fetches, keys \in SUBSET AllKeys :
              /\ BeginPersist(<<prov, kind>>, f, keys)
              /\ ReloadAllowed(f)
              /\ keys = LeftOut \cap AllKeys
<1>1. PICK f \in Fetches : ReloadAllowed(f) /\ BeginPersist(<<prov, kind>>, f, LeftOut)
    BY DEF Reload
<1>2. Without(f, LeftOut) = Without(f, LeftOut \cap AllKeys)
    <2>1. \A r \in LastWins(f) : r[1] \in AllKeys
        BY DEF LastWins, AllKeys, Keys
    <2> QED
        BY <2>1 DEF Without
<1>3. BeginPersist(<<prov, kind>>, f, LeftOut \cap AllKeys)
    BY <1>1, <1>2 DEF BeginPersist
<1> QED
    BY <1>1, <1>3

\* A provider job drives staging as StagingCutover allows; the theorems about
\* it hold for every job, whatever fails.
THEOREM JobsUseStaging == Spec => StagingSpec
<1>1. Init => StagingInit
    BY DEF Init
<1>2. SliceInv /\ [Next]_vars => [StagingNext]_svars
    BY StepOfStaging, ReloadBegins DEF StagingNext, SliceInv
<1> QED
    BY <1>1, <1>2, SliceInvInit, SliceInvInductive, PTL DEF Spec, StagingSpec

\* In every provider job the raw tables back the catalog.
THEOREM JobsKeepRawBacksCatalog == Spec => []RawBacksCatalog
BY JobsUseStaging, RawBacksCatalogHolds

\* No cutover of a provider job is refused by the unique constraint.
THEOREM JobsKeepCutoverAdmissible == Spec => []CutoverAdmissible
BY JobsUseStaging, CutoverAdmissibleHolds

\* To a reader of the catalog, provider jobs replace whole slices at once.
THEOREM JobsImplementStore == Spec => ImplementsStore
BY JobsUseStaging, StagingImplementsStore

-----------------------------------------------------------------------------
(* The wipe guard *)

\* The purchased slice of a REG provider, the one that may be emptied.
RegSlice(s) == Shape[s[1]] = "reg" /\ s[2] = "purchased"

\* What is being persisted into any other slice is not empty.
WipeInv == step # "idle" /\ ~RegSlice(cur) => incoming # {}

LEMMA WipeInvInductive ==
    ASSUME StagingInv, SliceInv, WipeInv, [Next]_vars
    PROVE  WipeInv'
<1>1. CASE Reload
    <2>1. PICK f \in Fetches, keys \in SUBSET AllKeys :
              /\ BeginPersist(<<prov, kind>>, f, keys)
              /\ ReloadAllowed(f)
              /\ keys = LeftOut \cap AllKeys
        BY <1>1, ReloadBegins
    <2>2. cur' = <<prov, kind>> /\ incoming' = Without(f, keys)
        BY <2>1 DEF BeginPersist
    <2>3. ASSUME ~RegSlice(<<prov, kind>>)  PROVE Without(f, keys) # {}
        <3>1. keys = {} /\ Keys(f) # {}
            BY <2>1, <2>3 DEF LeftOut, ReloadAllowed, RegSlice
        <3>2. LastWins(f) # {}
            BY <3>1, LastWinsKeepsKeys
        <3> QED
            BY <3>1, <3>2 DEF Without
    <2> QED
        BY <2>2, <2>3 DEF WipeInv, RegSlice
<1>2. CASE EnsureRaw \/ EnsureCat \/ InsertRaw \/ InsertCat
    BY <1>2 DEF EnsureRaw, EnsureCat, InsertRaw, InsertCat, WipeInv, RegSlice
<1>3. CASE CommitCutover \/ PersistFails
    BY <1>3 DEF CommitCutover, PersistFails, PersistReturns, WipeInv
<1>4. CASE UNCHANGED svars
    BY <1>4 DEF svars, WipeInv, RegSlice
<1> QED
    BY <1>1, <1>2, <1>3, <1>4, StepOfStaging

\* A slice that has numbers never becomes empty, whatever the provider
\* returns and whatever fails; only the REG slice may be emptied.
THEOREM NeverEmptiedHolds == Spec => NeverEmptied
<1> DEFINE Kept == \A s \in Slices :
                      LiveRows(s) # {} /\ ~RegSlice(s) => LiveRows(s)' # {}
<1>1. ASSUME StagingInv, SliceInv, WipeInv, [Next]_vars
      PROVE  Kept
    <2>1. CASE CommitCutover
        <3>1. step = "cutover" /\ catalog' = Replaced
            BY <2>1 DEF CommitCutover
        <3>2. \A s \in Slices : LiveRows(s)' = IF s = cur THEN incoming ELSE LiveRows(s)
            BY <1>1, <3>1, ReplacedFacts DEF LiveRows
        <3> QED
            BY <1>1, <3>1, <3>2 DEF WipeInv
    <2>2. CASE UNCHANGED live
        BY <2>2 DEF live, LiveRows
    <2>3. CommitCutover \/ UNCHANGED live
        BY <1>1, StepOfStaging
        DEF Reload, BeginPersist, EnsureRaw, EnsureCat, InsertRaw, InsertCat,
            PersistFails, svars, live
    <2> QED
        BY <2>1, <2>2, <2>3
<1>2. Init => StagingInv /\ SliceInv /\ WipeInv
    BY StagingInvInit, SliceInvInit DEF Init, StagingInit, WipeInv
<1>3. StagingInv /\ SliceInv /\ WipeInv /\ [Next]_vars => (StagingInv /\ SliceInv /\ WipeInv)'
    <2>1. SliceInv /\ [Next]_vars => [StagingNext]_svars
        BY StepOfStaging, ReloadBegins DEF StagingNext, SliceInv
    <2> QED
        BY <2>1, StagingInvInductive, SliceInvInductive, WipeInvInductive
<1>4. Kept => \A s \in Slices :
                  /\ LiveRows(s) # {}
                  /\ ~(Shape[s[1]] = "reg" /\ s[2] = "purchased")
                  => LiveRows(s)' # {}
    BY DEF RegSlice
<1> QED
    BY <1>1, <1>2, <1>3, <1>4, PTL DEF Spec, NeverEmptied

-----------------------------------------------------------------------------
(* What a job has settled *)

\* The places at which a slice is being synchronised.
Slicing == {"fetch", "persist", "cutover", "recorded"}
Over == {"idle", "returned"}

\* LiveRows and TakenKeys of a catalog, and what the slice of a kind should
\* hold once the job has settled it.
RowsIn(cat, s) == {x[2] : x \in {y \in cat : y[1] = s}}
KeysTaken(cat, p) == {x[2][1] : x \in {y \in cat : y[1][2] = "purchased" /\ y[1][1] # p}}
Target(cat, p, f, k) == IF Shape[p] = "reg" /\ k = "purchased"
                        THEN {r \in f[k] : r[1] \notin KeysTaken(cat, p)}
                        ELSE f[k]
Settled(cat, p, a, f, k) == k \in a /\ RowsIn(cat, <<p, k>>) = Target(cat, p, f, k)

\* The job came to its end and returned; no exception failed it.
Judging == pc = "return" /\ status # "raised"

\* A kind is settled by its cutover or by an accepted empty fetch, and the
\* catalog shows it from then on, unless the job has failed.
SettledInv ==
    /\ pc \in Slicing => kind \in asked
    /\ pc \in {"cutover", "recorded"} =>
          kind \in cut /\ Settled(catalog, prov, asked, fetched, kind)
    /\ ~fatal /\ (pc \in {"purchased", "finish"} \/ Judging
                  \/ (pc \in Slicing /\ kind = "purchased")) =>
          Settled(catalog, prov, asked, fetched, "free")
    /\ ~fatal /\ (pc = "finish" \/ Judging) /\ HasPurchased(prov) =>
          Settled(catalog, prov, asked, fetched, "purchased")

\* Nothing is fetched before its turn.
FetchedInv ==
    /\ pc \in {"begin", "dict", "dictfetch", "free"} \/ (pc = "fetch" /\ kind = "free") =>
          fetched["free"] = {}
    /\ \/ pc \in {"begin", "dict", "dictfetch", "free", "purchased"}
       \/ pc \in Slicing /\ (kind = "free" \/ pc = "fetch")
       => fetched["purchased"] = {}

\* A persist call is the one of the kind in turn, and carries its target.
PersistInv ==
    /\ step # "idle" <=> pc = "persist"
    /\ pc = "persist" => /\ cur = <<prov, kind>>
                         /\ incoming = Target(catalog, prov, fetched, kind)

\* A stage that says "done" is settled, and stays so.
DoneInv ==
    /\ \A k \in Kinds : stage[k] = "done" => Settled(catalog, prov, asked, fetched, k)
    /\ pc \in Slicing => stage[kind] # "done"

\* The kinds that were asked for, by the place the job has come to.
AskedInv ==
    /\ pc \in {"begin", "dict", "dictfetch", "free"} => asked = {}
    /\ pc \in Slicing /\ kind = "free" => asked = {"free"}
    /\ pc \in Slicing /\ kind = "purchased" => HasPurchased(prov) /\ asked = Kinds
    /\ pc = "purchased" => asked = {"free"}
    /\ pc = "finish" \/ Judging =>
          asked = Supported \/ (asked = {} /\ stage["dictionaries"] = "failed")

\* The job has no outcome before it returns; the one of _execute says whether it
\* had a fatal error.
StatusInv ==
    /\ pc \notin Over \cup {"return"} => status = "running"
    /\ pc = "return" /\ status \in {"success", "failed"} => (status = "failed" <=> fatal)

\* Only a fatal error or an abort leaves a failed stage.
StagesInv ==
    pc \notin Over /\ ~fatal /\ ~aborted => \A ph \in Phases : stage[ph] # "failed"

\* The flag of the free cutover and the fatal error: while the job goes on they
\* exclude each other, and at its end the two without a purchased cutover are
\* a split.
FlagsInv ==
    /\ pc \notin Over => ok = "none"
    /\ pc \in {"begin", "dict", "dictfetch", "free"} => ~fatal /\ ~freeFlag
    /\ pc \in Slicing /\ kind = "free" => ~fatal /\ (pc # "recorded" => ~freeFlag)
    /\ pc \in {"purchased"} \cup Slicing => ~(fatal /\ freeFlag)
    /\ pc \in {"finish", "return"} /\ (fatal \/ status = "raised") /\ freeFlag
          /\ HasPurchased(prov) /\ "purchased" \notin cut => split

JobInv == /\ TypeOK /\ SettledInv /\ FetchedInv /\ PersistInv /\ StagesInv
          /\ FlagsInv /\ DoneInv /\ AskedInv /\ StatusInv /\ OkMeansFresh

LEMMA KindFacts ==
    /\ Kinds = {"free", "purchased"}
    /\ Phases = {"free", "purchased", "dictionaries"}
BY DEF Phases, Kinds

\* The readings of a catalog agree with the names of the specification.
LEMMA Readings ==
    /\ \A s : LiveRows(s) = RowsIn(catalog, s)
    /\ TakenKeys = KeysTaken(catalog, prov)
BY DEF LiveRows, RowsIn, TakenKeys, KeysTaken

\* What the REG slice leaves out is what the others have purchased.
LEMMA EarlyIsTaken ==
    ASSUME catalog \subseteq Slices \X AllRows
    PROVE  EarlyKeys = KeysTaken(catalog, prov)
<1>1. ASSUME NEW k \in EarlyKeys  PROVE k \in KeysTaken(catalog, prov)
    <2>1. PICK s \in Slices : /\ s[1] # prov /\ s[2] = "purchased"
                              /\ \E r \in LiveRows(s) : k = r[1]
        BY <1>1 DEF EarlyKeys
    <2>2. PICK x \in catalog : x[1] = s /\ k = x[2][1]
        BY <2>1 DEF LiveRows
    <2> QED
        BY <2>1, <2>2 DEF KeysTaken
<1>2. ASSUME NEW k \in KeysTaken(catalog, prov)  PROVE k \in EarlyKeys
    <2>1. PICK x \in catalog : x[1][2] = "purchased" /\ x[1][1] # prov /\ k = x[2][1]
        BY <1>2 DEF KeysTaken
    <2>2. x[1] \in Slices /\ x[2] \in LiveRows(x[1])
        BY <2>1 DEF LiveRows
    <2> QED
        BY <2>1, <2>2 DEF EarlyKeys
<1> QED
    BY <1>1, <1>2

\* The cutover shows the target of its slice, and disturbs neither the other
\* slices nor what the others have purchased.
LEMMA CutoverFacts ==
    ASSUME StagingInv, step = "cutover", NEW k, cur = <<prov, k>>
    PROVE  /\ RowsIn(Replaced, <<prov, k>>) = incoming
           /\ \A x \in Kinds : x # k /\ <<prov, x>> \in Slices =>
                 RowsIn(Replaced, <<prov, x>>) = RowsIn(catalog, <<prov, x>>)
           /\ KeysTaken(Replaced, prov) = KeysTaken(catalog, prov)
<1>1. RowsIn(Replaced, <<prov, k>>) = incoming
    BY ReplacedFacts DEF RowsIn
<1>2. ASSUME NEW x \in Kinds, x # k, <<prov, x>> \in Slices
      PROVE  RowsIn(Replaced, <<prov, x>>) = RowsIn(catalog, <<prov, x>>)
    <2>1. <<prov, x>> \in Slices \ {cur}
        BY <1>2
    <2> QED
        BY <2>1, ReplacedFacts DEF RowsIn, LiveRows
<1>3. KeysTaken(Replaced, prov) = KeysTaken(catalog, prov)
    <2>1. stgCat = Tag(cur, incoming)
        BY DEF StagingInv, StagedInv
    <2>2. \A y : y[1][1] # prov => (y \in Replaced <=> y \in catalog)
        BY <2>1 DEF Replaced, Tag
    <2> QED
        BY <2>2 DEF KeysTaken
<1> QED
    BY <1>1, <1>2, <1>3


\* What an exception leaves: the tables, and no persist call.
LEMMA RaiseFacts ==
    ASSUME TypeOK,
           IF step # "idle" THEN PersistFails ELSE UNCHANGED svars
    PROVE  UNCHANGED <<catalog, raw, stgCat, stgRaw>> /\ step' = "idle"
BY DEF PersistFails, PersistReturns, svars, live, staging

\* The state of the job is well typed.
JobTyped ==
    /\ pc \in Pcs /\ prov \in Providers /\ kind \in Kinds
    /\ stage \in [Phases -> Open \cup Closed]
    /\ aborted \in BOOLEAN /\ fatal \in BOOLEAN /\ freeFlag \in BOOLEAN
    /\ split \in BOOLEAN /\ reported \in BOOLEAN
    /\ status \in Statuses /\ ok \in Oks
    /\ asked \subseteq Kinds /\ cut \subseteq Kinds
    /\ fetched \in [Kinds -> SUBSET AllRows]
    /\ jobs \in 0..MaxJobs /\ faults \in 0..MaxFaults

LEMMA JobTypedIsTyped == TypeOK <=> StagingTypeOK /\ JobTyped
<1>1. {aborted, fatal, freeFlag, split, reported} \subseteq BOOLEAN
      <=> /\ aborted \in BOOLEAN /\ fatal \in BOOLEAN /\ freeFlag \in BOOLEAN
          /\ split \in BOOLEAN /\ reported \in BOOLEAN
    OBVIOUS
<1> QED
    BY <1>1 DEF TypeOK, JobTyped

LEMMA JobTypeInductive ==
    ASSUME JobTyped, SliceInv', [Next]_vars
    PROVE  JobTyped'
<1> USE KindFacts, JobsAssumption, FaultsAssumption
        DEF JobTyped, Pcs, Statuses, Oks, Open, Closed, At, To, Mark, Fault, After
<1>1. CASE Start
    <2>1. prov' \in Providers /\ stage' \in [Phases -> {"skipped", "pending"}]
        BY <1>1 DEF Start
    <2>2. fetched' \in [Kinds -> SUBSET AllRows]
        BY <1>1 DEF Start
    <2>3. /\ pc' = "begin" /\ kind' = "free" /\ jobs' \in 0..MaxJobs /\ faults' = faults
          /\ aborted' = FALSE /\ fatal' = FALSE /\ freeFlag' = FALSE
          /\ split' = FALSE /\ status' = "running" /\ reported' = FALSE /\ ok' = "none"
          /\ asked' = {} /\ cut' = {}
        BY <1>1 DEF Start
    <2> QED
        BY <2>1, <2>2, <2>3
<1>2. CASE Enter
    BY <1>2 DEF Enter, stats, result, history
<1>3. CASE SkipDictionaries \/ BeginDictionaries \/ EndDictionaries
    <2>1. CASE SkipDictionaries
        BY <2>1 DEF SkipDictionaries, stats, result, history
    <2>2. CASE BeginDictionaries
        BY <2>2 DEF BeginDictionaries, stats, result, history
    <2>3. CASE EndDictionaries
        BY <2>3 DEF EndDictionaries, stats, result, history
    <2> QED
        BY <1>3, <2>1, <2>2, <2>3
<1>4. CASE DictionariesFail
    BY <1>4 DEF DictionariesFail, stats, result, history
<1>5. CASE BeginFree \/ BeginPurchased \/ SkipPurchased
    <2>1. CASE BeginFree
        BY <2>1 DEF BeginFree, stats, result, history
    <2>2. CASE BeginPurchased
        BY <2>2 DEF BeginPurchased, stats, result, history
    <2>3. CASE SkipPurchased
        BY <2>3 DEF SkipPurchased, stats, result, history
    <2> QED
        BY <1>5, <2>1, <2>2, <2>3
<1>6. CASE Reload
    <2>1. PICK f \in Fetches : fetched' = [fetched EXCEPT ![kind] = LastWins(f)]
        BY <1>6 DEF Reload
    <2>2. fetched' \in [Kinds -> SUBSET AllRows]
        BY <2>1 DEF AllRows
    <2> QED
        BY <1>6, <2>2 DEF Reload, stats, result
<1>7. CASE AcceptEmpty \/ Refuse
    <2>1. CASE AcceptEmpty
        BY <2>1 DEF AcceptEmpty, stats, result, history
    <2>2. CASE Refuse
        BY <2>2 DEF Refuse, stats, result, history
    <2> QED
        BY <1>7, <2>1, <2>2
<1>8. CASE Persist \/ Cutover
    <2>1. CASE Persist
        BY <2>1 DEF Persist, control, stats, result, history
    <2>2. CASE Cutover
        BY <2>2 DEF Cutover, control, stats, result, history
    <2> QED
        BY <1>8, <2>1, <2>2
<1>9. CASE Record \/ EndSlice
    <2>1. CASE Record
        BY <2>1 DEF Record, stats, result, history
    <2>2. CASE EndSlice
        BY <2>2 DEF EndSlice, stats, result, history
    <2> QED
        BY <1>9, <2>1, <2>2
<1>10. CASE AdapterFails \/ DbError \/ Stopped
    <2>1. pc' = "except" /\ UNCHANGED <<prov, kind, stage, aborted, stats, result,
                                       history, jobs>>
        BY <1>10 DEF AdapterFails, DbError, Stopped, Raise
    <2>2. faults' \in 0..MaxFaults
        BY <1>10 DEF AdapterFails, DbError, Stopped
    <2> QED
        BY <2>1, <2>2 DEF stats, result, history
<1>11. CASE JobFailed
    BY <1>11 DEF JobFailed, stats, result, history
<1>12. CASE Escape
    BY <1>12 DEF Escape, stats, result, history
<1>13. CASE Finish
    BY <1>13 DEF Finish, stats, history
<1>13a. CASE FinishUnjudged
    BY <1>13a DEF FinishUnjudged, stats, result, history
<1>14. CASE ReturnFailed
    BY <1>14 DEF ReturnFailed, CloseRemaining, stats, history
<1>15. CASE ReturnEscaped
    BY <1>15 DEF ReturnEscaped, CloseRemaining, stats, history
<1>16. CASE ReturnOk
    BY <1>16 DEF ReturnOk, SkipPending, stats, history
<1>17. CASE ReturnRaises
    BY <1>17 DEF ReturnRaises, stats, history
<1>18. CASE Abort
    BY <1>18 DEF Abort, stats, result, history
<1>19. CASE Crash
    BY <1>19 DEF Crash, stats, result, history
<1>20. CASE UNCHANGED vars
    BY <1>20 DEF vars, control, stats, result, history
<1> QED
    BY <1>1, <1>2, <1>3, <1>4, <1>5, <1>6, <1>7, <1>8, <1>9, <1>10, <1>11, <1>12,
       <1>13, <1>13a, <1>14, <1>15, <1>16, <1>17, <1>18, <1>19, <1>20
    DEF Next

\* A kind that is asked again stays settled.
LEMMA SettledGrows ==
    ASSUME NEW c, NEW q, NEW a, NEW f, NEW k, NEW x, Settled(c, q, a, f, k)
    PROVE  Settled(c, q, a \cup {x}, f, k)
BY DEF Settled

\* The fetch of one kind does not unsettle the other.
LEMMA SettledBesides ==
    ASSUME NEW c, NEW q, NEW a, NEW f \in [Kinds -> SUBSET AllRows], NEW rows,
           NEW k \in Kinds, NEW x \in Kinds, x # k, Settled(c, q, a, f, k)
    PROVE  Settled(c, q, a, [f EXCEPT ![x] = rows], k)
BY DEF Settled, Target

\* A kind that is empty in the catalog and in the fetch is settled.
LEMMA SettledEmpty ==
    ASSUME NEW c, NEW q, NEW a, NEW f, NEW k \in a,
           RowsIn(c, <<q, k>>) = {}, f[k] = {}
    PROVE  Settled(c, q, a, f, k)
BY DEF Settled, Target

LEMMA SettledInductive ==
    ASSUME JobInv, StagingInv, SliceInv, [Next]_vars
    PROVE  SettledInv'
<1> USE KindFacts DEF At, To, After, Slicing
<1>0. TypeOK /\ SettledInv /\ FetchedInv /\ PersistInv
    BY DEF JobInv
<1> USE DEF Judging
<1>1. CASE Start \/ Enter \/ SkipDictionaries \/ BeginDictionaries \/ EndDictionaries
           \/ DictionariesFail
    BY <1>1 DEF Start, Enter, SkipDictionaries, BeginDictionaries, EndDictionaries,
                DictionariesFail, SettledInv
<1>2. CASE BeginFree
    BY <1>2 DEF BeginFree, SettledInv
<1>3. CASE BeginPurchased
    BY <1>0, <1>3, SettledGrows DEF BeginPurchased, SettledInv, svars, stats
<1>4. CASE SkipPurchased
    BY <1>0, <1>4 DEF SkipPurchased, SettledInv, svars, stats, history
<1>5. CASE Reload
    <2>1. PICK f \in Fetches : fetched' = [fetched EXCEPT ![kind] = LastWins(f)]
        BY <1>5 DEF Reload
    <2>2. /\ UNCHANGED <<catalog, prov, kind, asked, cut, fatal>>
          /\ pc = "fetch" /\ pc' = "persist"
        BY <1>5 DEF Reload, BeginPersist, live, stats
    <2>3. kind = "purchased" /\ ~fatal => Settled(catalog, prov, asked, fetched', "free")
        BY <1>0, <2>1, <2>2, SettledBesides DEF SettledInv, TypeOK
    <2> QED
        BY <1>0, <2>2, <2>3 DEF SettledInv
<1>6. CASE AcceptEmpty
    <2>1. /\ UNCHANGED <<catalog, prov, kind, asked, fetched, cut, fatal>>
          /\ pc = "fetch" /\ pc' = IF kind = "free" THEN "purchased" ELSE "finish"
          /\ Previous = {}
        BY <1>6 DEF AcceptEmpty, ConfirmedEmpty, svars, stats, history
    <2>2. kind \in asked /\ kind \in Kinds /\ fetched[kind] = {}
        BY <1>0, <2>1 DEF SettledInv, FetchedInv, TypeOK
    <2>3. Settled(catalog, prov, asked, fetched, kind)
        BY <2>1, <2>2, SettledEmpty, Readings DEF Previous
    <2> QED
        BY <1>0, <2>1, <2>2, <2>3 DEF SettledInv
<1>7. CASE Refuse \/ JobFailed \/ Escape \/ ReturnFailed \/ ReturnEscaped \/ ReturnOk
           \/ ReturnRaises
    BY <1>0, <1>7 DEF Refuse, JobFailed, Escape, ReturnFailed, ReturnEscaped, ReturnOk, SkipPending,
                      ReturnRaises, SettledInv
<1>8. CASE Persist
    <2>1. UNCHANGED catalog
        BY <1>8 DEF Persist, EnsureRaw, EnsureCat, InsertRaw, InsertCat, live
    <2> QED
        BY <1>0, <1>8, <2>1 DEF Persist, control, stats, history, SettledInv
<1>9. CASE Cutover
    <2>1. /\ UNCHANGED <<prov, kind, asked, fetched, fatal>> /\ cut' = cut \cup {kind}
          /\ pc = "persist" /\ pc' = "cutover"
          /\ step = "cutover" /\ catalog' = Replaced
        BY <1>9 DEF Cutover, CommitCutover, stats
    <2>2. /\ cur = <<prov, kind>> /\ kind \in asked /\ kind \in Kinds
          /\ incoming = Target(catalog, prov, fetched, kind)
        BY <1>0, <2>1 DEF PersistInv, SettledInv, TypeOK
    <2>3. Settled(Replaced, prov, asked, fetched, kind)
        BY <2>1, <2>2, CutoverFacts DEF Settled, Target
    <2>4. ASSUME ~fatal, kind = "purchased"
          PROVE  Settled(Replaced, prov, asked, fetched, "free")
        <3>1. Settled(catalog, prov, asked, fetched, "free")
            BY <1>0, <2>1, <2>4 DEF SettledInv
        <3>2. <<prov, "free">> \in Slices
            BY FreeIsASlice DEF SliceInv
        <3>3. RowsIn(Replaced, <<prov, "free">>) = RowsIn(catalog, <<prov, "free">>)
            BY <2>1, <2>2, <2>4, <3>2, CutoverFacts
        <3> QED
            BY <3>1, <3>3 DEF Settled, Target
    <2> QED
        BY <2>1, <2>2, <2>3, <2>4 DEF SettledInv
<1>10. CASE Record \/ EndSlice
    BY <1>0, <1>10 DEF Record, EndSlice, SettledInv, svars, stats, history, TypeOK
<1>10a. CASE Finish \/ FinishUnjudged \/ Abort
    BY <1>0, <1>10a DEF Finish, FinishUnjudged, Abort, SettledInv, svars, stats, result,
                        history
<1>11. CASE AdapterFails \/ DbError \/ Stopped \/ Crash
    BY <1>11 DEF AdapterFails, DbError, Stopped, Raise, Crash, SettledInv
<1>12. CASE UNCHANGED vars
    BY <1>0, <1>12 DEF vars, svars, control, stats, result, history, SettledInv
<1> QED
    BY <1>1, <1>2, <1>3, <1>4, <1>5, <1>6, <1>7, <1>8, <1>9, <1>10, <1>10a, <1>11, <1>12
    DEF Next

LEMMA FetchedInductive ==
    ASSUME JobInv, [Next]_vars
    PROVE  FetchedInv'
<1> USE KindFacts DEF At, To, After, Slicing
<1>0. TypeOK /\ FetchedInv /\ FlagsInv
    BY DEF JobInv
<1>1. CASE Start \/ Enter \/ SkipDictionaries \/ BeginDictionaries \/ EndDictionaries
           \/ DictionariesFail
    BY <1>0, <1>1 DEF Start, Enter, SkipDictionaries, BeginDictionaries, EndDictionaries,
                      DictionariesFail, FetchedInv, history
<1>2. CASE BeginFree \/ BeginPurchased \/ SkipPurchased
    BY <1>0, <1>2 DEF BeginFree, BeginPurchased, SkipPurchased, FetchedInv, history
<1>3. CASE Reload
    <2>1. PICK f \in Fetches : fetched' = [fetched EXCEPT ![kind] = LastWins(f)]
        BY <1>3 DEF Reload
    <2>2. pc = "fetch" /\ pc' = "persist" /\ UNCHANGED kind
        BY <1>3 DEF Reload
    <2>3. kind = "free" => fetched'["purchased"] = fetched["purchased"]
        BY <1>0, <2>1 DEF TypeOK
    <2> QED
        BY <1>0, <2>2, <2>3 DEF FetchedInv
<1>4. CASE AcceptEmpty \/ Refuse \/ Persist \/ Cutover \/ Record \/ EndSlice
    BY <1>0, <1>4 DEF AcceptEmpty, Refuse, Persist, Cutover, Record, EndSlice, FetchedInv,
                      TypeOK, history, control
<1>5. CASE AdapterFails \/ DbError \/ Stopped \/ Crash \/ JobFailed \/ Escape
           \/ Finish \/ FinishUnjudged
    BY <1>5 DEF AdapterFails, DbError, Stopped, Raise, Crash, JobFailed, Escape, Finish,
                FinishUnjudged,
                FetchedInv
<1>6. CASE ReturnFailed \/ ReturnEscaped \/ ReturnOk \/ ReturnRaises
    BY <1>6 DEF ReturnFailed, ReturnEscaped, ReturnOk, SkipPending, ReturnRaises, FetchedInv
<1>7. CASE Abort \/ UNCHANGED vars
    BY <1>0, <1>7 DEF Abort, vars, control, history, FetchedInv
<1> QED
    BY <1>1, <1>2, <1>3, <1>4, <1>5, <1>6, <1>7 DEF Next

LEMMA PersistInductive ==
    ASSUME JobInv, StagingInv, SliceInv, [Next]_vars
    PROVE  PersistInv'
<1> USE KindFacts DEF At, To, After
<1>0. TypeOK /\ PersistInv /\ FetchedInv
    BY DEF JobInv
<1>1. CASE Start \/ Enter \/ SkipDictionaries \/ BeginDictionaries \/ EndDictionaries
           \/ DictionariesFail \/ BeginFree \/ BeginPurchased \/ SkipPurchased
    BY <1>0, <1>1 DEF Start, Enter, SkipDictionaries, BeginDictionaries, EndDictionaries,
                      DictionariesFail, BeginFree, BeginPurchased, SkipPurchased,
                      svars, PersistInv
<1>2. CASE Reload
    <2>1. PICK f \in Fetches : /\ BeginPersist(<<prov, kind>>, f, LeftOut)
                               /\ fetched' = [fetched EXCEPT ![kind] = LastWins(f)]
        BY <1>2 DEF Reload
    <2>2. /\ UNCHANGED <<catalog, prov, kind>> /\ cur' = <<prov, kind>>
          /\ incoming' = Without(f, LeftOut) /\ step' \in {"ensureRaw", "ensureCat"}
          /\ pc' = "persist"
        BY <1>2, <2>1 DEF Reload, BeginPersist, live
    <2>3. fetched'[kind] = LastWins(f)
        BY <1>0, <2>1 DEF TypeOK
    <2>4. Without(f, LeftOut) = Target(catalog, prov, fetched', kind)
        <3>1. CASE Shape[prov] = "reg" /\ kind = "purchased"
            <4>1. LeftOut = KeysTaken(catalog, prov)
                BY <1>0, <3>1, EarlyIsTaken DEF LeftOut, TypeOK, StagingTypeOK
            <4> QED
                BY <2>3, <3>1, <4>1 DEF Target, Without
        <3>2. CASE ~(Shape[prov] = "reg" /\ kind = "purchased")
            BY <2>3, <3>2 DEF Target, Without, LeftOut
        <3> QED
            BY <3>1, <3>2
    <2> QED
        BY <2>2, <2>4 DEF PersistInv
<1>3. CASE Persist
    BY <1>0, <1>3 DEF Persist, EnsureRaw, EnsureCat, InsertRaw, InsertCat, control,
                      history, live, PersistInv
<1>4. CASE Cutover
    BY <1>4 DEF Cutover, CommitCutover, PersistReturns, PersistInv
<1>5. CASE AcceptEmpty \/ Refuse \/ Record \/ EndSlice \/ Abort
    BY <1>0, <1>5 DEF AcceptEmpty, Refuse, Record, EndSlice, Abort, svars, history,
                      PersistInv
<1>6. CASE AdapterFails \/ DbError \/ Stopped \/ Crash
    BY <1>0, <1>6, RaiseFacts DEF AdapterFails, DbError, Stopped, Raise, Crash, PersistInv
<1>7. CASE JobFailed \/ Escape \/ Finish \/ FinishUnjudged
    BY <1>0, <1>7 DEF JobFailed, Escape, Finish, FinishUnjudged, svars, PersistInv
<1>8. CASE ReturnFailed \/ ReturnEscaped \/ ReturnOk \/ ReturnRaises
    BY <1>0, <1>8 DEF ReturnFailed, ReturnEscaped, ReturnOk, SkipPending, ReturnRaises,
                      svars, PersistInv
<1>9. CASE UNCHANGED vars
    BY <1>0, <1>9 DEF vars, svars, control, history, PersistInv
<1> QED
    BY <1>1, <1>2, <1>3, <1>4, <1>5, <1>6, <1>7, <1>8, <1>9 DEF Next

LEMMA StagesInductive ==
    ASSUME JobInv, [Next]_vars
    PROVE  StagesInv'
<1> USE KindFacts DEF At, To, After, Over, Mark
<1>0. TypeOK /\ StagesInv
    BY DEF JobInv
<1>1. CASE Start \/ Enter
    BY <1>0, <1>1 DEF Start, Enter, StagesInv, stats
<1>2. CASE SkipDictionaries \/ BeginDictionaries \/ EndDictionaries \/ DictionariesFail
    BY <1>0, <1>2 DEF SkipDictionaries, BeginDictionaries, EndDictionaries,
                      DictionariesFail, TypeOK, StagesInv, stats
<1>3. CASE BeginFree \/ BeginPurchased \/ SkipPurchased
    BY <1>0, <1>3 DEF BeginFree, BeginPurchased, SkipPurchased, TypeOK, StagesInv, stats
<1>4. CASE Reload \/ Persist \/ Cutover \/ Record
    BY <1>0, <1>4 DEF Reload, Persist, Cutover, Record, control, stats, StagesInv
<1>5. CASE AcceptEmpty \/ Refuse \/ EndSlice
    BY <1>0, <1>5 DEF AcceptEmpty, Refuse, EndSlice, TypeOK, StagesInv, stats
<1>6. CASE AdapterFails \/ DbError \/ Stopped \/ Crash
    BY <1>0, <1>6 DEF AdapterFails, DbError, Stopped, InJob, Raise, Crash, StagesInv, stats
<1>7. CASE JobFailed \/ Escape \/ Finish \/ FinishUnjudged
    BY <1>0, <1>7 DEF JobFailed, Escape, Finish, FinishUnjudged, StagesInv, stats
<1>8. CASE ReturnFailed \/ ReturnEscaped \/ ReturnOk \/ ReturnRaises \/ Abort
    BY <1>8 DEF ReturnFailed, ReturnEscaped, ReturnOk, SkipPending, ReturnRaises, Abort, StagesInv
<1>9. CASE UNCHANGED vars
    BY <1>0, <1>9 DEF vars, control, stats, StagesInv
<1> QED
    BY <1>1, <1>2, <1>3, <1>4, <1>5, <1>6, <1>7, <1>8, <1>9 DEF Next

LEMMA FlagsInductive ==
    ASSUME JobInv, [Next]_vars
    PROVE  FlagsInv'
<1> USE KindFacts DEF At, To, After, Over, Slicing
<1>0. TypeOK /\ FlagsInv /\ SettledInv /\ StatusInv
    BY DEF JobInv
<1> USE DEF StatusInv
<1>1. CASE Start \/ Enter
    BY <1>0, <1>1 DEF Start, Enter, FlagsInv, stats, result
<1>2. CASE SkipDictionaries \/ BeginDictionaries \/ EndDictionaries \/ DictionariesFail
    BY <1>0, <1>2 DEF SkipDictionaries, BeginDictionaries, EndDictionaries,
                      DictionariesFail, FlagsInv, stats, result
<1>3. CASE BeginFree \/ BeginPurchased \/ SkipPurchased
    BY <1>0, <1>3 DEF BeginFree, BeginPurchased, SkipPurchased, FlagsInv, stats, result,
                      history
<1>4. CASE Reload \/ Persist \/ Cutover
    BY <1>0, <1>4 DEF Reload, Persist, Cutover, control, stats, result, FlagsInv
<1>5. CASE Record \/ EndSlice
    BY <1>0, <1>5 DEF Record, EndSlice, FlagsInv, SettledInv, TypeOK, stats, result, history
<1>6. CASE AcceptEmpty \/ Refuse
    BY <1>0, <1>6 DEF AcceptEmpty, Refuse, FlagsInv, TypeOK, stats, result, history
<1>7. CASE AdapterFails \/ DbError \/ Stopped \/ Crash
    BY <1>0, <1>7 DEF AdapterFails, DbError, Stopped, InJob, Raise, Crash, FlagsInv, result
<1>8. CASE JobFailed \/ Escape \/ Finish \/ FinishUnjudged
    <2>1. freeFlag \in BOOLEAN /\ split \in BOOLEAN
        BY <1>0, JobTypedIsTyped DEF JobTyped
    <2> QED
        BY <1>0, <1>8, <2>1 DEF JobFailed, Escape, Finish, FinishUnjudged,
                             FlagsInv, stats, result, history
<1>9. CASE ReturnFailed \/ ReturnEscaped \/ ReturnOk \/ ReturnRaises
    BY <1>9 DEF ReturnFailed, ReturnEscaped, ReturnOk, SkipPending, ReturnRaises, FlagsInv
<1>10. CASE Abort \/ UNCHANGED vars
    BY <1>0, <1>10 DEF Abort, vars, control, stats, result, history, FlagsInv
<1> QED
    BY <1>1, <1>2, <1>3, <1>4, <1>5, <1>6, <1>7, <1>8, <1>9, <1>10 DEF Next

\* A settled kind stays settled while the other one is asked, fetched or cut
\* over: "done" is marked by EndSlice and AcceptEmpty alone.
LEMMA DoneInductive ==
    ASSUME JobInv, StagingInv, SliceInv, [Next]_vars
    PROVE  DoneInv'
<1> USE KindFacts DEF At, To, After, Slicing, Mark
<1>0. TypeOK /\ SettledInv /\ FetchedInv /\ PersistInv /\ DoneInv
    BY DEF JobInv
<1>1. CASE Start
    BY <1>1 DEF Start, DoneInv
<1>2. CASE Enter
    BY <1>0, <1>2 DEF Enter, DoneInv, svars, history
<1>3. CASE SkipDictionaries \/ BeginDictionaries \/ EndDictionaries \/ DictionariesFail
    BY <1>0, <1>3 DEF SkipDictionaries, BeginDictionaries, EndDictionaries,
                      DictionariesFail, DoneInv, TypeOK, svars, history
<1>4. CASE BeginFree
    BY <1>0, <1>4, SettledGrows DEF BeginFree, DoneInv, TypeOK, svars
<1>5. CASE BeginPurchased
    BY <1>0, <1>5, SettledGrows DEF BeginPurchased, DoneInv, TypeOK, svars
<1>6. CASE SkipPurchased
    BY <1>0, <1>6 DEF SkipPurchased, DoneInv, TypeOK, svars, history
<1>7. CASE Reload
    <2>1. PICK f \in Fetches : fetched' = [fetched EXCEPT ![kind] = LastWins(f)]
        BY <1>7 DEF Reload
    <2>2. /\ UNCHANGED <<catalog, prov, kind, asked, stage>> /\ pc = "fetch"
        BY <1>7 DEF Reload, BeginPersist, live
    <2>3. ASSUME NEW k \in Kinds, stage[k] = "done"
          PROVE  Settled(catalog, prov, asked, fetched', k)
        <3>1. kind \in Kinds /\ k # kind /\ Settled(catalog, prov, asked, fetched, k)
            BY <1>0, <2>2, <2>3 DEF DoneInv, TypeOK
        <3>2. fetched \in [Kinds -> SUBSET AllRows]
            BY <1>0 DEF TypeOK
        <3> QED
            BY <2>1, <2>3, <3>1, <3>2, SettledBesides
    <2> QED
        BY <1>0, <2>2, <2>3 DEF DoneInv
<1>8. CASE AcceptEmpty
    <2>1. /\ UNCHANGED <<catalog, prov, kind, asked, fetched>>
          /\ pc = "fetch" /\ pc' = IF kind = "free" THEN "purchased" ELSE "finish"
          /\ stage' = [stage EXCEPT ![kind] = "done"] /\ Previous = {}
        BY <1>8 DEF AcceptEmpty, ConfirmedEmpty, svars, history
    <2>2. kind \in asked /\ kind \in Kinds /\ fetched[kind] = {}
        BY <1>0, <2>1 DEF SettledInv, FetchedInv, TypeOK
    <2>3. Settled(catalog, prov, asked, fetched, kind)
        BY <2>1, <2>2, SettledEmpty, Readings DEF Previous
    <2> QED
        BY <1>0, <2>1, <2>2, <2>3 DEF DoneInv, TypeOK
<1>9. CASE Refuse
    BY <1>0, <1>9 DEF Refuse, DoneInv, TypeOK, svars, history
<1>10. CASE Persist
    <2>1. UNCHANGED catalog
        BY <1>10 DEF Persist, EnsureRaw, EnsureCat, InsertRaw, InsertCat, live
    <2> QED
        BY <1>0, <1>10, <2>1 DEF Persist, control, history, DoneInv
<1>11. CASE Cutover
    <2>1. /\ UNCHANGED <<prov, kind, asked, fetched, stage>>
          /\ pc = "persist" /\ pc' = "cutover"
          /\ step = "cutover" /\ catalog' = Replaced
        BY <1>11 DEF Cutover, CommitCutover
    <2>2. cur = <<prov, kind>> /\ kind \in Kinds /\ stage[kind] # "done"
        BY <1>0, <2>1 DEF PersistInv, DoneInv, TypeOK
    <2>3. ASSUME NEW k \in Kinds, stage[k] = "done"
          PROVE  Settled(Replaced, prov, asked, fetched, k)
        <3>1. k # kind /\ Settled(catalog, prov, asked, fetched, k)
            BY <1>0, <2>2, <2>3 DEF DoneInv
        <3>2. CASE <<prov, k>> \in Slices
            BY <2>1, <2>2, <2>3, <3>1, <3>2, CutoverFacts DEF Settled, Target
        <3>3. CASE <<prov, k>> \notin Slices
            <4>1. \A y \in Replaced \cup catalog : y[1] \in Slices
                BY <2>1, ReplacedFacts DEF StagingInv, StagingTypeOK
            <4>2. RowsIn(Replaced, <<prov, k>>) = {} /\ RowsIn(catalog, <<prov, k>>) = {}
                BY <3>3, <4>1 DEF RowsIn
            <4> QED
                BY <2>1, <2>2, <3>1, <4>2, CutoverFacts DEF Settled, Target
        <3> QED
            BY <3>2, <3>3
    <2> QED
        BY <2>1, <2>2, <2>3 DEF DoneInv
<1>12. CASE Record
    BY <1>0, <1>12 DEF Record, DoneInv, svars, history
<1>13. CASE EndSlice
    BY <1>0, <1>13 DEF EndSlice, DoneInv, SettledInv, TypeOK, svars, history
<1>14. CASE AdapterFails \/ DbError \/ Stopped
    BY <1>0, <1>14, RaiseFacts DEF AdapterFails, DbError, Stopped, Raise, DoneInv, history
<1>15. CASE Crash
    BY <1>0, <1>15, RaiseFacts DEF Crash, DoneInv, history
<1>16. CASE JobFailed \/ Escape \/ Finish \/ FinishUnjudged
    BY <1>0, <1>16 DEF JobFailed, Escape, Finish, FinishUnjudged, DoneInv, svars, history
<1>17. CASE ReturnFailed \/ ReturnEscaped \/ ReturnOk \/ ReturnRaises
    BY <1>0, <1>17 DEF ReturnFailed, ReturnEscaped, ReturnOk, SkipPending, ReturnRaises,
                       CloseRemaining,
                       Open, DoneInv, TypeOK, svars, history
<1>18. CASE Abort
    BY <1>0, <1>18 DEF Abort, DoneInv, TypeOK, svars, history
<1>19. CASE UNCHANGED vars
    BY <1>0, <1>19 DEF vars, svars, control, history, DoneInv
<1> QED
    BY <1>1, <1>2, <1>3, <1>4, <1>5, <1>6, <1>7, <1>8, <1>9, <1>10, <1>11, <1>12, <1>13,
       <1>14, <1>15, <1>16, <1>17, <1>18, <1>19 DEF Next

LEMMA AskedInductive ==
    ASSUME JobInv, [Next]_vars
    PROVE  AskedInv'
<1> USE KindFacts DEF At, To, After, Slicing, Mark, Judging, Over
<1>0. TypeOK /\ AskedInv
    BY DEF JobInv
<1>1. CASE Start \/ Enter
    BY <1>0, <1>1 DEF Start, Enter, AskedInv, history, result
<1>2. CASE SkipDictionaries \/ BeginDictionaries \/ EndDictionaries
    BY <1>0, <1>2 DEF SkipDictionaries, BeginDictionaries, EndDictionaries, AskedInv,
                      history, result
<1>3. CASE DictionariesFail
    BY <1>0, <1>3 DEF DictionariesFail, AskedInv, TypeOK, history, result
<1>4. CASE BeginFree \/ BeginPurchased
    BY <1>0, <1>4 DEF BeginFree, BeginPurchased, AskedInv, HasPurchased, result
<1>5. CASE SkipPurchased
    BY <1>0, <1>5 DEF SkipPurchased, AskedInv, Supported, HasPurchased, history
<1>6. CASE AcceptEmpty \/ Refuse \/ EndSlice
    <2>1. /\ UNCHANGED <<asked, prov, kind>> /\ pc \in Slicing
          /\ pc' = IF kind = "free" THEN "purchased" ELSE "finish"
          /\ kind \in Kinds
        BY <1>0, <1>6 DEF AcceptEmpty, Refuse, EndSlice, history, TypeOK
    <2>2. HasPurchased(prov) => Supported' = Kinds
        BY <2>1 DEF Supported, HasPurchased
    <2> QED
        BY <1>0, <2>1, <2>2 DEF AskedInv
<1>7. CASE Reload \/ Persist \/ Cutover \/ Record
    BY <1>0, <1>7 DEF Reload, Persist, Cutover, Record, control, history, AskedInv,
                      HasPurchased
<1>8. CASE AdapterFails \/ DbError \/ Stopped \/ Crash
    BY <1>8 DEF AdapterFails, DbError, Stopped, Raise, Crash, AskedInv
<1>9. CASE JobFailed \/ Escape
    BY <1>9 DEF JobFailed, Escape, AskedInv
<1>10. CASE Finish \/ FinishUnjudged
    BY <1>0, <1>10 DEF Finish, FinishUnjudged, AskedInv, Supported, HasPurchased, history
<1>11. CASE ReturnFailed \/ ReturnEscaped \/ ReturnOk \/ ReturnRaises
    BY <1>11 DEF ReturnFailed, ReturnEscaped, ReturnOk, SkipPending, ReturnRaises, AskedInv
<1>12. CASE Abort
    BY <1>0, <1>12 DEF Abort, AskedInv, Supported, HasPurchased, TypeOK, history, result
<1>13. CASE UNCHANGED vars
    BY <1>0, <1>13 DEF vars, control, history, result, AskedInv, Supported, HasPurchased
<1> QED
    BY <1>1, <1>2, <1>3, <1>4, <1>5, <1>6, <1>7, <1>8, <1>9, <1>10, <1>11, <1>12, <1>13
    DEF Next

LEMMA StatusInductive ==
    ASSUME JobInv, [Next]_vars
    PROVE  StatusInv'
<1> USE KindFacts DEF At, To, After, Over, result, stats
<1>0. StatusInv
    BY DEF JobInv
<1>1. CASE Start \/ Enter \/ SkipDictionaries \/ BeginDictionaries \/ EndDictionaries
           \/ DictionariesFail
    BY <1>0, <1>1 DEF Start, Enter, SkipDictionaries, BeginDictionaries, EndDictionaries,
                      DictionariesFail, StatusInv
<1>2. CASE BeginFree \/ BeginPurchased \/ SkipPurchased \/ Reload \/ AcceptEmpty \/ Refuse
           \/ Persist \/ Cutover \/ Record \/ EndSlice
    BY <1>0, <1>2 DEF BeginFree, BeginPurchased, SkipPurchased, Reload, AcceptEmpty, Refuse,
                      Persist, control, Cutover, Record, EndSlice, StatusInv
<1>3. CASE AdapterFails \/ DbError \/ Stopped \/ Crash
    BY <1>0, <1>3 DEF AdapterFails, DbError, Stopped, InJob, Raise, Crash, StatusInv
<1>4. CASE JobFailed \/ Escape \/ Finish \/ FinishUnjudged
    BY <1>0, <1>4 DEF JobFailed, Escape, Finish, FinishUnjudged, StatusInv
<1>5. CASE ReturnFailed \/ ReturnEscaped \/ ReturnOk \/ ReturnRaises
    BY <1>5 DEF ReturnFailed, ReturnEscaped, ReturnOk, SkipPending, ReturnRaises, StatusInv
<1>6. CASE Abort \/ UNCHANGED vars
    BY <1>0, <1>6 DEF Abort, vars, control, StatusInv
<1> QED
    BY <1>1, <1>2, <1>3, <1>4, <1>5, <1>6 DEF Next

\* A job returns by four actions; afterwards nothing is said until the next job.
LEMMA OkInductive ==
    ASSUME JobInv, StagingInv, SliceInv, [Next]_vars
    PROVE  OkMeansFresh'
<1> USE KindFacts DEF At, To
<1>0. TypeOK /\ SettledInv /\ StagesInv /\ FlagsInv /\ AskedInv /\ StatusInv /\ OkMeansFresh
    BY DEF JobInv
<1>1. DoneInv'
    BY DoneInductive
<1>2. \A k : Shown(k)' <=> Settled(catalog, prov, asked, fetched, k)'
    BY DEF Shown, Settled, Target, LiveRows, RowsIn, TakenKeys, KeysTaken
<1>3. \A k \in Kinds : stage'[k] = "done" => Shown(k)'
    BY <1>1, <1>2 DEF DoneInv
<1>4. CASE ReturnOk
    <2>1. /\ pc = "return" /\ status \in {"success", "running"}
          /\ UNCHANGED <<catalog, prov, asked, fetched, aborted, fatal, status>>
          /\ stage' = [ph \in Phases |-> IF ph # "free" /\ stage[ph] = "pending"
                                         THEN "skipped" ELSE stage[ph]]
        BY <1>4 DEF ReturnOk, SkipPending, svars, history, stats
    <2>2. ASSUME ~Unjudged'
          PROVE  /\ \A ph \in Phases : stage'[ph] # "failed" \/ aborted'
                 /\ \A k \in Supported' : Shown(k)'
        <3>1. ~fatal
            BY <1>0, <2>1, <2>2 DEF StatusInv, Unjudged
        <3>2. \A ph \in Phases : stage'[ph] # "failed" \/ aborted'
            BY <1>0, <2>1, <3>1 DEF StagesInv, Over
        <3>3. \A k \in Supported' : Settled(catalog, prov, asked, fetched, k)
            BY <1>0, <2>1, <3>1 DEF SettledInv, Judging, Supported, HasPurchased
        <3> QED
            BY <1>2, <2>1, <3>2, <3>3 DEF Settled, Target, RowsIn, KeysTaken
    <2>3. \/ asked' = Supported'
          \/ asked' = {} /\ stage'["dictionaries"] = "failed"
        BY <1>0, <2>1 DEF AskedInv, Judging, Supported, HasPurchased
    <2> QED
        BY <1>3, <2>2, <2>3 DEF OkMeansFresh
<1>5. CASE ReturnFailed \/ ReturnEscaped \/ ReturnRaises
    <2>1. /\ ok' # "ok" /\ UNCHANGED <<prov, asked, status>> /\ pc \in {"return", "escape"}
          /\ stage["dictionaries"] = "failed" => stage'["dictionaries"] = "failed"
        BY <1>0, <1>5 DEF ReturnFailed, ReturnEscaped, ReturnRaises, CloseRemaining, Open,
                          history, TypeOK
    <2>2. ASSUME status' \in {"success", "failed"}
          PROVE  \/ asked' = Supported'
                 \/ asked' = {} /\ stage'["dictionaries"] = "failed"
        BY <1>0, <2>1, <2>2 DEF AskedInv, StatusInv, Judging, Over, Supported, HasPurchased
    <2> QED
        BY <1>3, <2>1, <2>2 DEF OkMeansFresh
<1>6. CASE UNCHANGED vars
    <2>1. UNCHANGED <<pc, ok, status, aborted, prov, stage, asked, fetched, catalog, fatal>>
        BY <1>6 DEF vars, svars, control, history, result, stats
    <2>2. Supported' = Supported /\ Unjudged' = Unjudged
        BY <2>1 DEF Supported, Unjudged, HasPurchased
    <2>3. \A k : Shown(k)' <=> Shown(k)
        BY <2>1 DEF Shown, LiveRows, TakenKeys
    <2> QED
        BY <1>0, <2>1, <2>2, <2>3 DEF OkMeansFresh
<1>7. ASSUME ~ReturnOk, ~ReturnFailed, ~ReturnEscaped, ~ReturnRaises, ~UNCHANGED vars
      PROVE  pc' # "returned"
    <2>1. CASE Start \/ Enter \/ SkipDictionaries \/ BeginDictionaries
               \/ EndDictionaries \/ DictionariesFail \/ BeginFree \/ BeginPurchased
               \/ SkipPurchased \/ Reload \/ AcceptEmpty \/ Refuse
        BY <2>1 DEF Start, Enter, SkipDictionaries, BeginDictionaries, EndDictionaries,
            DictionariesFail, BeginFree, BeginPurchased, SkipPurchased, Reload,
            AcceptEmpty, Refuse, After
    <2>2. CASE Persist \/ Cutover \/ Record \/ EndSlice \/ AdapterFails \/ DbError
               \/ Stopped \/ JobFailed \/ Escape \/ Finish \/ FinishUnjudged
               \/ Abort \/ Crash
        <3>1. CASE Persist
            BY <1>0, <3>1 DEF Persist, control
        <3>2. CASE Abort
            BY <3>2 DEF Abort
        <3>3. CASE ~Persist /\ ~Abort
            BY <2>2, <3>3 DEF Cutover, Record, EndSlice, AdapterFails, DbError,
                Stopped, Raise, JobFailed, Escape, Finish, FinishUnjudged, Crash, After
        <3> QED
            BY <3>1, <3>2, <3>3
    <2> QED
        BY <1>7, <2>1, <2>2 DEF Next
<1> QED
    BY <1>4, <1>5, <1>6, <1>7 DEF OkMeansFresh

LEMMA JobInvInit == Init => JobInv
<1> SUFFICES ASSUME Init PROVE JobInv
    OBVIOUS
<1> USE KindFacts
<1>1. TypeOK
    <2>1. StagingTypeOK /\ prov \in Providers
        BY StagingInvInit, SliceInvInit DEF Init, StagingInv, SliceInv
    <2>2. JobTyped
        <3>1. /\ stage \in [Phases -> Open \cup Closed]
              /\ fetched \in [Kinds -> SUBSET AllRows]
            BY DEF Init, Fresh, Open
        <3>2. jobs \in 0..MaxJobs /\ faults \in 0..MaxFaults
            BY JobsAssumption, FaultsAssumption DEF Init
        <3> QED
            BY <2>1, <3>1, <3>2 DEF Init, Fresh, JobTyped, Pcs, Statuses, Oks
    <2> QED
        BY <2>1, <2>2, JobTypedIsTyped
<1>2. SettledInv /\ FetchedInv /\ PersistInv /\ StagesInv /\ FlagsInv /\ OkMeansFresh
    BY DEF Init, Fresh, StagingInit, SettledInv, FetchedInv, PersistInv, StagesInv,
           FlagsInv, OkMeansFresh, Slicing, Over, Judging
<1>3. DoneInv /\ AskedInv /\ StatusInv
    BY DEF Init, Fresh, DoneInv, AskedInv, StatusInv, Slicing, Over, Judging
<1> QED
    BY <1>1, <1>2, <1>3 DEF JobInv

\* All that is known of a job's state.
AllInv == StagingInv /\ SliceInv /\ JobInv

LEMMA AllInvInductive == AllInv /\ [Next]_vars => AllInv'
<1> SUFFICES ASSUME AllInv, [Next]_vars PROVE AllInv'
    OBVIOUS
<1>1. StagingInv' /\ SliceInv'
    <2>1. [StagingNext]_svars
        BY StepOfStaging, ReloadBegins DEF AllInv, StagingNext, SliceInv
    <2> QED
        BY <2>1, StagingInvInductive, SliceInvInductive DEF AllInv
<1>2. TypeOK'
    <2>1. JobTyped
        BY JobTypedIsTyped DEF AllInv, JobInv
    <2>2. JobTyped' /\ StagingTypeOK'
        BY <1>1, <2>1, JobTypeInductive DEF StagingInv
    <2>3. TypeOK' <=> (StagingTypeOK /\ JobTyped)'
        BY JobTypedIsTyped, PTL
    <2> QED
        BY <2>2, <2>3
<1> QED
    BY <1>1, <1>2, SettledInductive, FetchedInductive, PersistInductive, StagesInductive,
       FlagsInductive, DoneInductive, AskedInductive, StatusInductive, OkInductive
    DEF AllInv, JobInv

LEMMA AllInvInit == Init => AllInv
BY StagingInvInit, SliceInvInit, JobInvInit DEF Init, AllInv

\* The state of a job is well typed.
THEOREM JobsTypeCorrect == Spec => []TypeOK
<1>1. AllInv => TypeOK
    BY DEF AllInv, JobInv
<1> QED
    BY <1>1, AllInvInit, AllInvInductive, PTL DEF Spec

\* However a provider's job ends, a stage that says "done" means that the catalog
\* shows the fetch; "ok" is said only when no stage failed and every kind is
\* shown, except of a fatal job whose status was lost; a job that came to its end
\* has asked for every kind, or for none when its dictionaries failed.
THEOREM OkMeansFreshHolds == Spec => []OkMeansFresh
<1>1. AllInv => OkMeansFresh
    BY DEF AllInv, JobInv
<1> QED
    BY <1>1, AllInvInit, AllInvInductive, PTL DEF Spec

\* A job that did not succeed between its free and its purchased cutover is
\* reported as a split inventory, wherever it failed and even when its status was
\* lost.
THEOREM SplitFlagReportedHolds == Spec => SplitFlagReported
<1>1. ASSUME AllInv, [Next]_vars, pc = "return",
             ok' = "failed" \/ (ok' = "ok" /\ Unjudged),
             freeFlag, HasPurchased(prov), "purchased" \notin cut
      PROVE  reported'
    <2>0. TypeOK /\ FlagsInv /\ StatusInv /\ pc \notin Over
        BY <1>1 DEF AllInv, JobInv, Over
    <2>1. ok # ok'
        BY <1>1, <2>0 DEF FlagsInv
    <2>2. ReturnFailed \/ ReturnOk
        <3>1. ReturnFailed \/ ReturnEscaped \/ ReturnOk \/ ReturnRaises \/ Abort \/ Crash
            BY <1>1, <2>1 DEF Next, Start, Enter, SkipDictionaries, BeginDictionaries,
                EndDictionaries, DictionariesFail, BeginFree, BeginPurchased,
                SkipPurchased, Reload, AcceptEmpty, Refuse, Persist, Cutover, Record,
                EndSlice, AdapterFails, DbError, Stopped, JobFailed, Escape, Finish,
                FinishUnjudged, InJob, At, vars, control, result
        <3> QED
            BY <1>1, <2>1, <3>1 DEF ReturnEscaped, ReturnRaises, Abort, Crash,
                At, result
    <2>3. fatal \/ status = "raised"
        BY <1>1, <2>0, <2>2 DEF ReturnFailed, ReturnOk, Unjudged, StatusInv
    <2> QED
        BY <1>1, <2>0, <2>2, <2>3 DEF FlagsInv, ReturnFailed, ReturnOk
<1> QED
    BY <1>1, AllInvInit, AllInvInductive, PTL DEF Spec, SplitFlagReported
=============================================================================
