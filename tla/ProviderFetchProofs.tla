------------------------- MODULE ProviderFetchProofs -------------------------
(***************************************************************************)
(* What holds of what the adapters fetch, for any lists, dictionaries,     *)
(* page sizes, moves and faults.                                           *)
(*   1. The principal and the REG numbers that an adapter's instance keeps *)
(*      between its slices.                                                *)
(*   2. The Numbering client's parallel pages, for any page limit,         *)
(*      concurrency and truncations.                                       *)
(*   3. A slice is accepted short of no more numbers than moved, unless it *)
(*      says so: the numbers a walk has lost are bounded by the moves of   *)
(*      its list, page by page, and the walks of a slice share the moves.  *)
(***************************************************************************)
EXTENDS ProviderFetch, NumberingPager, FiniteSetTheorems, WellFoundedInduction, TLAPS

\* Which stages an adapter can be in.
StageInv ==
  /\ slice \in {"free", "purchased"}
  /\ stage = "reg" => adapter = "finenumbers" /\ ~kept.loaded
  /\ stage \in {"probe", "shop"} => adapter = "novofon"
  /\ stage = "walk" /\ adapter = "finenumbers" => slice = "free" /\ kept.loaded
  /\ DOMAIN kept = {"loaded", "keys", "who"}

\* What Finenumbers has accepted of each slice, against the REG numbers.
RegInv ==
  /\ DOMAIN out = {"free", "purchased"}
  /\ adapter = "finenumbers" =>
       /\ out["purchased"].rows \subseteq kept.keys
       /\ IF kept.loaded THEN out["free"].rows \cap kept.keys = {} ELSE out["free"].rows = {} /\ kept.keys = {}

\* For whom Novofon's slices were asked, against the principal that is kept.
PrincipalInv ==
  /\ DOMAIN scoped = {"free", "purchased"}
  /\ slice = "free" => scoped["purchased"] = "nobody"
  /\ adapter = "novofon" => \A k \in DOMAIN scoped : scoped[k] = "nobody" \/ (kept.loaded /\ scoped[k] = kept.who)
  /\ adapter # "novofon" => \A k \in DOMAIN scoped : scoped[k] = "nobody"

FetchInv == StageInv /\ RegInv /\ PrincipalInv

-----------------------------------------------------------------------------
\* The slices are apart because both are measured by the same REG numbers.
LEMMA Apart == RegInv => DisjointSlices
<1> SUFFICES ASSUME RegInv, adapter = "finenumbers" PROVE out["free"].rows \cap out["purchased"].rows = {}
    BY DEF DisjointSlices
<1>1. CASE kept.loaded
    BY <1>1 DEF RegInv
<1>2. CASE ~kept.loaded
    BY <1>2 DEF RegInv
<1> QED
    BY <1>1, <1>2

\* A slice that ends without rows.
NoRows == stage' = "over" /\ \E kind \in {"failed", "refused", "limitation"} :
  out' = [out EXCEPT ![slice] = [Nothing EXCEPT !.kind = kind]]

LEMMA NoRowsKeeps ==
  ASSUME FetchInv, NoRows, UNCHANGED <<adapter, token, slice, kept, scoped>>
  PROVE  FetchInv'
<1>1. PICK kind \in {"failed", "refused", "limitation"} :
        out' = [out EXCEPT ![slice] = [Nothing EXCEPT !.kind = kind]]
    BY DEF NoRows
<1>2. [Nothing EXCEPT !.kind = kind].rows = {}
    BY DEF Nothing
<1>3. slice \in DOMAIN out /\ DOMAIN out' = DOMAIN out
    BY <1>1 DEF FetchInv, StageInv, RegInv
<1>4. out'[slice].rows = {} /\ \A k \in DOMAIN out \ {slice} : out'[k] = out[k]
    BY <1>1, <1>2, <1>3
<1>5. RegInv'
    BY <1>3, <1>4 DEF FetchInv, StageInv, RegInv
<1>6. StageInv' /\ PrincipalInv'
    BY DEF FetchInv, StageInv, NoRows, PrincipalInv
<1> QED
    BY <1>5, <1>6 DEF FetchInv

LEMMA FailIsNoRows ==
  ASSUME Fail \/ Refuse \/ Over([Nothing EXCEPT !.kind = "limitation"]) PROVE NoRows
BY DEF Fail, Refuse, Over, NoRows

\* Rows of an adapter that is not Finenumbers.
LEMMA OthersAccept ==
  ASSUME FetchInv, adapter # "finenumbers", NEW o, Over(o),
         UNCHANGED <<adapter, token, slice, kept, scoped>>
  PROVE  FetchInv'
<1>1. DOMAIN out' = DOMAIN out
    BY DEF Over
<1> QED
    BY <1>1 DEF FetchInv, StageInv, RegInv, PrincipalInv, Over

\* The walks begin.
LEMMA StartKeeps ==
  ASSUME FetchInv, NEW scopes, Start(scopes), UNCHANGED <<adapter, token, slice, kept, scoped>>,
         adapter # "finenumbers", adapter = "novofon" => stage = "probe"
  PROVE  FetchInv'
BY DEF FetchInv, StageInv, RegInv, PrincipalInv, Start

\* A step that leaves the stage and the rows.
LEMMA StaysKeeps ==
  ASSUME FetchInv, UNCHANGED <<adapter, token, slice, kept, scoped, stage, out>> PROVE FetchInv'
BY DEF FetchInv, StageInv, RegInv, PrincipalInv

-----------------------------------------------------------------------------
LEMMA PlansKeep == ASSUME FetchInv, Plans PROVE FetchInv'
<1>0. {"loaded", "who"} \subseteq DOMAIN kept
    BY DEF FetchInv, StageInv
<1>1. CASE Limitation
    BY <1>1, FailIsNoRows, NoRowsKeeps DEF Limitation, vendor
<1>2. CASE PlanExolve
  <2>1. PICK doc \in BOOLEAN, plain \in BOOLEAN :
          Start(IF doc /\ ~plain THEN InOrder(Listed) ELSE <<0>>)
      BY <1>2 DEF PlanExolve
  <2> QED
      BY <1>2, <2>1, StartKeeps DEF PlanExolve, Opens, vendor
<1>3. CASE PlanMcn
  <2>1. \E scopes : Start(scopes)
      BY <1>3 DEF PlanMcn
  <2> QED
      BY <1>3, <2>1, StartKeeps DEF PlanMcn, Opens, vendor
<1>4. CASE PlanVoximplant
  <2>1. CASE Fail
      BY <1>4, <2>1, FailIsNoRows, NoRowsKeeps DEF PlanVoximplant, Opens, vendor
  <2>2. CASE Start(InOrder(Stocked))
      BY <1>4, <2>2, StartKeeps DEF PlanVoximplant, Opens, vendor
  <2> QED
      BY <1>4, <2>1, <2>2 DEF PlanVoximplant
<1>5. CASE PlanWhole
    BY <1>5, StartKeeps DEF PlanWhole, Opens, vendor
<1>6. CASE PlanFiles
    BY <1>6, StartKeeps DEF PlanFiles, Opens, vendor
<1>7. CASE PlanFinenumbers
  <2>1. /\ stage = "open" /\ adapter = "finenumbers" /\ UNCHANGED <<adapter, token, slice, kept, scoped>>
      BY <1>7 DEF PlanFinenumbers, Opens, vendor
  <2>2. CASE ~kept.loaded
      BY <1>7, <2>1, <2>2 DEF PlanFinenumbers, RegKnown, FetchInv, StageInv, RegInv, PrincipalInv
  <2>3. CASE kept.loaded /\ slice = "free"
      BY <1>7, <2>1, <2>3 DEF PlanFinenumbers, RegKnown, Start, FetchInv, StageInv, RegInv, PrincipalInv
  <2>4. CASE kept.loaded /\ slice = "purchased"
    <3>1. out' = [out EXCEPT !["purchased"] = [kind |-> "rows", rows |-> kept.keys, warned |-> warned]]
          /\ stage' = "over"
        BY <1>7, <2>4 DEF PlanFinenumbers, RegKnown, Accept, Over
    <3>2. DOMAIN out' = DOMAIN out /\ out'["purchased"].rows = kept.keys /\ out'["free"] = out["free"]
        BY <3>1 DEF FetchInv, RegInv
    <3> QED
        BY <2>1, <2>4, <3>1, <3>2 DEF FetchInv, StageInv, RegInv, PrincipalInv
  <2> QED
      BY <2>2, <2>3, <2>4 DEF FetchInv, StageInv
<1>8. CASE Resolve
  <2>1. stage = "open" /\ adapter = "novofon" /\ UNCHANGED <<adapter, token, slice>>
      BY <1>8 DEF Resolve, vendor
  <2>2. CASE Fail /\ UNCHANGED <<scoped, kept>>
      BY <2>1, <2>2, FailIsNoRows, NoRowsKeeps
  <2>3. CASE kept.loaded /\ Adopt(kept.who) /\ UNCHANGED kept
      BY <2>1, <2>3 DEF Adopt, FetchInv, StageInv, RegInv, PrincipalInv
  <2>4. ASSUME ~kept.loaded, NEW who, Adopt(who), Keep(who) PROVE FetchInv'
    <3>1. kept'.loaded /\ kept'.who = who
        BY <1>0, <2>4 DEF Keep
    <3>2. DOMAIN scoped' = DOMAIN scoped /\ scoped'[slice] = who
          /\ \A k \in DOMAIN scoped \ {slice} : scoped'[k] = "nobody"
        BY <2>1, <2>4 DEF Adopt, FetchInv, StageInv, PrincipalInv
    <3>3. \A k \in DOMAIN scoped' : scoped'[k] = "nobody" \/ (kept'.loaded /\ scoped'[k] = kept'.who)
        BY <3>1, <3>2
    <3>4. slice = "free" => scoped'["purchased"] = "nobody"
        BY <3>2 DEF FetchInv, PrincipalInv
    <3>5. PrincipalInv'
        BY <2>1, <3>2, <3>3, <3>4 DEF FetchInv, PrincipalInv
    <3> QED
        BY <2>1, <2>4, <3>5 DEF Adopt, Keep, FetchInv, StageInv, RegInv
  <2>5. \/ kept.loaded /\ Adopt(kept.who) /\ UNCHANGED kept
        \/ Fail /\ UNCHANGED <<scoped, kept>>
        \/ ~kept.loaded /\ \E who : Adopt(who) /\ Keep(who)
      BY <1>8 DEF Resolve
  <2> QED
      BY <2>2, <2>3, <2>4, <2>5
<1>9. CASE Probe
    BY <1>9, StartKeeps DEF Probe, vendor, FetchInv, StageInv
<1> QED
    BY <1>1, <1>2, <1>3, <1>4, <1>5, <1>6, <1>7, <1>8, <1>9 DEF Plans

LEMMA MergesKeep == ASSUME FetchInv, Merges PROVE FetchInv'
<1>1. ASSUME NEW a, Merged(a)
      PROVE  stage = "walk" /\ adapter = a /\ UNCHANGED <<adapter, token, slice, kept, scoped>>
    BY <1>1 DEF Merged, vendor
<1>2. CASE Fail /\ (MergeExolve \/ MergeMcn \/ MergeNovofon \/ MergeFinenumbers)
    BY <1>1, <1>2, FailIsNoRows, NoRowsKeeps DEF MergeExolve, MergeMcn, MergeNovofon, MergeFinenumbers
<1>3. CASE MergeExolve \/ MergeMcn
    BY <1>1, <1>2, <1>3, OthersAccept DEF MergeExolve, MergeMcn, Accept
<1>4. CASE MergeVoximplant
    BY <1>1, <1>4, OthersAccept DEF MergeVoximplant
<1>5. CASE MergeRest
    BY <1>1, <1>5, OthersAccept DEF MergeRest, Accept
<1>6. CASE MergeNovofon
  <2>1. CASE stage' = "shop" /\ UNCHANGED out
      BY <1>1, <1>6, <2>1 DEF MergeNovofon, FetchInv, StageInv, RegInv, PrincipalInv
  <2>2. CASE Accept(ReadNumbers)
      BY <1>1, <1>6, <2>2, OthersAccept DEF MergeNovofon, Accept
  <2> QED
      BY <1>2, <1>6, <2>1, <2>2 DEF MergeNovofon
<1>7. CASE RegLoaded
  <2>1. /\ stage = "reg" /\ adapter = "finenumbers" /\ ~kept.loaded
        /\ out["free"].rows = {} /\ out["purchased"].rows = {}
        /\ UNCHANGED <<adapter, token, slice, scoped>>
        /\ kept' = [loaded |-> TRUE, keys |-> ReadNumbers, who |-> "nobody"]
      BY <1>7 DEF RegLoaded, vendor, FetchInv, StageInv, RegInv
  <2>2. CASE slice = "free"
    <3>1. stage' = "walk" /\ UNCHANGED out
        BY <1>7, <2>2 DEF RegLoaded, Start
    <3>2. out["purchased"].rows \subseteq ReadNumbers
        BY <2>1
    <3> QED
        BY <2>1, <2>2, <3>1, <3>2 DEF FetchInv, StageInv, RegInv, PrincipalInv
  <2>3. CASE slice # "free"
    <3>1. /\ stage' = "over"
          /\ out' = [out EXCEPT ![slice] = [kind |-> "rows", rows |-> ReadNumbers, warned |-> warned]]
        BY <1>7, <2>3 DEF RegLoaded, Accept, Over
    <3>2. /\ slice = "purchased" /\ DOMAIN out' = DOMAIN out
          /\ out'["purchased"].rows = ReadNumbers /\ out'["free"] = out["free"]
        BY <2>3, <3>1 DEF FetchInv, StageInv, RegInv
    <3> QED
        BY <2>1, <3>1, <3>2 DEF FetchInv, StageInv, RegInv, PrincipalInv
  <2> QED
      BY <2>2, <2>3
<1>8. CASE MergeFinenumbers
  <2>1. /\ stage = "walk" /\ adapter = "finenumbers" /\ UNCHANGED <<adapter, token, slice, kept, scoped>>
        /\ slice = "free" /\ kept.loaded
      BY <1>1, <1>8 DEF MergeFinenumbers, FetchInv, StageInv
  <2>2. CASE \E rows : Accept(rows \ kept.keys)
    <3>1. PICK rows : Accept(rows \ kept.keys)
        BY <2>2
    <3>2. /\ stage' = "over"
          /\ out' = [out EXCEPT !["free"] = [kind |-> "rows", rows |-> rows \ kept.keys, warned |-> warned]]
        BY <2>1, <3>1 DEF Accept, Over
    <3>3. /\ DOMAIN out' = DOMAIN out
          /\ out'["free"].rows = rows \ kept.keys /\ out'["purchased"] = out["purchased"]
        BY <3>2 DEF FetchInv, RegInv
    <3> QED
        BY <2>1, <3>2, <3>3 DEF FetchInv, StageInv, RegInv, PrincipalInv
  <2>3. Fail \/ \E rows : Accept(rows \ kept.keys)
      BY <1>8 DEF MergeFinenumbers
  <2> QED
      BY <1>2, <1>8, <2>2, <2>3
<1> QED
    BY <1>3, <1>4, <1>5, <1>6, <1>7, <1>8 DEF Merges

\* The shop is Novofon's.
LEMMA ShopKeeps == ASSUME FetchInv, Shopping \/ UserBreaks PROVE FetchInv'
<1>1. stage = "shop" /\ adapter = "novofon" /\ UNCHANGED <<adapter, token, slice, kept, scoped>>
    BY DEF Shopping, AwaitReset, UserAnswers, UserBreaks, Asks, vendor, FetchInv, StageInv
<1>2. Refuse \/ (\E rows : Accept(rows)) \/ UNCHANGED <<stage, out>>
    BY DEF Shopping, AwaitReset, UserAnswers, UserBreaks
<1> QED
    BY <1>1, <1>2, FailIsNoRows, NoRowsKeeps, OthersAccept, StaysKeeps DEF Accept

LEMMA WalkKeeps ==
  ASSUME FetchInv, \/ \E s \in Running : ReadPage(s) \/ Stumble(s)
                   \/ BreakOpen \/ Moves
  PROVE  FetchInv'
<1>1. UNCHANGED <<adapter, token, slice, kept, scoped>>
    BY DEF ReadPage, Stumble, BreakOpen, Moves, vendor
<1>2. Fail \/ UNCHANGED <<stage, out>>
    BY DEF ReadPage, Stumble, BreakOpen, Moves
<1> QED
    BY <1>1, <1>2, FailIsNoRows, NoRowsKeeps, StaysKeeps

LEMMA InitFetchInv == Init => FetchInv
BY DEF Init, FetchInv, StageInv, RegInv, PrincipalInv, Nothing

LEMMA StepFetchInv == FetchInv /\ [Next]_vars => FetchInv'
<1> SUFFICES ASSUME FetchInv, [Next]_vars PROVE FetchInv'
    OBVIOUS
<1>1. CASE Plans
    BY <1>1, PlansKeep
<1>2. CASE Merges
    BY <1>2, MergesKeep
<1>3. CASE Shopping \/ UserBreaks
    BY <1>3, ShopKeeps
<1>4. CASE NextSlice
  <2>1. stage = "over" /\ slice' = "purchased" /\ stage' = "open" /\ UNCHANGED <<adapter, token, kept, scoped, out>>
      BY <1>4 DEF NextSlice, vendor
  <2> QED
      BY <2>1 DEF FetchInv, StageInv, RegInv, PrincipalInv
<1>5. CASE (\E s \in Running : ReadPage(s) \/ Stumble(s)) \/ BreakOpen \/ Moves
    BY <1>5, WalkKeeps
<1>6. CASE UNCHANGED vars
    BY <1>6, StaysKeeps DEF vars, vendor
<1> QED
    BY <1>1, <1>2, <1>3, <1>4, <1>5, <1>6 DEF Next, Reads, Faults

\* Finenumbers: what is free is never also purchased, though REG may have
\* changed, or failed to be read, between the slices
\* (finenumbers/provider.py:63-77, :140-177, :202).
THEOREM DisjointSlicesHolds == Spec => []DisjointSlices
<1>1. FetchInv => DisjointSlices
    BY Apart DEF FetchInv
<1> QED
    BY <1>1, InitFetchInv, StepFetchInv, PTL DEF Spec

\* Novofon's slices are asked for one principal, whatever the vendor answers
\* about the token and whichever classification fails
\* (novofon/provider.py:65-73, client.py:126-179).
THEOREM OnePrincipalHolds == Spec => []OnePrincipal
<1>1. FetchInv => OnePrincipal
    BY DEF FetchInv, PrincipalInv, OnePrincipal
<1> QED
    BY <1>1, InitFetchInv, StepFetchInv, PTL DEF Spec

-----------------------------------------------------------------------------
(* The pager: numbers, offsets and pages                                   *)

\* A set of naturals that is not empty has a least element, and below a bound
\* a greatest one.
LEMMA LeastNat ==
  ASSUME NEW S \in SUBSET Nat, S # {}
  PROVE  \E i \in S : \A j \in S : i <= j
<1>1. PICK x \in S : \A y \in S : ~ (<<y, x>> \in OpToRel(<, Nat))
    BY NatLessThanWellFounded, WFMin
<1>2. \A y \in S : ~ (y < x)
    BY <1>1 DEF OpToRel
<1> QED
    BY <1>2

LEMMA GreatestNat ==
  ASSUME NEW n \in Nat, NEW S \in SUBSET (0..n), S # {}
  PROVE  \E i \in S : \A j \in S : j <= i
<1> DEFINE T == {n - i : i \in S}
<1>1. T \subseteq Nat /\ T # {}
  <2>1. \A i \in S : i \in 0..n /\ n - i \in Nat
      OBVIOUS
  <2> QED
      BY <2>1
<1>2. PICK x \in T : \A y \in T : x <= y
    BY <1>1, LeastNat
<1>3. PICK i \in S : x = n - i
    OBVIOUS
<1>4. \A j \in S : j <= i
    BY <1>2, <1>3
<1> QED
    BY <1>4

LEMMA MinFacts ==
  ASSUME NEW S \in SUBSET Nat, S # {}
  PROVE  Min(S) \in S /\ \A j \in S : Min(S) <= j
BY LeastNat DEF Min

LEMMA TruthFacts ==
  ASSUME size \in Nat, NEW off \in Nat
  PROVE  /\ Truth(off) \in 0..PageLimit
         /\ Truth(off) = IF off >= size THEN 0
                         ELSE IF size - off < PageLimit THEN size - off ELSE PageLimit
<1>1. CASE off >= size
    BY <1>1, PagerAssumption DEF Truth
<1>2. CASE off < size
  <2>1. {PageLimit, size - off} \in SUBSET Nat /\ {PageLimit, size - off} # {}
      BY <1>2, PagerAssumption
  <2>2. /\ Min({PageLimit, size - off}) \in {PageLimit, size - off}
        /\ Min({PageLimit, size - off}) <= PageLimit
        /\ Min({PageLimit, size - off}) <= size - off
      BY <2>1, MinFacts
  <2>3. Truth(off) = Min({PageLimit, size - off})
      BY <1>2 DEF Truth
  <2> QED
      BY <1>2, <2>1, <2>2, <2>3, PagerAssumption
<1> QED
    BY <1>1, <1>2

\* Offsets from 0 up to an end, a page apart.
Lined(D, end) ==
  /\ D \subseteq Nat /\ end \in Nat /\ 0 \in D \cup {end}
  /\ \A a \in D : a + PageLimit \in D \cup {end} /\ a + PageLimit <= end
  /\ \A a, b \in D : a < b => a + PageLimit <= b

\* The offset of a page, and the offsets of a wave.
Nth(i) == i * PageLimit
WaveOf(n, c) == {n + Nth(i) : i \in 0..(c - 1)}

LEMMA NthNat == Nth(0) = 0 /\ \A i \in Nat : Nth(i) \in Nat
BY PagerAssumption DEF Nth

LEMMA NthSum ==
  ASSUME NEW i \in Nat, NEW j \in Nat
  PROVE  Nth(i + j) = Nth(i) + Nth(j) /\ Nth(i + 1) = Nth(i) + PageLimit
BY PagerAssumption DEF Nth

LEMMA NthApart ==
  /\ \A i, j \in Nat : i < j => Nth(i) + PageLimit <= Nth(j)
  /\ \A i, j \in Nat : Nth(i) < Nth(j) + PageLimit => Nth(i) <= Nth(j)
<1>1. PageLimit \in Nat \ {0}
    BY PagerAssumption
<1>2. \A i, j \in Nat : i < j => Nth(i) + PageLimit <= Nth(j)
  <2> TAKE i, j \in Nat
  <2> HAVE i < j
  <2> DEFINE k == j - (i + 1)
  <2>1. k \in Nat /\ (i + 1) + k = j /\ i + 1 \in Nat
      OBVIOUS
  <2> HIDE DEF k
  <2>2. Nth(j) = Nth(i + 1) + Nth(k) /\ Nth(k) \in Nat
      BY <2>1, NthNat, NthSum
  <2>3. Nth(i + 1) = Nth(i) + PageLimit /\ Nth(i) \in Nat
      BY NthNat, NthSum
  <2> QED
      BY <1>1, <2>2, <2>3
<1>3. \A i, j \in Nat : Nth(i) < Nth(j) + PageLimit => Nth(i) <= Nth(j)
  <2> TAKE i, j \in Nat
  <2>1. i < j => Nth(i) + PageLimit <= Nth(j)
      BY <1>2
  <2>2. j < i => Nth(j) + PageLimit <= Nth(i)
      BY <1>2
  <2>3. Nth(i) \in Nat /\ Nth(j) \in Nat
      BY NthNat
  <2> QED
      BY <1>1, <2>1, <2>2, <2>3
<1> QED
    BY <1>2, <1>3

\* A line goes on with a wave.
LEMMA WaveLined ==
  ASSUME NEW D, NEW n, Lined(D, n), NEW c \in Nat
  PROVE  Lined(D \cup WaveOf(n, c), n + Nth(c))
<1> DEFINE W == WaveOf(n, c)
           end == n + Nth(c)
<1>1. /\ n \in Nat /\ D \subseteq Nat /\ Nth(c) \in Nat /\ end \in Nat /\ n <= end
      /\ PageLimit \in Nat
    BY NthNat, NthApart, PagerAssumption DEF Lined
<1>2. ASSUME NEW a \in W
      PROVE  /\ a \in Nat /\ a >= n
             /\ a + PageLimit \in W \cup {end} /\ a + PageLimit <= end
  <2>1. PICK i \in 0..(c - 1) : a = n + Nth(i)
      BY <1>2 DEF WaveOf
  <2>2. /\ i \in Nat /\ i < c /\ Nth(i) \in Nat /\ Nth(i + 1) = Nth(i) + PageLimit
        /\ Nth(i) + PageLimit <= Nth(c)
    <3>1. i \in Nat /\ i < c
        OBVIOUS
    <3> QED
        BY <3>1, NthNat, NthSum, NthApart
  <2>3. CASE i + 1 = c
      BY <1>1, <2>1, <2>2, <2>3
  <2>4. CASE i + 1 \in 0..(c - 1)
    <3>1. a + PageLimit = n + Nth(i + 1)
        BY <1>1, <2>1, <2>2
    <3>2. n + Nth(i + 1) \in WaveOf(n, c)
        BY <2>4 DEF WaveOf
    <3> QED
        BY <1>1, <2>1, <2>2, <3>1, <3>2
  <2>5. i + 1 = c \/ i + 1 \in 0..(c - 1)
      BY <2>2
  <2> QED
      BY <2>3, <2>4, <2>5
<1>3. ASSUME NEW a \in W, NEW b \in W, a < b PROVE a + PageLimit <= b
  <2>1. PICK i \in 0..(c - 1) : a = n + Nth(i)
      BY <1>3 DEF WaveOf
  <2>2. PICK j \in 0..(c - 1) : b = n + Nth(j)
      BY <1>3 DEF WaveOf
  <2>3. i < j => Nth(i) + PageLimit <= Nth(j)
      BY NthNat, NthApart
  <2>4. j = i \/ (j < i => Nth(j) + PageLimit <= Nth(i))
      BY NthNat, NthApart
  <2>5. Nth(i) \in Nat /\ Nth(j) \in Nat
      BY NthNat, NthApart
  <2> QED
      BY <1>1, <1>3, <2>1, <2>2, <2>3, <2>4, <2>5
<1>4. n \in W \cup {end}
  <2>1. CASE c = 0
      BY <1>1, <2>1, NthNat
  <2>2. CASE c # 0
    <3>1. 0 \in 0..(c - 1) /\ n = n + Nth(0)
        BY <1>1, <2>2, NthNat
    <3> QED
        BY <3>1 DEF WaveOf
  <2> QED
      BY <2>1, <2>2
<1>5. \A a \in D : a + PageLimit \in D \cup {n} /\ a + PageLimit <= n
    BY DEF Lined
<1> HIDE DEF W, end
<1>6. D \cup W \subseteq Nat
    BY <1>1, <1>2
<1>7. 0 \in (D \cup W) \cup {end}
    BY <1>4 DEF Lined
<1>8. \A a \in D \cup W : a + PageLimit \in (D \cup W) \cup {end} /\ a + PageLimit <= end
    BY <1>1, <1>2, <1>4, <1>5
<1>9. ASSUME NEW a \in D \cup W, NEW b \in D \cup W, a < b PROVE a + PageLimit <= b
  <2>1. CASE a \in D /\ b \in D
      BY <1>9, <2>1 DEF Lined
  <2>2. CASE a \in D /\ b \in W
      BY <1>1, <1>2, <1>5, <2>2
  <2>3. CASE a \in W /\ b \in D
      BY <1>1, <1>2, <1>5, <1>9, <2>3
  <2>4. CASE a \in W /\ b \in W
      BY <1>3, <1>9, <2>4
  <2> QED
      BY <1>9, <2>1, <2>2, <2>3, <2>4
<1>10. Lined(D \cup W, end)
    BY <1>1, <1>6, <1>7, <1>8, <1>9 DEF Lined
<1> QED
    BY <1>10 DEF W, end

\* The part of a wave below one of its offsets is a wave.
LEMMA WaveBelow ==
  ASSUME NEW n \in Nat, NEW c \in Nat, NEW f \in WaveOf(n, c)
  PROVE  \E j \in Nat : /\ f = n + Nth(j)
                        /\ {o \in WaveOf(n, c) : o < f} = WaveOf(n, j)
<1>1. PICK j \in 0..(c - 1) : f = n + Nth(j)
    BY DEF WaveOf
<1>2. j \in Nat /\ Nth(j) \in Nat
    BY NthNat, NthApart
<1>3. ASSUME NEW i \in 0..(c - 1) PROVE n + Nth(i) < f <=> i < j
  <2>1. /\ i < j => Nth(i) + PageLimit <= Nth(j)
        /\ Nth(i) \in Nat
      BY <1>2, NthNat, NthApart
  <2>2. j = i \/ (j < i => Nth(j) + PageLimit <= Nth(i))
      BY <1>2, NthNat, NthApart
  <2> QED
      BY <1>1, <1>2, <2>1, <2>2, PagerAssumption
<1>4. {o \in WaveOf(n, c) : o < f} = WaveOf(n, j)
    BY <1>2, <1>3 DEF WaveOf
<1> QED
    BY <1>1, <1>2, <1>4

\* Full pages on a line are its items without a hole.
LEMMA LinedItems ==
  ASSUME NEW D, NEW end, Lined(D, end)
  PROVE  UNION {(o + 1)..(o + PageLimit) : o \in D} = 1..end
<1>1. D \subseteq Nat /\ end \in Nat /\ PageLimit \in Nat \ {0}
    BY PagerAssumption DEF Lined
<1>2. ASSUME NEW o \in D, NEW x \in (o + 1)..(o + PageLimit) PROVE x \in 1..end
  <2>1. o \in Nat /\ o + PageLimit <= end
      BY <1>1 DEF Lined
  <2> QED
      BY <1>1, <2>1
<1>3. ASSUME NEW x \in 1..end PROVE \E o \in D : x \in (o + 1)..(o + PageLimit)
  <2> DEFINE S == {o \in D : o < x}
  <2>1. S \subseteq 0..x /\ x \in Nat
    <3>1. x \in Nat
        BY <1>1
    <3>2. \A o \in S : o \in 0..x
        BY <1>1, <3>1
    <3> QED
        BY <3>1, <3>2
  <2>2. S # {}
    <3>1. 0 \in D
        BY <1>1 DEF Lined
    <3> QED
        BY <1>1, <3>1
  <2>3. PICK o \in S : \A s \in S : s <= o
      BY <2>1, <2>2, GreatestNat
  <2>4. o \in D /\ o \in Nat /\ o < x /\ o + PageLimit \in D \cup {end}
      BY <1>1 DEF Lined
  <2>5. x <= o + PageLimit
    <3> SUFFICES ASSUME o + PageLimit < x PROVE FALSE
        BY <1>1, <2>4
    <3>1. o + PageLimit \in S
        BY <1>1, <2>4
    <3> QED
        BY <1>1, <2>3, <2>4, <3>1
  <2> QED
      BY <1>1, <2>4, <2>5
<1> QED
    BY <1>2, <1>3

-----------------------------------------------------------------------------
(* The pager: waves                                                        *)

\* Full pages on a line.
LineOf(p, end) == Lined(DOMAIN p, end) /\ \A o \in DOMAIN p : p[o] = PageLimit

PagesOf(p, W) == DOMAIN p \subseteq W /\ \A o \in DOMAIN p : p[o] \in 0..PageLimit

\* An offset of the wave is on its way, has come, or was called off by a short
\* page below it.
WaveInv ==
  LET W == WaveOf(next, conc)
  IN /\ asked \subseteq W /\ PagesOf(landed, W) /\ PagesOf(got, W)
     /\ asked \cap (DOMAIN landed \cup DOMAIN got) = {} /\ DOMAIN landed \cap DOMAIN got = {}
     /\ \A o \in W : \/ o \in asked \/ o \in DOMAIN landed \/ o \in DOMAIN got
                     \/ \E s \in DOMAIN got : s < o /\ Short(got[s])

GapInv ==
  /\ size \in Nat /\ next \in Nat /\ conc \in Nat \ {0}
  /\ pc \notin {"pages", "failed"} => asked = {} /\ landed = <<>> /\ got = <<>>
  /\ pc \in {"wave", "pages"} => LineOf(pages, next)
  /\ pc = "pages" => WaveInv
  /\ pc = "peek" => /\ DOMAIN pages \subseteq Nat
                    /\ next \in DOMAIN pages /\ pages[next] \in 0..PageLimit
                    /\ Short(pages[next]) /\ LineOf(Below(pages, next), next)
  /\ pc = "done" => \E n \in Nat : result = 1..n

LEMMA BelowFacts ==
  ASSUME NEW p, NEW off
  PROVE  /\ DOMAIN Below(p, off) = {o \in DOMAIN p : o < off}
         /\ \A o \in DOMAIN p : o < off => Below(p, off)[o] = p[o]
BY DEF Below, Restrict

\* The items of what is returned.
LEMMA ShortItems ==
  ASSUME NEW p, DOMAIN p \subseteq Nat,
         NEW f \in DOMAIN p, p[f] \in 0..PageLimit, Short(p[f]),
         LineOf(Below(p, f), f)
  PROVE  Items(Restrict(p, Kept(p))) = 1..(f + p[f])
<1> DEFINE D == {o \in DOMAIN p : o < f}
           K == Kept(p)
<1>1. PageLimit \in Nat /\ p[f] \in Nat /\ p[f] < PageLimit /\ f \in Nat
    BY PagerAssumption DEF Short
<1>2. Lined(D, f) /\ \A o \in D : p[o] = PageLimit
  <2>1. DOMAIN Below(p, f) = D /\ \A o \in D : Below(p, f)[o] = p[o]
      BY BelowFacts
  <2> QED
      BY <2>1 DEF LineOf
<1>3. K = D \cup {f}
  <2>1. \A o \in DOMAIN p : o \in Nat
      OBVIOUS
  <2>2. \A o \in D : ~Short(p[o])
      BY <1>1, <1>2 DEF Short
  <2>3. \A o \in DOMAIN p : o \in K <=> \A s \in DOMAIN p : s < o => ~Short(p[s])
      BY DEF Kept
  <2>4. \A o \in DOMAIN p : o \in K <=> o <= f
      BY <1>1, <2>1, <2>2, <2>3
  <2>5. K \subseteq DOMAIN p
      BY DEF Kept
  <2> HIDE DEF K
  <2> QED
      BY <1>1, <2>1, <2>4, <2>5
<1>4. Items(Restrict(p, K)) = UNION {(o + 1)..(o + p[o]) : o \in K}
  <2> HIDE DEF K
  <2> QED
      BY DEF Items, Restrict
<1>5. UNION {(o + 1)..(o + p[o]) : o \in K}
      = (UNION {(o + 1)..(o + PageLimit) : o \in D}) \cup ((f + 1)..(f + p[f]))
  <2> DEFINE of(o) == (o + 1)..(o + p[o])
  <2>1. UNION {of(o) : o \in D} = UNION {(o + 1)..(o + PageLimit) : o \in D}
      BY <1>2
  <2>2. UNION {of(o) : o \in D \cup {f}} = (UNION {of(o) : o \in D}) \cup of(f)
    <3> HIDE DEF of, D
    <3> QED
        OBVIOUS
  <2>3. UNION {of(o) : o \in K} = UNION {of(o) : o \in D \cup {f}}
    <3> HIDE DEF of, D, K
    <3> QED
        BY <1>3
  <2> HIDE DEF D, K
  <2> QED
      BY <2>1, <2>2, <2>3
<1>6. UNION {(o + 1)..(o + PageLimit) : o \in D} = 1..f
    BY <1>2, LinedItems
<1>7. (1..f) \cup ((f + 1)..(f + p[f])) = 1..(f + p[f])
    BY <1>1
<1> HIDE DEF D, K
<1> QED
    BY <1>4, <1>5, <1>6, <1>7 DEF K

LEMMA FullItems ==
  ASSUME NEW p, NEW end, LineOf(p, end)
  PROVE  Items(Restrict(p, Kept(p))) = 1..end
<1> DEFINE D == DOMAIN p
<1>1. Lined(D, end) /\ \A o \in D : p[o] = PageLimit
    BY DEF LineOf
<1>2. Kept(p) = D
    BY <1>1, PagerAssumption DEF Kept, Short
<1>3. Items(Restrict(p, D)) = UNION {(o + 1)..(o + p[o]) : o \in D}
    BY DEF Items, Restrict
<1>4. UNION {(o + 1)..(o + p[o]) : o \in D} = UNION {(o + 1)..(o + PageLimit) : o \in D}
    BY <1>1
<1> QED
    BY <1>1, <1>2, <1>3, <1>4, LinedItems

\* A wave that has ended: on with the line, or the line up to its first short page.
LEMMA WaveEnds ==
  ASSUME GapInv, pc = "pages", asked = {}, landed = <<>>
  PROVE  LET p == Joined(got, pages)
             ends == {o \in DOMAIN p : Short(p[o])}
             first == Min(ends)
         IN /\ DOMAIN p \subseteq Nat /\ ends \subseteq DOMAIN p
            /\ ends = {} => LineOf(p, Advance)
            /\ ends # {} => /\ first \in DOMAIN got /\ first \in WaveOf(next, conc)
                            /\ first \in DOMAIN p /\ first \in Nat /\ first >= next
                            /\ p[first] = got[first] /\ p[first] \in 0..PageLimit
                            /\ Short(p[first])
                            /\ LineOf(Below(p, first), first)
<1> DEFINE p == Joined(got, pages)
           ends == {o \in DOMAIN p : Short(p[o])}
           first == Min(ends)
           W == WaveOf(next, conc)
           D == DOMAIN pages
<1>1. /\ Lined(D, next) /\ \A o \in D : pages[o] = PageLimit
      /\ next \in Nat /\ conc \in Nat \ {0} /\ PageLimit \in Nat \ {0}
      /\ PagesOf(got, W) /\ DOMAIN landed = {}
      /\ \A o \in W : o \in DOMAIN got \/ \E s \in DOMAIN got : s < o /\ Short(got[s])
  <2>1. WaveInv /\ LineOf(pages, next)
      BY DEF GapInv
  <2>2. DOMAIN landed = {}
      OBVIOUS
  <2> QED
      BY <2>1, <2>2, PagerAssumption DEF GapInv, WaveInv, LineOf
<1>2. /\ DOMAIN p = DOMAIN got \cup D
      /\ \A o \in DOMAIN got : p[o] = got[o]
      /\ \A o \in D : o \notin DOMAIN got => p[o] = pages[o]
    BY DEF Joined
<1>3. \A o \in W : o \in Nat /\ o >= next
  <2> TAKE o \in W
  <2>1. PICK i \in 0..(conc - 1) : o = next + Nth(i)
      BY DEF WaveOf
  <2>2. Nth(i) \in Nat
      BY <1>1, NthNat
  <2> QED
      BY <1>1, <2>1, <2>2
<1>4. \A o \in D : o \in Nat /\ o < next /\ o \notin DOMAIN got
  <2>1. \A o \in D : o \in Nat /\ o < next
      BY <1>1 DEF Lined
  <2>2. \A o \in DOMAIN got : o \in Nat /\ o >= next
      BY <1>1, <1>3 DEF PagesOf
  <2> QED
      BY <1>1, <2>1, <2>2
<1>5. \A o \in DOMAIN got : o \in W /\ got[o] \in 0..PageLimit
    BY <1>1 DEF PagesOf
<1>6. DOMAIN p \subseteq Nat
    BY <1>2, <1>3, <1>4, <1>5
<1> HIDE DEF p, W, D
<1>7. ends \subseteq DOMAIN p /\ ends \subseteq DOMAIN got
    BY <1>1, <1>2, <1>4 DEF Short
<1>8. ASSUME ends = {} PROVE LineOf(p, Advance)
  <2>1. \A o \in DOMAIN got : ~Short(got[o])
      BY <1>2, <1>8
  <2>2. DOMAIN got = W
      BY <1>1, <1>5, <2>1
  <2>3. Advance = next + Nth(conc)
      BY DEF Advance, Nth
  <2>4. Lined(D \cup W, Advance)
      BY <1>1, <2>3, WaveLined DEF W
  <2>5. \A o \in DOMAIN p : p[o] = PageLimit
      BY <1>1, <1>2, <1>4, <1>5, <2>1 DEF Short
  <2>6. DOMAIN p = D \cup W
      BY <1>2, <2>2
  <2> QED
      BY <2>4, <2>5, <2>6 DEF LineOf
<1>9. ASSUME ends # {}
      PROVE  /\ first \in DOMAIN got /\ first \in W
             /\ first \in DOMAIN p /\ first \in Nat /\ first >= next
             /\ p[first] = got[first] /\ p[first] \in 0..PageLimit
             /\ Short(p[first])
             /\ LineOf(Below(p, first), first)
  <2>1. first \in ends /\ \A o \in ends : first <= o
      BY <1>6, <1>7, <1>9, MinFacts
  <2> HIDE DEF first
  <2>2. /\ first \in DOMAIN got /\ first \in W /\ first \in DOMAIN p /\ first \in Nat
        /\ first >= next /\ p[first] = got[first] /\ p[first] \in 0..PageLimit /\ Short(p[first])
      BY <1>2, <1>3, <1>5, <1>7, <2>1
  <2>3. \A o \in DOMAIN got : o < first => ~Short(got[o])
    <3>1. \A o \in DOMAIN got : Short(got[o]) => o \in ends /\ o \in Nat
        BY <1>2, <1>6
    <3> QED
        BY <2>1, <2>2, <3>1
  <2>4. PICK j \in Nat : first = next + Nth(j) /\ {o \in W : o < first} = WaveOf(next, j)
      BY <1>1, <2>2, WaveBelow DEF W
  <2>5. \A o \in W : o < first => o \in DOMAIN got
      BY <1>1, <1>3, <1>5, <2>2, <2>3
  <2>6. {o \in DOMAIN p : o < first} = D \cup WaveOf(next, j)
      BY <1>1, <1>2, <1>4, <1>5, <2>2, <2>4, <2>5
  <2>7. Lined(D \cup WaveOf(next, j), first)
      BY <1>1, <2>4, WaveLined
  <2>8. \A o \in DOMAIN p : o < first => p[o] = PageLimit
      BY <1>1, <1>2, <1>4, <1>5, <2>3 DEF Short
  <2>9. LineOf(Below(p, first), first)
    <3>1. DOMAIN Below(p, first) = D \cup WaveOf(next, j)
        BY <2>6, BelowFacts
    <3>2. \A o \in DOMAIN Below(p, first) : Below(p, first)[o] = PageLimit
        BY <2>8, BelowFacts
    <3> QED
        BY <2>7, <3>1, <3>2 DEF LineOf
  <2> QED
      BY <2>2, <2>9
<1> QED
    BY <1>6, <1>7, <1>8, <1>9 DEF p, W

LEMMA GapInvInit == PagerInit => GapInv
BY PagerAssumption DEF PagerInit, GapInv

\* Calls outside of the waves, and those that fail.
LEMMA CallsKeepGapInv ==
  ASSUME GapInv,
         Breaks \/ Refused \/ Count \/ First \/ \E off \in asked : PageBreaks(off)
  PROVE  GapInv'
<1>0. size \in Nat /\ next \in Nat /\ conc \in Nat \ {0}
    BY DEF GapInv
<1>1. CASE Breaks \/ \E off \in asked : PageBreaks(off)
  <2>1. pc' = "failed" /\ UNCHANGED <<size, next, conc>>
      BY <1>1 DEF Breaks, PageBreaks, Fails, place
  <2> QED
      BY <1>0, <2>1 DEF GapInv
<1>2. CASE Refused
  <2>1. CASE filter = "access_state"
    <3>1. /\ pc' = "count" /\ size' = size /\ next' = 0 /\ conc' = Requested
          /\ asked' = {} /\ landed' = <<>> /\ got' = <<>>
        BY <1>2, <2>1 DEF Refused, GapInv, wave
    <3> QED
        BY <1>0, <3>1, PagerAssumption DEF GapInv
  <2>2. CASE filter # "access_state"
    <3>1. pc' = "failed" /\ UNCHANGED <<size, next, conc>>
        BY <1>2, <2>2 DEF Refused, Fails, place
    <3> QED
        BY <1>0, <3>1 DEF GapInv
  <2> QED
      BY <2>1, <2>2
<1>3. CASE Count
    BY <1>3 DEF Count, GapInv, place, wave
<1>4. CASE First
  <2>0. /\ UNCHANGED <<size, conc>> /\ asked' = {} /\ landed' = <<>> /\ got' = <<>>
      BY <1>4 DEF First, GapInv, wave
  <2>1. PICK n \in Answers :
          IF Short(n) THEN Return([o \in {0} |-> n]) /\ UNCHANGED next
          ELSE pages' = [o \in {0} |-> n] /\ next' = PageLimit /\ pc' = "wave"
      BY <1>4 DEF First
  <2> DEFINE p == [o \in {0} |-> n]
  <2>2. n \in 0..PageLimit /\ PageLimit \in Nat \ {0}
      BY PagerAssumption DEF Answers
  <2>3. CASE Short(n)
    <3>1. DOMAIN Below(p, 0) = {}
        BY BelowFacts
    <3>2. LineOf(Below(p, 0), 0)
        BY <3>1 DEF LineOf, Lined
    <3>3. Items(Restrict(p, Kept(p))) = 1..(0 + p[0])
        BY <2>2, <2>3, <3>2, ShortItems
    <3>4. result' = 1..n /\ pc' \in {"done", "failed"} /\ next' = next
        BY <2>1, <2>2, <2>3, <3>3 DEF Return
    <3> QED
        BY <1>0, <2>0, <2>2, <3>4 DEF GapInv
  <2>4. CASE ~Short(n)
    <3>1. LineOf(p, PageLimit)
        BY <2>2, <2>4 DEF LineOf, Lined, Short
    <3> QED
        BY <1>0, <2>0, <2>1, <2>2, <2>4, <3>1 DEF GapInv
  <2> QED
      BY <2>3, <2>4
<1> QED
    BY <1>1, <1>2, <1>3, <1>4

\* A wave: its calls, and its pages in any order.
LEMMA WavesKeepGapInv ==
  ASSUME GapInv,
         Launch \/ (\E off \in asked : Land(off)) \/ \E off \in DOMAIN landed : Look(off)
  PROVE  GapInv'
<1>0. size \in Nat /\ next \in Nat /\ conc \in Nat \ {0}
    BY DEF GapInv
<1>1. CASE Launch
  <2>0. /\ UNCHANGED <<size, next, conc, landed, got>>
        /\ LineOf(pages, next) /\ asked = {} /\ landed = <<>> /\ got = <<>>
      BY <1>1 DEF Launch, GapInv
  <2>1. CASE next > MaxOffset
    <3>1. result' = 1..next /\ pc' \in {"done", "failed"} /\ asked' = asked
        BY <1>1, <2>0, <2>1, FullItems DEF Launch, Return
    <3> QED
        BY <1>0, <2>0, <3>1 DEF GapInv
  <2>2. CASE ~(next > MaxOffset)
    <3>1. asked' = WaveOf(next, conc) /\ pc' = "pages" /\ pages' = pages
        BY <1>1, <2>2 DEF Launch, WaveOf, Nth
    <3>2. DOMAIN landed = {} /\ DOMAIN got = {}
        BY <2>0
    <3>3. WaveInv'
        BY <2>0, <3>1, <3>2 DEF WaveInv, PagesOf
    <3> QED
        BY <1>0, <2>0, <3>1, <3>3 DEF GapInv
  <2> QED
      BY <2>1, <2>2
<1>2. ASSUME NEW off \in asked, Land(off) PROVE GapInv'
  <2>1. /\ UNCHANGED <<size, pc, pages, next, conc, got>> /\ pc = "pages"
        /\ asked' = asked \ {off} /\ WaveInv /\ LineOf(pages, next)
      BY <1>2 DEF Land, place, GapInv
  <2>2. PICK n \in 0..PageLimit : landed' = With(landed, off, n)
      BY <1>2 DEF Land, Answers
  <2>3. /\ DOMAIN landed' = DOMAIN landed \cup {off}
        /\ \A o \in DOMAIN landed' : landed'[o] = IF o = off THEN n ELSE landed[o]
      BY <2>2 DEF With
  <2>4. WaveInv'
      BY <2>1, <2>3 DEF WaveInv, PagesOf
  <2> QED
      BY <1>0, <2>1, <2>4 DEF GapInv
<1>3. ASSUME NEW off \in DOMAIN landed, Look(off) PROVE GapInv'
  <2>1. /\ UNCHANGED <<size, pc, pages, next, conc>> /\ pc = "pages"
        /\ WaveInv /\ LineOf(pages, next)
      BY <1>3 DEF Look, place, GapInv
  <2>2. /\ got' = With(got, off, landed[off])
        /\ landed' = Restrict(landed, DOMAIN landed \ {off})
        /\ asked' = IF Short(landed[off]) THEN {o \in asked : o < off} ELSE asked
      BY <1>3 DEF Look
  <2>3. /\ DOMAIN got' = DOMAIN got \cup {off}
        /\ \A o \in DOMAIN got' : got'[o] = IF o = off THEN landed[off] ELSE got[o]
      BY <2>2 DEF With
  <2>4. /\ DOMAIN landed' = DOMAIN landed \ {off}
        /\ \A o \in DOMAIN landed' : landed'[o] = landed[o]
      BY <2>2 DEF Restrict
  <2>5. \A o \in WaveOf(next, conc) : o \in Nat
    <3> TAKE o \in WaveOf(next, conc)
    <3>1. PICK i \in 0..(conc - 1) : o = next + Nth(i)
        BY DEF WaveOf
    <3>2. Nth(i) \in Nat
        BY <1>0, NthNat
    <3> QED
        BY <1>0, <3>1, <3>2
  <2>6. WaveInv'
    <3>1. /\ asked' \subseteq WaveOf(next, conc)
          /\ PagesOf(landed', WaveOf(next, conc)) /\ PagesOf(got', WaveOf(next, conc))
          /\ asked' \cap (DOMAIN landed' \cup DOMAIN got') = {}
          /\ DOMAIN landed' \cap DOMAIN got' = {}
        BY <2>1, <2>2, <2>3, <2>4 DEF WaveInv, PagesOf
    <3>2. ASSUME NEW o \in WaveOf(next, conc)
          PROVE  \/ o \in asked' \/ o \in DOMAIN landed' \/ o \in DOMAIN got'
                 \/ \E s \in DOMAIN got' : s < o /\ Short(got'[s])
      <4>1. CASE o \in asked
        <5>1. CASE Short(landed[off]) /\ ~(o < off)
          <6>1. off \in WaveOf(next, conc)
              BY <2>1 DEF WaveInv, PagesOf
          <6>2. o = off \/ off < o
              BY <2>5, <5>1, <6>1
          <6> QED
              BY <2>3, <5>1, <6>2
        <5>2. CASE ~(Short(landed[off]) /\ ~(o < off))
            BY <2>2, <4>1, <5>2
        <5> QED
            BY <5>1, <5>2
      <4>2. CASE o \in DOMAIN landed \/ o \in DOMAIN got
          BY <2>3, <2>4, <4>2
      <4>3. ASSUME NEW s \in DOMAIN got, s < o, Short(got[s])
            PROVE  \E t \in DOMAIN got' : t < o /\ Short(got'[t])
        <5>1. s # off
            BY <2>1, <4>3 DEF WaveInv
        <5> QED
            BY <2>3, <4>3, <5>1
      <4> QED
          BY <2>1, <4>1, <4>2, <4>3 DEF WaveInv
    <3> QED
        BY <2>1, <3>1, <3>2 DEF WaveInv
  <2> QED
      BY <1>0, <2>1, <2>6 DEF GapInv
<1> QED
    BY <1>1, <1>2, <1>3

\* The end of a wave and the peek behind it.
LEMMA EndsKeepGapInv ==
  ASSUME GapInv, Assess \/ Peek
  PROVE  GapInv'
<1>0. size \in Nat /\ next \in Nat /\ conc \in Nat \ {0} /\ PageLimit \in Nat \ {0}
    BY PagerAssumption DEF GapInv
<1>1. CASE Assess
  <2> DEFINE p == Joined(got, pages)
             ends == {o \in DOMAIN p : Short(p[o])}
             first == Min(ends)
             hole == \E o \in DOMAIN p : o > first /\ p[o] > 0
  <2>0. /\ pc = "pages" /\ asked = {} /\ landed = <<>> /\ got' = <<>>
        /\ UNCHANGED <<size, asked, landed>>
      BY <1>1 DEF Assess
  <2>1. /\ DOMAIN p \subseteq Nat
        /\ ends = {} => LineOf(p, Advance)
        /\ ends # {} => /\ first \in DOMAIN p /\ first \in Nat
                        /\ p[first] \in 0..PageLimit /\ Short(p[first])
                        /\ LineOf(Below(p, first), first)
      BY <2>0, WaveEnds
  <2>2. \/ /\ ends = {} /\ pages' = p /\ next' = Advance
           /\ conc' = (IF resumed THEN Requested ELSE conc) /\ pc' = "wave"
        \/ ends # {} /\ Verify(p, first)
        \/ ends # {} /\ pages' = Below(p, first + 1) /\ next' = first /\ pc' = "peek" /\ conc' = conc
        \/ pc' = "failed" /\ UNCHANGED place
        \/ ends # {} /\ Return(p) /\ UNCHANGED <<next, conc>>
      BY <1>1 DEF Assess
  <2> HIDE DEF p, ends, first
  <2>3. CASE /\ ends = {} /\ pages' = p /\ next' = Advance
             /\ conc' = (IF resumed THEN Requested ELSE conc) /\ pc' = "wave"
    <3>1. conc' \in Nat \ {0}
        BY <1>0, <2>3, PagerAssumption
    <3>2. LineOf(pages', next') /\ next' \in Nat
        BY <2>1, <2>3 DEF LineOf, Lined
    <3> QED
        BY <1>0, <2>0, <2>3, <3>1, <3>2 DEF GapInv
  <2>4. CASE ends # {} /\ Verify(p, first)
      BY <1>0, <2>0, <2>1, <2>4 DEF GapInv, Verify
  <2>5. CASE ends # {} /\ pages' = Below(p, first + 1) /\ next' = first /\ pc' = "peek" /\ conc' = conc
    <3>1. /\ DOMAIN pages' = {o \in DOMAIN p : o < first + 1}
          /\ \A o \in DOMAIN p : o < first + 1 => pages'[o] = p[o]
        BY <2>5, BelowFacts
    <3>2. first \in DOMAIN pages' /\ pages'[first] = p[first]
        BY <2>1, <2>5, <3>1
    <3>3. LineOf(Below(pages', first), first)
      <4>1. \A o \in DOMAIN p : o < first => o < first + 1
          BY <2>1, <2>5
      <4>2. /\ DOMAIN Below(p, first) = {o \in DOMAIN p : o < first}
            /\ \A o \in DOMAIN p : o < first => Below(p, first)[o] = p[o]
          BY BelowFacts
      <4>3. /\ DOMAIN Below(pages', first) = {o \in DOMAIN pages' : o < first}
            /\ \A o \in DOMAIN pages' : o < first => Below(pages', first)[o] = pages'[o]
          BY BelowFacts
      <4>4. DOMAIN Below(pages', first) = DOMAIN Below(p, first)
          BY <3>1, <4>1, <4>2, <4>3
      <4>5. \A o \in DOMAIN Below(p, first) : Below(p, first)[o] = PageLimit
          BY <2>1, <2>5 DEF LineOf
      <4>6. \A o \in DOMAIN Below(p, first) : Below(pages', first)[o] = PageLimit
          BY <3>1, <4>1, <4>2, <4>3, <4>5
      <4> QED
          BY <2>1, <2>5, <4>4, <4>6 DEF LineOf
    <3>4. DOMAIN pages' \subseteq Nat
        BY <2>1, <3>1
    <3> QED
        BY <1>0, <2>0, <2>1, <2>5, <3>2, <3>3, <3>4 DEF GapInv
  <2>6. CASE pc' = "failed" /\ UNCHANGED place
      BY <1>0, <2>0, <2>6 DEF GapInv, place
  <2>7. CASE ends # {} /\ Return(p) /\ UNCHANGED <<next, conc>>
    <3>1. result' = 1..(first + p[first]) /\ pc' \in {"done", "failed"}
        BY <2>1, <2>7, ShortItems DEF Return
    <3>2. first + p[first] \in Nat
        BY <1>0, <2>1, <2>7
    <3> QED
        BY <1>0, <2>0, <2>7, <3>1, <3>2 DEF GapInv
  <2> QED
      BY <2>2, <2>3, <2>4, <2>5, <2>6, <2>7
<1>2. CASE Peek
  <2>0. /\ pc = "peek" /\ UNCHANGED <<size, next, asked, landed, got>>
        /\ asked = {} /\ landed = <<>> /\ got = <<>> /\ DOMAIN pages \subseteq Nat
        /\ next \in DOMAIN pages /\ pages[next] \in 0..PageLimit
        /\ Short(pages[next]) /\ LineOf(Below(pages, next), next)
      BY <1>2 DEF Peek, GapInv, wave
  <2>1. \/ Return(pages) /\ UNCHANGED conc
        \/ pages' = Below(pages, next) /\ conc' = Requested /\ pc' = "wave"
      BY <1>2 DEF Peek
  <2>2. CASE Return(pages) /\ UNCHANGED conc
    <3>1. result' = 1..(next + pages[next]) /\ pc' \in {"done", "failed"}
        BY <1>0, <2>0, <2>2, ShortItems DEF Return
    <3>2. next + pages[next] \in Nat
        BY <1>0, <2>0
    <3> QED
        BY <1>0, <2>0, <2>2, <3>1, <3>2 DEF GapInv
  <2>3. CASE pages' = Below(pages, next) /\ conc' = Requested /\ pc' = "wave"
      BY <1>0, <2>0, <2>3, PagerAssumption DEF GapInv
  <2> QED
      BY <2>1, <2>2, <2>3
<1> QED
    BY <1>1, <1>2

LEMMA GapInvInductive == GapInv /\ [PagerNext]_pagerVars => GapInv'
<1> SUFFICES ASSUME GapInv, [PagerNext]_pagerVars PROVE GapInv'
    OBVIOUS
<1>1. CASE UNCHANGED pagerVars
    BY <1>1 DEF pagerVars, place, wave, GapInv, WaveInv, PagesOf
<1>2. CASE PagerNext
    BY <1>2, CallsKeepGapInv, WavesKeepGapInv, EndsKeepGapInv DEF PagerNext, PagerReads
<1> QED
    BY <1>1, <1>2

LEMMA GapInvHolds == PagerSpec => []GapInv
BY GapInvInit, GapInvInductive, PTL DEF PagerSpec

\* What the Numbering client returns is the list up to some item, without a
\* hole, whatever the page limit and the concurrency, however long the list
\* is, however many pages come truncated or in whatever order, and whichever
\* are called off, read again or peeked at (_page_all).
THEOREM NoGapHolds == PagerSpec => []NoGap
<1>1. ASSUME NEW n \in Nat PROVE 1..n = 1..Cardinality(1..n)
    BY FS_Interval
<1>2. GapInv => NoGap
    BY <1>1 DEF GapInv, NoGap
<1> QED
    BY <1>2, GapInvHolds, PTL

-----------------------------------------------------------------------------
(* The pager: the last page                                                *)

Exact(p) == \A o \in DOMAIN p : p[o] = Truth(o)

\* While no page is truncated the pages are those of the list; an end that is
\* read again is the end of the list, or the page has already been truncated.
EndKnown ==
  \/ size < next + PageLimit
  \/ short >= 1 /\ (short = 1 => Exact(landed) /\ Exact(got))

LastInv ==
  /\ short \in Nat /\ size <= MaxOffset
  /\ pc \in {"wave", "pages", "peek"} => \E k \in Nat : next = Nth(k)
  /\ pc \in {"count", "first"} => ~resumed
  /\ short = 0 => Exact(landed) /\ Exact(got) /\ (pc = "peek" => pages[next] = Truth(next))
  /\ resumed /\ pc \in {"wave", "pages"} => EndKnown
  /\ pc = "done" /\ short <= 1 /\ 0 \notin cut => 1..LastOffset \subseteq result

\* The list may have more than one page asked for at once and is within reach.
PagerBounds == Requested > 1 /\ \A s \in Sizes : s <= MaxOffset

LEMMA LastFacts ==
  ASSUME size \in Nat
  PROVE  /\ LastOffset \in Nat
         /\ LastOffset = 0 \/ LastOffset < size
         /\ \E i \in Nat : LastOffset = Nth(i)
<1> DEFINE S == {off \in {Nth(i) : i \in 0..size} : off = 0 \/ Truth(off) > 0}
<1>1. LastOffset = Max(S)
    BY DEF LastOffset, Nth
<1>2. ASSUME NEW off \in S PROVE off \in 0..size /\ (off = 0 \/ off < size)
  <2>1. PICK i \in 0..size : off = Nth(i)
      OBVIOUS
  <2>2. off \in Nat
      BY <2>1, NthNat
  <2>3. off = 0 \/ off < size
      BY <1>2, <2>2, TruthFacts
  <2> QED
      BY <2>2, <2>3
<1>3. 0 \in S
    BY NthNat
<1> HIDE DEF S
<1>4. PICK x \in S : \A y \in S : y <= x
  <2>1. S \in SUBSET (0..size) /\ S # {}
      BY <1>2, <1>3
  <2> QED
      BY <2>1, GreatestNat
<1>5. Max(S) \in S
  <2>1. \A y \in S : x >= y
      BY <1>2, <1>4
  <2> QED
      BY <1>4, <2>1 DEF Max
<1>6. \E i \in Nat : Max(S) = Nth(i)
    BY <1>5 DEF S
<1> QED
    BY <1>1, <1>2, <1>5, <1>6

\* A list of n items covers all but the last page when it reaches the end of
\* the list, or a page's offset that the end is not a page behind.
LEMMA CoversLast ==
  ASSUME size \in Nat, NEW n \in Nat, NEW k \in Nat,
         size <= n \/ (Nth(k) <= n /\ size <= Nth(k) + PageLimit)
  PROVE  1..LastOffset \subseteq 1..n
<1>1. PICK i \in Nat : LastOffset = Nth(i)
    BY LastFacts
<1>2. Nth(i) < Nth(k) + PageLimit => Nth(i) <= Nth(k)
    BY NthApart
<1>3. Nth(i) \in Nat /\ Nth(k) \in Nat /\ PageLimit \in Nat
    BY NthNat, PagerAssumption
<1>4. LastOffset = 0 \/ LastOffset < size
    BY LastFacts
<1>5. LastOffset <= n
    BY <1>1, <1>2, <1>3, <1>4
<1> QED
    BY <1>1, <1>3, <1>5

\* A short page of the list reaches its end.
LEMMA ShortReaches ==
  ASSUME size \in Nat, NEW off \in Nat, Short(Truth(off))
  PROVE  size <= off + Truth(off) /\ size < off + PageLimit
BY TruthFacts, PagerAssumption DEF Short

LEMMA LastInvInit ==
  ASSUME PagerBounds, PagerInit
  PROVE  LastInv
<1>1. ~resumed /\ size <= MaxOffset
  <2>1. ~AlreadySequential
      BY PagerAssumption DEF PagerBounds, AlreadySequential
  <2>2. ~resumed
      BY <2>1, Zenon DEF PagerInit
  <2> QED
      BY <2>2 DEF PagerInit, PagerBounds
<1>2. Exact(landed) /\ Exact(got)
    BY DEF PagerInit, Exact
<1> QED
    BY <1>1, <1>2 DEF PagerInit, LastInv

LEMMA ArrivesFacts ==
  ASSUME short \in Nat, NEW off, NEW n, Arrives(off, n)
  PROVE  /\ short' \in Nat /\ short <= short'
         /\ cut \subseteq cut'
         /\ short' = short => n = Truth(off)
         /\ off \notin cut' => n = Truth(off)
BY DEF Arrives

LEMMA CallsKeepLastInv ==
  ASSUME PagerBounds, GapInv, LastInv,
         Breaks \/ Refused \/ Count \/ \E off \in asked : PageBreaks(off)
  PROVE  LastInv'
<1>1. ~AlreadySequential
    BY PagerAssumption DEF PagerBounds, AlreadySequential
<1>2. UNCHANGED <<size, short, cut, landed, got>>
    BY DEF Breaks, Refused, Count, PageBreaks, Fails, wave
<1>3. Exact(landed)' = Exact(landed) /\ Exact(got)' = Exact(got)
    BY <1>2 DEF Exact, Truth
<1>4. CASE pc' = "failed"
    BY <1>2, <1>3, <1>4 DEF LastInv
<1>5. CASE pc' \in {"count", "first"} /\ ~resumed'
    BY <1>2, <1>3, <1>5 DEF LastInv
<1>6. pc' = "failed" \/ (pc' \in {"count", "first"} /\ ~resumed')
    BY <1>1 DEF Breaks, Refused, Count, PageBreaks, Fails, LastInv, place
<1> QED
    BY <1>4, <1>5, <1>6

LEMMA FirstKeepsLastInv ==
  ASSUME PagerBounds, GapInv, LastInv, First
  PROVE  LastInv'
<1>0. /\ size \in Nat /\ short \in Nat /\ size <= MaxOffset /\ PageLimit \in Nat \ {0}
      /\ landed = <<>> /\ got = <<>> /\ ~resumed
      /\ UNCHANGED <<size, landed, got, resumed>>
    BY PagerAssumption DEF First, GapInv, LastInv, wave
<1>1. PICK n \in Answers :
        /\ Arrives(0, n)
        /\ IF Short(n) THEN Return([o \in {0} |-> n]) /\ UNCHANGED next
           ELSE pages' = [o \in {0} |-> n] /\ next' = PageLimit /\ pc' = "wave" /\ UNCHANGED result
    BY DEF First
<1>2. short' \in Nat /\ (0 \notin cut' => n = Truth(0))
    BY <1>0, <1>1, ArrivesFacts
<1>3. Exact(landed)' /\ Exact(got)'
    BY <1>0 DEF Exact
<1>4. CASE Short(n)
  <2> DEFINE p == [o \in {0} |-> n]
  <2>1. result' = 1..(0 + n) /\ pc' \in {"done", "failed"}
    <3>1. DOMAIN p = {0} /\ p[0] = n /\ n \in 0..PageLimit
        BY <1>1 DEF Answers
    <3>2. LineOf(Below(p, 0), 0)
      <4>1. DOMAIN Below(p, 0) = {}
          BY <3>1, BelowFacts
      <4> QED
          BY <4>1 DEF LineOf, Lined
    <3> HIDE DEF p
    <3>3. Items(Restrict(p, Kept(p))) = 1..(0 + n)
        BY <1>4, <3>1, <3>2, ShortItems
    <3> QED
        BY <1>1, <1>4, <3>3 DEF Return, p
  <2>2. 0 \notin cut' => 1..LastOffset \subseteq 1..(0 + n)
    <3> SUFFICES ASSUME 0 \notin cut' PROVE 1..LastOffset \subseteq 1..(0 + n)
        OBVIOUS
    <3>1. size <= 0 + n
        BY <1>0, <1>2, <1>4, ShortReaches
    <3>2. 0 + n \in Nat /\ 0 \in Nat
        BY <1>1 DEF Answers
    <3> QED
        BY <1>0, <3>1, <3>2, CoversLast
  <2>3. LastOffset' = LastOffset
      BY <1>0 DEF LastOffset, Truth
  <2> QED
      BY <1>0, <1>2, <1>3, <2>1, <2>2, <2>3 DEF LastInv
<1>5. CASE ~Short(n)
  <2>1. next' = Nth(1) /\ pc' = "wave"
      BY <1>0, <1>1, <1>5 DEF Nth
  <2> QED
      BY <1>0, <1>2, <1>3, <2>1 DEF LastInv
<1> QED
    BY <1>4, <1>5

LEMMA WavesKeepLastInv ==
  ASSUME PagerBounds, GapInv, LastInv,
         \/ Launch
         \/ \E off \in asked : Land(off)
         \/ \E off \in DOMAIN landed : Look(off)
  PROVE  LastInv'
<1>0. /\ size \in Nat /\ short \in Nat /\ size <= MaxOffset /\ PageLimit \in Nat \ {0}
      /\ next \in Nat /\ UNCHANGED <<size, next, resumed>>
    BY PagerAssumption DEF Launch, Land, Look, GapInv, LastInv, place
<1>1. CASE Launch
  <2>1. /\ UNCHANGED <<short, cut, landed, got>> /\ pc = "wave" /\ landed = <<>> /\ got = <<>>
        /\ LineOf(pages, next)
      BY <1>1 DEF Launch, GapInv
  <2>2. Exact(landed)' /\ Exact(got)'
      BY <2>1 DEF Exact
  <2>3. LastOffset' = LastOffset
      BY <1>0 DEF LastOffset, Truth
  <2>4. PICK k \in Nat : next = Nth(k)
      BY <2>1 DEF LastInv
  <2>5. resumed => EndKnown'
      BY <1>0, <2>1, <2>2 DEF LastInv, EndKnown
  <2>6. CASE next > MaxOffset
    <3>1. result' = 1..next /\ pc' \in {"done", "failed"}
        BY <1>1, <2>1, <2>6, FullItems DEF Launch, Return
    <3>2. size <= next
        BY <1>0, <2>6, PagerAssumption
    <3>3. 1..LastOffset \subseteq 1..next
        BY <1>0, <2>4, <3>2, CoversLast
    <3> QED
        BY <1>0, <2>1, <2>2, <2>3, <3>1, <3>3 DEF LastInv
  <2>7. CASE ~(next > MaxOffset)
    <3>1. pc' = "pages"
        BY <1>1, <2>7 DEF Launch
    <3> QED
        BY <1>0, <2>1, <2>2, <2>4, <2>5, <3>1 DEF LastInv
  <2> QED
      BY <2>6, <2>7
<1>2. ASSUME NEW off \in asked, Land(off) PROVE LastInv'
  <2>1. pc = "pages" /\ pc' = "pages" /\ UNCHANGED got
      BY <1>2 DEF Land
  <2>2. PICK n \in Answers : Arrives(off, n) /\ landed' = With(landed, off, n)
      BY <1>2 DEF Land
  <2>3. short' \in Nat /\ short <= short' /\ (short' = short => n = Truth(off))
      BY <1>0, <2>2, ArrivesFacts
  <2>4. short' = short /\ Exact(landed) => Exact(landed)'
    <3>1. /\ DOMAIN landed' = DOMAIN landed \cup {off}
          /\ \A o \in DOMAIN landed' : landed'[o] = IF o = off THEN n ELSE landed[o]
        BY <2>2 DEF With
    <3> QED
        BY <1>0, <2>3, <3>1 DEF Exact, Truth
  <2>5. Exact(got)' = Exact(got)
      BY <1>0, <2>1 DEF Exact, Truth
  <2>6. short' = 0 => Exact(landed)' /\ Exact(got)'
      BY <1>0, <2>3, <2>4, <2>5 DEF LastInv
  <2>7. resumed => EndKnown'
    <3> SUFFICES ASSUME resumed PROVE EndKnown'
        OBVIOUS
    <3>1. CASE size < next + PageLimit
        BY <1>0, <3>1 DEF EndKnown
    <3>2. CASE short >= 1 /\ (short = 1 => Exact(landed) /\ Exact(got))
        BY <1>0, <2>3, <2>4, <2>5, <3>2 DEF EndKnown
    <3> QED
        BY <2>1, <3>1, <3>2 DEF LastInv, EndKnown
  <2> QED
      BY <1>0, <2>1, <2>3, <2>6, <2>7 DEF LastInv
<1>3. ASSUME NEW off \in DOMAIN landed, Look(off) PROVE LastInv'
  <2>1. pc = "pages" /\ pc' = "pages" /\ UNCHANGED <<short, cut>>
      BY <1>3 DEF Look
  <2>2. Exact(landed) /\ Exact(got) => Exact(landed)' /\ Exact(got)'
    <3>1. /\ DOMAIN got' = DOMAIN got \cup {off}
          /\ \A o \in DOMAIN got' : got'[o] = IF o = off THEN landed[off] ELSE got[o]
        BY <1>3 DEF Look, With
    <3>2. /\ DOMAIN landed' = DOMAIN landed \ {off}
          /\ \A o \in DOMAIN landed' : landed'[o] = landed[o]
        BY <1>3 DEF Look, Restrict
    <3> QED
        BY <1>0, <3>1, <3>2 DEF Exact, Truth
  <2>3. resumed => EndKnown'
      BY <1>0, <2>1, <2>2 DEF LastInv, EndKnown
  <2> QED
      BY <1>0, <2>1, <2>2, <2>3 DEF LastInv
<1> QED
    BY <1>1, <1>2, <1>3

LEMMA AssessKeepsLastInv ==
  ASSUME PagerBounds, GapInv, LastInv, Assess
  PROVE  LastInv'
<1> DEFINE p == Joined(got, pages)
           ends == {o \in DOMAIN p : Short(p[o])}
           first == Min(ends)
           hole == \E o \in DOMAIN p : o > first /\ p[o] > 0
<1>0. /\ size \in Nat /\ short \in Nat /\ size <= MaxOffset /\ PageLimit \in Nat \ {0}
      /\ next \in Nat /\ conc \in Nat \ {0}
      /\ pc = "pages" /\ asked = {} /\ landed = <<>> /\ got' = <<>>
      /\ UNCHANGED <<size, short, cut, landed>>
    BY PagerAssumption DEF Assess, GapInv, LastInv
<1>1. ends # {} => /\ first \in DOMAIN got /\ first \in WaveOf(next, conc)
                   /\ first \in DOMAIN p /\ first \in Nat /\ first >= next
                   /\ DOMAIN p \subseteq Nat
                   /\ p[first] = got[first] /\ p[first] \in 0..PageLimit /\ Short(p[first])
                   /\ LineOf(Below(p, first), first)
    BY <1>0, WaveEnds
<1>2. \/ /\ ends = {} /\ next' = Advance /\ UNCHANGED resumed /\ pc' = "wave"
      \/ ends # {} /\ ~resumed /\ Verify(p, first)
      \/ /\ ends # {} /\ pages' = Below(p, first + 1) /\ next' = first /\ pc' = "peek"
      \/ pc' = "failed"
      \/ ends # {} /\ resumed /\ Return(p)
    BY DEF Assess
<1>3. PICK k \in Nat : next = Nth(k)
    BY <1>0 DEF LastInv
<1>4. ends # {} => \E i \in Nat : first = Nth(i)
  <2> HIDE DEF p, ends, first
  <2> SUFFICES ASSUME ends # {} PROVE \E i \in Nat : first = Nth(i)
      OBVIOUS
  <2>1. PICK i \in 0..(conc - 1) : first = next + Nth(i)
      BY <1>1 DEF WaveOf
  <2>2. i \in Nat /\ first = Nth(k + i) /\ k + i \in Nat
      BY <1>3, <2>1, NthSum
  <2> QED
      BY <2>2
<1>5. Exact(landed)' /\ Exact(got)'
    BY <1>0 DEF Exact
\* a short page that is the list's reaches its end
<1>6. ends # {} /\ Exact(got) => /\ p[first] = Truth(first)
                                 /\ size <= first + p[first]
                                 /\ size < first + PageLimit
  <2> HIDE DEF p, ends, first
  <2> QED
      BY <1>0, <1>1, ShortReaches DEF Exact
<1>7. LastOffset' = LastOffset /\ Truth(first)' = Truth(first')
    BY <1>0 DEF LastOffset, Truth
<1> HIDE DEF p, ends, first
<1>8. CASE ends = {} /\ next' = Advance /\ UNCHANGED resumed /\ pc' = "wave"
  <2>1. Advance = next + Nth(conc) /\ Nth(conc) \in Nat /\ Advance = Nth(k + conc) /\ k + conc \in Nat
    <3>1. Advance = next + Nth(conc)
        BY DEF Advance, Nth
    <3>2. Nth(conc) \in Nat /\ Nth(k + conc) = Nth(k) + Nth(conc) /\ k + conc \in Nat
      <4>1. conc \in Nat /\ k \in Nat /\ k + conc \in Nat
          BY <1>0
      <4> QED
          BY <4>1, NthNat, NthSum
    <3> QED
        BY <1>3, <3>1, <3>2
  <2>2. resumed => EndKnown'
      BY <1>0, <1>5, <1>8, <2>1 DEF LastInv, EndKnown
  <2> QED
      BY <1>0, <1>5, <1>8, <2>1, <2>2 DEF LastInv
<1>9. CASE ends # {} /\ Verify(p, first)
  <2>1. EndKnown'
    <3>1. CASE short = 0
      <4>1. size < first + PageLimit
          BY <1>6, <1>9, <3>1 DEF LastInv
      <4> QED
          BY <1>0, <1>9, <4>1 DEF EndKnown, Verify
    <3>2. CASE short # 0
        BY <1>0, <1>5, <3>2 DEF EndKnown
    <3> QED
        BY <3>1, <3>2
  <2>2. next' = first /\ pc' = "wave" /\ \E i \in Nat : first = Nth(i)
      BY <1>4, <1>9 DEF Verify
  <2> QED
      BY <1>0, <1>5, <2>1, <2>2 DEF LastInv
<1>10. CASE ends # {} /\ pages' = Below(p, first + 1) /\ next' = first /\ pc' = "peek"
  <2>1. pages'[first] = p[first]
    <3>1. first < first + 1
        BY <1>1, <1>10
    <3> QED
        BY <1>1, <1>10, <3>1, BelowFacts
  <2>2. short = 0 => pages'[next'] = Truth(next)'
    <3>1. Truth(next)' = Truth(first)
        BY <1>0, <1>10 DEF Truth
    <3> QED
        BY <1>6, <1>10, <2>1, <3>1 DEF LastInv
  <2> QED
      BY <1>0, <1>4, <1>5, <1>10, <2>2 DEF LastInv
<1>11. CASE pc' = "failed"
    BY <1>0, <1>5, <1>11 DEF LastInv
<1>12. CASE ends # {} /\ resumed /\ Return(p)
  <2>1. result' = 1..(first + p[first]) /\ pc' \in {"done", "failed"}
      BY <1>1, <1>12, ShortItems DEF Return
  <2>2. first + p[first] \in Nat
      BY <1>0, <1>1, <1>12
  <2>3. short <= 1 => 1..LastOffset \subseteq 1..(first + p[first])
    <3> SUFFICES ASSUME short <= 1 PROVE 1..LastOffset \subseteq 1..(first + p[first])
        OBVIOUS
    <3>1. CASE size < next + PageLimit
      <4>1. Nth(k) <= first + p[first] /\ size <= Nth(k) + PageLimit
          BY <1>0, <1>1, <1>3, <1>12, <3>1
      <4> QED
          BY <1>0, <1>3, <2>2, <4>1, CoversLast
    <3>2. CASE Exact(got)
      <4>1. size <= first + p[first]
          BY <1>6, <1>12, <3>2
      <4> QED
          BY <1>0, <1>3, <2>2, <4>1, CoversLast
    <3>3. size < next + PageLimit \/ Exact(got)
        BY <1>0, <1>12 DEF LastInv, EndKnown
    <3> QED
        BY <3>1, <3>2, <3>3
  <2> QED
      BY <1>0, <1>5, <1>7, <2>1, <2>3 DEF LastInv
<1> QED
    BY <1>2, <1>8, <1>9, <1>10, <1>11, <1>12

LEMMA PeekKeepsLastInv ==
  ASSUME PagerBounds, GapInv, LastInv, Peek
  PROVE  LastInv'
<1>0. /\ size \in Nat /\ short \in Nat /\ size <= MaxOffset /\ PageLimit \in Nat \ {0}
      /\ next \in Nat /\ next \in DOMAIN pages /\ pages[next] \in 0..PageLimit
      /\ DOMAIN pages \subseteq Nat /\ Short(pages[next]) /\ LineOf(Below(pages, next), next)
      /\ pc = "peek" /\ landed = <<>> /\ got = <<>>
      /\ UNCHANGED <<size, next, landed, got>>
    BY PagerAssumption DEF Peek, GapInv, LastInv, wave
<1>1. PICK n \in Answers :
        /\ Arrives(next + PageLimit, n)
        /\ IF n = 0 THEN Return(pages) /\ UNCHANGED conc
           ELSE pages' = Below(pages, next) /\ conc' = Requested /\ pc' = "wave" /\ UNCHANGED result
    BY DEF Peek
<1>2. /\ short' \in Nat /\ short <= short'
      /\ short' = short => n = Truth(next + PageLimit)
    BY <1>0, <1>1, ArrivesFacts
<1>3. PICK k \in Nat : next = Nth(k)
    BY <1>0 DEF LastInv
<1>4. Exact(landed)' /\ Exact(got)'
    BY <1>0 DEF Exact
<1>5. short = 0 => size <= next + pages[next] /\ size < next + PageLimit
    BY <1>0, ShortReaches DEF LastInv
<1>6. CASE n = 0
  <2>1. result' = 1..(next + pages[next]) /\ pc' \in {"done", "failed"}
      BY <1>0, <1>1, <1>6, ShortItems DEF Return
  <2>2. next + pages[next] \in Nat
      BY <1>0
  <2>3. short' <= 1 => 1..LastOffset \subseteq 1..(next + pages[next])
    <3> SUFFICES ASSUME short' <= 1 PROVE 1..LastOffset \subseteq 1..(next + pages[next])
        OBVIOUS
    <3>1. CASE short = 0
        BY <1>0, <1>3, <1>5, <2>2, <3>1, CoversLast
    <3>2. CASE short # 0
      <4>1. Truth(next + PageLimit) = 0
          BY <1>0, <1>2, <1>6, <3>2
      <4>2. next + PageLimit \in Nat
          BY <1>0
      <4>3. size <= next + PageLimit
          BY <1>0, <4>1, <4>2, TruthFacts
      <4>4. Nth(k) <= next + pages[next] /\ size <= Nth(k) + PageLimit
          BY <1>0, <1>3, <4>3
      <4> QED
          BY <1>0, <2>2, <4>4, CoversLast
    <3> QED
        BY <3>1, <3>2
  <2>4. LastOffset' = LastOffset
      BY <1>0 DEF LastOffset, Truth
  <2> QED
      BY <1>0, <1>2, <1>4, <2>1, <2>3, <2>4 DEF LastInv
<1>7. CASE n # 0
  <2>1. pc' = "wave"
      BY <1>1, <1>7
  <2>2. EndKnown'
      BY <1>0, <1>2, <1>4, <1>5 DEF EndKnown
  <2> QED
      BY <1>0, <1>2, <1>3, <1>4, <2>1, <2>2 DEF LastInv
<1> QED
    BY <1>6, <1>7

LEMMA LastInvInductive ==
  ASSUME PagerBounds
  PROVE  GapInv /\ LastInv /\ [PagerNext]_pagerVars => LastInv'
<1> SUFFICES ASSUME GapInv, LastInv, [PagerNext]_pagerVars PROVE LastInv'
    OBVIOUS
<1>1. CASE UNCHANGED pagerVars
  <2>1. UNCHANGED <<size, pc, pages, next, resumed, landed, got, result, short, cut>>
      BY <1>1 DEF pagerVars, place, wave
  <2>2. /\ Exact(landed)' = Exact(landed) /\ Exact(got)' = Exact(got)
        /\ Truth(next)' = Truth(next) /\ LastOffset' = LastOffset
      BY <2>1 DEF Exact, Truth, LastOffset
  <2>3. EndKnown' = EndKnown
      BY <2>1, <2>2 DEF EndKnown
  <2> QED
      BY <2>1, <2>2, <2>3 DEF LastInv
<1>2. CASE PagerNext
    BY <1>2, CallsKeepLastInv, FirstKeepsLastInv, WavesKeepLastInv, AssessKeepsLastInv,
       PeekKeepsLastInv DEF PagerNext, PagerReads
<1> QED
    BY <1>1, <1>2

\* With pages asked for in parallel and the whole list within reach, however
\* long it is and however many pages a wave has: one truncated page costs at
\* most items of the last page, unless it is the very first (_page_all and
\* _resume_hard_verify_from).
THEOREM LastPageOnlyHolds ==
  ASSUME PagerBounds
  PROVE  PagerSpec => []LastPageOnly
<1>1. LastInv => LastPageOnly
    BY DEF LastInv, LastPageOnly
<1>2. PagerInit => LastInv
    BY LastInvInit
<1>3. GapInv /\ LastInv /\ [PagerNext]_pagerVars => LastInv'
    BY LastInvInductive
<1> QED
    BY <1>1, <1>2, <1>3, GapInvHolds, PTL DEF PagerSpec

-----------------------------------------------------------------------------
(* Sums and lists over the scopes                                          *)

\* The largest scope.
LEMMA TopFacts == Top \in Nat \ {0} /\ Top \in Scopes /\ Scopes \subseteq 1..Top
<1>1. IsFiniteSet(Scopes) /\ Scopes \subseteq Nat \ {0} /\ Unlisted \in Scopes
    BY FetchAssumption DEF Scopes
<1> DEFINE N == Cardinality(Scopes)
<1>2. N \in Nat /\ ExistsBijection(1..N, Scopes)
    BY <1>1, FS_CardinalityType
<1>3. PICK f \in Bijection(1..N, Scopes) : TRUE
    BY <1>2 DEF ExistsBijection
<1>4. f \in [1..N -> Scopes] /\ \A s \in Scopes : \E i \in 1..N : f[i] = s
    BY <1>3 DEF Bijection, Injection, Surjection
<1> HIDE DEF N
<1> DEFINE Above(k) == \E b \in Nat : \A i \in 1..k : f[i] <= b
           Bad == {k \in 0..N : ~Above(k)}
<1>5. Bad = {}
  <2> SUFFICES ASSUME Bad # {} PROVE FALSE
      OBVIOUS
  <2>1. PICK k \in Bad : \A j \in Bad : k <= j
    <3>1. Bad \subseteq Nat
        BY <1>2
    <3> QED
        BY <3>1, LeastNat
  <2>2. Above(0)
    <3>1. \A i \in 1..0 : f[i] <= 0
        OBVIOUS
    <3> QED
        BY <3>1
  <2>3. k \in 1..N /\ k - 1 \in 0..N /\ k - 1 < k
    <3> HIDE DEF Above
    <3> QED
        BY <1>2, <2>1, <2>2
  <2>4. Above(k - 1)
    <3> HIDE DEF Above
    <3> QED
        BY <2>1, <2>3
  <2>5. PICK b \in Nat : \A i \in 1..(k - 1) : f[i] <= b
      BY <2>4
  <2> HIDE DEF Above, Bad
  <2>6. f[k] \in Nat
      BY <1>1, <1>4, <2>3
  <2>7. PICK c \in Nat : b <= c /\ f[k] <= c
    <3>1. b + f[k] \in Nat /\ b <= b + f[k] /\ f[k] <= b + f[k]
        BY <2>5, <2>6
    <3> QED
        BY <3>1
  <2>8. \A i \in 1..k : f[i] <= c
    <3> SUFFICES ASSUME NEW i \in 1..k PROVE f[i] <= c
        OBVIOUS
    <3>1. f[i] \in Nat
      <4>1. i \in 1..N
          BY <1>2, <2>3
      <4> QED
          BY <1>1, <1>4, <4>1
    <3>2. i = k \/ i \in 1..(k - 1)
        BY <2>3
    <3> QED
        BY <2>5, <2>7, <3>1, <3>2
  <2>9. Above(k)
      BY <2>7, <2>8 DEF Above
  <2> QED
      BY <2>1, <2>9 DEF Bad
<1>6. Above(N)
  <2> HIDE DEF Above
  <2> QED
      BY <1>2, <1>5
<1>7. PICK b \in Nat : \A i \in 1..N : f[i] <= b
    BY <1>6
<1>8. Scopes \in SUBSET (0..b)
  <2> SUFFICES ASSUME NEW s \in Scopes PROVE s \in 0..b
      OBVIOUS
  <2>1. PICK i \in 1..N : f[i] = s
      BY <1>4
  <2> QED
      BY <1>1, <1>7, <2>1
<1>9. PICK t \in Scopes : \A s \in Scopes : s <= t
    BY <1>1, <1>7, <1>8, GreatestNat
<1>10. Top \in Scopes /\ \A s \in Scopes : Top >= s
  <2>1. \A s \in Scopes : t >= s
      BY <1>1, <1>9
  <2> QED
      BY <2>1 DEF Top, Max
<1> QED
    BY <1>1, <1>10

\* Recursion over 0..N is well founded.
StepsOf(N, V) == [1..N -> [V -> V]]
Runs(g, N, V, v, Step) == g \in [0..N -> V] /\ g[0] = v /\ \A n \in 1..N : g[n] = Step[n][g[n - 1]]

LEMMA Iterates ==
  ASSUME NEW N, NEW V, NEW v, NEW Step, N \in Nat, v \in V, Step \in StepsOf(N, V)
  PROVE  \E g : Runs(g, N, V, v, Step)
<1> DEFINE Goes(g, k) == Runs(g, k, V, v, Step)
           Has(k) == \E g : Goes(g, k)
           Bad == {k \in 0..N : ~Has(k)}
<1> USE DEF Runs
<1>1. Bad = {}
  <2> SUFFICES ASSUME Bad # {} PROVE FALSE
      OBVIOUS
  <2>1. PICK k \in Bad : \A j \in Bad : k <= j
    <3>1. Bad \subseteq Nat
        OBVIOUS
    <3> QED
        BY <3>1, LeastNat
  <2>2. Has(0)
    <3> DEFINE g == [n \in 0..0 |-> v]
    <3>1. g \in [0..0 -> V] /\ g[0] = v /\ \A n \in 1..0 : FALSE
        OBVIOUS
    <3> HIDE DEF g
    <3> QED
        BY <3>1
  <2>3. k \in 1..N /\ k - 1 \in 0..N /\ k - 1 < k
    <3> HIDE DEF Has
    <3> QED
        BY <2>1, <2>2
  <2>4. Has(k - 1)
    <3> HIDE DEF Has
    <3> QED
        BY <2>1, <2>3
  <2>5. PICK g : Goes(g, k - 1)
      BY <2>4
  <2> DEFINE w == Step[k][g[k - 1]]
             h == [n \in 0..k |-> IF n = k THEN w ELSE g[n]]
  <2>6. w \in V
    <3> USE DEF StepsOf
    <3>1. g[k - 1] \in V
        BY <2>3, <2>5
    <3> QED
        BY <2>3, <3>1
  <2>7. h \in [0..k -> V]
    <3> SUFFICES ASSUME NEW n \in 0..k PROVE (IF n = k THEN w ELSE g[n]) \in V
        OBVIOUS
    <3>1. n = k \/ n \in 0..(k - 1)
        BY <2>3
    <3> HIDE DEF w
    <3> QED
        BY <2>5, <2>6, <3>1
  <2>8. h[0] = v
    <3>1. 0 \in 0..k /\ 0 # k
        BY <2>3
    <3> QED
        BY <2>5, <3>1
  <2>9. ASSUME NEW n \in 1..k PROVE h[n] = Step[n][h[n - 1]]
    <3>1. n \in 0..k /\ n - 1 \in 0..k /\ n - 1 # k /\ h[n - 1] = g[n - 1]
        BY <2>3
    <3>2. CASE n = k
      <4>1. h[n] = w
          BY <2>3, <3>2
      <4> QED
          BY <3>1, <3>2, <4>1
    <3>3. CASE n # k
      <4>1. n \in 1..(k - 1) /\ h[n] = g[n]
          BY <2>3, <3>3
      <4> QED
          BY <2>5, <3>1, <4>1
    <3> QED
        BY <3>2, <3>3
  <2>10. Goes(h, k)
    <3> HIDE DEF h
    <3> QED
        BY <2>7, <2>8, <2>9
  <2>11. Has(k)
    <3> HIDE DEF h, Goes
    <3> QED
        BY <2>10
  <2> HIDE DEF Has
  <2> QED
      BY <2>1, <2>11
<1>2. Has(N)
  <2> HIDE DEF Has
  <2> QED
      BY <1>1
<1> QED
    BY <1>2

\* A sum has its partial sums.
LEMMA SumDef ==
  ASSUME NEW f \in [0..Top -> Int]
  PROVE  \E sum \in [0..Top -> Int] :
           SumUp(f) = sum[Top] /\ sum[0] = f[0] /\ \A n \in 1..Top : sum[n] = sum[n - 1] + f[n]
<1>1. Top \in Nat
    BY TopFacts
<1> DEFINE Step == [n \in 1..Top |-> [x \in Int |-> f[n] + x]]
<1>2. Step \in StepsOf(Top, Int)
    BY <1>1 DEF StepsOf
<1>3. f[0] \in Int
    BY <1>1
<1>4. PICK g : g \in [0..Top -> Int] /\ g[0] = f[0] /\ \A n \in 1..Top : g[n] = Step[n][g[n - 1]]
  <2> HIDE DEF Step
  <2>1. \E g : Runs(g, Top, Int, f[0], Step)
      BY <1>1, <1>2, <1>3, Iterates
  <2> QED
      BY <2>1 DEF Runs
<1>5. \A n \in 1..Top : g[n] = f[n] + g[n - 1]
  <2> SUFFICES ASSUME NEW n \in 1..Top PROVE g[n] = f[n] + g[n - 1]
      OBVIOUS
  <2>1. n \in 0..Top /\ n - 1 \in 0..Top
      BY <1>1
  <2>2. g[n - 1] \in Int
      BY <1>4, <2>1
  <2>3. Step[n][g[n - 1]] = f[n] + g[n - 1]
      BY <2>2
  <2> HIDE DEF Step
  <2> QED
      BY <1>4, <2>3
<1> DEFINE Goes(s) == s = [n \in 0..Top |-> f[n] + (IF n = 0 THEN 0 ELSE s[n - 1])]
<1>6. Goes(g)
  <2>1. ASSUME NEW n \in 0..Top PROVE g[n] = f[n] + (IF n = 0 THEN 0 ELSE g[n - 1])
    <3>1. CASE n = 0
        BY <1>3, <1>4, <3>1
    <3>2. CASE n # 0
      <4>1. n \in 1..Top
          BY <1>1, <3>2
      <4> QED
          BY <1>5, <3>2, <4>1
    <3> QED
        BY <3>1, <3>2
  <2> QED
      BY <1>4, <2>1
<1> DEFINE sum == CHOOSE s : Goes(s)
<1>7. Goes(sum)
    BY <1>6
<1>8. SumUp(f) = sum[Top]
    BY DEF SumUp
<1> HIDE DEF sum
<1>9. sum[0] = f[0]
  <2>1. 0 \in 0..Top
      BY <1>1
  <2>2. sum[0] = f[0] + 0
      BY <1>7, <2>1
  <2> QED
      BY <1>3, <2>2
<1>10. ASSUME NEW n \in 1..Top PROVE sum[n] = f[n] + sum[n - 1]
  <2>1. n \in 0..Top /\ n # 0
      BY <1>1
  <2> QED
      BY <1>7, <2>1
<1> DEFINE Bad == {n \in 0..Top : sum[n] \notin Int}
<1>11. Bad = {}
  <2> SUFFICES ASSUME Bad # {} PROVE FALSE
      OBVIOUS
  <2>1. PICK n \in Bad : \A j \in Bad : n <= j
    <3>1. Bad \subseteq Nat
        BY <1>1
    <3> QED
        BY <3>1, LeastNat
  <2>2. n \in 1..Top /\ n - 1 \in 0..Top /\ n - 1 < n
      BY <1>1, <1>3, <1>9, <2>1
  <2>3. sum[n - 1] \in Int /\ f[n] \in Int
      BY <2>1, <2>2
  <2>4. sum[n] \in Int
      BY <1>10, <2>2, <2>3
  <2> QED
      BY <2>1, <2>4
<1>12. sum \in [0..Top -> Int]
    BY <1>7, <1>11
<1>13. \A n \in 1..Top : sum[n] = sum[n - 1] + f[n]
  <2> SUFFICES ASSUME NEW n \in 1..Top PROVE sum[n] = sum[n - 1] + f[n]
      OBVIOUS
  <2>1. n \in 0..Top /\ n - 1 \in 0..Top
      BY <1>1
  <2> QED
      BY <1>10, <1>12, <2>1
<1> QED
    BY <1>8, <1>9, <1>12, <1>13

\* Induction up to a number.
LEMMA UpTo ==
  ASSUME NEW N \in Nat, NEW S, 0 \in S, \A n \in 1..N : n - 1 \in S => n \in S
  PROVE  N \in S
<1> SUFFICES \A n \in 0..N : n \in S
    OBVIOUS
<1> DEFINE Bad == {n \in 0..N : n \notin S}
<1> SUFFICES ASSUME Bad # {} PROVE FALSE
    OBVIOUS
<1>1. PICK n \in Bad : \A j \in Bad : n <= j
  <2>1. Bad \subseteq Nat
      OBVIOUS
  <2> QED
      BY <2>1, LeastNat
<1>2. n \in 1..N /\ n - 1 \in 0..N /\ n - 1 < n
    BY <1>1
<1>3. n - 1 \in S
    BY <1>1, <1>2
<1> QED
    BY <1>1, <1>2, <1>3

LEMMA SumType == ASSUME NEW f \in [0..Top -> Int] PROVE SumUp(f) \in Int
BY TopFacts, SumDef

LEMMA SumLeq ==
  ASSUME NEW f \in [0..Top -> Int], NEW g \in [0..Top -> Int], \A s \in 0..Top : f[s] <= g[s]
  PROVE  SumUp(f) <= SumUp(g)
<1>1. Top \in Nat
    BY TopFacts
<1>2. PICK F \in [0..Top -> Int] :
        SumUp(f) = F[Top] /\ F[0] = f[0] /\ \A n \in 1..Top : F[n] = F[n - 1] + f[n]
    BY SumDef
<1>3. PICK G \in [0..Top -> Int] :
        SumUp(g) = G[Top] /\ G[0] = g[0] /\ \A n \in 1..Top : G[n] = G[n - 1] + g[n]
    BY SumDef
<1> DEFINE S == {n \in 0..Top : F[n] <= G[n]}
<1>4. 0 \in S
    BY <1>1, <1>2, <1>3
<1>5. ASSUME NEW n \in 1..Top, n - 1 \in S PROVE n \in S
  <2>1. n \in 0..Top /\ n - 1 \in 0..Top
      BY <1>1
  <2>2. F[n - 1] \in Int /\ G[n - 1] \in Int /\ f[n] \in Int /\ g[n] \in Int /\ f[n] <= g[n]
      BY <2>1
  <2>3. F[n - 1] <= G[n - 1]
      BY <1>5
  <2> QED
      BY <1>2, <1>3, <2>1, <2>2, <2>3
<1>6. Top \in S
  <2> HIDE DEF S
  <2> QED
      BY <1>1, <1>4, <1>5, UpTo
<1> QED
    BY <1>2, <1>3, <1>6

LEMMA SumPlus ==
  ASSUME NEW f \in [0..Top -> Int], NEW g \in [0..Top -> Int], NEW h \in [0..Top -> Int],
         \A s \in 0..Top : h[s] = f[s] + g[s]
  PROVE  SumUp(h) = SumUp(f) + SumUp(g)
<1>1. Top \in Nat
    BY TopFacts
<1>2. PICK F \in [0..Top -> Int] :
        SumUp(f) = F[Top] /\ F[0] = f[0] /\ \A n \in 1..Top : F[n] = F[n - 1] + f[n]
    BY SumDef
<1>3. PICK G \in [0..Top -> Int] :
        SumUp(g) = G[Top] /\ G[0] = g[0] /\ \A n \in 1..Top : G[n] = G[n - 1] + g[n]
    BY SumDef
<1>4. PICK H \in [0..Top -> Int] :
        SumUp(h) = H[Top] /\ H[0] = h[0] /\ \A n \in 1..Top : H[n] = H[n - 1] + h[n]
    BY SumDef
<1> DEFINE S == {n \in 0..Top : H[n] = F[n] + G[n]}
<1>5. 0 \in S
    BY <1>1, <1>2, <1>3, <1>4
<1>6. ASSUME NEW n \in 1..Top, n - 1 \in S PROVE n \in S
  <2>1. n \in 0..Top /\ n - 1 \in 0..Top
      BY <1>1
  <2>2. /\ F[n - 1] \in Int /\ G[n - 1] \in Int /\ f[n] \in Int /\ g[n] \in Int
        /\ h[n] = f[n] + g[n]
      BY <2>1
  <2>3. H[n - 1] = F[n - 1] + G[n - 1]
      BY <1>6
  <2> QED
      BY <1>2, <1>3, <1>4, <2>1, <2>2, <2>3
<1>7. Top \in S
  <2> HIDE DEF S
  <2> QED
      BY <1>1, <1>5, <1>6, UpTo
<1> QED
    BY <1>2, <1>3, <1>4, <1>7

\* One summand only.
LEMMA SumPoint ==
  ASSUME NEW f \in [0..Top -> Int], NEW k \in 0..Top, \A s \in 0..Top : s # k => f[s] = 0
  PROVE  SumUp(f) = f[k]
<1>1. Top \in Nat
    BY TopFacts
<1>2. PICK F \in [0..Top -> Int] :
        SumUp(f) = F[Top] /\ F[0] = f[0] /\ \A n \in 1..Top : F[n] = F[n - 1] + f[n]
    BY SumDef
<1> DEFINE S == {n \in 0..Top : F[n] = IF n < k THEN 0 ELSE f[k]}
<1>3. 0 \in S
    BY <1>1, <1>2
<1>4. ASSUME NEW n \in 1..Top, n - 1 \in S PROVE n \in S
  <2>1. n \in 0..Top /\ n - 1 \in 0..Top /\ f[n] \in Int /\ f[k] \in Int
      BY <1>1
  <2>2. F[n - 1] = IF n - 1 < k THEN 0 ELSE f[k]
      BY <1>4
  <2>3. F[n] = F[n - 1] + f[n]
      BY <1>2
  <2> QED
      BY <2>1, <2>2, <2>3
<1>5. Top \in S
  <2> HIDE DEF S
  <2> QED
      BY <1>1, <1>3, <1>4, UpTo
<1> QED
    BY <1>1, <1>2, <1>5

\* One summand more.
LEMMA SumMore ==
  ASSUME NEW f \in [0..Top -> Int], NEW k \in 0..Top, NEW d \in Int
  PROVE  SumUp([f EXCEPT ![k] = @ + d]) = SumUp(f) + d
<1> DEFINE g == [s \in 0..Top |-> IF s = k THEN d ELSE 0]
           h == [f EXCEPT ![k] = @ + d]
<1>1. g \in [0..Top -> Int] /\ g[k] = d /\ \A s \in 0..Top : s # k => g[s] = 0
    OBVIOUS
<1>2. h \in [0..Top -> Int] /\ \A s \in 0..Top : h[s] = f[s] + g[s]
    OBVIOUS
<1> HIDE DEF g, h
<1>3. SumUp(g) = d
    BY <1>1, SumPoint
<1>4. SumUp(h) = SumUp(f) + SumUp(g)
    BY <1>1, <1>2, SumPlus
<1> QED
    BY <1>3, <1>4 DEF h

\* The size of a union is at most the sum of the sizes, and is the sum if the
\* sets are disjoint.
LEMMA UnionSize ==
  ASSUME NEW A, NEW f \in [0..Top -> Int],
         \A s \in 0..Top : IsFiniteSet(A[s]) /\ f[s] = Cardinality(A[s])
  PROVE  LET U == UNION {A[s] : s \in 0..Top}
         IN /\ IsFiniteSet(U) /\ Cardinality(U) <= SumUp(f)
            /\ (\A s, t \in 0..Top : s # t => A[s] \cap A[t] = {}) => Cardinality(U) = SumUp(f)
<1>1. Top \in Nat
    BY TopFacts
<1>2. PICK F \in [0..Top -> Int] :
        SumUp(f) = F[Top] /\ F[0] = f[0] /\ \A n \in 1..Top : F[n] = F[n - 1] + f[n]
    BY SumDef
<1> DEFINE U(n) == UNION {A[s] : s \in 0..n}
           Apart0 == \A s, t \in 0..Top : s # t => A[s] \cap A[t] = {}
           S == {n \in 0..Top : /\ IsFiniteSet(U(n)) /\ Cardinality(U(n)) <= F[n]
                                /\ Apart0 => Cardinality(U(n)) = F[n]}
<1>3. 0 \in S
  <2>1. U(0) = A[0]
      OBVIOUS
  <2>2. IsFiniteSet(A[0]) /\ f[0] = Cardinality(A[0]) /\ f[0] \in Int /\ 0 \in 0..Top
      BY <1>1
  <2> HIDE DEF U, Apart0
  <2> QED
      BY <1>2, <2>1, <2>2
<1>4. ASSUME NEW n \in 1..Top, n - 1 \in S PROVE n \in S
  <2>1. n \in 0..Top /\ n - 1 \in 0..Top
      BY <1>1
  <2>2. U(n) = U(n - 1) \cup A[n]
    <3>1. \A s : s \in 0..n <=> s \in 0..(n - 1) \/ s = n
        BY <2>1
    <3> QED
        BY <3>1
  <2>3. IsFiniteSet(A[n]) /\ f[n] = Cardinality(A[n]) /\ Cardinality(A[n]) \in Nat
      BY <2>1, FS_CardinalityType
  <2>4. /\ IsFiniteSet(U(n - 1)) /\ Cardinality(U(n - 1)) <= F[n - 1]
        /\ Apart0 => Cardinality(U(n - 1)) = F[n - 1]
      BY <1>4
  <2>5. Apart0 => U(n - 1) \cap A[n] = {}
    <3>1. \A s \in 0..(n - 1) : s \in 0..Top /\ s # n
        BY <1>1, <2>1
    <3> QED
        BY <2>1, <3>1
  <2> HIDE DEF U, Apart0
  <2>6. Cardinality(U(n - 1)) \in Nat /\ F[n - 1] \in Int /\ F[n] = F[n - 1] + f[n]
      BY <1>2, <2>1, <2>4, FS_CardinalityType
  <2>7. /\ IsFiniteSet(U(n - 1) \cup A[n])
        /\ Cardinality(U(n - 1) \cup A[n])
             = Cardinality(U(n - 1)) + Cardinality(A[n]) - Cardinality(U(n - 1) \cap A[n])
      BY <2>3, <2>4, FS_Union
  <2>8. IsFiniteSet(U(n - 1) \cap A[n]) /\ Cardinality(U(n - 1) \cap A[n]) \in Nat
      BY <2>4, FS_Intersection, FS_CardinalityType
  <2>9. Apart0 => Cardinality(U(n - 1) \cap A[n]) = 0
      BY <2>5, FS_EmptySet
  <2>10. IsFiniteSet(U(n)) /\ Cardinality(U(n)) <= F[n]
      BY <2>2, <2>3, <2>4, <2>6, <2>7, <2>8
  <2>11. Apart0 => Cardinality(U(n)) = F[n]
      BY <2>2, <2>3, <2>4, <2>6, <2>7, <2>8, <2>9
  <2> QED
      BY <2>1, <2>10, <2>11
<1>5. Top \in S
  <2> HIDE DEF S
  <2> QED
      BY <1>1, <1>3, <1>4, UpTo
<1>6. /\ IsFiniteSet(U(Top)) /\ Cardinality(U(Top)) <= F[Top]
      /\ Apart0 => Cardinality(U(Top)) = F[Top]
  <2> HIDE DEF U, Apart0
  <2> QED
      BY <1>5
<1> QED
    BY <1>2, <1>6

-----------------------------------------------------------------------------
(* Finite sets of numbers                                                  *)

\* A set grows by one element at most.
LEMMA OneMore ==
  ASSUME NEW S, IsFiniteSet(S), NEW x, NEW T, T \subseteq S \cup {x}
  PROVE  IsFiniteSet(T) /\ Cardinality(T) \in Nat /\ Cardinality(T) <= Cardinality(S) + 1
<1>1. IsFiniteSet(S \cup {x}) /\ Cardinality(S \cup {x}) <= Cardinality(S) + 1
  <2>1. Cardinality(S) \in Nat
      BY FS_CardinalityType
  <2>2. /\ IsFiniteSet(S \cup {x})
        /\ Cardinality(S \cup {x}) = IF x \in S THEN Cardinality(S) ELSE Cardinality(S) + 1
      BY FS_AddElement
  <2> QED
      BY <2>1, <2>2
<1>2. IsFiniteSet(T) /\ Cardinality(T) <= Cardinality(S \cup {x})
    BY <1>1, FS_Subset
<1> QED
    BY <1>1, <1>2, FS_CardinalityType

LEMMA NotMore ==
  ASSUME NEW S, IsFiniteSet(S), NEW T, T \subseteq S
  PROVE  /\ IsFiniteSet(T) /\ Cardinality(T) \in Nat /\ Cardinality(S) \in Nat
         /\ Cardinality(T) <= Cardinality(S)
BY FS_Subset, FS_CardinalityType

\* A finite set and what it is made of.
LEMMA InTwo ==
  ASSUME NEW S, IsFiniteSet(S), NEW T
  PROVE  /\ IsFiniteSet(S \ T) /\ IsFiniteSet(S \cap T)
         /\ Cardinality(S) = Cardinality(S \cap T) + Cardinality(S \ T)
         /\ Cardinality(S \ T) \in Nat /\ Cardinality(S \cap T) \in Nat
<1>1. IsFiniteSet(S \ T) /\ Cardinality(S \ T) = Cardinality(S) - Cardinality(S \cap T)
    BY FS_Difference
<1>2. IsFiniteSet(S \cap T)
    BY FS_Intersection
<1>3. Cardinality(S) \in Nat /\ Cardinality(S \ T) \in Nat /\ Cardinality(S \cap T) \in Nat
    BY <1>1, <1>2, FS_CardinalityType
<1> QED
    BY <1>1, <1>2, <1>3

-----------------------------------------------------------------------------
(* Lists                                                                   *)

\* The list small is big without its i-th number.
Drops(big, small, i) ==
  /\ big \in Seq(Nat) /\ small \in Seq(Nat) /\ i \in 1..Len(big) /\ Len(small) = Len(big) - 1
  /\ \A j \in 1..Len(small) : small[j] = IF j < i THEN big[j] ELSE big[j + 1]

LEMMA SetOf ==
  ASSUME NEW p \in Seq(Nat)
  PROVE  /\ ToSet(p) \subseteq Nat /\ IsFiniteSet(ToSet(p)) /\ Cardinality(ToSet(p)) <= Len(p)
         /\ IsInjective(p) => Cardinality(ToSet(p)) = Len(p)
<1>1. DOMAIN p = 1..Len(p) /\ Len(p) \in Nat /\ \A i \in 1..Len(p) : p[i] \in Nat
    OBVIOUS
<1>2. p \in Surjection(1..Len(p), ToSet(p))
    BY <1>1 DEF Surjection, ToSet
<1>3. IsFiniteSet(1..Len(p)) /\ Cardinality(1..Len(p)) = Len(p)
    BY <1>1, FS_Interval
<1>4. /\ IsFiniteSet(ToSet(p)) /\ Cardinality(ToSet(p)) <= Len(p)
      /\ Cardinality(ToSet(p)) = Len(p) <=> p \in Injection(1..Len(p), ToSet(p))
    BY <1>2, <1>3, FS_Surjection
<1>5. IsInjective(p) => p \in Injection(1..Len(p), ToSet(p))
    BY <1>1 DEF IsInjective, Injection, ToSet
<1>6. ToSet(p) \subseteq Nat
    BY <1>1 DEF ToSet
<1> QED
    BY <1>4, <1>5, <1>6

LEMMA JoinSet ==
  ASSUME NEW p \in Seq(Nat), NEW q \in Seq(Nat)
  PROVE  ToSet(p \o q) = ToSet(p) \cup ToSet(q) /\ p \o q \in Seq(Nat) /\ Len(p \o q) = Len(p) + Len(q)
<1>1. Len(p \o q) = Len(p) + Len(q) /\ DOMAIN (p \o q) = 1..(Len(p) + Len(q))
    OBVIOUS
<1>2. \A i \in 1..Len(p) : (p \o q)[i] = p[i]
    OBVIOUS
<1>3. \A i \in 1..Len(q) : (p \o q)[Len(p) + i] = q[i]
    OBVIOUS
<1>4. \A i \in 1..(Len(p) + Len(q)) : i \in 1..Len(p) \/ (i - Len(p) \in 1..Len(q) /\ i = Len(p) + (i - Len(p)))
    OBVIOUS
<1>5. ToSet(p) \cup ToSet(q) \subseteq ToSet(p \o q)
  <2>1. \A i \in 1..Len(p) : i \in 1..(Len(p) + Len(q))
      OBVIOUS
  <2>2. \A i \in 1..Len(q) : Len(p) + i \in 1..(Len(p) + Len(q))
      OBVIOUS
  <2>3. DOMAIN p = 1..Len(p) /\ DOMAIN q = 1..Len(q)
      OBVIOUS
  <2>4. \A i \in DOMAIN p : p[i] \in ToSet(p \o q)
      BY <1>1, <1>2, <2>1, <2>3 DEF ToSet
  <2>5. \A i \in DOMAIN q : q[i] \in ToSet(p \o q)
      BY <1>1, <1>3, <2>2, <2>3 DEF ToSet
  <2> QED
      BY <2>4, <2>5 DEF ToSet
<1>6. ToSet(p \o q) \subseteq ToSet(p) \cup ToSet(q)
  <2> SUFFICES ASSUME NEW i \in 1..(Len(p) + Len(q)) PROVE (p \o q)[i] \in ToSet(p) \cup ToSet(q)
      BY <1>1 DEF ToSet
  <2>1. CASE i \in 1..Len(p)
      BY <1>2, <2>1 DEF ToSet
  <2>2. CASE i - Len(p) \in 1..Len(q) /\ i = Len(p) + (i - Len(p))
      BY <1>3, <2>2 DEF ToSet
  <2> QED
      BY <1>4, <2>1, <2>2
<1> QED
    BY <1>1, <1>5, <1>6

LEMMA JoinInjective ==
  ASSUME NEW p \in Seq(Nat), NEW q \in Seq(Nat), IsInjective(p), IsInjective(q),
         ToSet(p) \cap ToSet(q) = {}
  PROVE  IsInjective(p \o q)
<1>1. DOMAIN (p \o q) = 1..(Len(p) + Len(q)) /\ DOMAIN p = 1..Len(p) /\ DOMAIN q = 1..Len(q)
    OBVIOUS
<1> SUFFICES ASSUME NEW i \in 1..(Len(p) + Len(q)), NEW j \in 1..(Len(p) + Len(q)),
                    (p \o q)[i] = (p \o q)[j]
             PROVE  i = j
    BY <1>1 DEF IsInjective
<1> DEFINE At(k) == IF k <= Len(p) THEN k \in DOMAIN p /\ (p \o q)[k] = p[k]
                    ELSE k - Len(p) \in DOMAIN q /\ (p \o q)[k] = q[k - Len(p)]
<1>2. At(i) /\ At(j)
    BY <1>1
<1>3. CASE i <= Len(p) /\ j <= Len(p)
    BY <1>2, <1>3 DEF IsInjective
<1>4. CASE ~(i <= Len(p)) /\ ~(j <= Len(p))
  <2>1. i - Len(p) = j - Len(p)
      BY <1>2, <1>4 DEF IsInjective
  <2> QED
      BY <2>1
<1>5. CASE i <= Len(p) /\ ~(j <= Len(p))
    BY <1>2, <1>5 DEF ToSet
<1>6. CASE ~(i <= Len(p)) /\ j <= Len(p)
    BY <1>2, <1>6 DEF ToSet
<1> QED
    BY <1>3, <1>4, <1>5, <1>6

LEMMA JoinAt ==
  ASSUME NEW p \in Seq(Nat), NEW q \in Seq(Nat)
  PROVE  /\ \A j \in 1..Len(p) : (p \o q)[j] = p[j]
         /\ \A j \in Len(p) + 1..Len(p) + Len(q) : (p \o q)[j] = q[j - Len(p)]
OBVIOUS

LEMMA JoinDrops ==
  ASSUME NEW big, NEW small, NEW i, Drops(big, small, i), NEW q \in Seq(Nat)
  PROVE  /\ Drops(big \o q, small \o q, i) /\ (big \o q)[i] = big[i]
         /\ Drops(q \o big, q \o small, Len(q) + i) /\ (q \o big)[Len(q) + i] = big[i]
<1>1. /\ big \in Seq(Nat) /\ small \in Seq(Nat) /\ i \in 1..Len(big) /\ Len(small) = Len(big) - 1
      /\ \A j \in 1..Len(small) : small[j] = IF j < i THEN big[j] ELSE big[j + 1]
    BY DEF Drops
<1>2. Drops(big \o q, small \o q, i) /\ (big \o q)[i] = big[i]
  <2>1. /\ big \o q \in Seq(Nat) /\ small \o q \in Seq(Nat)
        /\ Len(big \o q) = Len(big) + Len(q) /\ Len(small \o q) = Len(small) + Len(q)
      BY <1>1, JoinSet
  <2>2. ASSUME NEW j \in 1..Len(small \o q)
        PROVE  (small \o q)[j] = IF j < i THEN (big \o q)[j] ELSE (big \o q)[j + 1]
    <3>0. /\ Len(small) \in Nat /\ Len(big) = Len(small) + 1 /\ Len(q) \in Nat /\ i \in 1..Len(big)
          /\ j \in 1..Len(small) + Len(q)
        BY <1>1, <2>1
    <3>1. CASE j <= Len(small)
      <4>1. j \in 1..Len(small) /\ j \in 1..Len(big) /\ j + 1 \in 1..Len(big)
          BY <3>0, <3>1
      <4>2. (small \o q)[j] = small[j] /\ (big \o q)[j] = big[j] /\ (big \o q)[j + 1] = big[j + 1]
          BY <1>1, <4>1, JoinAt
      <4> QED
          BY <1>1, <4>1, <4>2
    <3>2. CASE ~(j <= Len(small))
      <4>1. /\ j \in Len(small) + 1..Len(small) + Len(q) /\ j + 1 \in Len(big) + 1..Len(big) + Len(q)
            /\ ~(j < i) /\ (j + 1) - Len(big) = j - Len(small)
          BY <3>0, <3>2
      <4>2. (small \o q)[j] = q[j - Len(small)] /\ (big \o q)[j + 1] = q[(j + 1) - Len(big)]
          BY <1>1, <4>1, JoinAt
      <4> QED
          BY <4>1, <4>2
    <3> QED
        BY <3>1, <3>2
  <2>3. i \in 1..Len(big \o q) /\ Len(small \o q) = Len(big \o q) - 1 /\ (big \o q)[i] = big[i]
    <3>1. (big \o q)[i] = big[i]
        BY <1>1, JoinAt
    <3> QED
        BY <1>1, <2>1, <3>1
  <2> QED
      BY <2>1, <2>2, <2>3 DEF Drops
<1>3. Drops(q \o big, q \o small, Len(q) + i) /\ (q \o big)[Len(q) + i] = big[i]
  <2>1. /\ q \o big \in Seq(Nat) /\ q \o small \in Seq(Nat) /\ Len(q) \in Nat
        /\ Len(q \o big) = Len(q) + Len(big) /\ Len(q \o small) = Len(q) + Len(small)
    <3>1. Len(q) \in Nat
        OBVIOUS
    <3>2. q \o big \in Seq(Nat) /\ Len(q \o big) = Len(q) + Len(big)
        BY <1>1, JoinSet
    <3>3. q \o small \in Seq(Nat) /\ Len(q \o small) = Len(q) + Len(small)
        BY <1>1, JoinSet
    <3> QED
        BY <3>1, <3>2, <3>3
  <2>2. ASSUME NEW j \in 1..Len(q \o small)
        PROVE  (q \o small)[j] = IF j < Len(q) + i THEN (q \o big)[j] ELSE (q \o big)[j + 1]
    <3>1. CASE j <= Len(q)
        BY <1>1, <2>1, <3>1
    <3>2. CASE ~(j <= Len(q))
      <4>1. j - Len(q) \in 1..Len(small) /\ (j < Len(q) + i <=> j - Len(q) < i)
          BY <1>1, <2>1, <3>2
      <4>2. (q \o small)[j] = small[j - Len(q)]
          BY <1>1, <2>1, <3>2
      <4>3. (q \o big)[j] = big[j - Len(q)] /\ (q \o big)[j + 1] = big[(j - Len(q)) + 1]
          BY <1>1, <2>1, <3>2
      <4> QED
          BY <1>1, <4>1, <4>2, <4>3
    <3> QED
        BY <3>1, <3>2
  <2>3. Len(q) + i \in 1..Len(q \o big) /\ Len(q \o small) = Len(q \o big) - 1
      BY <1>1, <2>1
  <2>4. (q \o big)[Len(q) + i] = big[i]
      BY <1>1, <2>1
  <2> QED
      BY <2>1, <2>2, <2>3, <2>4 DEF Drops
<1> QED
    BY <1>2, <1>3

\* What is in a list, before and behind a place, when a number is dropped.
Before(st, a) == {st[i] : i \in {j \in DOMAIN st : j <= a}}
Behind(st, a) == {st[i] : i \in {j \in DOMAIN st : j > a}}
Left(st, a) == IF Len(st) > a THEN Len(st) - a ELSE 0

LEMMA DropFacts ==
  ASSUME NEW big, NEW small, NEW i, Drops(big, small, i), NEW a \in Nat
  PROVE  /\ ToSet(big) = ToSet(small) \cup {big[i]}
         /\ \/ Left(big, a) = Left(small, a) /\ Behind(big, a) = Behind(small, a)
            \/ /\ Left(big, a) = Left(small, a) + 1
               /\ \E x \in Nat : Behind(big, a) = Behind(small, a) \cup {x}
         /\ \E x : Before(small, a) \subseteq Before(big, a) \cup {x}
         /\ Before(big, a) \subseteq Before(small, a) \cup {big[i]}
<1>1. /\ big \in Seq(Nat) /\ small \in Seq(Nat) /\ i \in 1..Len(big) /\ Len(small) = Len(big) - 1
      /\ \A j \in 1..Len(small) : small[j] = IF j < i THEN big[j] ELSE big[j + 1]
      /\ DOMAIN big = 1..Len(big) /\ DOMAIN small = 1..Len(small) /\ Len(big) \in Nat /\ Len(small) \in Nat
      /\ \A j \in 1..Len(big) : big[j] \in Nat
    BY DEF Drops
\* Where a number of the one is in the other.
<1>2. \A j \in 1..Len(small) : \/ j < i /\ j \in 1..Len(big) /\ small[j] = big[j]
                               \/ j >= i /\ j + 1 \in 1..Len(big) /\ small[j] = big[j + 1]
    BY <1>1
<1>3. \A j \in 1..Len(big) : \/ j < i /\ j \in 1..Len(small) /\ big[j] = small[j]
                             \/ j = i
                             \/ j > i /\ j - 1 \in 1..Len(small) /\ big[j] = small[j - 1]
    BY <1>1
<1>4. ToSet(big) = ToSet(small) \cup {big[i]}
  <2>1. \A j \in DOMAIN small : \E k \in DOMAIN big : small[j] = big[k]
      BY <1>1, <1>2
  <2>2. \A j \in DOMAIN big : big[j] = big[i] \/ \E k \in DOMAIN small : big[j] = small[k]
      BY <1>1, <1>3
  <2>3. i \in DOMAIN big
      BY <1>1
  <2> QED
      BY <2>1, <2>2, <2>3 DEF ToSet
<1>5. Before(big, a) \subseteq Before(small, a) \cup {big[i]}
  <2>1. ASSUME NEW j \in DOMAIN big, j <= a PROVE big[j] \in Before(small, a) \cup {big[i]}
    <3>0. j \in 1..Len(big) /\ i \in Nat /\ DOMAIN small = 1..Len(small)
        BY <1>1
    <3>1. CASE j < i
      <4>1. j \in DOMAIN small /\ j <= a /\ big[j] = small[j]
          BY <1>3, <2>1, <3>0, <3>1
      <4> QED
          BY <4>1 DEF Before
    <3>2. CASE j > i
      <4>1. j - 1 \in DOMAIN small /\ j - 1 <= a /\ big[j] = small[j - 1]
          BY <1>3, <2>1, <3>0, <3>2
      <4> QED
          BY <4>1 DEF Before
    <3> QED
        BY <1>1, <3>1, <3>2
  <2> QED
      BY <2>1 DEF Before
<1>6. \E x : Before(small, a) \subseteq Before(big, a) \cup {x}
  <2> SUFFICES Before(small, a) \subseteq Before(big, a) \cup {small[a]}
      OBVIOUS
  <2>1. ASSUME NEW j \in DOMAIN small, j <= a PROVE small[j] \in Before(big, a) \cup {small[a]}
    <3>0. j \in 1..Len(small) /\ j \in Nat /\ i \in Nat /\ DOMAIN big = 1..Len(big)
        BY <1>1
    <3>1. CASE j < i
      <4>1. j \in DOMAIN big /\ small[j] = big[j]
          BY <1>1, <1>2, <3>1
      <4> QED
          BY <2>1, <4>1 DEF Before
    <3>2. CASE j >= i /\ j # a
      <4>1. j + 1 \in DOMAIN big /\ j + 1 <= a /\ small[j] = big[j + 1]
          BY <1>2, <2>1, <3>0, <3>2
      <4> QED
          BY <4>1 DEF Before
    <3> QED
        BY <3>0, <3>1, <3>2
  <2> QED
      BY <2>1 DEF Before
<1>7. CASE a >= Len(big)
  <2>1. Left(big, a) = 0 /\ Left(small, a) = 0
      BY <1>1, <1>7 DEF Left
  <2>2. Behind(big, a) = {} /\ Behind(small, a) = {}
      BY <1>1, <1>7 DEF Behind
  <2> QED
      BY <1>4, <1>5, <1>6, <2>1, <2>2
<1>8. CASE a < Len(big)
  <2>1. Left(big, a) = Left(small, a) + 1
      BY <1>1, <1>8 DEF Left
  <2> DEFINE x == IF a < i THEN big[i] ELSE big[a + 1]
  <2>2. x \in Nat
    <3>1. i \in 1..Len(big) /\ Len(big) \in Nat
        BY <1>1
    <3>2. a + 1 \in 1..Len(big)
        BY <1>8, <3>1
    <3> QED
        BY <1>1, <3>2
  <2>3. x \in Behind(big, a)
    <3>1. CASE a < i
      <4>1. i \in DOMAIN big /\ i > a /\ x = big[i]
          BY <1>1, <3>1
      <4> QED
          BY <4>1 DEF Behind
    <3>2. CASE ~(a < i)
      <4>1. a + 1 \in DOMAIN big /\ a + 1 > a /\ x = big[a + 1]
          BY <1>1, <1>8, <3>2
      <4> QED
          BY <4>1 DEF Behind
    <3> QED
        BY <3>1, <3>2
  <2>4. ASSUME NEW j \in DOMAIN big, j > a PROVE big[j] \in Behind(small, a) \cup {x}
    <3>0. j \in 1..Len(big) /\ i \in Nat /\ DOMAIN small = 1..Len(small)
        BY <1>1
    <3>1. CASE j < i
      <4>1. j \in DOMAIN small /\ big[j] = small[j]
          BY <1>3, <3>0, <3>1
      <4> QED
          BY <2>4, <4>1 DEF Behind
    <3>2. CASE j > i /\ j - 1 > a
      <4>1. j - 1 \in DOMAIN small /\ big[j] = small[j - 1]
          BY <1>3, <3>0, <3>2
      <4> QED
          BY <3>2, <4>1 DEF Behind
    <3>3. CASE j > i /\ ~(j - 1 > a)
      <4>1. j = a + 1 /\ ~(a < i)
          BY <2>4, <3>0, <3>3
      <4> QED
          BY <4>1
    <3>4. CASE j = i
        BY <2>4, <3>4
    <3> QED
        BY <3>0, <3>1, <3>2, <3>3, <3>4
  <2>5. ASSUME NEW j \in DOMAIN small, j > a PROVE small[j] \in Behind(big, a)
    <3>0. j \in 1..Len(small) /\ j \in Nat /\ i \in Nat /\ DOMAIN big = 1..Len(big)
        BY <1>1
    <3>1. CASE j < i
      <4>1. j \in DOMAIN big /\ small[j] = big[j]
          BY <1>1, <1>2, <3>1
      <4> QED
          BY <2>5, <4>1 DEF Behind
    <3>2. CASE j >= i
      <4>1. j + 1 \in DOMAIN big /\ j + 1 > a /\ small[j] = big[j + 1]
          BY <1>2, <2>5, <3>0, <3>2
      <4> QED
          BY <4>1 DEF Behind
    <3> QED
        BY <3>0, <3>1, <3>2
  <2>6. Behind(big, a) = Behind(small, a) \cup {x}
    <3>1. Behind(big, a) \subseteq Behind(small, a) \cup {x}
      <4> HIDE DEF x
      <4> QED
          BY <2>4 DEF Behind
    <3>2. Behind(small, a) \subseteq Behind(big, a)
        BY <2>5 DEF Behind
    <3> HIDE DEF x
    <3> QED
        BY <2>3, <3>1, <3>2
  <2> HIDE DEF x
  <2> QED
      BY <1>4, <1>5, <1>6, <2>1, <2>2, <2>6
<1> QED
  <2>1. a >= Len(big) \/ a < Len(big)
      BY <1>1
  <2> QED
      BY <1>7, <1>8, <2>1

\* One list per scope, one behind the other.
ListPerScope == [1..Top -> Seq(Nat)]
Piles(g, seqs) == /\ g \in [0..Top -> Seq(Nat)] /\ g[0] = <<>>
                  /\ \A n \in 1..Top : g[n] = g[n - 1] \o seqs[n]

LEMMA Flat ==
  ASSUME NEW seqs, seqs \in ListPerScope
  PROVE  \E g : Piles(g, seqs) /\ FlattenSeq(seqs) = g[Top]
<1>1. Top \in Nat \ {0}
    BY TopFacts
<1>2. seqs \in Seq(Seq(Nat)) /\ Len(seqs) = Top /\ \A n \in 1..Top : seqs[n] \in Seq(Nat)
    BY <1>1 DEF ListPerScope
<1> DEFINE Step == [n \in 1..Top |-> [q \in Seq(Nat) |-> q \o seqs[n]]]
<1>3. Step \in StepsOf(Top, Seq(Nat))
  <2>1. \A n \in 1..Top, q \in Seq(Nat) : q \o seqs[n] \in Seq(Nat)
      BY <1>2, JoinSet
  <2> QED
      BY <2>1 DEF StepsOf
<1>4. <<>> \in Seq(Nat)
    OBVIOUS
<1>5. PICK g : g \in [0..Top -> Seq(Nat)] /\ g[0] = <<>> /\ \A n \in 1..Top : g[n] = Step[n][g[n - 1]]
  <2> HIDE DEF Step
  <2>1. \E g : Runs(g, Top, Seq(Nat), <<>>, Step)
      BY <1>1, <1>3, <1>4, Iterates
  <2> QED
      BY <2>1 DEF Runs
<1>6. ASSUME NEW n \in 1..Top PROVE g[n] = g[n - 1] \o seqs[n] /\ g[n - 1] \in Seq(Nat)
  <2>1. n - 1 \in 0..Top
      BY <1>1
  <2>2. g[n - 1] \in Seq(Nat)
      BY <1>5, <2>1
  <2>3. Step[n][g[n - 1]] = g[n - 1] \o seqs[n]
      BY <2>2
  <2> HIDE DEF Step
  <2> QED
      BY <1>5, <2>2, <2>3
<1>7. g[1] = seqs[1]
  <2>1. 1 \in 1..Top /\ 1 - 1 = 0
      BY <1>1
  <2>2. g[1] = <<>> \o seqs[1]
      BY <1>5, <1>6, <2>1
  <2>3. seqs[1] \in Seq(Nat)
      BY <1>2, <2>1
  <2> QED
      BY <2>2, <2>3
<1> HIDE DEF Step
<1> DEFINE Goes(f) == f = [i \in 1..Top |-> IF i = 1 THEN seqs[i] ELSE f[i - 1] \o seqs[i]]
           h == [i \in 1..Top |-> g[i]]
<1>8. Goes(h)
  <2>1. ASSUME NEW i \in 1..Top PROVE h[i] = IF i = 1 THEN seqs[i] ELSE h[i - 1] \o seqs[i]
    <3>1. CASE i = 1
        BY <1>7, <3>1
    <3>2. CASE i # 1
      <4>1. i - 1 \in 1..Top
          BY <1>1, <3>2
      <4>2. h[i - 1] = g[i - 1] /\ h[i] = g[i]
          BY <4>1
      <4> QED
          BY <1>6, <3>2, <4>2
    <3> QED
        BY <3>1, <3>2
  <2> QED
      BY <2>1
<1> DEFINE flatten == CHOOSE f : Goes(f)
<1>9. Goes(flatten)
  <2> HIDE DEF Goes, h
  <2> QED
      BY <1>8
<1>10. FlattenSeq(seqs) = flatten[Top]
    BY <1>1, <1>2 DEF FlattenSeq
<1> HIDE DEF flatten
<1> DEFINE k == [n \in 0..Top |-> IF n = 0 THEN <<>> ELSE flatten[n]]
<1>11. ASSUME NEW n \in 1..Top PROVE k[n] = k[n - 1] \o seqs[n] /\ k[n] = flatten[n]
  <2>1. n \in 0..Top /\ n # 0 /\ k[n] = flatten[n] /\ n - 1 \in 0..Top
      BY <1>1
  <2>2. CASE n = 1
    <3>1. flatten[n] = seqs[1] /\ k[n - 1] = <<>> /\ seqs[1] \in Seq(Nat)
        BY <1>2, <1>9, <2>1, <2>2
    <3>2. <<>> \o seqs[1] = seqs[1]
        BY <3>1
    <3> QED
        BY <2>1, <2>2, <3>1, <3>2
  <2>3. CASE n # 1
    <3>1. n - 1 # 0 /\ k[n - 1] = flatten[n - 1]
        BY <2>1, <2>3
    <3>2. flatten[n] = flatten[n - 1] \o seqs[n]
        BY <1>9, <2>3
    <3> QED
        BY <2>1, <3>1, <3>2
  <2> QED
      BY <2>2, <2>3
<1>12. k[0] = <<>>
    BY <1>1
<1>13. k \in [0..Top -> Seq(Nat)]
  <2> DEFINE S == {n \in 0..Top : \A m \in 0..n : k[m] \in Seq(Nat)}
  <2>1. 0 \in S
      BY <1>1, <1>4, <1>12
  <2>2. ASSUME NEW n \in 1..Top, n - 1 \in S PROVE n \in S
    <3>1. n \in 0..Top /\ n - 1 \in 0..Top /\ n - 1 \in 0..(n - 1)
        BY <1>1
    <3>2. k[n - 1] \in Seq(Nat)
        BY <2>2, <3>1
    <3>3. k[n] \in Seq(Nat)
        BY <1>2, <1>11, <3>2, JoinSet
    <3>4. \A m \in 0..n : m = n \/ m \in 0..(n - 1)
        BY <3>1
    <3> HIDE DEF k
    <3> QED
        BY <2>2, <3>1, <3>3, <3>4
  <2>3. Top \in S
    <3> HIDE DEF S
    <3> QED
        BY <1>1, <2>1, <2>2, UpTo
  <2> QED
      BY <2>3
<1>14. k[Top] = flatten[Top]
    BY <1>1
<1>15. Piles(k, seqs)
  <2> HIDE DEF k
  <2> QED
      BY <1>11, <1>12, <1>13 DEF Piles
<1> QED
    BY <1>10, <1>14, <1>15

LEMMA FlatSet ==
  ASSUME NEW seqs, seqs \in ListPerScope
  PROVE  /\ FlattenSeq(seqs) \in Seq(Nat)
         /\ ToSet(FlattenSeq(seqs)) = UNION {ToSet(seqs[n]) : n \in 1..Top}
<1>1. Top \in Nat
    BY TopFacts
<1>2. PICK g : Piles(g, seqs) /\ FlattenSeq(seqs) = g[Top]
    BY Flat
<1>3. /\ g \in [0..Top -> Seq(Nat)] /\ g[0] = <<>>
      /\ \A n \in 1..Top : g[n] = g[n - 1] \o seqs[n]
    BY <1>2 DEF Piles
<1> DEFINE U(n) == UNION {ToSet(seqs[m]) : m \in 1..n}
           S == {n \in 0..Top : ToSet(g[n]) = U(n)}
<1>4. 0 \in S
  <2>1. U(0) = {}
      OBVIOUS
  <2>2. ToSet(g[0]) = {}
      BY <1>3 DEF ToSet
  <2> QED
      BY <1>1, <2>1, <2>2
<1>5. ASSUME NEW n \in 1..Top, n - 1 \in S PROVE n \in S
  <2>1. n \in 0..Top /\ n - 1 \in 0..Top
      BY <1>1
  <2>2. g[n - 1] \in Seq(Nat) /\ seqs[n] \in Seq(Nat)
      BY <1>3, <2>1 DEF ListPerScope
  <2>3. ToSet(g[n]) = ToSet(g[n - 1]) \cup ToSet(seqs[n])
      BY <1>3, <2>2, JoinSet
  <2>4. U(n) = U(n - 1) \cup ToSet(seqs[n])
    <3>1. \A m : m \in 1..n <=> m \in 1..(n - 1) \/ m = n
        BY <1>1
    <3> QED
        BY <3>1
  <2> HIDE DEF U
  <2> QED
      BY <1>5, <2>1, <2>3, <2>4
<1>6. Top \in S
  <2> HIDE DEF S
  <2> QED
      BY <1>1, <1>4, <1>5, UpTo
<1>7. ToSet(g[Top]) = U(Top) /\ g[Top] \in Seq(Nat)
  <2> HIDE DEF U
  <2> QED
      BY <1>1, <1>3, <1>6
<1> QED
    BY <1>2, <1>7

\* Lists that are apart and list each number once.
LEMMA FlatInjective ==
  ASSUME NEW seqs, seqs \in ListPerScope, \A n \in 1..Top : IsInjective(seqs[n]),
         \A n, m \in 1..Top : n # m => ToSet(seqs[n]) \cap ToSet(seqs[m]) = {}
  PROVE  IsInjective(FlattenSeq(seqs))
<1>1. Top \in Nat
    BY TopFacts
<1>2. PICK g : Piles(g, seqs) /\ FlattenSeq(seqs) = g[Top]
    BY Flat
<1>3. /\ g \in [0..Top -> Seq(Nat)] /\ g[0] = <<>>
      /\ \A n \in 1..Top : g[n] = g[n - 1] \o seqs[n]
    BY <1>2 DEF Piles
<1> DEFINE Rest(n) == \A m \in 1..Top : m > n => ToSet(g[n]) \cap ToSet(seqs[m]) = {}
           S == {n \in 0..Top : IsInjective(g[n]) /\ Rest(n)}
<1>4. 0 \in S
  <2>1. ToSet(g[0]) = {} /\ IsInjective(g[0])
      BY <1>3 DEF ToSet, IsInjective
  <2> QED
      BY <1>1, <2>1
<1>5. ASSUME NEW n \in 1..Top, n - 1 \in S PROVE n \in S
  <2>1. n \in 0..Top /\ n - 1 \in 0..Top /\ n > n - 1
      BY <1>1
  <2>2. g[n - 1] \in Seq(Nat) /\ seqs[n] \in Seq(Nat) /\ IsInjective(seqs[n])
      BY <1>3, <2>1 DEF ListPerScope
  <2>3. IsInjective(g[n - 1]) /\ Rest(n - 1)
      BY <1>5
  <2>4. ToSet(g[n]) = ToSet(g[n - 1]) \cup ToSet(seqs[n])
      BY <1>3, <2>2, JoinSet
  <2>5. IsInjective(g[n])
    <3>1. ToSet(g[n - 1]) \cap ToSet(seqs[n]) = {}
        BY <2>1, <2>3
    <3> QED
        BY <1>3, <2>2, <2>3, <3>1, JoinInjective
  <2>6. Rest(n)
    <3> SUFFICES ASSUME NEW m \in 1..Top, m > n PROVE ToSet(g[n]) \cap ToSet(seqs[m]) = {}
        OBVIOUS
    <3>1. m > n - 1 /\ m # n
        BY <1>1, <2>1
    <3> QED
        BY <2>3, <2>4, <3>1
  <2> HIDE DEF Rest
  <2> QED
      BY <2>1, <2>5, <2>6
<1>6. Top \in S
  <2> HIDE DEF S
  <2> QED
      BY <1>1, <1>4, <1>5, UpTo
<1> QED
    BY <1>2, <1>6

\* A number that is dropped from one of the lists is dropped from the whole.
DropsOne(big, small, x) == \E i : Drops(big, small, i) /\ big[i] = x

LEMMA FlatDrops ==
  ASSUME NEW seqs, NEW less, seqs \in ListPerScope, less \in ListPerScope, NEW k \in 1..Top,
         \A n \in 1..Top : n # k => less[n] = seqs[n], NEW i, Drops(seqs[k], less[k], i)
  PROVE  DropsOne(FlattenSeq(seqs), FlattenSeq(less), seqs[k][i])
<1>1. Top \in Nat
    BY TopFacts
<1>2. PICK g : Piles(g, seqs) /\ FlattenSeq(seqs) = g[Top]
    BY Flat
<1>3. PICK h : Piles(h, less) /\ FlattenSeq(less) = h[Top]
    BY Flat
<1>4. /\ g \in [0..Top -> Seq(Nat)] /\ g[0] = <<>>
      /\ \A n \in 1..Top : g[n] = g[n - 1] \o seqs[n]
    BY <1>2 DEF Piles
<1>5. /\ h \in [0..Top -> Seq(Nat)] /\ h[0] = <<>>
      /\ \A n \in 1..Top : h[n] = h[n - 1] \o less[n]
    BY <1>3 DEF Piles
<1> DEFINE Less(n) == \E j : Drops(g[n], h[n], j) /\ g[n][j] = seqs[k][i]
           S == {n \in 0..Top : IF n < k THEN g[n] = h[n] ELSE Less(n)}
<1>6. 0 \in S
    BY <1>1, <1>4, <1>5
<1>7. ASSUME NEW n \in 1..Top, n - 1 \in S PROVE n \in S
  <2>1. n \in 0..Top /\ n - 1 \in 0..Top /\ k \in Nat
      BY <1>1
  <2>2. /\ g[n] = g[n - 1] \o seqs[n] /\ h[n] = h[n - 1] \o less[n]
        /\ g[n - 1] \in Seq(Nat) /\ h[n - 1] \in Seq(Nat) /\ seqs[n] \in Seq(Nat)
      BY <1>4, <1>5, <2>1 DEF ListPerScope
  <2>3. CASE n < k
    <3>1. g[n - 1] = h[n - 1] /\ less[n] = seqs[n]
        BY <1>1, <1>7, <2>1, <2>3
    <3> QED
        BY <2>1, <2>2, <2>3, <3>1
  <2>4. CASE n = k
    <3>1. g[n - 1] = h[n - 1]
        BY <1>1, <1>7, <2>1, <2>4
    <3>2. /\ Drops(g[n - 1] \o seqs[k], g[n - 1] \o less[k], Len(g[n - 1]) + i)
          /\ (g[n - 1] \o seqs[k])[Len(g[n - 1]) + i] = seqs[k][i]
        BY <2>2, JoinDrops
    <3>3. Less(n)
        BY <2>2, <2>4, <3>1, <3>2
    <3> HIDE DEF Less
    <3> QED
        BY <2>1, <2>4, <3>3
  <2>5. CASE n > k
    <3>1. Less(n - 1) /\ less[n] = seqs[n]
      <4> HIDE DEF Less
      <4> QED
          BY <1>1, <1>7, <2>1, <2>5
    <3>2. PICK j : Drops(g[n - 1], h[n - 1], j) /\ g[n - 1][j] = seqs[k][i]
        BY <3>1
    <3>3. /\ Drops(g[n - 1] \o seqs[n], h[n - 1] \o seqs[n], j)
          /\ (g[n - 1] \o seqs[n])[j] = g[n - 1][j]
      <4>1. seqs[n] \in Seq(Nat) /\ Drops(g[n - 1], h[n - 1], j)
          BY <2>2, <3>2
      <4> QED
          BY <4>1, JoinDrops
    <3>4. Less(n)
        BY <2>2, <3>1, <3>2, <3>3
    <3> HIDE DEF Less
    <3> QED
        BY <2>1, <2>5, <3>4
  <2> HIDE DEF S
  <2> QED
      BY <2>1, <2>3, <2>4, <2>5
<1>8. Top \in S
  <2> HIDE DEF S
  <2> QED
      BY <1>1, <1>6, <1>7, UpTo
<1>9. Less(Top)
  <2> HIDE DEF Less
  <2> QED
      BY <1>1, <1>8
<1> QED
    BY <1>2, <1>3, <1>9 DEF DropsOne

-----------------------------------------------------------------------------
(* What a walk has read of a list, r, and how far it is in it, a           *)

Excess(st, r, a) ==
  Len(r) + Left(st, a) - Cardinality(NotLate((ToSet(r) \cap ToSet(st)) \cup Behind(st, a)))
Lost(st, r) == NotLate(ToSet(st)) \ ToSet(r)
Gone(st, r) == NotLate(ToSet(r)) \ ToSet(st)
Skipped(st, r, a) == Before(st, a) \ ToSet(r)

LEMMA NotLateSub == \A S, T : /\ S \subseteq T => NotLate(S) \subseteq NotLate(T)
                              /\ NotLate(S) \subseteq S
                              /\ NotLate(S \cup T) = NotLate(S) \cup NotLate(T)
BY DEF NotLate

\* A list before and behind a place.
LEMMA PlaceFacts ==
  ASSUME NEW st \in Seq(Nat), NEW a \in Nat
  PROVE  /\ Left(st, a) \in Nat /\ Len(st) \in Nat
         /\ Before(st, a) \subseteq ToSet(st) /\ Behind(st, a) \subseteq ToSet(st)
         /\ ToSet(st) = Before(st, a) \cup Behind(st, a)
         /\ a >= Len(st) => Before(st, a) = ToSet(st) /\ Behind(st, a) = {} /\ Left(st, a) = 0
         /\ Before(st, 0) = {} /\ Behind(st, 0) = ToSet(st) /\ Left(st, 0) = Len(st)
<1>1. DOMAIN st = 1..Len(st) /\ Len(st) \in Nat
    OBVIOUS
<1>2. Left(st, a) \in Nat /\ (a >= Len(st) => Left(st, a) = 0) /\ Left(st, 0) = Len(st)
  <2> DEFINE n == Len(st)
  <2>1. n \in Nat
      OBVIOUS
  <2>2. /\ Left(st, a) = IF n > a THEN n - a ELSE 0
        /\ Left(st, 0) = IF n > 0 THEN n - 0 ELSE 0
      BY DEF Left
  <2> HIDE DEF n
  <2>3. Left(st, a) \in Nat /\ (a >= n => Left(st, a) = 0) /\ Left(st, 0) = n
      BY <2>1, <2>2
  <2> QED
      BY <2>3 DEF n
<1>3. Before(st, a) \subseteq ToSet(st) /\ Behind(st, a) \subseteq ToSet(st)
    BY DEF Before, Behind, ToSet
<1>4. ToSet(st) \subseteq Before(st, a) \cup Behind(st, a)
    BY <1>1 DEF Before, Behind, ToSet
<1>5. a >= Len(st) => Behind(st, a) = {}
    BY <1>1 DEF Behind
<1>6. Before(st, 0) = {}
    BY <1>1 DEF Before
<1>7. Behind(st, 0) = ToSet(st)
    BY <1>1 DEF Behind, ToSet
<1> QED
    BY <1>1, <1>2, <1>3, <1>4, <1>5, <1>6, <1>7

\* The n numbers behind a place, as a list.
LEMMA Slice ==
  ASSUME NEW n \in Nat, NEW a \in Nat, NEW st, \A i \in 1..n : st[a + i] \in Nat
  PROVE  LET q == [i \in 1..n |-> st[a + i]]
         IN q \in Seq(Nat) /\ Len(q) = n /\ \A i \in 1..n : q[i] = st[a + i]
OBVIOUS

LEMMA WalkFinite ==
  ASSUME NEW st \in Seq(Nat), NEW r \in Seq(Nat), NEW a \in Nat
  PROVE  /\ IsFiniteSet(Lost(st, r)) /\ IsFiniteSet(Gone(st, r)) /\ IsFiniteSet(Skipped(st, r, a))
         /\ IsFiniteSet(NotLate(ToSet(st))) /\ IsFiniteSet(ToSet(st) \ ToSet(r))
         /\ IsFiniteSet(NotLate((ToSet(r) \cap ToSet(st)) \cup Behind(st, a)))
         /\ IsFiniteSet(Behind(st, a)) /\ Excess(st, r, a) \in Int
<1>1. IsFiniteSet(ToSet(st)) /\ IsFiniteSet(ToSet(r)) /\ Len(r) \in Nat
    BY SetOf
<1>2. \A S : S \subseteq ToSet(st) => IsFiniteSet(S)
    BY <1>1, FS_Subset
<1>3. Lost(st, r) \subseteq ToSet(st) /\ NotLate(ToSet(st)) \subseteq ToSet(st)
    BY DEF Lost, NotLate
<1>4. Gone(st, r) \subseteq ToSet(r)
    BY DEF Gone, NotLate
<1>5. Skipped(st, r, a) \subseteq ToSet(st) /\ Behind(st, a) \subseteq ToSet(st)
    BY PlaceFacts DEF Skipped
<1>6. NotLate((ToSet(r) \cap ToSet(st)) \cup Behind(st, a)) \subseteq ToSet(st)
    BY <1>5 DEF NotLate
<1>7. IsFiniteSet(NotLate((ToSet(r) \cap ToSet(st)) \cup Behind(st, a)))
    BY <1>2, <1>6
<1>8. Cardinality(NotLate((ToSet(r) \cap ToSet(st)) \cup Behind(st, a))) \in Nat
    BY <1>7, FS_CardinalityType
<1>9. Excess(st, r, a) \in Int
    BY <1>1, <1>8, PlaceFacts DEF Excess
<1>10. IsFiniteSet(Gone(st, r))
    BY <1>1, <1>4, FS_Subset
<1> QED
    BY <1>2, <1>3, <1>5, <1>7, <1>9, <1>10

\* Numbers that are listed and read no more than once, and none beside them.
LEMMA ExcessTells ==
  ASSUME NEW st \in Seq(Nat), NEW r \in Seq(Nat), NEW a \in Nat
  PROVE  /\ Len(r) - Cardinality(NotLate(ToSet(r) \cap ToSet(st))) <= Excess(st, r, a)
         /\ Cardinality(NotLate(ToSet(r) \cap ToSet(st))) \in Nat
         /\ IsFiniteSet(NotLate(ToSet(r) \cap ToSet(st)))
<1> DEFINE A == NotLate(ToSet(r) \cap ToSet(st))
           B == Behind(st, a)
           C == NotLate((ToSet(r) \cap ToSet(st)) \cup Behind(st, a))
<1>1. IsFiniteSet(B) /\ IsFiniteSet(C)
    BY WalkFinite
<1>2. A \subseteq C /\ C \subseteq A \cup B
    BY DEF NotLate
<1>3. IsFiniteSet(A)
    BY <1>1, <1>2, FS_Subset
<1>4. Cardinality(B) <= Left(st, a)
  <2> DEFINE q == [i \in 1..Left(st, a) |-> st[a + i]]
  <2>1. Left(st, a) \in Nat /\ Len(st) \in Nat /\ (Left(st, a) # 0 => Left(st, a) = Len(st) - a)
      BY PlaceFacts DEF Left
  <2>2. q \in Seq(Nat) /\ Len(q) = Left(st, a)
    <3>1. \A i \in 1..Left(st, a) : st[a + i] \in Nat
        BY <2>1
    <3> QED
        BY <2>1, <3>1, Slice
  <2>3. B \subseteq ToSet(q)
    <3> SUFFICES ASSUME NEW j \in DOMAIN st, j > a PROVE st[j] \in ToSet(q)
        BY DEF Behind
    <3>1. j \in 1..Len(st) /\ Left(st, a) = Len(st) - a
        BY DEF Left
    <3>2. j - a \in 1..Left(st, a) /\ a + (j - a) = j
        BY <2>1, <3>1
    <3>3. q[j - a] = st[j] /\ j - a \in DOMAIN q
        BY <3>2
    <3> HIDE DEF q
    <3> QED
        BY <3>3 DEF ToSet
  <2> HIDE DEF q
  <2>4. IsFiniteSet(ToSet(q)) /\ Cardinality(ToSet(q)) <= Len(q)
      BY <2>2, SetOf
  <2>5. Cardinality(B) <= Cardinality(ToSet(q)) /\ Cardinality(B) \in Nat /\ Cardinality(ToSet(q)) \in Nat
      BY <2>3, <2>4, NotMore
  <2> QED
      BY <2>1, <2>2, <2>4, <2>5
<1>5. Cardinality(C) <= Cardinality(A) + Cardinality(B)
  <2>1. /\ IsFiniteSet(A \cup B)
        /\ Cardinality(A \cup B) = Cardinality(A) + Cardinality(B) - Cardinality(A \cap B)
      BY <1>1, <1>3, FS_Union
  <2>2. Cardinality(A \cap B) \in Nat /\ Cardinality(A) \in Nat /\ Cardinality(B) \in Nat
      BY <1>1, <1>3, FS_Intersection, FS_CardinalityType
  <2>3. Cardinality(C) <= Cardinality(A \cup B) /\ Cardinality(C) \in Nat
      BY <1>2, <2>1, NotMore
  <2> QED
      BY <2>1, <2>2, <2>3
<1>6. Cardinality(A) \in Nat /\ Cardinality(B) \in Nat /\ Cardinality(C) \in Nat
    BY <1>1, <1>3, FS_CardinalityType
<1>7. Len(r) \in Nat /\ Left(st, a) \in Nat
    BY PlaceFacts
<1>8. Excess(st, r, a) = Len(r) + Left(st, a) - Cardinality(C)
    BY DEF Excess
<1> HIDE DEF A, B, C
<1>9. Len(r) - Cardinality(A) <= Excess(st, r, a)
    BY <1>4, <1>5, <1>6, <1>7, <1>8
<1> QED
    BY <1>3, <1>6, <1>9 DEF A

\* The list p is what stands in st behind the place a, or a part of it from its start.
Takes(st, a, p) ==
  /\ st \in Seq(Nat) /\ p \in Seq(Nat) /\ a \in Nat
  /\ \A j \in 1..Len(p) : a + j \in 1..Len(st) /\ p[j] = st[a + j]

LEMMA TakeFacts ==
  ASSUME NEW st, NEW a, NEW p, Takes(st, a, p)
  PROVE  /\ ToSet(p) \subseteq ToSet(st) /\ a + Len(p) \in Nat
         /\ Behind(st, a) = ToSet(p) \cup Behind(st, a + Len(p))
         /\ Left(st, a) = Len(p) + Left(st, a + Len(p))
         /\ Before(st, a + Len(p)) \subseteq Before(st, a) \cup ToSet(p)
<1>1. /\ st \in Seq(Nat) /\ p \in Seq(Nat) /\ a \in Nat /\ Len(p) \in Nat /\ Len(st) \in Nat
      /\ DOMAIN st = 1..Len(st) /\ DOMAIN p = 1..Len(p)
      /\ \A j \in 1..Len(p) : a + j \in 1..Len(st) /\ p[j] = st[a + j]
    BY DEF Takes
<1> DEFINE n == Len(p)
<1>2. n \in Nat /\ a + n \in Nat
    BY <1>1
<1>3. n = 0 \/ a + n <= Len(st)
  <2>1. CASE n # 0
    <3>1. n \in 1..n
        BY <1>2, <2>1
    <3> QED
        BY <1>1, <3>1
  <2> QED
      BY <2>1
<1>4. \A j \in 1..n : p[j] = st[a + j] /\ a + j \in DOMAIN st /\ a + j > a
    BY <1>1
<1>5. ToSet(p) \subseteq ToSet(st) /\ ToSet(p) \subseteq Behind(st, a)
    BY <1>1, <1>4 DEF ToSet, Behind
<1>6. Behind(st, a + n) \subseteq Behind(st, a)
    BY <1>1, <1>2 DEF Behind
<1>7. ASSUME NEW k \in DOMAIN st, k > a, k <= a + n PROVE st[k] \in ToSet(p)
  <2>1. k - a \in 1..n /\ a + (k - a) = k
      BY <1>1, <1>2, <1>7
  <2>2. p[k - a] = st[k]
      BY <1>4, <2>1
  <2>3. k - a \in DOMAIN p
      BY <1>1, <2>1
  <2> QED
      BY <2>2, <2>3 DEF ToSet
<1>8. Behind(st, a) \subseteq ToSet(p) \cup Behind(st, a + n)
  <2> SUFFICES ASSUME NEW k \in DOMAIN st, k > a PROVE st[k] \in ToSet(p) \cup Behind(st, a + n)
      BY DEF Behind
  <2>1. CASE k <= a + n
      BY <1>7, <2>1
  <2>2. CASE k > a + n
      BY <2>2 DEF Behind
  <2> QED
      BY <1>1, <1>2, <2>1, <2>2
<1>9. Before(st, a + n) \subseteq Before(st, a) \cup ToSet(p)
  <2> SUFFICES ASSUME NEW k \in DOMAIN st, k <= a + n PROVE st[k] \in Before(st, a) \cup ToSet(p)
      BY DEF Before
  <2>1. CASE k <= a
      BY <2>1 DEF Before
  <2>2. CASE k > a
      BY <1>7, <2>2
  <2> QED
      BY <1>1, <2>1, <2>2
<1>10. Left(st, a) = n + Left(st, a + n)
  <2> DEFINE l == Len(st)
  <2>1. /\ Left(st, a) = IF l > a THEN l - a ELSE 0
        /\ Left(st, a + n) = IF l > a + n THEN l - (a + n) ELSE 0
      BY DEF Left
  <2>2. l \in Nat
      OBVIOUS
  <2> HIDE DEF l, n
  <2>3. n = 0 \/ a + n <= l
      BY <1>3 DEF l
  <2> QED
      BY <1>1, <1>2, <2>1, <2>2, <2>3
<1> QED
    BY <1>2, <1>5, <1>6, <1>8, <1>9, <1>10

\* To read on neither adds to the excess nor to what is gone.
LEMMA ReadOn ==
  ASSUME NEW st, NEW r \in Seq(Nat), NEW a, NEW p, Takes(st, a, p)
  PROVE  /\ r \o p \in Seq(Nat) /\ ToSet(r \o p) = ToSet(r) \cup ToSet(p)
         /\ Excess(st, r \o p, a + Len(p)) = Excess(st, r, a)
         /\ Gone(st, r \o p) = Gone(st, r) /\ Lost(st, r \o p) \subseteq Lost(st, r)
         /\ Skipped(st, r \o p, a + Len(p)) \subseteq Skipped(st, r, a)
<1>1. p \in Seq(Nat) /\ st \in Seq(Nat) /\ a \in Nat
    BY DEF Takes
<1>2. /\ ToSet(r \o p) = ToSet(r) \cup ToSet(p) /\ r \o p \in Seq(Nat)
      /\ Len(r \o p) = Len(r) + Len(p)
    BY <1>1, JoinSet
<1>3. /\ ToSet(p) \subseteq ToSet(st) /\ a + Len(p) \in Nat
      /\ Behind(st, a) = ToSet(p) \cup Behind(st, a + Len(p))
      /\ Left(st, a) = Len(p) + Left(st, a + Len(p))
      /\ Before(st, a + Len(p)) \subseteq Before(st, a) \cup ToSet(p)
    BY TakeFacts
<1>4. (ToSet(r \o p) \cap ToSet(st)) \cup Behind(st, a + Len(p))
        = (ToSet(r) \cap ToSet(st)) \cup Behind(st, a)
    BY <1>2, <1>3
<1>5. Excess(st, r \o p, a + Len(p)) = Excess(st, r, a)
  <2>1. Left(st, a) \in Nat /\ Left(st, a + Len(p)) \in Nat /\ Len(r) \in Nat /\ Len(p) \in Nat
      BY <1>1, <1>3, PlaceFacts
  <2> DEFINE c == Cardinality(NotLate((ToSet(r) \cap ToSet(st)) \cup Behind(st, a)))
  <2>2. /\ Excess(st, r, a) = Len(r) + Left(st, a) - c
        /\ Excess(st, r \o p, a + Len(p)) = (Len(r) + Len(p)) + Left(st, a + Len(p)) - c
      BY <1>2, <1>4 DEF Excess
  <2>0. c \in Nat
      BY <1>1, WalkFinite, FS_CardinalityType
  <2> HIDE DEF c
  <2> DEFINE x == Left(st, a)
             y == Left(st, a + Len(p))
             n == Len(p)
             l == Len(r)
  <2>3. x = n + y /\ x \in Nat /\ y \in Nat /\ n \in Nat /\ l \in Nat
      BY <1>3, <2>1
  <2>4. Excess(st, r, a) = l + x - c /\ Excess(st, r \o p, a + Len(p)) = (l + n) + y - c
      BY <2>2
  <2> HIDE DEF x, y, n, l
  <2>5. l + x - c = (l + n) + y - c
      BY <2>0, <2>3
  <2> QED
      BY <2>4, <2>5
<1>6. Gone(st, r \o p) = Gone(st, r) /\ Lost(st, r \o p) \subseteq Lost(st, r)
    BY <1>2, <1>3 DEF Gone, Lost, NotLate
<1>7. Skipped(st, r \o p, a + Len(p)) \subseteq Skipped(st, r, a)
    BY <1>2, <1>3 DEF Skipped
<1> QED
    BY <1>2, <1>5, <1>6, <1>7

\* Nor does to go on without reading.
LEMMA GoOn ==
  ASSUME NEW st \in Seq(Nat), NEW r \in Seq(Nat), NEW a \in Nat, NEW c \in Nat, a <= c
  PROVE  Excess(st, r, c) <= Excess(st, r, a)
<1>1. Len(st) \in Nat /\ DOMAIN st = 1..Len(st) /\ Len(r) \in Nat
    OBVIOUS
<1>2. CASE a >= Len(st)
  <2>1. /\ Behind(st, a) = {} /\ Left(st, a) = 0
        /\ Behind(st, c) = {} /\ Left(st, c) = 0
    <3>1. c >= Len(st)
        BY <1>1, <1>2
    <3> QED
        BY <1>2, <3>1, PlaceFacts
  <2>2. Excess(st, r, c) = Excess(st, r, a)
      BY <2>1 DEF Excess
  <2>3. Excess(st, r, a) \in Int
      BY WalkFinite
  <2> QED
      BY <2>2, <2>3
<1>3. CASE a < Len(st)
  <2> DEFINE e == IF c <= Len(st) THEN c ELSE Len(st)
             n == e - a
             q == [i \in 1..n |-> st[a + i]]
  <2>1. n \in Nat /\ e \in Nat /\ a + n = e /\ e <= Len(st)
      BY <1>1, <1>3
  <2>2. \A i \in 1..n : a + i \in 1..Len(st)
      BY <1>1, <2>1
  <2>3. \A i \in 1..n : st[a + i] \in Nat
      BY <2>2
  <2> HIDE DEF n
  <2>4. q \in Seq(Nat) /\ Len(q) = n /\ \A i \in 1..n : q[i] = st[a + i]
      BY <2>1, <2>3, Slice
  <2>5. Takes(st, a, q)
    <3> HIDE DEF q
    <3> QED
        BY <2>2, <2>4 DEF Takes
  <2> HIDE DEF q
  <2>6. Behind(st, a) = ToSet(q) \cup Behind(st, e) /\ Left(st, a) = n + Left(st, e)
      BY <2>1, <2>4, <2>5, TakeFacts
  <2>7. Behind(st, e) = Behind(st, c) /\ Left(st, e) = Left(st, c)
    <3>1. CASE c <= Len(st)
        BY <3>1
    <3>2. CASE ~(c <= Len(st))
      <4>1. e = Len(st) /\ e >= Len(st) /\ c >= Len(st)
          BY <1>1, <3>2
      <4> HIDE DEF e
      <4> QED
          BY <2>1, <4>1, PlaceFacts
    <3> QED
        BY <3>1, <3>2
  <2> DEFINE C == NotLate((ToSet(r) \cap ToSet(st)) \cup Behind(st, a))
             D == NotLate((ToSet(r) \cap ToSet(st)) \cup Behind(st, c))
  <2>8. IsFiniteSet(ToSet(q)) /\ Cardinality(ToSet(q)) <= n /\ Cardinality(ToSet(q)) \in Nat
      BY <2>4, SetOf, FS_CardinalityType
  <2>9. IsFiniteSet(C) /\ IsFiniteSet(D) /\ C \subseteq D \cup ToSet(q)
      BY <2>6, <2>7, WalkFinite DEF NotLate
  <2>10. Excess(st, r, a) = Len(r) + Left(st, a) - Cardinality(C)
      BY DEF Excess
  <2>11. Excess(st, r, c) = Len(r) + Left(st, c) - Cardinality(D)
      BY DEF Excess
  <2>12. Left(st, c) \in Nat /\ Left(st, a) \in Nat
      BY PlaceFacts
  <2> HIDE DEF C, D, e
  <2>13. Cardinality(C) <= Cardinality(D) + Cardinality(ToSet(q))
    <3>1. /\ IsFiniteSet(D \cup ToSet(q))
          /\ Cardinality(D \cup ToSet(q)) = Cardinality(D) + Cardinality(ToSet(q)) - Cardinality(D \cap ToSet(q))
        BY <2>8, <2>9, FS_Union
    <3>2. Cardinality(D \cap ToSet(q)) \in Nat /\ Cardinality(D) \in Nat
        BY <2>9, FS_Intersection, FS_CardinalityType
    <3>3. Cardinality(C) <= Cardinality(D \cup ToSet(q)) /\ Cardinality(C) \in Nat
        BY <2>9, <3>1, NotMore
    <3> QED
        BY <2>8, <3>1, <3>2, <3>3
  <2>14. Cardinality(C) \in Nat /\ Cardinality(D) \in Nat
      BY <2>9, FS_CardinalityType
  <2>15. Left(st, a) = n + Left(st, c)
      BY <2>6, <2>7
  <2> DEFINE x == Left(st, a)
             y == Left(st, c)
             l == Len(r)
             u == Cardinality(C)
             v == Cardinality(D)
             w == Cardinality(ToSet(q))
  <2>16. /\ x \in Nat /\ y \in Nat /\ l \in Nat /\ u \in Nat /\ v \in Nat /\ n \in Nat /\ w \in Nat
         /\ u <= v + w /\ w <= n /\ x = n + y
      BY <1>1, <2>1, <2>8, <2>12, <2>13, <2>14, <2>15
  <2>17. Excess(st, r, a) = l + x - u /\ Excess(st, r, c) = l + y - v
      BY <2>10, <2>11
  <2> HIDE DEF x, y, l, u, v, w
  <2>18. l + y - v <= l + x - u
      BY <2>16
  <2> QED
      BY <2>17, <2>18
<1> QED
    BY <1>1, <1>2, <1>3

-----------------------------------------------------------------------------
(* What a sale or a new number does to a walk                              *)

Shifts(st, new) ==
  \/ new = st
  \/ \E i : Drops(st, new, i)
  \/ \E i : Drops(new, st, i) /\ new[i] \in ToSet(Late)

LEMMA ShiftTypes ==
  ASSUME NEW st \in Seq(Nat), NEW new, Shifts(st, new)
  PROVE  new \in Seq(Nat) /\ Len(new) <= Len(st) + 1
<1>1. CASE new = st
    BY <1>1
<1>2. ASSUME NEW i, Drops(st, new, i) PROVE new \in Seq(Nat) /\ Len(new) <= Len(st) + 1
  <2>1. new \in Seq(Nat) /\ Len(new) = Len(st) - 1
      BY <1>2 DEF Drops
  <2> QED
      BY <2>1
<1>3. ASSUME NEW i, Drops(new, st, i) PROVE new \in Seq(Nat) /\ Len(new) <= Len(st) + 1
  <2>1. new \in Seq(Nat) /\ Len(st) = Len(new) - 1
      BY <1>3 DEF Drops
  <2> QED
      BY <2>1
<1> QED
    BY <1>1, <1>2, <1>3 DEF Shifts

\* What is lost, and what is listed of what is not new, does not grow; the
\* rest grows by one.
LEMMA ShiftSets ==
  ASSUME NEW st \in Seq(Nat), NEW new, Shifts(st, new), NEW a \in Nat
  PROVE  /\ NotLate(ToSet(new)) \subseteq NotLate(ToSet(st))
         /\ \E x : NotLate(ToSet(st)) \subseteq NotLate(ToSet(new)) \cup {x}
         /\ \E x : ToSet(new) \subseteq ToSet(st) \cup {x}
         /\ \E x : Before(new, a) \subseteq Before(st, a) \cup {x}
<1>1. CASE new = st
    BY <1>1
<1>2. ASSUME NEW i, Drops(st, new, i)
      PROVE  /\ NotLate(ToSet(new)) \subseteq NotLate(ToSet(st))
             /\ NotLate(ToSet(st)) \subseteq NotLate(ToSet(new)) \cup {st[i]}
             /\ ToSet(new) \subseteq ToSet(st)
             /\ \E x : Before(new, a) \subseteq Before(st, a) \cup {x}
  <2>1. ToSet(st) = ToSet(new) \cup {st[i]} /\ \E x : Before(new, a) \subseteq Before(st, a) \cup {x}
      BY <1>2, DropFacts
  <2> QED
      BY <2>1 DEF NotLate
<1>3. ASSUME NEW i, Drops(new, st, i), new[i] \in ToSet(Late)
      PROVE  /\ NotLate(ToSet(new)) = NotLate(ToSet(st))
             /\ ToSet(new) \subseteq ToSet(st) \cup {new[i]}
             /\ Before(new, a) \subseteq Before(st, a) \cup {new[i]}
  <2>1. ToSet(new) = ToSet(st) \cup {new[i]} /\ Before(new, a) \subseteq Before(st, a) \cup {new[i]}
      BY <1>3, DropFacts
  <2> QED
      BY <1>3, <2>1 DEF NotLate
<1> QED
    BY <1>1, <1>2, <1>3 DEF Shifts

LEMMA ShiftExcess ==
  ASSUME NEW st \in Seq(Nat), NEW new, Shifts(st, new), NEW r \in Seq(Nat), NEW a \in Nat
  PROVE  Excess(new, r, a) <= Excess(st, r, a) + 1
<1> DEFINE C == NotLate((ToSet(r) \cap ToSet(st)) \cup Behind(st, a))
           D == NotLate((ToSet(r) \cap ToSet(new)) \cup Behind(new, a))
<1>1. new \in Seq(Nat)
    BY ShiftTypes
<1>2. /\ IsFiniteSet(C) /\ IsFiniteSet(D) /\ Len(r) \in Nat
      /\ Left(st, a) \in Nat /\ Left(new, a) \in Nat
    BY <1>1, WalkFinite, PlaceFacts
<1>3. /\ Excess(st, r, a) = Len(r) + Left(st, a) - Cardinality(C)
      /\ Excess(new, r, a) = Len(r) + Left(new, a) - Cardinality(D)
    BY DEF Excess
<1>4. Cardinality(C) \in Nat /\ Cardinality(D) \in Nat
    BY <1>2, FS_CardinalityType
<1>5. CASE new = st
  <2>1. Excess(new, r, a) = Excess(st, r, a) /\ Excess(st, r, a) \in Int
      BY <1>5, WalkFinite
  <2> QED
      BY <2>1
<1>6. ASSUME NEW i, Drops(st, new, i) PROVE Excess(new, r, a) <= Excess(st, r, a) + 1
  <2>1. ToSet(st) = ToSet(new) \cup {st[i]}
      BY <1>6, DropFacts
  <2>2. CASE Left(st, a) = Left(new, a) /\ Behind(st, a) = Behind(new, a)
    <3>1. C \subseteq D \cup {st[i]}
        BY <2>1, <2>2 DEF NotLate
    <3> HIDE DEF C, D
    <3>2. Cardinality(C) <= Cardinality(D) + 1
        BY <1>2, <3>1, OneMore
    <3> QED
        BY <1>2, <1>3, <1>4, <2>2, <3>2
  <2>3. CASE /\ Left(st, a) = Left(new, a) + 1
             /\ \E x \in Nat : Behind(st, a) = Behind(new, a) \cup {x}
    <3>1. PICK x \in Nat : Behind(st, a) = Behind(new, a) \cup {x}
        BY <2>3
    <3>2. C \subseteq (D \cup {st[i]}) \cup {x}
        BY <2>1, <3>1 DEF NotLate
    <3> HIDE DEF C, D
    <3> DEFINE E == D \cup {st[i]}
    <3>3. IsFiniteSet(E) /\ Cardinality(E) <= Cardinality(D) + 1 /\ Cardinality(E) \in Nat
        BY <1>2, OneMore
    <3>4. C \subseteq E \cup {x}
        BY <3>2
    <3> HIDE DEF E
    <3>5. Cardinality(C) <= Cardinality(E) + 1
        BY <3>3, <3>4, OneMore
    <3> DEFINE c == Cardinality(C)
               d == Cardinality(D)
               p == Left(st, a)
               q == Left(new, a)
               n == Len(r)
    <3>6. /\ c \in Int /\ d \in Int /\ p \in Int /\ q \in Int /\ n \in Int
          /\ c <= d + 2 /\ p = q + 1
          /\ Excess(st, r, a) = n + p - c /\ Excess(new, r, a) = n + q - d
        <4> DEFINE e == Cardinality(E)
        <4>1. e \in Int /\ c \in Int /\ d \in Int /\ e <= d + 1 /\ c <= e + 1
            BY <1>4, <3>3, <3>5
        <4> HIDE DEF c, d, e
        <4>2. c <= d + 2
            BY <4>1
        <4>3. p \in Int /\ q \in Int /\ n \in Int /\ p = q + 1
            BY <1>2, <2>3
        <4>4. Excess(st, r, a) = n + p - c /\ Excess(new, r, a) = n + q - d
            BY <1>3 DEF c, d
        <4> QED
            BY <4>1, <4>2, <4>3, <4>4
    <3> HIDE DEF c, d, p, q, n
    <3> QED
        BY <3>6
  <2>4. \/ Left(st, a) = Left(new, a) /\ Behind(st, a) = Behind(new, a)
        \/ /\ Left(st, a) = Left(new, a) + 1
           /\ \E x \in Nat : Behind(st, a) = Behind(new, a) \cup {x}
      BY <1>6, DropFacts
  <2> QED
      BY <2>2, <2>3, <2>4
<1>7. ASSUME NEW i, Drops(new, st, i), new[i] \in ToSet(Late)
      PROVE  Excess(new, r, a) <= Excess(st, r, a) + 1
  <2>0. ToSet(new) = ToSet(st) \cup {new[i]}
      BY <1>7, DropFacts
  <2>1. Behind(st, a) \subseteq Behind(new, a)
      BY <1>7, DropFacts
  <2>2. C \subseteq D
      BY <2>0, <2>1 DEF NotLate
  <2>3. Left(new, a) <= Left(st, a) + 1
    <3>1. Left(new, a) = Left(st, a) \/ Left(new, a) = Left(st, a) + 1
        BY <1>7, DropFacts
    <3> QED
        BY <1>2, <3>1
  <2> HIDE DEF C, D
  <2>4. Cardinality(C) <= Cardinality(D)
      BY <1>2, <2>2, NotMore
  <2> QED
      BY <1>2, <1>3, <1>4, <2>3, <2>4
<1> QED
    BY <1>5, <1>6, <1>7 DEF Shifts

LEMMA ShiftWalk ==
  ASSUME NEW st \in Seq(Nat), NEW new, Shifts(st, new), NEW r \in Seq(Nat), NEW a \in Nat
  PROVE  /\ Lost(new, r) \subseteq Lost(st, r)
         /\ Cardinality(Gone(new, r)) <= Cardinality(Gone(st, r)) + 1
         /\ Cardinality(Skipped(new, r, a)) <= Cardinality(Skipped(st, r, a)) + 1
         /\ Cardinality(ToSet(new) \ ToSet(r)) <= Cardinality(ToSet(st) \ ToSet(r)) + 1
<1>1. new \in Seq(Nat)
    BY ShiftTypes
<1>2. /\ NotLate(ToSet(new)) \subseteq NotLate(ToSet(st))
      /\ \E x : NotLate(ToSet(st)) \subseteq NotLate(ToSet(new)) \cup {x}
      /\ \E x : ToSet(new) \subseteq ToSet(st) \cup {x}
      /\ \E x : Before(new, a) \subseteq Before(st, a) \cup {x}
    BY ShiftSets
<1>3. Lost(new, r) \subseteq Lost(st, r)
    BY <1>2 DEF Lost
<1>4. Cardinality(Gone(new, r)) <= Cardinality(Gone(st, r)) + 1
  <2>1. PICK x : NotLate(ToSet(st)) \subseteq NotLate(ToSet(new)) \cup {x}
      BY <1>2
  <2>2. Gone(new, r) \subseteq Gone(st, r) \cup {x}
      BY <2>1 DEF Gone, NotLate
  <2> QED
      BY <2>2, WalkFinite, OneMore
<1>5. Cardinality(Skipped(new, r, a)) <= Cardinality(Skipped(st, r, a)) + 1
  <2>1. PICK x : Before(new, a) \subseteq Before(st, a) \cup {x}
      BY <1>2
  <2>2. Skipped(new, r, a) \subseteq Skipped(st, r, a) \cup {x}
      BY <2>1 DEF Skipped
  <2> QED
      BY <2>2, WalkFinite, OneMore
<1>6. Cardinality(ToSet(new) \ ToSet(r)) <= Cardinality(ToSet(st) \ ToSet(r)) + 1
  <2>1. PICK x : ToSet(new) \subseteq ToSet(st) \cup {x}
      BY <1>2
  <2>2. ToSet(new) \ ToSet(r) \subseteq (ToSet(st) \ ToSet(r)) \cup {x}
      BY <2>1
  <2> QED
      BY <2>2, WalkFinite, OneMore
<1> QED
    BY <1>3, <1>4, <1>5, <1>6

-----------------------------------------------------------------------------
(* What the vendor lists                                                   *)

LEMMA ScopeFacts ==
  /\ 0 \notin Scopes /\ Listed \subseteq Scopes /\ Unlisted \in Scopes /\ Unlisted \notin Listed
  /\ Scopes \subseteq 1..Top /\ Top \in Nat \ {0} /\ IsFiniteSet(Scopes) /\ Scopes \subseteq 0..Top
  /\ \A s \in Scopes : Late[s] \in ToSet(Late) /\ Late[s] \in Nat
<1>1. Scopes \subseteq 1..Top /\ Top \in Nat \ {0} /\ Scopes \subseteq 0..Top
    BY TopFacts
<1>2. Late \in [Scopes -> Nat]
    BY StockAssumption
<1> QED
    BY <1>1, <1>2, FetchAssumption DEF Scopes, ToSet

\* The lists of some scopes, and nothing for the others.
Parts(l, S) == [s \in 1..Top |-> IF s \in S THEN l[s] ELSE <<>>]

LEMMA PartsFacts ==
  ASSUME NEW l \in [Scopes -> Seq(Nat)], NEW S, S \subseteq Scopes
  PROVE  /\ Parts(l, S) \in ListPerScope /\ Pooled(l, S) = FlattenSeq(Parts(l, S))
         /\ \A s \in 1..Top : Parts(l, S)[s] = IF s \in S THEN l[s] ELSE <<>>
<1>1. <<>> \in Seq(Nat)
    OBVIOUS
<1>2. \A s \in 1..Top : (IF s \in S THEN l[s] ELSE <<>>) \in Seq(Nat)
    BY <1>1
<1>3. Parts(l, S) \in ListPerScope
    BY <1>2 DEF Parts, ListPerScope
<1> QED
    BY <1>3 DEF Parts, Pooled

LEMMA PooledSet ==
  ASSUME NEW l \in [Scopes -> Seq(Nat)], NEW S, S \subseteq Scopes
  PROVE  Pooled(l, S) \in Seq(Nat) /\ ToSet(Pooled(l, S)) = UNION {ToSet(l[s]) : s \in S}
<1> DEFINE P == Parts(l, S)
<1>1. /\ P \in ListPerScope /\ Pooled(l, S) = FlattenSeq(P)
      /\ \A s \in 1..Top : P[s] = IF s \in S THEN l[s] ELSE <<>>
    BY PartsFacts
<1> HIDE DEF P
<1>2. FlattenSeq(P) \in Seq(Nat) /\ ToSet(FlattenSeq(P)) = UNION {ToSet(P[n]) : n \in 1..Top}
    BY <1>1, FlatSet
<1>3. UNION {ToSet(P[n]) : n \in 1..Top} = UNION {ToSet(l[s]) : s \in S}
  <2>1. S \subseteq 1..Top
      BY ScopeFacts
  <2>2. ToSet(<<>>) = {}
      BY DEF ToSet
  <2>3. \A n \in 1..Top : ToSet(P[n]) = IF n \in S THEN ToSet(l[n]) ELSE {}
      BY <1>1, <2>2
  <2> QED
      BY <2>1, <2>3
<1> QED
    BY <1>1, <1>2, <1>3

LEMMA PooledInjective ==
  ASSUME NEW l \in [Scopes -> Seq(Nat)], NEW S, S \subseteq Scopes,
         \A s \in Scopes : IsInjective(l[s]),
         \A s, t \in Scopes : s # t => ToSet(l[s]) \cap ToSet(l[t]) = {}
  PROVE  IsInjective(Pooled(l, S))
<1> DEFINE P == Parts(l, S)
<1>1. /\ P \in ListPerScope /\ Pooled(l, S) = FlattenSeq(P)
      /\ \A s \in 1..Top : P[s] = IF s \in S THEN l[s] ELSE <<>>
    BY PartsFacts
<1> HIDE DEF P
<1>2. ToSet(<<>>) = {} /\ IsInjective(<<>>)
    BY DEF ToSet, IsInjective
<1>3. \A n \in 1..Top : IsInjective(P[n])
    BY <1>1, <1>2
<1>4. \A n, k \in 1..Top : n # k => ToSet(P[n]) \cap ToSet(P[k]) = {}
    BY <1>1, <1>2
<1> QED
    BY <1>1, <1>3, <1>4, FlatInjective

LEMMA OrderSet ==
  ASSUME NEW S, S \subseteq Scopes
  PROVE  InOrder(S) \in Seq(S) /\ ToSet(InOrder(S)) = S
<1> DEFINE P == [s \in 1..Top |-> IF s \in S THEN <<s>> ELSE <<>>]
<1>1. \A s \in 1..Top : (IF s \in S THEN <<s>> ELSE <<>>) \in Seq(Nat)
    BY ScopeFacts
<1>2. P \in ListPerScope /\ InOrder(S) = FlattenSeq(P)
    BY <1>1 DEF ListPerScope, InOrder
<1>3. \A n \in 1..Top : ToSet(P[n]) = IF n \in S THEN {n} ELSE {}
    BY DEF ToSet
<1> HIDE DEF P
<1>4. InOrder(S) \in Seq(Nat) /\ ToSet(InOrder(S)) = UNION {ToSet(P[n]) : n \in 1..Top}
    BY <1>2, FlatSet
<1>5. ToSet(InOrder(S)) = S
  <2>1. S \subseteq 1..Top
      BY ScopeFacts
  <2>2. UNION {ToSet(P[n]) : n \in 1..Top} = S
      BY <1>3, <2>1
  <2> QED
      BY <1>4, <2>2
<1>6. \A i \in DOMAIN InOrder(S) : InOrder(S)[i] \in S
    BY <1>5 DEF ToSet
<1>7. InOrder(S) \in Seq(S)
    BY <1>4, <1>6
<1> QED
    BY <1>5, <1>7

\* What happens to a list happens to the whole.
LEMMA PooledShifts ==
  ASSUME NEW l \in [Scopes -> Seq(Nat)], NEW S, S \subseteq Scopes, NEW k \in Scopes,
         NEW new, Shifts(l[k], new)
  PROVE  /\ [l EXCEPT ![k] = new] \in [Scopes -> Seq(Nat)]
         /\ Shifts(Pooled(l, S), Pooled([l EXCEPT ![k] = new], S))
         /\ k \notin S => Pooled([l EXCEPT ![k] = new], S) = Pooled(l, S)
<1> DEFINE h == [l EXCEPT ![k] = new]
           P == Parts(l, S)
           Q == Parts(h, S)
<1>1. l[k] \in Seq(Nat) /\ new \in Seq(Nat)
    BY ShiftTypes
<1>2. h \in [Scopes -> Seq(Nat)] /\ h[k] = new /\ \A s \in Scopes : s # k => h[s] = l[s]
    BY <1>1
<1> HIDE DEF h
<1>3. /\ P \in ListPerScope /\ Pooled(l, S) = FlattenSeq(P)
      /\ \A s \in 1..Top : P[s] = IF s \in S THEN l[s] ELSE <<>>
    BY PartsFacts
<1>4. /\ Q \in ListPerScope /\ Pooled(h, S) = FlattenSeq(Q)
      /\ \A s \in 1..Top : Q[s] = IF s \in S THEN h[s] ELSE <<>>
    BY <1>2, PartsFacts
<1>5. k \notin S => Pooled(h, S) = Pooled(l, S)
  <2> SUFFICES ASSUME k \notin S PROVE P = Q
      BY <1>3, <1>4
  <2>1. \A s \in S : h[s] = l[s]
      BY <1>2
  <2> QED
      BY <2>1 DEF Parts
<1> HIDE DEF P, Q
<1>6. k \in 1..Top
    BY ScopeFacts
<1>7. \A n \in 1..Top : n # k => Q[n] = P[n]
    BY <1>2, <1>3, <1>4
<1>8. ASSUME k \in S PROVE Shifts(Pooled(l, S), Pooled(h, S))
  <2>1. P[k] = l[k] /\ Q[k] = new
      BY <1>2, <1>3, <1>4, <1>6, <1>8
  <2>2. CASE new = l[k]
    <3>1. \A s \in S : h[s] = l[s]
        BY <1>2, <2>2
    <3>2. P = Q
        BY <3>1 DEF P, Q, Parts
    <3>3. Pooled(h, S) = Pooled(l, S)
        BY <1>3, <1>4, <3>2
    <3> QED
        BY <3>3 DEF Shifts
  <2>3. ASSUME NEW i, Drops(l[k], new, i) PROVE Shifts(Pooled(l, S), Pooled(h, S))
    <3>1. Drops(P[k], Q[k], i)
        BY <2>1, <2>3
    <3>2. DropsOne(FlattenSeq(P), FlattenSeq(Q), P[k][i])
        BY <1>3, <1>4, <1>6, <1>7, <3>1, FlatDrops
    <3> QED
        BY <1>3, <1>4, <3>2 DEF Shifts, DropsOne
  <2>4. ASSUME NEW i, Drops(new, l[k], i), new[i] \in ToSet(Late)
        PROVE  Shifts(Pooled(l, S), Pooled(h, S))
    <3>1. Drops(Q[k], P[k], i)
        BY <2>1, <2>4
    <3>0. \A n \in 1..Top : n # k => P[n] = Q[n]
        BY <1>7
    <3>2. P \in ListPerScope /\ Q \in ListPerScope
        BY <1>3, <1>4
    <3>5. DropsOne(FlattenSeq(Q), FlattenSeq(P), Q[k][i])
        BY <1>6, <3>0, <3>1, <3>2, FlatDrops
    <3>3. PICK j : Drops(FlattenSeq(Q), FlattenSeq(P), j) /\ FlattenSeq(Q)[j] = Q[k][i]
        BY <3>5 DEF DropsOne
    <3>4. Pooled(h, S)[j] \in ToSet(Late)
        BY <1>4, <2>1, <2>4, <3>3
    <3> QED
        BY <1>3, <1>4, <3>3, <3>4 DEF Shifts
  <2> QED
      BY <2>2, <2>3, <2>4 DEF Shifts
<1>9. ASSUME k \notin S PROVE Shifts(Pooled(l, S), Pooled(h, S))
    BY <1>5, <1>9 DEF Shifts
<1>10. Shifts(Pooled(l, S), Pooled(h, S))
    BY <1>8, <1>9
<1> QED
    BY <1>2, <1>5, <1>10 DEF h

LEMMA SaleShifts ==
  ASSUME NEW q \in Seq(Nat), q # <<>>
  PROVE  Shifts(q, Tail(q))
<1>1. /\ Tail(q) \in Seq(Nat) /\ Len(Tail(q)) = Len(q) - 1 /\ 1 \in 1..Len(q)
      /\ \A j \in 1..Len(Tail(q)) : Tail(q)[j] = q[j + 1]
    OBVIOUS
<1>2. Drops(q, Tail(q), 1)
    BY <1>1 DEF Drops
<1> QED
    BY <1>2 DEF Shifts

LEMMA NewShifts ==
  ASSUME NEW q \in Seq(Nat), NEW x \in Nat, x \in ToSet(Late)
  PROVE  Shifts(q, Append(q, x))
<1> DEFINE n == Len(q) + 1
<1>1. /\ Append(q, x) \in Seq(Nat) /\ Len(Append(q, x)) = n /\ n \in 1..n /\ Len(q) = n - 1
      /\ Append(q, x)[n] = x
    OBVIOUS
<1>2. \A j \in 1..Len(q) : q[j] = (IF j < n THEN Append(q, x)[j] ELSE Append(q, x)[j + 1])
    OBVIOUS
<1>3. Drops(Append(q, x), q, n)
    BY <1>1, <1>2 DEF Drops
<1> QED
    BY <1>1, <1>3 DEF Shifts

VendorType ==
  /\ adapter \in FanOut \cup Sequential /\ list \in [Scopes -> Seq(Nat)] /\ moves \in 0..MaxMoves
  /\ named \in BOOLEAN /\ warned \in BOOLEAN /\ blind \in BOOLEAN
  /\ adapter \in {"exolve", "sipout", "aurora", "finenumbers"} => ~named
  /\ key => adapter = "novofon"

LEMMA StockFacts ==
  ASSUME VendorType
  PROVE  /\ \A s \in Scopes \cup {0} : Stock(s) \in Seq(Nat)
         /\ \A s \in Scopes : Stock(s) = list[s]
         /\ adapter # "exolve" => Stock(0) = Pooled(list, Scopes)
<1>1. list \in [Scopes -> Seq(Nat)] /\ 0 \notin Scopes
    BY ScopeFacts DEF VendorType
<1>2. Pooled(list, Scopes) \in Seq(Nat) /\ Pooled(list, Listed) \in Seq(Nat)
    BY <1>1, PooledSet, ScopeFacts
<1>3. <<>> \in Seq(Nat)
    OBVIOUS
<1>4. Stock(0) \in Seq(Nat) /\ (adapter # "exolve" => Stock(0) = Pooled(list, Scopes))
    BY <1>2, <1>3 DEF Stock, Concat
<1>5. ASSUME NEW s \in Scopes PROVE Stock(s) = list[s] /\ Stock(s) \in Seq(Nat)
    BY <1>1 DEF Stock
<1> QED
    BY <1>4, <1>5

\* A sale or a new number.
Shifting(k) ==
  /\ \A s \in Scopes \cup {0} : Shifts(Stock(s), Stock(s)')
  /\ \A s \in Scopes : s # k => list'[s] = list[s]
  /\ \A s \in Scopes : Shifts(list[s], list'[s]) /\ list[s] \in Seq(Nat) /\ list'[s] \in Seq(Nat)
  /\ list' \in [Scopes -> Seq(Nat)]

LEMMA MovesShift ==
  ASSUME VendorType, Moves
  PROVE  \E k \in Scopes : Shifting(k)
<1>1. list \in [Scopes -> Seq(Nat)]
    BY DEF VendorType
<1>2. PICK k \in Scopes :
        \/ list[k] # <<>> /\ list' = [list EXCEPT ![k] = Tail(@)]
        \/ list' = [list EXCEPT ![k] = Append(@, Late[k])]
    BY DEF Moves
<1>3. PICK new : list' = [list EXCEPT ![k] = new] /\ Shifts(list[k], new)
  <2>1. CASE list[k] # <<>> /\ list' = [list EXCEPT ![k] = Tail(@)]
    <3>1. list' = [list EXCEPT ![k] = Tail(list[k])] /\ Shifts(list[k], Tail(list[k]))
        BY <1>1, <2>1, SaleShifts
    <3> QED
        BY <3>1
  <2>2. CASE list' = [list EXCEPT ![k] = Append(@, Late[k])]
    <3>1. /\ list' = [list EXCEPT ![k] = Append(list[k], Late[k])]
          /\ Shifts(list[k], Append(list[k], Late[k]))
        BY <1>1, <2>2, NewShifts, ScopeFacts
    <3> QED
        BY <3>1
  <2> QED
      BY <1>2, <2>1, <2>2
<1>4. /\ list' \in [Scopes -> Seq(Nat)]
      /\ \A s \in Scopes : s # k => list'[s] = list[s]
      /\ list'[k] = new
    BY <1>1, <1>3, PooledShifts
<1>5. \A s \in Scopes : Shifts(list[s], list'[s]) /\ list[s] \in Seq(Nat) /\ list'[s] \in Seq(Nat)
  <2>1. \A s \in Scopes : s # k => Shifts(list[s], list'[s])
      BY <1>4 DEF Shifts
  <2> QED
      BY <1>1, <1>3, <1>4, <2>1
<1>6. \A s \in Scopes : Shifts(Stock(s), Stock(s)')
  <2>1. \A s \in Scopes : Stock(s) = list[s] /\ Stock(s)' = list'[s]
      BY ScopeFacts DEF Stock
  <2> QED
      BY <1>5, <2>1
<1>7. Shifts(Stock(0), Stock(0)')
  <2>1. adapter' = adapter /\ bare' = bare
      BY DEF Moves, vendor
  <2>2. /\ Shifts(Pooled(list, Scopes), Pooled(list', Scopes))
        /\ Shifts(Pooled(list, Listed), Pooled(list', Listed))
      BY <1>1, <1>3, PooledShifts, ScopeFacts
  <2>3. Shifts(<<>>, <<>>)
      BY DEF Shifts
  <2>4. /\ Stock(0) = IF adapter # "exolve" THEN Pooled(list, Scopes) ELSE IF bare THEN Pooled(list, Listed) ELSE <<>>
        /\ Stock(0)' = IF adapter # "exolve" THEN Pooled(list', Scopes) ELSE IF bare THEN Pooled(list', Listed) ELSE <<>>
      BY <2>1 DEF Stock, Concat
  <2> QED
      BY <2>2, <2>3, <2>4
<1> QED
    BY <1>4, <1>5, <1>6, <1>7 DEF Shifting

-----------------------------------------------------------------------------
(* The invariant of a walk                                                 *)

\* Of the list st the numbers r are read, the total t is named and the walk is
\* at a; b numbers have been sold or are new.
\*   counts  the adapter compares what it has read with a total
\*   whole   no answer was cut without a trace
\*   told    the walk is at its end, and nothing was said about it
\*   all     late numbers count, too
Held(st, r, t, a, b, counts, whole, told, all) ==
  /\ Cardinality(Gone(st, r)) <= b
  /\ counts => Excess(st, r, a) <= b
  /\ whole => Cardinality(Skipped(st, r, a)) <= b
  /\ t # Unknown => Cardinality(NotLate(ToSet(st))) <= t
  /\ told => Cardinality(Lost(st, r)) <= b /\ (all => Cardinality(ToSet(st) \ ToSet(r)) <= b)

LEMMA WalkCards ==
  ASSUME NEW st \in Seq(Nat), NEW r \in Seq(Nat), NEW a \in Nat
  PROVE  /\ Cardinality(Gone(st, r)) \in Nat /\ Cardinality(Skipped(st, r, a)) \in Nat
         /\ Cardinality(Lost(st, r)) \in Nat /\ Cardinality(ToSet(st) \ ToSet(r)) \in Nat
         /\ Cardinality(NotLate(ToSet(st))) \in Nat /\ Excess(st, r, a) \in Int
         /\ Cardinality(Lost(st, r)) <= Cardinality(ToSet(st) \ ToSet(r))
<1>1. Lost(st, r) \subseteq ToSet(st) \ ToSet(r)
    BY DEF Lost, NotLate
<1>2. Cardinality(Lost(st, r)) <= Cardinality(ToSet(st) \ ToSet(r))
    BY <1>1, WalkFinite, NotMore
<1> QED
    BY <1>2, WalkFinite, FS_CardinalityType

\* A sale or a new number costs one.
LEMMA HeldShifts ==
  ASSUME NEW st \in Seq(Nat), NEW new, Shifts(st, new), NEW r \in Seq(Nat), NEW a \in Nat,
         NEW t \in Nat \cup {Unknown}, NEW b \in Nat, NEW counts, NEW whole, NEW told, NEW all,
         Held(st, r, t, a, b, counts, whole, told, all)
  PROVE  Held(new, r, t, a, b + 1, counts, whole, told, all)
<1>1. new \in Seq(Nat)
    BY ShiftTypes
<1>2. /\ Cardinality(Gone(new, r)) <= Cardinality(Gone(st, r)) + 1
      /\ Cardinality(Skipped(new, r, a)) <= Cardinality(Skipped(st, r, a)) + 1
      /\ Cardinality(ToSet(new) \ ToSet(r)) <= Cardinality(ToSet(st) \ ToSet(r)) + 1
      /\ Excess(new, r, a) <= Excess(st, r, a) + 1
    BY ShiftWalk, ShiftExcess
<1>3. Cardinality(Lost(new, r)) <= Cardinality(Lost(st, r))
    BY ShiftWalk, WalkFinite, NotMore
<1>4. Cardinality(NotLate(ToSet(new))) <= Cardinality(NotLate(ToSet(st)))
    BY ShiftSets, WalkFinite, NotMore
<1>5. /\ Cardinality(Gone(st, r)) \in Nat /\ Cardinality(Skipped(st, r, a)) \in Nat
      /\ Cardinality(Lost(st, r)) \in Nat /\ Cardinality(ToSet(st) \ ToSet(r)) \in Nat
      /\ Cardinality(NotLate(ToSet(st))) \in Nat /\ Excess(st, r, a) \in Int
    BY WalkCards
<1>6. /\ Cardinality(Gone(new, r)) \in Nat /\ Cardinality(Skipped(new, r, a)) \in Nat
      /\ Cardinality(Lost(new, r)) \in Nat /\ Cardinality(ToSet(new) \ ToSet(r)) \in Nat
      /\ Cardinality(NotLate(ToSet(new))) \in Nat /\ Excess(new, r, a) \in Int
    BY <1>1, WalkCards
<1>7. /\ Cardinality(Gone(new, r)) <= b + 1
      /\ counts => Excess(new, r, a) <= b + 1
      /\ whole => Cardinality(Skipped(new, r, a)) <= b + 1
      /\ told /\ all => Cardinality(ToSet(new) \ ToSet(r)) <= b + 1
  <2> DEFINE g == Cardinality(Gone(st, r))
             e == Excess(st, r, a)
             s == Cardinality(Skipped(st, r, a))
             l == Cardinality(ToSet(st) \ ToSet(r))
             g2 == Cardinality(Gone(new, r))
             e2 == Excess(new, r, a)
             s2 == Cardinality(Skipped(new, r, a))
             l2 == Cardinality(ToSet(new) \ ToSet(r))
  <2>1. /\ g \in Int /\ e \in Int /\ s \in Int /\ l \in Int
        /\ g2 \in Int /\ e2 \in Int /\ s2 \in Int /\ l2 \in Int
      BY <1>5, <1>6
  <2>2. g2 <= g + 1 /\ e2 <= e + 1 /\ s2 <= s + 1 /\ l2 <= l + 1
      BY <1>2
  <2>3. g <= b /\ (counts => e <= b) /\ (whole => s <= b) /\ (told /\ all => l <= b)
      BY DEF Held
  <2> HIDE DEF g, e, s, l, g2, e2, s2, l2
  <2>4. g2 <= b + 1
      BY <2>1, <2>2, <2>3
  <2>5. counts => e2 <= b + 1
      BY <2>1, <2>2, <2>3
  <2>6. whole => s2 <= b + 1
      BY <2>1, <2>2, <2>3
  <2>7. told /\ all => l2 <= b + 1
      BY <2>1, <2>2, <2>3
  <2> QED
      BY <2>4, <2>5, <2>6, <2>7 DEF g2, e2, s2, l2
<1>8. t # Unknown => Cardinality(NotLate(ToSet(new))) <= t
  <2> SUFFICES ASSUME t # Unknown PROVE Cardinality(NotLate(ToSet(new))) <= t
      OBVIOUS
  <2>1. t \in Nat /\ Cardinality(NotLate(ToSet(st))) <= t
      BY DEF Held
  <2> QED
      BY <1>4, <1>5, <1>6, <2>1
<1>9. told => Cardinality(Lost(new, r)) <= b + 1
  <2> DEFINE m == Cardinality(Lost(st, r))
             m2 == Cardinality(Lost(new, r))
  <2>1. m \in Nat /\ m2 \in Nat
      BY <1>5, <1>6
  <2>2. m2 <= m
      BY <1>3
  <2>3. told => m <= b
      BY DEF Held
  <2> HIDE DEF m, m2
  <2>4. told => m2 <= b + 1
      BY <2>1, <2>2, <2>3
  <2> QED
      BY <2>4 DEF m2
<1> QED
    BY <1>7, <1>8, <1>9 DEF Held

\* Nothing is read yet.
LEMMA HeldFresh ==
  ASSUME NEW st \in Seq(Nat), NEW b \in Nat, NEW counts, NEW whole, NEW all,
         counts => Excess(st, <<>>, 0) <= b
  PROVE  Held(st, <<>>, Unknown, 0, b, counts, whole, FALSE, all)
<1>1. Gone(st, <<>>) = {} /\ Skipped(st, <<>>, 0) = {}
    BY PlaceFacts DEF Gone, Skipped, NotLate, ToSet
<1>2. Cardinality({}) = 0 /\ 0 <= b
    BY FS_EmptySet
<1>3. Cardinality(Gone(st, <<>>)) <= b /\ Cardinality(Skipped(st, <<>>, 0)) <= b
    BY <1>1, <1>2
<1> QED
    BY <1>3 DEF Held

\* A walk that is given less may be given more.
LEMMA HeldLess ==
  ASSUME NEW st, NEW r, NEW t, NEW a, NEW b, NEW counts, NEW whole, NEW told, NEW all,
         Held(st, r, t, a, b, counts, whole, told, all), NEW half, half => whole,
         NEW said, said => told
  PROVE  Held(st, r, t, a, b, counts, half, said, all)
BY DEF Held

\* The page p is read.  At the end, the walk has the whole list, or is behind
\* it, or has as many numbers as it should.
LEMMA HeldRead ==
  ASSUME NEW st, NEW r \in Seq(Nat), NEW a, NEW p, Takes(st, a, p),
         NEW t, NEW b \in Nat, NEW counts, NEW whole, NEW all,
         Held(st, r, t, a, b, counts, whole, FALSE, all),
         NEW c \in Nat, counts => c >= a + Len(p),
         NEW half, half => whole /\ (c = a \/ c = a + Len(p) \/ a + Len(p) >= Len(st)),
         NEW n, n # Unknown => n = t \/ (n \in Nat /\ n >= Len(st)), n \in Nat \cup {Unknown},
         NEW told,
         told => \/ ToSet(st) \subseteq ToSet(r \o p)
                 \/ half /\ c >= Len(st)
                 \/ counts /\ ~all /\ n # Unknown /\ Len(r \o p) >= n
  PROVE  Held(st, r \o p, n, c, b, counts, half, told, all)
<1> DEFINE q == r \o p
<1>1. st \in Seq(Nat) /\ p \in Seq(Nat) /\ a \in Nat /\ a + Len(p) \in Nat /\ Len(st) \in Nat
    BY DEF Takes
<1>2. /\ q \in Seq(Nat) /\ ToSet(q) = ToSet(r) \cup ToSet(p)
      /\ Excess(st, q, a + Len(p)) = Excess(st, r, a)
      /\ Gone(st, q) = Gone(st, r) /\ Lost(st, q) \subseteq Lost(st, r)
      /\ Skipped(st, q, a + Len(p)) \subseteq Skipped(st, r, a)
    BY ReadOn
<1> HIDE DEF q
<1>3. Cardinality(Gone(st, q)) <= b
    BY <1>2 DEF Held
<1>4. counts => Excess(st, q, c) <= b
  <2> SUFFICES ASSUME counts PROVE Excess(st, q, c) <= b
      OBVIOUS
  <2>1. Excess(st, q, c) <= Excess(st, q, a + Len(p))
    <3>1. a + Len(p) <= c
        BY <1>1
    <3> QED
        BY <1>1, <1>2, <3>1, GoOn
  <2>2. Excess(st, q, c) \in Int /\ Excess(st, r, a) \in Int
      BY <1>1, <1>2, WalkCards
  <2>3. Excess(st, r, a) <= b
      BY DEF Held
  <2> QED
      BY <1>2, <2>1, <2>2, <2>3
<1>5. half => Cardinality(Skipped(st, q, c)) <= b
  <2> SUFFICES ASSUME half PROVE Cardinality(Skipped(st, q, c)) <= b
      OBVIOUS
  <2>1. Cardinality(Skipped(st, r, a)) <= b
      BY DEF Held
  <2>2. Skipped(st, q, c) \subseteq Skipped(st, r, a)
    <3>1. CASE c = a
        BY <1>2, <3>1 DEF Skipped
    <3>2. CASE c = a + Len(p)
        BY <1>2, <3>2
    <3>3. CASE a + Len(p) >= Len(st)
      <4>1. Before(st, a + Len(p)) = ToSet(st) /\ Before(st, c) \subseteq ToSet(st)
          BY <1>1, <3>3, PlaceFacts
      <4>2. Skipped(st, q, c) \subseteq Skipped(st, q, a + Len(p))
          BY <4>1 DEF Skipped
      <4> QED
          BY <1>2, <4>2
    <3> QED
        BY <3>1, <3>2, <3>3
  <2>3. IsFiniteSet(Skipped(st, r, a))
      BY <1>1, WalkFinite
  <2>4. /\ Cardinality(Skipped(st, q, c)) <= Cardinality(Skipped(st, r, a))
        /\ Cardinality(Skipped(st, q, c)) \in Nat /\ Cardinality(Skipped(st, r, a)) \in Nat
      BY <2>2, <2>3, NotMore
  <2> QED
      BY <2>1, <2>4
<1>6. n # Unknown => Cardinality(NotLate(ToSet(st))) <= n
  <2> SUFFICES ASSUME n # Unknown PROVE Cardinality(NotLate(ToSet(st))) <= n
      OBVIOUS
  <2>1. CASE n = t
      BY <2>1 DEF Held
  <2>2. CASE n \in Nat /\ n >= Len(st)
    <3>1. Cardinality(NotLate(ToSet(st))) <= Cardinality(ToSet(st)) /\ Cardinality(ToSet(st)) <= Len(st)
      <4>1. NotLate(ToSet(st)) \subseteq ToSet(st) /\ IsFiniteSet(ToSet(st))
          BY <1>1, SetOf DEF NotLate
      <4> QED
          BY <1>1, <4>1, SetOf, NotMore
    <3>2. Cardinality(NotLate(ToSet(st))) \in Nat /\ Cardinality(ToSet(st)) \in Nat
        BY <1>1, SetOf, WalkCards, FS_CardinalityType
    <3> QED
        BY <1>1, <2>2, <3>1, <3>2
  <2> QED
      BY <2>1, <2>2
<1>7. ASSUME told, ToSet(st) \ ToSet(q) = {}
      PROVE  Cardinality(Lost(st, q)) <= b /\ Cardinality(ToSet(st) \ ToSet(q)) <= b
  <2>1. Lost(st, q) = {}
      BY <1>7 DEF Lost, NotLate
  <2>2. Cardinality({}) = 0 /\ 0 <= b
      BY FS_EmptySet
  <2>3. Cardinality(Lost(st, q)) <= b
      BY <2>1, <2>2
  <2>4. Cardinality(ToSet(st) \ ToSet(q)) <= b
      BY <1>7, <2>2
  <2> QED
      BY <2>3, <2>4
<1>8. ASSUME told, half, c >= Len(st)
      PROVE  Cardinality(Lost(st, q)) <= b /\ Cardinality(ToSet(st) \ ToSet(q)) <= b
  <2>1. Skipped(st, q, c) = ToSet(st) \ ToSet(q)
      BY <1>1, <1>8, PlaceFacts DEF Skipped
  <2>2. Cardinality(ToSet(st) \ ToSet(q)) <= b
      BY <1>5, <1>8, <2>1
  <2>3. Cardinality(Lost(st, q)) <= Cardinality(ToSet(st) \ ToSet(q))
      BY <1>1, <1>2, WalkCards
  <2>4. Cardinality(Lost(st, q)) \in Nat /\ Cardinality(ToSet(st) \ ToSet(q)) \in Nat
      BY <1>1, <1>2, WalkCards
  <2> QED
      BY <2>2, <2>3, <2>4
<1>9. ASSUME told, counts, n # Unknown, Len(q) >= n
      PROVE  Cardinality(Lost(st, q)) <= b
  <2> DEFINE A == NotLate(ToSet(q) \cap ToSet(st))
             B == NotLate(ToSet(st))
  <2>1. Len(q) - Cardinality(A) <= Excess(st, q, c) /\ Cardinality(A) \in Nat
      BY <1>1, <1>2, ExcessTells
  <2>2. IsFiniteSet(B) /\ A = B \cap ToSet(q) /\ Lost(st, q) = B \ ToSet(q)
      BY <1>1, <1>2, WalkFinite DEF NotLate, Lost
  <2> HIDE DEF A, B
  <2> DEFINE Q == ToSet(q)
  <2>6. /\ Cardinality(B) = Cardinality(B \cap Q) + Cardinality(B \ Q)
        /\ Cardinality(B \ Q) \in Nat
    <3> HIDE DEF Q
    <3> QED
        BY <2>2, InTwo
  <2>3. Cardinality(B) = Cardinality(A) + Cardinality(Lost(st, q)) /\ Cardinality(Lost(st, q)) \in Nat
      BY <2>2, <2>6
  <2>4. Cardinality(B) <= n /\ n \in Nat
      BY <1>6, <1>9 DEF B
  <2>5. Excess(st, q, c) <= b /\ Len(q) \in Nat
      BY <1>2, <1>4, <1>9
  <2>7. Excess(st, q, c) \in Int
      BY <1>1, <1>2, WalkCards
  <2> QED
      BY <1>9, <2>1, <2>3, <2>4, <2>5, <2>7
<1>10. told => Cardinality(Lost(st, q)) <= b /\ (all => Cardinality(ToSet(st) \ ToSet(q)) <= b)
  <2> SUFFICES ASSUME told
               PROVE  Cardinality(Lost(st, q)) <= b /\ (all => Cardinality(ToSet(st) \ ToSet(q)) <= b)
      OBVIOUS
  <2>1. CASE ToSet(st) \subseteq ToSet(q)
    <3>1. ToSet(st) \ ToSet(q) = {}
        BY <2>1
    <3> QED
        BY <1>7, <3>1
  <2>2. CASE half /\ c >= Len(st)
      BY <1>8, <2>2
  <2>3. CASE counts /\ ~all /\ n # Unknown /\ Len(q) >= n
      BY <1>9, <2>3
  <2> QED
      BY <2>1, <2>2, <2>3 DEF q
<1> QED
    BY <1>3, <1>4, <1>5, <1>6, <1>10 DEF Held, q

-----------------------------------------------------------------------------
(* Pages                                                                   *)

LEMMA MulMono == ASSUME NEW a \in Nat, NEW b \in Nat, NEW c \in Nat, a <= b PROVE a * c <= b * c /\ a * c \in Nat /\ b * c \in Nat
<1>1. PICK d \in Nat : b = a + d
  <2>1. b - a \in Nat /\ b = a + (b - a)
      OBVIOUS
  <2> QED
      BY <2>1
<1>2. (a + d) * c = a * c + d * c
    OBVIOUS
<1>3. a * c \in Nat /\ d * c \in Nat
    OBVIOUS
<1> QED
    BY <1>1, <1>2, <1>3

LEMMA LimitFacts ==
  /\ Limit \in Nat /\ Limit > 0 /\ MaxPage \in Nat /\ Window \in Nat /\ MaxMoves \in Nat
  /\ Unknown = -1 /\ Unknown \notin Nat
BY FetchAssumption DEF Unknown

\* A stretch of a list, up to the place e, and what it is cut to.
IsStretch(st, a, e, p) ==
  /\ st \in Seq(Nat) /\ a \in Nat /\ e \in Nat /\ e <= Len(st) /\ p = SubSeq(st, a + 1, e)
Parted(st, a, e, p) ==
  /\ Takes(st, a, p) /\ Len(p) = IF a <= e THEN e - a ELSE 0
  /\ \A k \in 0..Len(p) : Takes(st, a, SubSeq(p, 1, k)) /\ Len(SubSeq(p, 1, k)) = k

LEMMA StretchFacts ==
  ASSUME NEW st, NEW a, NEW e, NEW p, IsStretch(st, a, e, p)
  PROVE  Parted(st, a, e, p)
<1> SUFFICES ASSUME st \in Seq(Nat), a \in Nat, e \in Nat, e <= Len(st), p = SubSeq(st, a + 1, e)
             PROVE  /\ Takes(st, a, p) /\ Len(p) = IF a <= e THEN e - a ELSE 0
                    /\ \A k \in 0..Len(p) : Takes(st, a, SubSeq(p, 1, k)) /\ Len(SubSeq(p, 1, k)) = k
    BY DEF IsStretch, Parted
<1>1. Len(st) \in Nat /\ DOMAIN st = 1..Len(st) /\ \A i \in 1..Len(st) : st[i] \in Nat
    OBVIOUS
<1>2. CASE a <= e
  <2> DEFINE n == e - a
             q == [i \in 1..n |-> st[a + i]]
  <2>1. n \in Nat /\ a + n = e
      BY <1>2
  <2>2. \A i \in 1..n : a + i \in 1..Len(st)
      BY <1>1, <2>1
  <2>3. \A i \in 1..n : st[a + i] \in Nat
      BY <1>1, <2>2
  <2>4. p = q
    <3>1. p = [i \in 1..n |-> st[(a + 1) + i - 1]]
      <4>1. p = [i \in 1..(e - (a + 1) + 1) |-> st[(a + 1) + i - 1]]
          OBVIOUS
      <4>2. e - (a + 1) + 1 = n
          OBVIOUS
      <4> QED
          BY <4>1, <4>2
    <3>2. \A i \in 1..n : (a + 1) + i - 1 = a + i
        BY <2>1
    <3> QED
        BY <3>1, <3>2
  <2> HIDE DEF n
  <2>5. q \in Seq(Nat) /\ Len(q) = n /\ \A i \in 1..n : q[i] = st[a + i]
      BY <2>1, <2>3, Slice
  <2> HIDE DEF q
  <2>6. Takes(st, a, p)
      BY <2>2, <2>4, <2>5 DEF Takes
  <2>7. ASSUME NEW k \in 0..n
        PROVE  Takes(st, a, SubSeq(q, 1, k)) /\ Len(SubSeq(q, 1, k)) = k
    <3> DEFINE o == [i \in 1..k |-> q[i]]
    <3>1. SubSeq(q, 1, k) = o
      <4>1. SubSeq(q, 1, k) = [i \in 1..(k - 1 + 1) |-> q[1 + i - 1]]
          OBVIOUS
      <4>2. k - 1 + 1 = k /\ \A i \in 1..k : 1 + i - 1 = i
          OBVIOUS
      <4> QED
          BY <4>1, <4>2
    <3>2. k \in Nat /\ \A i \in 1..k : i \in 1..n
        BY <2>1
    <3>3. \A i \in 1..k : q[i] \in Nat
        BY <2>3, <2>5, <3>2
    <3>4. o \in Seq(Nat) /\ Len(o) = k /\ \A i \in 1..k : o[i] = q[i]
        BY <3>2, <3>3
    <3> HIDE DEF o
    <3>5. Takes(st, a, o)
        BY <2>2, <2>5, <3>2, <3>4 DEF Takes
    <3> QED
        BY <3>1, <3>4, <3>5
  <2>8. Len(p) = e - a
      BY <2>4, <2>5 DEF n
  <2> QED
      BY <1>2, <2>4, <2>5, <2>6, <2>7, <2>8
<1>3. CASE e < a
  <2>1. p = <<>>
      BY <1>3
  <2>2. Takes(st, a, <<>>) /\ Len(<<>>) = 0
      BY DEF Takes
  <2>3. SubSeq(p, 1, 0) = <<>>
      BY <2>1
  <2>4. ASSUME NEW k \in 0..Len(p)
        PROVE  Takes(st, a, SubSeq(p, 1, k)) /\ Len(SubSeq(p, 1, k)) = k
    <3>1. k = 0
        BY <2>1
    <3> QED
        BY <2>2, <2>3, <3>1
  <2>5. Takes(st, a, p) /\ Len(p) = (IF a <= e THEN e - a ELSE 0)
    <3>1. Takes(st, a, p)
        BY <2>1, <2>2
    <3>2. Len(p) = 0
        BY <2>1, <2>2
    <3>3. ~(a <= e)
        BY <1>3
    <3> QED
        BY <3>1, <3>2, <3>3
  <2> QED
      BY <2>4, <2>5
<1> QED
    BY <1>2, <1>3

Passed(w) == IF Rule.by = "page" THEN w.pos * Limit ELSE IF Rule.by = "offset" THEN w.pos ELSE 0

\* A page, whole or not.
LEMMA PageFacts ==
  ASSUME NEW s, Stock(s) \in Seq(Nat), NEW w, w.pos \in Nat, Rule.by \in {"page", "offset", "all"},
         NEW p \in Cuts(Page(s, w)) \cup {Page(s, w)}
  PROVE  /\ Takes(Stock(s), Passed(w), p) /\ Passed(w) \in Nat
         /\ Rule.by # "all" => Len(p) <= Limit
         /\ p = Page(s, w) => IF Rule.by = "all" THEN p = Stock(s)
                              ELSE Len(p) = Limit \/ Passed(w) + Len(p) >= Len(Stock(s))
<1> DEFINE st == Stock(s)
           a == Passed(w)
           whole == Page(s, w)
<1>1. a \in Nat /\ Len(st) \in Nat
    BY LimitFacts, MulMono DEF Passed
<1>2. PICK e \in Nat : /\ e <= Len(st) /\ whole = SubSeq(st, a + 1, e)
                       /\ Rule.by = "all" => whole = st
                       /\ Rule.by # "all" => (e = a + Limit \/ e = Len(st)) /\ e <= a + Limit
  <2>1. CASE Rule.by = "all"
    <3>1. a = 0 /\ whole = st
        BY <2>1 DEF Passed, Page
    <3>2. st = SubSeq(st, 1, Len(st))
        OBVIOUS
    <3> HIDE DEF st, a, whole
    <3>3. a + 1 = 1
        BY <3>1
    <3>4. whole = SubSeq(st, a + 1, Len(st))
        BY <3>1, <3>2, <3>3
    <3> QED
        BY <1>1, <2>1, <3>1, <3>4
  <2>2. CASE Rule.by # "all"
    <3> DEFINE S == {a + Limit, Len(st)}
    <3>1. S \in SUBSET Nat /\ S # {}
        BY <1>1, LimitFacts
    <3>2. Min(S) \in S /\ Min(S) <= a + Limit /\ Min(S) <= Len(st)
        BY <3>1, MinFacts
    <3>3. whole = SubSeq(st, a + 1, Min(S))
        BY <2>2 DEF Passed, Page
    <3>4. Min(S) \in Nat
        BY <3>1, <3>2
    <3> HIDE DEF st, a, whole
    <3> QED
        BY <2>2, <3>2, <3>3, <3>4
  <2> QED
      BY <2>1, <2>2
<1> HIDE DEF st, a, whole
<1>3. st \in Seq(Nat)
    BY DEF st
<1>4. /\ Takes(st, a, whole) /\ Len(whole) = IF a <= e THEN e - a ELSE 0
      /\ \A k \in 0..Len(whole) : Takes(st, a, SubSeq(whole, 1, k)) /\ Len(SubSeq(whole, 1, k)) = k
  <2>1. IsStretch(st, a, e, whole)
      BY <1>1, <1>2, <1>3 DEF IsStretch
  <2>2. Parted(st, a, e, whole)
      BY <2>1, StretchFacts
  <2> QED
      BY <2>2 DEF Parted
<1>5. Len(whole) \in Nat
    BY <1>1, <1>4
<1>6. Rule.by # "all" => Len(whole) <= Limit
    BY <1>1, <1>2, <1>4, LimitFacts
<1>7. p = whole \/ \E k \in 0..(Len(whole) - 1) : p = SubSeq(whole, 1, k)
    BY DEF Cuts, whole
<1>8. CASE p = whole
  <2>1. Rule.by # "all" => Len(p) = Limit \/ a + Len(p) >= Len(st)
      BY <1>1, <1>2, <1>4, <1>8, LimitFacts
  <2> QED
      BY <1>1, <1>2, <1>4, <1>6, <1>8, <2>1 DEF st, a, whole
<1>9. CASE p # whole
  <2>1. PICK k \in 0..(Len(whole) - 1) : p = SubSeq(whole, 1, k)
      BY <1>7, <1>9
  <2>2. k \in 0..Len(whole) /\ k <= Len(whole)
      BY <1>5
  <2>3. Takes(st, a, p) /\ Len(p) = k
      BY <1>4, <2>1, <2>2
  <2>4. Rule.by # "all" => Len(p) <= Limit
      BY <1>5, <1>6, <2>2, <2>3, LimitFacts
  <2> QED
      BY <1>1, <1>9, <2>3, <2>4 DEF st, a, whole
<1> QED
    BY <1>8, <1>9

-----------------------------------------------------------------------------
(* The rules of the page loops                                             *)

LEMMA RuleFields ==
  /\ UisRule.by = "offset" /\ UisRule.total = "first" /\ UisRule.short /\ UisRule.empty
  /\ ~UisRule.pages /\ ~UisRule.again /\ UisRule.over = "lack" /\ UisRule.lack = "warn"
  /\ NovofonRule.by = "offset" /\ NovofonRule.total = "first" /\ NovofonRule.short /\ NovofonRule.empty
  /\ ~NovofonRule.pages /\ ~NovofonRule.again /\ NovofonRule.over = "lack"
  /\ NovofonRule.lack \in {"warn", "error"}
  /\ ExolveRule.by = "offset" /\ ExolveRule.total = "none" /\ ~ExolveRule.short /\ ExolveRule.empty
  /\ ~ExolveRule.pages /\ ExolveRule.again /\ ExolveRule.over = "error" /\ ExolveRule.lack = "unseen"
  /\ McnRule.by = "page" /\ McnRule.total = "first" /\ McnRule.short /\ McnRule.empty
  /\ ~McnRule.pages /\ ~McnRule.again /\ McnRule.over = "end" /\ McnRule.lack = "error"
  /\ VoximplantRule.by = "offset" /\ VoximplantRule.total = "last" /\ VoximplantRule.short
  /\ VoximplantRule.empty /\ ~VoximplantRule.pages /\ ~VoximplantRule.again
  /\ VoximplantRule.over = "error" /\ VoximplantRule.lack = "tail"
<1>1. NovofonRule.lack = IF expected = Unknown THEN "warn" ELSE "error"
    BY DEF UisRule, NovofonRule
<1>2. /\ UisRule.by = "offset" /\ UisRule.total = "first" /\ UisRule.short /\ UisRule.empty
      /\ ~UisRule.pages /\ ~UisRule.again /\ UisRule.over = "lack" /\ UisRule.lack = "warn"
    BY DEF UisRule
<1>3. /\ NovofonRule.by = "offset" /\ NovofonRule.total = "first" /\ NovofonRule.short /\ NovofonRule.empty
      /\ ~NovofonRule.pages /\ ~NovofonRule.again /\ NovofonRule.over = "lack"
    BY DEF UisRule, NovofonRule
<1>4. /\ ExolveRule.by = "offset" /\ ExolveRule.total = "none" /\ ~ExolveRule.short /\ ExolveRule.empty
      /\ ~ExolveRule.pages /\ ExolveRule.again /\ ExolveRule.over = "error" /\ ExolveRule.lack = "unseen"
    BY DEF UisRule, ExolveRule
<1>5. /\ McnRule.by = "page" /\ McnRule.total = "first" /\ McnRule.short /\ McnRule.empty
      /\ ~McnRule.pages /\ ~McnRule.again /\ McnRule.over = "end" /\ McnRule.lack = "error"
    BY DEF UisRule, McnRule
<1>6. /\ VoximplantRule.by = "offset" /\ VoximplantRule.total = "last" /\ VoximplantRule.short
      /\ VoximplantRule.empty /\ ~VoximplantRule.pages /\ ~VoximplantRule.again
      /\ VoximplantRule.over = "error" /\ VoximplantRule.lack = "tail"
    BY DEF UisRule, VoximplantRule
<1> QED
    BY <1>1, <1>2, <1>3, <1>4, <1>5, <1>6

LEMMA PagedFields ==
  /\ RunexisRule.by = "page" /\ RunexisRule.total = "last" /\ ~RunexisRule.short /\ RunexisRule.empty
  /\ ~RunexisRule.pages /\ ~RunexisRule.again /\ RunexisRule.over = "end" /\ RunexisRule.lack = "unseen"
  /\ RegRule.by = "page" /\ RegRule.total = "last" /\ ~RegRule.short /\ RegRule.empty
  /\ RegRule.pages /\ ~RegRule.again /\ RegRule.over = "never" /\ RegRule.lack = "unseen"
  /\ RangesRule.by = "page" /\ RangesRule.total = "last" /\ ~RangesRule.short /\ ~RangesRule.empty
  /\ RangesRule.pages /\ ~RangesRule.again /\ RangesRule.over = "never" /\ RangesRule.lack = "unseen"
  /\ SipoutRule.by = "all" /\ SipoutRule.lack = "unseen" /\ ~SipoutRule.again
  /\ SipoutRule.total = "last" /\ SipoutRule.over = "end" /\ AuroraRule = SipoutRule
<1> DEFINE R == RunexisRule
           Has(r) == DOMAIN r = {"by", "total", "short", "empty", "pages", "again", "over", "lack"}
<1>1. /\ R.by = "page" /\ R.total = "last" /\ ~R.short /\ R.empty
      /\ ~R.pages /\ ~R.again /\ R.over = "end" /\ R.lack = "unseen" /\ Has(R)
    BY DEF UisRule, RunexisRule
<1> DEFINE G == RegRule
<1>2. /\ G.by = "page" /\ G.total = "last" /\ ~G.short /\ G.empty
      /\ G.pages /\ ~G.again /\ G.over = "never" /\ G.lack = "unseen" /\ Has(G)
    BY <1>1 DEF RegRule
<1>3. /\ RangesRule.by = "page" /\ RangesRule.total = "last" /\ ~RangesRule.short /\ ~RangesRule.empty
      /\ RangesRule.pages /\ ~RangesRule.again /\ RangesRule.over = "never" /\ RangesRule.lack = "unseen"
    BY <1>2 DEF RangesRule
<1>4. /\ SipoutRule.by = "all" /\ SipoutRule.lack = "unseen" /\ ~SipoutRule.again
      /\ SipoutRule.total = "last" /\ SipoutRule.over = "end"
    BY <1>1 DEF SipoutRule
<1> QED
    BY <1>1, <1>2, <1>3, <1>4 DEF AuroraRule

LEMMA RuleFacts ==
  /\ adapter = "uis" => Rule = UisRule
  /\ adapter = "novofon" => Rule = NovofonRule
  /\ adapter = "exolve" => Rule = ExolveRule
  /\ adapter = "mcn" => Rule = McnRule
  /\ adapter = "voximplant" => Rule = VoximplantRule
  /\ adapter = "runexis" => Rule = RunexisRule
  /\ adapter = "sipout" => Rule = SipoutRule
  /\ adapter = "aurora" => Rule = SipoutRule
  /\ adapter = "finenumbers" => Rule = RegRule \/ Rule = RangesRule
<1>1. /\ adapter = "uis" => Rule = UisRule
      /\ adapter = "novofon" => Rule = NovofonRule
      /\ adapter = "exolve" => Rule = ExolveRule
    BY DEF Rule
<1>2. /\ adapter = "mcn" => Rule = McnRule
      /\ adapter = "voximplant" => Rule = VoximplantRule
      /\ adapter = "runexis" => Rule = RunexisRule
    BY DEF Rule
<1>3. /\ adapter = "sipout" => Rule = SipoutRule
      /\ adapter = "aurora" => Rule = SipoutRule
      /\ adapter = "finenumbers" => Rule = RegRule \/ Rule = RangesRule
    BY DEF Rule, AuroraRule
<1> QED
    BY <1>1, <1>2, <1>3

LEMMA RuleBy ==
  ASSUME VendorType
  PROVE  /\ Rule.by \in {"page", "offset", "all"}
         /\ Rule.by = "all" <=> adapter \in {"sipout", "aurora"}
         /\ adapter \in Counting => Rule.by # "all"
         /\ adapter \in {"uis", "novofon", "voximplant", "exolve"} => Rule.by = "offset"
         /\ adapter \in {"mcn", "runexis", "finenumbers"} => Rule.by = "page"
<1>1. adapter \in {"exolve", "mcn", "voximplant", "novofon", "uis", "runexis", "sipout", "aurora", "finenumbers"}
    BY DEF VendorType, FanOut, Sequential
<1>2. /\ adapter \in {"uis", "novofon", "voximplant", "exolve"} => Rule.by = "offset"
      /\ adapter \in {"mcn", "runexis", "finenumbers"} => Rule.by = "page"
      /\ adapter \in {"sipout", "aurora"} => Rule.by = "all"
    BY RuleFacts, RuleFields, PagedFields
<1> QED
    BY <1>1, <1>2 DEF Counting

Summed == adapter = "voximplant" /\ named
Noticed == adapter \in {"uis", "novofon"} /\ warned
WholeSoFar == ~blind /\ ~(adapter = "mcn" /\ named)
Told(w) == w.at = "ended" /\ ~blind /\ ~Summed /\ ~Noticed

WalkType(w) ==
  /\ DOMAIN w = {"pos", "read", "total", "again", "tries", "at"}
  /\ w.pos \in Nat /\ w.read \in Seq(Nat) /\ w.total \in Nat \cup {Unknown}
  /\ w.at \in {"asking", "tail", "ended"}
  /\ w.total # Unknown => named \/ adapter = "finenumbers"
  /\ w.at = "tail" => Summed
  /\ w.at \in {"tail", "ended"} /\ Summed => w.total # Unknown

WalkInv(s, b) ==
  Held(Stock(s), walk[s].read, walk[s].total, Passed(walk[s]), b,
       adapter \in Counting, WholeSoFar, Told(walk[s]), adapter = "finenumbers")

\* Runexis' list ends before its last page, whatever may still move.
RoomInv == adapter = "runexis" => Len(Stock(0)) + MaxMoves <= MaxPage * Limit + moves

-----------------------------------------------------------------------------
(* A page is read                                                          *)

\* How the loop ends without a word.
Ends(w, v, p) ==
  /\ ~EmptyAgain(w, p) /\ (~Lacks(v) \/ Rule.lack = "unseen")
  /\ Closes(v, p) \/ (Beyond(v) /\ Rule.over \in {"end", "lack"})

LEMMA VerdictFacts ==
  ASSUME VendorType, NEW w, NEW v, NEW p
  PROVE  /\ Verdict(w, v, p) \in {"warn", "end", "error", "again", "tail", "on"}
         /\ Verdict(w, v, p) = "warn" => w.at = "tail" \/ adapter \in {"uis", "novofon"}
         /\ Verdict(w, v, p) = "tail" => adapter = "voximplant" /\ Lacks(v)
         /\ Verdict(w, v, p) = "end" => w.at = "tail" \/ Ends(w, v, p)
<1>0. adapter \in {"exolve", "mcn", "voximplant", "novofon", "uis", "runexis", "sipout", "aurora", "finenumbers"}
    BY DEF VendorType, FanOut, Sequential
<1>1. /\ Rule.lack \in {"warn", "error", "tail", "unseen"}
      /\ Rule.lack = "warn" => adapter \in {"uis", "novofon"}
      /\ Rule.lack = "tail" => adapter = "voximplant"
    BY <1>0, RuleFacts, RuleFields, PagedFields
<1>2. /\ Final(v) \in {"warn", "error", "tail", "end"}
      /\ Final(v) = "warn" => adapter \in {"uis", "novofon"}
      /\ Final(v) = "tail" => adapter = "voximplant" /\ Lacks(v)
      /\ Final(v) = "end" => ~Lacks(v) \/ Rule.lack = "unseen"
    BY <1>1 DEF Final
<1> DEFINE d == Verdict(w, v, p)
<1>3. CASE w.at = "tail"
    BY <1>3 DEF Verdict
<1>4. CASE w.at # "tail" /\ (adapter = "novofon" /\ expected # Unknown /\ v.total > Window + Limit)
    BY <1>4 DEF Verdict
<1>5. CASE w.at # "tail" /\ ~(adapter = "novofon" /\ expected # Unknown /\ v.total > Window + Limit)
  <2>1. CASE EmptyAgain(w, p)
    <3>1. d = "again"
        BY <1>5, <2>1 DEF Verdict
    <3> QED
        BY <3>1
  <2>2. CASE ~EmptyAgain(w, p) /\ Closes(v, p)
    <3>1. d = Final(v)
        BY <1>5, <2>2 DEF Verdict
    <3> QED
        BY <1>2, <2>2, <3>1 DEF Ends
  <2>3. CASE ~EmptyAgain(w, p) /\ ~Closes(v, p) /\ Beyond(v)
    <3>1. d = CASE Rule.over = "end" -> Final(v)
                [] Rule.over = "lack" /\ ~Lacks(v) -> "end"
                [] OTHER -> "error"
        BY <1>5, <2>3 DEF Verdict
    <3>2. CASE Rule.over = "end"
      <4>1. d = Final(v)
          BY <3>1, <3>2
      <4> QED
          BY <1>2, <2>3, <3>2, <4>1 DEF Ends
    <3>3. CASE Rule.over = "lack" /\ ~Lacks(v)
      <4>1. d = "end"
          BY <3>1, <3>3
      <4> QED
          BY <2>3, <3>3, <4>1 DEF Ends
    <3>4. CASE Rule.over # "end" /\ ~(Rule.over = "lack" /\ ~Lacks(v))
      <4>1. d = "error"
          BY <3>1, <3>4
      <4> QED
          BY <4>1
    <3> QED
        BY <3>2, <3>3, <3>4
  <2>4. CASE ~EmptyAgain(w, p) /\ ~Closes(v, p) /\ ~Beyond(v)
    <3>1. d = "on"
        BY <1>5, <2>4 DEF Verdict
    <3> QED
        BY <3>1
  <2> QED
      BY <2>1, <2>2, <2>3, <2>4
<1> QED
    BY <1>3, <1>4, <1>5

LEMMA TotalFacts ==
  ASSUME VendorType, NEW s \in Scopes \cup {0}
  PROVE  /\ Total(s) \in Nat \cup {Unknown}
         /\ Total(s) # Unknown <=> named \/ adapter = "finenumbers"
         /\ Total(s) # Unknown => Total(s) = Len(Stock(s))
<1>1. Len(Stock(s)) \in Nat
    BY StockFacts
<1> QED
    BY <1>1, LimitFacts DEF Total

\* What the loop knows after a page.
LEMMA AfterFacts ==
  ASSUME VendorType, NEW s \in Scopes \cup {0}, NEW w, WalkType(w), NEW p \in Seq(Nat)
  PROVE  LET v == After(w, p, Total(s))
         IN /\ DOMAIN v = DOMAIN w /\ v.read = w.read \o p /\ v.read \in Seq(Nat) /\ v.at = w.at
            /\ v.pos = w.pos + (IF Rule.by = "page" THEN 1 ELSE Len(p)) /\ v.pos \in Nat
            /\ v.total \in Nat \cup {Unknown}
            /\ v.total # Unknown => named \/ adapter = "finenumbers"
            /\ v.total # Unknown => v.total = w.total \/ (v.total \in Nat /\ v.total >= Len(Stock(s)))
            /\ adapter \in Counting /\ named => v.total # Unknown
            /\ adapter = "finenumbers" => v.total = Len(Stock(s))
            /\ adapter = "exolve" => v.total = Unknown
<1> DEFINE t == Total(s)
           v == After(w, p, t)
<1>1. /\ DOMAIN w = {"pos", "read", "total", "again", "tries", "at"}
      /\ w.pos \in Nat /\ w.read \in Seq(Nat) /\ w.total \in Nat \cup {Unknown}
      /\ w.total # Unknown => named \/ adapter = "finenumbers"
    BY DEF WalkType
<1>2. /\ t \in Nat \cup {Unknown} /\ (t # Unknown <=> named \/ adapter = "finenumbers")
      /\ t # Unknown => t = Len(Stock(s))
    BY TotalFacts
<1> HIDE DEF t
<1>3. /\ DOMAIN v = DOMAIN w /\ v.read = w.read \o p /\ v.at = w.at /\ v.total = Noted(w, t)
      /\ v.pos = w.pos + (IF Rule.by = "page" THEN 1 ELSE Len(p))
    BY <1>1 DEF After
<1>4. v.read \in Seq(Nat) /\ v.pos \in Nat
    BY <1>1, <1>3, JoinSet
<1>5. Len(Stock(s)) \in Nat
    BY StockFacts
<1>6. Noted(w, t) \in {w.total, t, Unknown}
    BY DEF Noted
<1>7. adapter \in Counting /\ named => Noted(w, t) # Unknown
  <2> SUFFICES ASSUME adapter \in Counting, named PROVE Noted(w, t) # Unknown
      OBVIOUS
  <2>1. Rule.total \in {"first", "last"}
      BY RuleFacts, RuleFields, PagedFields DEF Counting
  <2>2. t # Unknown
      BY <1>2
  <2> QED
      BY <2>1, <2>2 DEF Noted
<1>8. adapter = "finenumbers" => Noted(w, t) = t
  <2> SUFFICES ASSUME adapter = "finenumbers" PROVE Noted(w, t) = t
      OBVIOUS
  <2>1. Rule.total = "last"
      BY RuleFacts, PagedFields
  <2> QED
      BY <1>2, <2>1 DEF Noted
<1>9. adapter = "exolve" => Noted(w, t) = Unknown
  <2> SUFFICES ASSUME adapter = "exolve" PROVE Noted(w, t) = Unknown
      OBVIOUS
  <2>1. Rule.total = "none"
      BY RuleFacts, RuleFields
  <2> QED
      BY <2>1 DEF Noted
<1> HIDE DEF v
<1>10. v.total \in Nat \cup {Unknown} /\ (v.total # Unknown => named \/ adapter = "finenumbers")
    BY <1>1, <1>2, <1>3, <1>6
<1>11. v.total # Unknown => v.total = w.total \/ (v.total \in Nat /\ v.total >= Len(Stock(s)))
  <2>1. t # Unknown => t \in Nat /\ t >= Len(Stock(s))
      BY <1>2, <1>5
  <2> QED
      BY <1>3, <1>6, <2>1
<1>12. adapter = "finenumbers" => v.total = Len(Stock(s))
    BY <1>2, <1>3, <1>8
<1> QED
    BY <1>3, <1>4, <1>7, <1>9, <1>10, <1>11, <1>12 DEF v, t

\* Where the walk is after a page.
PassedNext(w, p) ==
  IF Rule.by = "page" THEN Passed(w) + Limit ELSE IF Rule.by = "offset" THEN Passed(w) + Len(p) ELSE 0

\* At the end of a loop that says nothing, the list has been read, or the
\* walk is behind it, or it has as many numbers as it should.
LEMMA EndsWhy ==
  ASSUME VendorType, RoomInv, NEW s \in Scopes \cup {0}, adapter = "runexis" => s = 0,
         NEW w, WalkType(w), NEW p,
         p \in Cuts(Page(s, w)) \cup {Page(s, w)},
         Ends(w, After(w, p, Total(s)), p), ~Summed,
         p = Page(s, w) \/ Tells(w, p),
         After(w, p, Total(s)).total = Unknown => Closes(After(w, p, Total(s)), p)
  PROVE  LET v == After(w, p, Total(s))
         IN \/ ToSet(Stock(s)) \subseteq ToSet(w.read \o p)
            \/ ~(adapter = "mcn" /\ named) /\ p = Page(s, w) /\ PassedNext(w, p) >= Len(Stock(s))
            \/ adapter \in Counting /\ v.total # Unknown /\ Len(w.read \o p) >= v.total
<1> DEFINE v == After(w, p, Total(s))
           st == Stock(s)
           a == Passed(w)
           c == PassedNext(w, p)
<1>0. adapter \in {"exolve", "mcn", "voximplant", "novofon", "uis", "runexis", "sipout", "aurora", "finenumbers"}
    BY DEF VendorType, FanOut, Sequential
<1>1. st \in Seq(Nat) /\ Len(st) \in Nat
    BY StockFacts
<1>2. w.pos \in Nat /\ w.read \in Seq(Nat)
    BY DEF WalkType
<1>3. /\ Takes(st, a, p) /\ a \in Nat
      /\ Rule.by # "all" => Len(p) <= Limit
      /\ p = Page(s, w) => IF Rule.by = "all" THEN p = st ELSE Len(p) = Limit \/ a + Len(p) >= Len(st)
    BY <1>1, <1>2, RuleBy, PageFacts
<1>4. p \in Seq(Nat) /\ Len(p) \in Nat
    BY <1>3 DEF Takes
<1>5. /\ v.read = w.read \o p /\ v.read \in Seq(Nat) /\ v.pos \in Nat
      /\ v.pos = w.pos + (IF Rule.by = "page" THEN 1 ELSE Len(p))
      /\ v.total \in Nat \cup {Unknown}
      /\ v.total # Unknown => named \/ adapter = "finenumbers"
      /\ adapter \in Counting /\ named => v.total # Unknown
      /\ adapter = "finenumbers" => v.total = Len(st)
      /\ adapter = "exolve" => v.total = Unknown
    BY <1>4, AfterFacts
<1>6. /\ ~EmptyAgain(w, p) /\ (~Lacks(v) \/ Rule.lack = "unseen")
      /\ Closes(v, p) \/ (Beyond(v) /\ Rule.over \in {"end", "lack"})
    BY DEF Ends
<1>7. v.total = Unknown => Closes(v, p)
    OBVIOUS
<1> DEFINE Covered == p = Page(s, w) /\ c >= Len(st)
           Counted == adapter \in Counting /\ v.total # Unknown /\ Len(v.read) >= v.total
\* The page is the last, whether it is empty or short.
<1>8. ASSUME Rule.by # "all", p = Page(s, w), Len(p) < Limit PROVE Covered
  <2>1. a + Len(p) >= Len(st)
      BY <1>3, <1>4, <1>8, LimitFacts
  <2>2. CASE Rule.by = "page"
    <3>1. c = a + Limit
        BY <2>2 DEF PassedNext
    <3> HIDE DEF a, c, st
    <3> QED
        BY <1>1, <1>3, <1>4, <1>8, <2>1, <3>1, LimitFacts
  <2>3. CASE Rule.by # "page"
    <3>1. c = a + Len(p)
        BY <1>8, <2>3, RuleBy DEF PassedNext
    <3> HIDE DEF a, c, st
    <3> QED
        BY <1>8, <2>1, <3>1
  <2> QED
      BY <2>2, <2>3
<1>9. p = <<>> => Len(p) = 0 /\ Len(p) < Limit
    BY LimitFacts
<1>10. ~Lacks(v) /\ adapter \in Counting /\ adapter # "voximplant" /\ v.total # Unknown => Counted
  <2> SUFFICES ASSUME ~Lacks(v), adapter \in Counting, adapter # "voximplant", v.total # Unknown
               PROVE  Len(v.read) >= v.total
      OBVIOUS
  <2> HIDE DEF v
  <2>1. ~(Len(v.read) < v.total)
      BY DEF Lacks
  <2>2. v.total \in Nat /\ Len(v.read) \in Nat
      BY <1>5
  <2> QED
      BY <2>1, <2>2
<1>11. ASSUME ~Reached(v), Closes(v, p), Rule.by # "all" PROVE p = <<>> \/ (Rule.short /\ Len(p) < Limit)
    BY <1>11 DEF Closes
<1>12. Reached(v) => v.total # Unknown
    BY DEF Reached
<1>13. Tells(w, p) = IF adapter = "exolve" THEN p # <<>> \/ (w.read # <<>> /\ ~w.again)
                     ELSE named /\ adapter # "runexis"
    BY DEF Tells
<1> DEFINE Unnamed == v.total = Unknown /\ adapter # "runexis" => Covered
<1>14. ASSUME adapter \in {"uis", "novofon", "mcn", "voximplant"}, v.total = Unknown
       PROVE  Covered /\ ~named
  <2>1. ~named /\ p = Page(s, w) /\ Rule.by # "all"
      BY <1>5, <1>13, <1>14, RuleBy DEF Counting
  <2>2. p = <<>> \/ Len(p) < Limit
      BY <1>7, <1>11, <1>12, <1>14, <2>1
  <2> HIDE DEF Covered
  <2> QED
      BY <1>8, <1>9, <2>1, <2>2
<1>15. CASE adapter \in {"uis", "novofon", "mcn"}
  <2>1. CASE v.total = Unknown
      BY <1>14, <1>15, <2>1
  <2>2. CASE v.total # Unknown
    <3>1. Rule.lack # "unseen"
        BY <1>15, RuleFacts, RuleFields
    <3>2. Counted
        BY <1>6, <1>10, <1>15, <2>2, <3>1 DEF Counting
    <3> QED
        BY <1>5, <3>2
  <2> QED
      BY <2>1, <2>2
<1>16. CASE adapter = "voximplant"
  <2>1. v.total = Unknown
      BY <1>5, <1>16 DEF Summed
  <2> QED
      BY <1>14, <1>16, <2>1
<1>17. CASE adapter = "exolve"
  <2>1. v.total = Unknown /\ Rule.by # "all" /\ ~Rule.short /\ Rule.again
      BY <1>5, <1>17, RuleBy, RuleFacts, RuleFields
  <2>2. p = <<>>
      BY <1>7, <1>11, <1>12, <2>1
  <2>3. ~(w.read # <<>> /\ ~w.again)
      BY <1>6, <2>1, <2>2 DEF EmptyAgain
  <2>4. p = Page(s, w)
      BY <1>13, <1>17, <2>2, <2>3
  <2>5. Covered
    <3> HIDE DEF Covered
    <3> QED
        BY <1>8, <1>9, <2>1, <2>2, <2>4
  <2> QED
      BY <1>17, <2>5
<1>18. CASE adapter = "runexis"
  <2>1. p = Page(s, w) /\ Rule.by = "page" /\ Rule.by # "all" /\ ~Rule.short /\ ~Rule.pages
      BY <1>13, <1>18, RuleBy, RuleFacts, PagedFields
  <2>2. CASE Reached(v)
    <3>1. v.total # Unknown /\ Len(v.read) >= v.total
        BY <2>1, <2>2 DEF Reached
    <3> QED
        BY <1>5, <1>18, <3>1 DEF Counting
  <2>3. CASE ~Reached(v) /\ Closes(v, p)
    <3>1. p = <<>>
        BY <1>11, <2>1, <2>3
    <3>2. Covered
      <4> HIDE DEF Covered
      <4> QED
          BY <1>8, <1>9, <2>1, <3>1
    <3> QED
        BY <1>18, <3>2
  <2>4. CASE ~Closes(v, p)
    <3>1. v.pos >= MaxPage
        BY <1>6, <2>1, <2>4 DEF Beyond
    <3>2. v.pos = w.pos + 1 /\ a = w.pos * Limit /\ c = a + Limit
        BY <1>5, <2>1 DEF Passed, PassedNext
    <3>3. (w.pos + 1) * Limit = w.pos * Limit + Limit
        BY <1>2, LimitFacts
    <3>4. MaxPage * Limit <= v.pos * Limit /\ MaxPage * Limit \in Nat /\ v.pos * Limit \in Nat
        BY <1>5, <3>1, LimitFacts, MulMono
    <3>5. Len(st) + MaxMoves <= MaxPage * Limit + moves /\ moves \in Nat /\ moves <= MaxMoves
        BY <1>18, LimitFacts DEF RoomInv, VendorType
    <3>6. c = v.pos * Limit
        BY <3>2, <3>3
    <3>7. c >= Len(st)
      <4> HIDE DEF c, st, v, a
      <4> QED
          BY <1>1, <3>4, <3>5, <3>6, LimitFacts
    <3> QED
        BY <1>18, <2>1, <3>7
  <2> QED
      BY <2>2, <2>3, <2>4
<1>19. CASE adapter \in {"sipout", "aurora"}
  <2>1. p = st
      BY <1>3, <1>13, <1>19, RuleBy DEF VendorType
  <2>2. ToSet(w.read \o p) = ToSet(w.read) \cup ToSet(p)
      BY <1>2, <1>4, JoinSet
  <2> QED
      BY <2>1, <2>2
<1>20. CASE adapter = "finenumbers"
  <2>1. p = Page(s, w) /\ Rule.by = "page" /\ Rule.by # "all" /\ ~Rule.short /\ Rule.pages /\ Rule.over = "never"
      BY <1>13, <1>20, RuleBy, RuleFacts, PagedFields DEF VendorType
  <2>2. Closes(v, p)
      BY <1>6, <2>1
  <2>3. CASE Reached(v)
    <3>1. v.pos * Limit >= Len(st)
        BY <1>5, <1>20, <2>1, <2>3 DEF Reached
    <3>2. v.pos = w.pos + 1 /\ a = w.pos * Limit /\ c = a + Limit
        BY <1>5, <2>1 DEF Passed, PassedNext
    <3>3. (w.pos + 1) * Limit = w.pos * Limit + Limit
        BY <1>2, LimitFacts
    <3>4. c >= Len(st)
        BY <3>1, <3>2, <3>3
    <3> QED
        BY <1>20, <2>1, <3>4
  <2>4. CASE ~Reached(v)
    <3>1. p = <<>>
        BY <1>11, <2>1, <2>2, <2>4
    <3>2. Covered
      <4> HIDE DEF Covered
      <4> QED
          BY <1>8, <1>9, <2>1, <3>1
    <3> QED
        BY <1>20, <3>2
  <2> QED
      BY <2>3, <2>4
<1> QED
    BY <1>0, <1>15, <1>16, <1>17, <1>18, <1>19, <1>20

LEMMA RuleStays ==
  ASSUME UNCHANGED <<adapter, expected, stage>> PROVE Rule' = Rule
BY DEF Rule, NovofonRule

LEMMA StockStays ==
  ASSUME UNCHANGED <<adapter, list, bare>>, NEW s PROVE Stock(s)' = Stock(s)
BY DEF Stock, Concat

\* What a step does about one page.
PageRead(s, p) ==
  LET w == walk[s]  v == After(w, p, Total(s))  d == Verdict(w, v, p)
      at == CASE d \in {"on", "again"} -> "asking" [] d = "tail" -> "tail" [] OTHER -> "ended"
  IN /\ blind' = \/ blind
                 \/ p # Page(s, w) /\ ~Tells(w, p)
                 \/ d = "end" /\ v.total = Unknown /\ ~Closes(v, p)
     /\ walk' = [walk EXCEPT ![s] = [v EXCEPT !.again = (d = "again"), !.at = at]]
     /\ warned' = (warned \/ (d = "warn" /\ adapter # "voximplant"))
     /\ IF d = "error" THEN Fail ELSE UNCHANGED <<stage, out>>

LEMMA ReadIsPageRead ==
  ASSUME NEW s, ReadPage(s)
  PROVE  /\ \E p \in Cuts(Page(s, walk[s])) \cup {Page(s, walk[s])} : PageRead(s, p)
         /\ Walking /\ s \in Running
         /\ UNCHANGED <<vendor, list, slice, plan, expected, kept, scoped, user, breaks, moves>>
BY DEF ReadPage, PageRead

LEMMA PageReadKeeps ==
  ASSUME VendorType, RoomInv, NEW s \in Scopes \cup {0}, adapter = "runexis" => s = 0,
         s \in DOMAIN walk, WalkType(walk[s]), walk[s].at # "ended",
         NEW b \in Nat, WalkInv(s, b),
         NEW p \in Cuts(Page(s, walk[s])) \cup {Page(s, walk[s])}, PageRead(s, p),
         UNCHANGED <<vendor, list, expected, moves, stage>>, Walking
  PROVE  WalkType(walk[s])' /\ WalkInv(s, b)'
<1> DEFINE w == walk[s]
           v == After(w, p, Total(s))
           d == Verdict(w, v, p)
           u == walk'[s]
           st == Stock(s)
           at == CASE d \in {"on", "again"} -> "asking" [] d = "tail" -> "tail" [] OTHER -> "ended"
<1>1. /\ adapter' = adapter /\ named' = named /\ bare' = bare /\ list' = list
      /\ expected' = expected /\ stage' = stage
    BY DEF vendor
<1>2. /\ blind' = (\/ blind
                   \/ p # Page(s, w) /\ ~Tells(w, p)
                   \/ d = "end" /\ v.total = Unknown /\ ~Closes(v, p))
      /\ u = [v EXCEPT !.again = (d = "again"), !.at = at]
      /\ warned' = (warned \/ (d = "warn" /\ adapter # "voximplant"))
      /\ d # "error"
  <2>1. d = "error" => stage' = "over"
      BY DEF PageRead, Fail, Over
  <2>2. /\ blind' = (\/ blind
                     \/ p # Page(s, w) /\ ~Tells(w, p)
                     \/ d = "end" /\ v.total = Unknown /\ ~Closes(v, p))
        /\ warned' = (warned \/ (d = "warn" /\ adapter # "voximplant"))
      BY DEF PageRead
  <2>3. walk' = [walk EXCEPT ![s] = [v EXCEPT !.again = (d = "again"), !.at = at]]
      BY DEF PageRead
  <2>4. u = [v EXCEPT !.again = (d = "again"), !.at = at]
    <3> HIDE DEF v, d, at
    <3> QED
        BY <2>3
  <2>5. d # "error"
    <3> HIDE DEF d
    <3> QED
        BY <1>1, <2>1 DEF Walking
  <2> QED
      BY <2>2, <2>4, <2>5
<1>0. ~blind' => ~blind /\ (p = Page(s, w) \/ Tells(w, p)) /\ (d = "end" /\ v.total = Unknown => Closes(v, p))
    BY <1>2
<1>3. st \in Seq(Nat) /\ Len(st) \in Nat
    BY StockFacts
<1>4. w.pos \in Nat /\ w.read \in Seq(Nat) /\ w.total \in Nat \cup {Unknown} /\ Rule.by \in {"page", "offset", "all"}
    BY RuleBy DEF WalkType
<1>5. /\ Takes(st, Passed(w), p) /\ Passed(w) \in Nat
      /\ Rule.by # "all" => Len(p) <= Limit
      /\ p = Page(s, w) => IF Rule.by = "all" THEN p = st ELSE Len(p) = Limit \/ Passed(w) + Len(p) >= Len(st)
    BY <1>3, <1>4, PageFacts
<1>6. p \in Seq(Nat) /\ Len(p) \in Nat
    BY <1>5 DEF Takes
<1>7. /\ DOMAIN v = DOMAIN w /\ v.read = w.read \o p /\ v.read \in Seq(Nat) /\ v.at = w.at
      /\ v.pos = w.pos + (IF Rule.by = "page" THEN 1 ELSE Len(p)) /\ v.pos \in Nat
      /\ v.total \in Nat \cup {Unknown}
      /\ v.total # Unknown => named \/ adapter = "finenumbers"
      /\ v.total # Unknown => v.total = w.total \/ (v.total \in Nat /\ v.total >= Len(st))
      /\ adapter \in Counting /\ named => v.total # Unknown
    BY <1>6, AfterFacts
<1>8. DOMAIN w = {"pos", "read", "total", "again", "tries", "at"}
    BY DEF WalkType
<1>9. /\ d \in {"warn", "end", "again", "tail", "on"}
      /\ d = "warn" => w.at = "tail" \/ adapter \in {"uis", "novofon"}
      /\ d = "tail" => adapter = "voximplant" /\ Lacks(v)
      /\ d = "end" => w.at = "tail" \/ Ends(w, v, p)
  <2> HIDE DEF v
  <2> QED
      BY <1>2, VerdictFacts
<1>10. ASSUME d = "end", ~blind', ~Summed
       PROVE  \/ ToSet(st) \subseteq ToSet(w.read \o p)
              \/ ~(adapter = "mcn" /\ named) /\ p = Page(s, w) /\ PassedNext(w, p) >= Len(st)
              \/ adapter \in Counting /\ v.total # Unknown /\ Len(w.read \o p) >= v.total
  <2>1. w.at # "tail"
      BY <1>10 DEF WalkType
  <2>2. p = Page(s, w) \/ Tells(w, p)
      BY <1>2, <1>10
  <2>3. v.total = Unknown => Closes(v, p)
      BY <1>2, <1>10
  <2> QED
      BY <1>9, <1>10, <2>1, <2>2, <2>3, EndsWhy
<1> HIDE DEF v, d
<1>11. /\ DOMAIN u = DOMAIN w /\ u.read = w.read \o p /\ u.total = v.total /\ u.pos = v.pos /\ u.at = at
    BY <1>2, <1>7, <1>8
<1>12. /\ u.at \in {"asking", "tail", "ended"}
       /\ u.at = "tail" => d = "tail"
       /\ u.at = "ended" => d \in {"warn", "end"}
    BY <1>9, <1>11
<1> HIDE DEF at, w
<1>13. Summed' = Summed
    BY <1>1 DEF Summed
<1>14. WalkType(walk[s])'
  <2>1. u.at = "tail" => Summed
    <3> SUFFICES ASSUME u.at = "tail" PROVE Summed
        OBVIOUS
    <3>1. adapter = "voximplant" /\ v.total # Unknown
        BY <1>9, <1>12 DEF Lacks
    <3> QED
        BY <1>7, <3>1 DEF Summed
  <2>2. Summed => u.total # Unknown
      BY <1>7, <1>11 DEF Summed, Counting
  <2>3. /\ DOMAIN u = {"pos", "read", "total", "again", "tries", "at"}
        /\ u.pos \in Nat /\ u.read \in Seq(Nat) /\ u.total \in Nat \cup {Unknown}
        /\ u.at \in {"asking", "tail", "ended"}
        /\ u.total # Unknown => named \/ adapter = "finenumbers"
    <3> HIDE DEF u
    <3> QED
      <4>1. DOMAIN u = {"pos", "read", "total", "again", "tries", "at"}
          BY <1>8, <1>11
      <4>2. u.pos \in Nat /\ u.read \in Seq(Nat) /\ u.total \in Nat \cup {Unknown}
          BY <1>7, <1>11
      <4>3. u.total # Unknown => named \/ adapter = "finenumbers"
          BY <1>7, <1>11
      <4> QED
          BY <1>12, <4>1, <4>2, <4>3
  <2> QED
      BY <1>1, <1>13, <2>1, <2>2, <2>3 DEF WalkType
<1>15. Passed(walk[s])' = PassedNext(w, p) /\ PassedNext(w, p) \in Nat
  <2>1. Rule' = Rule
      BY <1>1, RuleStays
  <2>2. (w.pos + 1) * Limit = w.pos * Limit + Limit
      BY <1>4, LimitFacts
  <2>3. Passed(walk[s])' = IF Rule.by = "page" THEN v.pos * Limit ELSE IF Rule.by = "offset" THEN v.pos ELSE 0
      BY <1>11, <2>1 DEF Passed
  <2>4. Passed(w) = IF Rule.by = "page" THEN w.pos * Limit ELSE IF Rule.by = "offset" THEN w.pos ELSE 0
      BY DEF Passed
  <2>5. Passed(walk[s])' = PassedNext(w, p)
      BY <1>4, <1>7, <2>2, <2>3, <2>4 DEF PassedNext
  <2>6. PassedNext(w, p) \in Nat
      BY <1>4, <1>5, <1>6, LimitFacts DEF PassedNext
  <2> QED
      BY <2>5, <2>6
<1> DEFINE a == Passed(w)
           c == PassedNext(w, p)
           counts == adapter \in Counting
           all == adapter = "finenumbers"
           whole == WholeSoFar
           half == WholeSoFar'
           n == v.total
           told == Told(walk[s])'
<1>16. counts => c >= a + Len(p)
    BY <1>4, <1>5, <1>6, RuleBy, LimitFacts DEF PassedNext
<1>17. half => whole /\ (c = a \/ c = a + Len(p) \/ a + Len(p) >= Len(st))
  <2> SUFFICES ASSUME WholeSoFar' PROVE whole /\ (c = a \/ c = a + Len(p) \/ a + Len(p) >= Len(st))
      OBVIOUS
  <2>1. ~blind' /\ ~(adapter = "mcn" /\ named)
      BY <1>1 DEF WholeSoFar
  <2>2. whole /\ (p = Page(s, w) \/ Tells(w, p))
      BY <1>0, <2>1 DEF WholeSoFar, w
  <2>3. CASE Rule.by = "all"
      BY <2>2, <2>3 DEF Passed, PassedNext
  <2>4. CASE Rule.by = "offset"
      BY <2>2, <2>4 DEF PassedNext
  <2>5. CASE Rule.by = "page"
    <3>1. c = a + Limit
        BY <2>5 DEF PassedNext
    <3>2. p = Page(s, w)
      <4>1. adapter \in {"mcn", "runexis", "finenumbers"}
          BY <2>5, RuleBy DEF VendorType, FanOut, Sequential
      <4>2. ~Tells(w, p)
          BY <2>1, <4>1 DEF Tells, VendorType
      <4> QED
          BY <2>2, <4>2
    <3> QED
        BY <1>5, <2>2, <2>5, <3>1, <3>2 DEF w
  <2> QED
      BY <1>4, <2>2, <2>3, <2>4, <2>5
<1>18. n # Unknown => n = w.total \/ (n \in Nat /\ n >= Len(st))
    BY <1>7
<1>19. n \in Nat \cup {Unknown}
    BY <1>7
<1>20. told => \/ ToSet(st) \subseteq ToSet(w.read \o p)
               \/ half /\ c >= Len(st)
               \/ counts /\ ~all /\ n # Unknown /\ Len(w.read \o p) >= n
  <2> SUFFICES ASSUME Told(walk[s])'
               PROVE  \/ ToSet(st) \subseteq ToSet(w.read \o p)
                      \/ half /\ c >= Len(st)
                      \/ counts /\ ~all /\ n # Unknown /\ Len(w.read \o p) >= n
      OBVIOUS
  <2>1. u.at = "ended" /\ ~blind' /\ ~Summed /\ ~(adapter \in {"uis", "novofon"} /\ warned')
      BY <1>1, <1>13 DEF Told, Noticed
  <2>2. d = "end"
    <3>1. d = "warn" => w.at # "tail"
        BY <2>1 DEF WalkType, w
    <3>2. d = "warn" => warned' /\ adapter \in {"uis", "novofon"}
        BY <1>2, <1>9, <3>1
    <3> QED
        BY <1>12, <2>1, <3>2
  <2>3. counts => ~all
      BY DEF Counting
  <2>4. ~(adapter = "mcn" /\ named) => half
      BY <1>1, <2>1 DEF WholeSoFar
  <2> QED
      BY <1>10, <2>1, <2>2, <2>3, <2>4
<1>21. Held(st, w.read, w.total, a, b, counts, whole, FALSE, all)
  <2>1. Held(st, w.read, w.total, a, b, counts, whole, Told(w), all)
      BY DEF WalkInv, w
  <2> HIDE DEF a, counts, whole, all, st
  <2> QED
      BY <2>1, HeldLess
<1>22. w.read \in Seq(Nat) /\ Takes(st, a, p) /\ c \in Nat
    BY <1>4, <1>5, <1>15 DEF w
<1>23. Held(st, w.read \o p, n, c, b, counts, half, told, all)
  <2> DEFINE r == w.read
             t == w.total
  <2>1. r \in Seq(Nat) /\ Held(st, r, t, a, b, counts, whole, FALSE, all)
      BY <1>21, <1>22
  <2>2. n # Unknown => n = t \/ (n \in Nat /\ n >= Len(st))
      BY <1>18
  <2>3. told => \/ ToSet(st) \subseteq ToSet(r \o p)
                \/ half /\ c >= Len(st)
                \/ counts /\ ~all /\ n # Unknown /\ Len(r \o p) >= n
      BY <1>20
  <2> HIDE DEF r, t, a, c, counts, all, whole, half, n, told, st
  <2>4. Held(st, r \o p, n, c, b, counts, half, told, all)
      BY <1>16, <1>17, <1>19, <1>22, <2>1, <2>2, <2>3, HeldRead
  <2> QED
      BY <2>4 DEF r
<1>24. Stock(s)' = st /\ (adapter \in Counting)' = counts /\ (adapter = "finenumbers")' = all
  <2>1. Stock(s)' = Stock(s)
      BY <1>1, StockStays
  <2> QED
      BY <1>1, <2>1
<1>25. WalkInv(s, b)' = Held(Stock(s)', u.read, u.total, Passed(walk[s])', b, adapter' \in Counting,
                             WholeSoFar', Told(walk[s])', adapter' = "finenumbers")
    BY DEF WalkInv
<1> HIDE DEF told, half
<1>26. WalkInv(s, b)'
  <2>1. WalkInv(s, b)' = Held(st, w.read \o p, n, c, b, counts, half, told, all)
      BY <1>11, <1>15, <1>24, <1>25 DEF told, half
  <2> QED
      BY <1>23, <2>1
<1> QED
    BY <1>14, <1>26

-----------------------------------------------------------------------------
(* The invariant                                                           *)

Regs == ToSet(Concat(Listed))

\* What a walk may lack: of the moves m of each scope its own, of the whole list all.
Budget(m, s) == IF s = 0 THEN moves ELSE m[s]

\* The moves are those of the scopes, and of what is counted no more has
\* doubled or come late.
Clean(m) ==
  /\ m \in [0..Top -> Nat] /\ SumUp(m) = moves
  /\ adapter \in Counting =>
       \A s \in Scopes \cup {0} : Excess(Stock(s), <<>>, 0) <= Budget(m, s)
Walked(m) == Walking => \A s \in DOMAIN walk : WalkInv(s, Budget(m, s))

\* The REG numbers that are kept, against the REG numbers.
KeysInv(m) ==
  adapter = "finenumbers" /\ kept.loaded /\ ~blind =>
    /\ IsFiniteSet(kept.keys)
    /\ Cardinality(NotLate(kept.keys) \ Regs) + m[Unlisted] <= moves
    /\ Cardinality(NotLate(Regs) \ kept.keys) <= moves
BudgetInv == \E m : Clean(m) /\ Walked(m) /\ KeysInv(m)

\* No number but a late one is listed twice.
ApartInv ==
  adapter \in Counting =>
    \A s, t \in Scopes : s # t => NotLate(ToSet(list[s])) \cap NotLate(ToSet(list[t])) = {}

\* What is walked.
PlanInv ==
  stage \in {"reg", "walk", "shop"} =>
    /\ DOMAIN walk = ToSet(plan) /\ (DOMAIN walk \subseteq {0} \/ DOMAIN walk \subseteq Scopes)
    /\ stage = "reg" => DOMAIN walk = Listed
    /\ stage = "walk" /\ adapter = "finenumbers" => DOMAIN walk = {Unlisted}
    /\ adapter = "novofon" => DOMAIN walk = IF expected = Unknown THEN {0} ELSE Listed
    /\ adapter = "runexis" => DOMAIN walk = {0}
    /\ \A s \in DOMAIN walk : WalkType(walk[s])

ExpectInv ==
  expected # Unknown => expected \in Nat /\ Cardinality(NotLate(ToSet(Stock(0)))) <= expected

\* What the calls of the order shop have listed so far.
Earlier ==
  IF slice = "purchased" THEN {}
  ELSE UNION {shop[c - 1] : c \in {c \in 2..(Len(shop) + 1) : c < call}}
DataPart == (UNION {ToSet(Stock(s)) : s \in ToSet(plan)}) \cup ToSet(Stock(0))
CallsInv == stage \notin {"shop", "over"} => call = 0 /\ sold = {}
ShopInv ==
  stage = "shop" =>
    /\ call \in Nat /\ call < Calls
    /\ ~blind => /\ warned \/ (/\ IsFiniteSet(NotLate(DataPart) \ ReadNumbers)
                               /\ Cardinality(NotLate(DataPart) \ ReadNumbers) <= moves)
                 /\ sold = Earlier

OverInv ==
  Accepted /\ ~blind /\ ~out[slice].warned =>
    /\ IsFiniteSet(Missing)
    /\ adapter # "finenumbers" => ToSet(plan) \subseteq Scopes \cup {0}
    /\ Cardinality(Missing) <= (IF adapter = "finenumbers" THEN 2 * moves ELSE moves)

PhaseInv == PlanInv /\ ExpectInv /\ CallsInv /\ ShopInv /\ OverInv
ShopType == shop \in Seq(SUBSET Nat)
VendorInv == VendorType /\ RoomInv /\ ApartInv /\ ShopType
ShortInv == FetchInv /\ VendorInv /\ BudgetInv /\ PhaseInv

-----------------------------------------------------------------------------
(* Steps that leave the vendor                                             *)

Steady == UNCHANGED <<vendor, list, moves>>

LEMMA SteadyFacts ==
  ASSUME Steady
  PROVE  /\ adapter' = adapter /\ named' = named /\ bare' = bare /\ list' = list /\ moves' = moves
         /\ key' = key /\ shop' = shop
         /\ \A s : Stock(s)' = Stock(s)
         /\ \A m : (Clean(m) => Clean(m)')
         /\ \A m, s : Budget(m, s)' = Budget(m, s)
         /\ Regs' = Regs
<1>1. /\ adapter' = adapter /\ named' = named /\ bare' = bare /\ list' = list /\ moves' = moves
      /\ key' = key /\ shop' = shop
    BY DEF Steady, vendor
<1>2. \A s : Stock(s)' = Stock(s)
    BY <1>1, StockStays
<1>3. \A m, s : Budget(m, s)' = Budget(m, s)
    BY <1>1 DEF Budget
<1>4. \A m : Clean(m) => Clean(m)'
    BY <1>1, <1>2, <1>3 DEF Clean
<1>5. Regs' = Regs
    BY <1>1 DEF Regs, Concat
<1> QED
    BY <1>1, <1>2, <1>3, <1>4, <1>5

LEMMA SteadyVendor ==
  ASSUME VendorInv, Steady, warned' \in BOOLEAN, blind' \in BOOLEAN PROVE VendorInv'
<1>1. /\ adapter' = adapter /\ named' = named /\ list' = list /\ moves' = moves /\ key' = key /\ shop' = shop
      /\ Stock(0)' = Stock(0)
    BY SteadyFacts
<1>2. VendorType'
    BY <1>1 DEF VendorInv, VendorType
<1>3. RoomInv' /\ ApartInv' /\ ShopType'
    BY <1>1 DEF VendorInv, RoomInv, ApartInv, ShopType
<1> QED
    BY <1>2, <1>3 DEF VendorInv

LEMMA SteadyKeys ==
  ASSUME Steady, UNCHANGED kept, blind => blind', NEW m, KeysInv(m) PROVE KeysInv(m)'
<1>1. adapter' = adapter /\ Regs' = Regs /\ moves' = moves
    BY SteadyFacts
<1> QED
    BY <1>1 DEF KeysInv

LEMMA SteadyExpect == ASSUME ExpectInv, Steady, UNCHANGED expected PROVE ExpectInv'
<1>1. Stock(0)' = Stock(0)
    BY SteadyFacts
<1> QED
    BY <1>1 DEF ExpectInv

\* No walk goes on.
LEMMA NoWalk ==
  ASSUME BudgetInv, Steady, UNCHANGED kept, blind => blind', stage' \notin {"reg", "walk"}
  PROVE  BudgetInv'
<1>1. PICK m : Clean(m) /\ Walked(m) /\ KeysInv(m)
    BY DEF BudgetInv
<1>2. Clean(m)' /\ KeysInv(m)'
    BY <1>1, SteadyFacts, SteadyKeys
<1>3. Walked(m)'
    BY DEF Walked, Walking
<1> QED
    BY <1>2, <1>3 DEF BudgetInv

\* The slice is over without rows.
LEMMA NoRowsShort ==
  ASSUME FetchInv, BudgetInv, PhaseInv, NoRows, Steady, UNCHANGED <<slice, kept, expected>>,
         blind => blind'
  PROVE  BudgetInv' /\ PhaseInv'
<1>1. stage' = "over" /\ out'[slice].kind # "rows" /\ slice' = slice
  <2>1. PICK kind \in {"failed", "refused", "limitation"} :
          out' = [out EXCEPT ![slice] = [Nothing EXCEPT !.kind = kind]]
      BY DEF NoRows
  <2>2. slice \in DOMAIN out
      BY DEF FetchInv, StageInv, RegInv
  <2>3. [Nothing EXCEPT !.kind = kind].kind = kind
      BY DEF Nothing
  <2> QED
      BY <2>1, <2>2, <2>3 DEF NoRows
<1>2. PlanInv' /\ CallsInv' /\ ShopInv'
    BY <1>1 DEF PlanInv, CallsInv, ShopInv
<1>3. OverInv'
    BY <1>1 DEF OverInv, Accepted
<1>4. ExpectInv'
    BY SteadyExpect DEF PhaseInv
<1>5. BudgetInv'
    BY <1>1, NoWalk
<1> QED
    BY <1>2, <1>3, <1>4, <1>5 DEF PhaseInv

\* The slice is not read yet.
LEMMA OpenShort ==
  ASSUME BudgetInv, Steady, stage' \in {"open", "probe"}, UNCHANGED kept \/ adapter # "finenumbers",
         blind => blind' \/ adapter # "finenumbers",
         expected' = Unknown \/ (PhaseInv /\ UNCHANGED expected),
         call' = 0 /\ sold' = {}
  PROVE  BudgetInv' /\ PhaseInv'
<1>1. PICK m : Clean(m) /\ Walked(m) /\ KeysInv(m)
    BY DEF BudgetInv
<1>2. Clean(m)' /\ adapter' = adapter
    BY <1>1, SteadyFacts
<1>3. KeysInv(m)'
  <2>1. CASE adapter = "finenumbers"
      BY <1>1, <2>1, SteadyKeys
  <2>2. CASE adapter # "finenumbers"
      BY <1>2, <2>2 DEF KeysInv
  <2> QED
      BY <2>1, <2>2
<1>4. Walked(m)'
    BY DEF Walked, Walking
<1>5. BudgetInv'
    BY <1>2, <1>3, <1>4 DEF BudgetInv
<1>6. PlanInv' /\ CallsInv' /\ ShopInv' /\ OverInv'
    BY DEF PlanInv, CallsInv, ShopInv, OverInv, Accepted
<1>7. ExpectInv'
  <2>1. CASE expected' = Unknown
      BY <2>1 DEF ExpectInv
  <2>2. CASE PhaseInv /\ UNCHANGED expected
      BY <2>2, SteadyExpect DEF PhaseInv
  <2> QED
      BY <2>1, <2>2
<1> QED
    BY <1>5, <1>6, <1>7 DEF PhaseInv

\* Rows are accepted.
LEMMA AcceptShort ==
  ASSUME FetchInv, BudgetInv, PhaseInv, Steady, UNCHANGED <<slice, expected>>, stage' = "over",
         UNCHANGED kept \/ adapter # "finenumbers", blind => blind', OverInv'
  PROVE  BudgetInv' /\ PhaseInv'
<1>1. PICK m : Clean(m) /\ Walked(m) /\ KeysInv(m)
    BY DEF BudgetInv
<1>2. Clean(m)' /\ adapter' = adapter
    BY <1>1, SteadyFacts
<1>3. KeysInv(m)'
  <2>1. CASE adapter = "finenumbers"
      BY <1>1, <2>1, SteadyKeys
  <2>2. CASE adapter # "finenumbers"
      BY <1>2, <2>2 DEF KeysInv
  <2> QED
      BY <2>1, <2>2
<1>4. Walked(m)'
    BY DEF Walked, Walking
<1>5. BudgetInv'
    BY <1>2, <1>3, <1>4 DEF BudgetInv
<1>6. PlanInv' /\ CallsInv' /\ ShopInv'
    BY DEF PlanInv, CallsInv, ShopInv
<1>7. ExpectInv'
    BY SteadyExpect DEF PhaseInv
<1> QED
    BY <1>5, <1>6, <1>7 DEF PhaseInv

LEMMA BudgetNat ==
  ASSUME VendorType, NEW m, Clean(m), NEW s \in Scopes \cup {0} PROVE Budget(m, s) \in Nat
BY ScopeFacts, LimitFacts DEF VendorType, Clean, Budget

\* The walks begin.
LEMMA FreshWalks ==
  ASSUME VendorType, Steady, NEW m, Clean(m), NEW S, S \subseteq Scopes \cup {0},
         walk' = [s \in S |-> Fresh]
  PROVE  (\A s \in DOMAIN walk : WalkType(walk[s]))' /\ Walked(m)' /\ DOMAIN walk' = S
<1>1. /\ DOMAIN Fresh = {"pos", "read", "total", "again", "tries", "at"} /\ Fresh.pos = 0
      /\ Fresh.read = <<>> /\ Fresh.total = Unknown /\ Fresh.at = "asking" /\ Fresh.pos \in Nat
      /\ Fresh.read \in Seq(Nat)
    BY DEF Fresh
<1>2. SUFFICES ASSUME NEW s \in S PROVE WalkType(walk[s])' /\ WalkInv(s, Budget(m, s))'
  <2>1. DOMAIN walk' = S
      OBVIOUS
  <2> QED
      BY <2>1 DEF Walked
<1>3. walk'[s] = Fresh
    OBVIOUS
<1>4. WalkType(walk[s])'
    BY <1>1, <1>3 DEF WalkType
<1>5. /\ Stock(s)' = Stock(s) /\ Stock(s) \in Seq(Nat) /\ adapter' = adapter
      /\ Budget(m, s)' = Budget(m, s) /\ Budget(m, s) \in Nat
    BY SteadyFacts, StockFacts, BudgetNat
<1>6. Passed(walk[s])' = 0
    BY <1>1, <1>3, LimitFacts DEF Passed
<1> DEFINE st == Stock(s)
           b == Budget(m, s)
           counts == adapter \in Counting
           all == adapter = "finenumbers"
           whole == WholeSoFar'
           told == Told(walk[s])'
<1>7. Held(st, <<>>, Unknown, 0, b, counts, whole, told, all)
  <2>1. ~told
      BY <1>1, <1>3 DEF Told
  <2>2. counts => Excess(st, <<>>, 0) <= b
      BY DEF Clean
  <2>3. st \in Seq(Nat) /\ b \in Nat
      BY <1>5
  <2> HIDE DEF st, b, counts, all, whole, told
  <2>4. Held(st, <<>>, Unknown, 0, b, counts, whole, FALSE, all)
      BY <2>2, <2>3, HeldFresh
  <2> QED
      BY <2>1, <2>4, HeldLess
<1>8. WalkInv(s, Budget(m, s))' = Held(Stock(s)', walk'[s].read, walk'[s].total, Passed(walk[s])',
        Budget(m, s)', adapter' \in Counting, WholeSoFar', Told(walk[s])', adapter' = "finenumbers")
    BY DEF WalkInv
<1>9. WalkInv(s, Budget(m, s))'
  <2> HIDE DEF told, whole
  <2> QED
      BY <1>1, <1>3, <1>5, <1>6, <1>7, <1>8 DEF told, whole
<1> QED
    BY <1>4, <1>9

LEMMA BeginShort ==
  ASSUME VendorType, Steady, NEW m, Clean(m), KeysInv(m)', CallsInv, ExpectInv',
         stage \notin {"shop", "over"}, stage' \in {"reg", "walk"}, UNCHANGED <<call, sold>>,
         NEW S, ToSet(plan') = S, walk' = [s \in S |-> Fresh],
         S \subseteq {0} \/ S \subseteq Scopes,
         stage' = "reg" => S = Listed /\ adapter \notin {"novofon", "runexis"},
         stage' = "walk" /\ adapter = "finenumbers" => S = {Unlisted},
         adapter = "novofon" => S = IF expected' = Unknown THEN {0} ELSE Listed,
         adapter = "runexis" => S = {0}
  PROVE  BudgetInv' /\ PhaseInv'
<1>1. Clean(m)' /\ adapter' = adapter
    BY SteadyFacts
<1>2. (\A s \in DOMAIN walk : WalkType(walk[s]))' /\ Walked(m)' /\ DOMAIN walk' = S
    BY FreshWalks
<1>3. BudgetInv'
    BY <1>1, <1>2 DEF BudgetInv
<1>4. PlanInv'
    BY <1>1, <1>2 DEF PlanInv
<1>5. CallsInv' /\ ShopInv' /\ OverInv'
    BY DEF CallsInv, ShopInv, OverInv, Accepted
<1> QED
    BY <1>3, <1>4, <1>5 DEF PhaseInv

LEMMA OneScope == \A x : ToSet(<<x>>) = {x}
BY DEF ToSet

\* The walks of a slice that has been opened.
LEMMA StartShort ==
  ASSUME VendorType, BudgetInv, PhaseInv, Steady, stage \in {"open", "probe"},
         NEW scopes, Start(scopes), UNCHANGED <<kept, call, sold>>, blind => blind', ExpectInv',
         NEW S, ToSet(scopes) = S, S \subseteq {0} \/ S \subseteq Scopes,
         adapter = "finenumbers" => S = {Unlisted},
         adapter = "novofon" => S = IF expected' = Unknown THEN {0} ELSE Listed,
         adapter = "runexis" => S = {0}
  PROVE  BudgetInv' /\ PhaseInv'
<1>1. PICK m : Clean(m) /\ Walked(m) /\ KeysInv(m)
    BY DEF BudgetInv
<1>2. KeysInv(m)'
    BY <1>1, SteadyKeys
<1>3. CallsInv /\ stage' = "walk" /\ plan' = scopes /\ walk' = [s \in S |-> Fresh]
    BY DEF PhaseInv, Start
<1> QED
    BY <1>1, <1>2, <1>3, BeginShort

LEMMA AcceptFacts ==
  ASSUME FetchInv, NEW o, Over(o)
  PROVE  out'[slice] = o /\ stage' = "over"
BY DEF FetchInv, StageInv, RegInv, Over

LEMMA PlansShort ==
  ASSUME ShortInv, Plans PROVE BudgetInv' /\ PhaseInv' /\ Steady /\ warned' = warned /\ blind' = blind
<1>0. FetchInv /\ VendorType /\ BudgetInv /\ PhaseInv
    BY DEF ShortInv, VendorInv
<1>s. Listed \subseteq Scopes /\ Unlisted \in Scopes
    BY ScopeFacts
<1>1. CASE Limitation
  <2>1. NoRows /\ Steady /\ UNCHANGED <<slice, kept, expected, warned, blind>>
      BY <1>1, FailIsNoRows DEF Limitation, Steady, budget
  <2> QED
      BY <1>0, <2>1, NoRowsShort
<1>2. CASE PlanExolve
  <2>1. PICK doc \in BOOLEAN, plain \in BOOLEAN :
          Start(IF doc /\ ~plain THEN InOrder(Listed) ELSE <<0>>)
      BY <1>2 DEF PlanExolve
  <2>2. /\ Steady /\ stage = "open" /\ adapter = "exolve"
        /\ UNCHANGED <<kept, call, sold, blind, warned, expected>>
      BY <1>2 DEF PlanExolve, Opens, Steady, user
  <2> DEFINE scopes == IF doc /\ ~plain THEN InOrder(Listed) ELSE <<0>>
             S == ToSet(scopes)
  <2>3. S = Listed \/ S = {0}
      BY <1>s, OrderSet, OneScope
  <2>4. ExpectInv'
      BY <1>0, <2>2, SteadyExpect DEF PhaseInv
  <2> HIDE DEF S, scopes
  <2>5. Start(scopes) /\ ToSet(scopes) = S
      BY <2>1 DEF scopes, S
  <2>6. BudgetInv' /\ PhaseInv'
      BY <1>0, <1>s, <2>2, <2>3, <2>4, <2>5, StartShort
  <2> QED
      BY <2>2, <2>6
<1>3. CASE PlanMcn
  <2> DEFINE cities == InOrder(Stocked)
  <2>1. PICK scopes : Start(scopes) /\ (scopes = cities \/ scopes = <<0>>)
      BY <1>3 DEF PlanMcn
  <2>2. /\ Steady /\ stage = "open" /\ adapter = "mcn"
        /\ UNCHANGED <<kept, call, sold, blind, warned, expected>>
      BY <1>3 DEF PlanMcn, Opens, Steady, user
  <2> DEFINE S == ToSet(scopes)
  <2>3. S \subseteq Scopes \/ S = {0}
    <3>1. Stocked \subseteq Scopes
        BY <1>s DEF Stocked
    <3> QED
        BY <2>1, <3>1, OrderSet, OneScope
  <2>4. ExpectInv'
      BY <1>0, <2>2, SteadyExpect DEF PhaseInv
  <2>5. Start(scopes) /\ ToSet(scopes) = S
      BY <2>1
  <2> HIDE DEF S
  <2>6. BudgetInv' /\ PhaseInv'
      BY <1>0, <1>s, <2>2, <2>3, <2>4, <2>5, StartShort
  <2> QED
      BY <2>2, <2>6
<1>4. CASE PlanVoximplant
  <2>1. /\ Steady /\ stage = "open" /\ adapter = "voximplant"
        /\ UNCHANGED <<kept, call, sold, blind, warned, expected, slice>>
      BY <1>4 DEF PlanVoximplant, Opens, Steady, user
  <2>2. CASE Fail
      BY <1>0, <2>1, <2>2, FailIsNoRows, NoRowsShort
  <2>3. CASE Start(InOrder(Stocked))
    <3>1. Stocked \subseteq Scopes
        BY <1>s DEF Stocked
    <3>2. ToSet(InOrder(Stocked)) = Stocked
        BY <3>1, OrderSet
    <3>3. ExpectInv'
        BY <1>0, <2>1, SteadyExpect DEF PhaseInv
    <3>4. BudgetInv' /\ PhaseInv'
        BY <1>0, <2>1, <2>3, <3>1, <3>2, <3>3, StartShort
    <3> QED
        BY <2>1, <3>4
  <2> QED
      BY <1>4, <2>2, <2>3 DEF PlanVoximplant
<1>5. CASE PlanWhole
  <2>1. /\ Steady /\ stage = "open" /\ adapter \in {"uis", "runexis", "sipout"}
        /\ UNCHANGED <<kept, call, sold, blind, warned, expected>> /\ Start(<<0>>)
      BY <1>5 DEF PlanWhole, Opens, Steady, user
  <2>2. ExpectInv'
      BY <1>0, <2>1, SteadyExpect DEF PhaseInv
  <2>3. BudgetInv' /\ PhaseInv'
      BY <1>0, <2>1, <2>2, OneScope, StartShort
  <2> QED
      BY <2>1, <2>3
<1>6. CASE PlanFiles
  <2>1. /\ Steady /\ stage = "open" /\ adapter = "aurora"
        /\ UNCHANGED <<kept, call, sold, blind, warned, expected>> /\ Start(InOrder(Scopes))
      BY <1>6 DEF PlanFiles, Opens, Steady, user
  <2>2. ExpectInv'
      BY <1>0, <2>1, SteadyExpect DEF PhaseInv
  <2>3. BudgetInv' /\ PhaseInv'
      BY <1>0, <2>1, <2>2, OrderSet, StartShort
  <2> QED
      BY <2>1, <2>3
<1>7. CASE PlanFinenumbers
  <2>1. /\ Steady /\ stage = "open" /\ adapter = "finenumbers"
        /\ UNCHANGED <<kept, call, sold, blind, warned, expected, slice>>
      BY <1>7 DEF PlanFinenumbers, Opens, Steady, user
  <2>2. ExpectInv'
      BY <1>0, <2>1, SteadyExpect DEF PhaseInv
  <2>3. CASE ~kept.loaded
    <3>1. plan' = InOrder(Listed) /\ walk' = [s \in Listed |-> Fresh] /\ stage' = "reg"
        BY <1>7, <2>3 DEF PlanFinenumbers, RegKnown
    <3>2. ToSet(plan') = Listed
        BY <1>s, <3>1, OrderSet
    <3>3. PICK m : Clean(m) /\ KeysInv(m)
        BY <1>0 DEF BudgetInv
    <3>4. KeysInv(m)' /\ CallsInv
        BY <1>0, <2>1, <3>3, SteadyKeys DEF PhaseInv
    <3>5. BudgetInv' /\ PhaseInv'
        BY <1>0, <1>s, <2>1, <2>2, <3>1, <3>2, <3>3, <3>4, BeginShort
    <3> QED
        BY <2>1, <3>5
  <2>4. CASE kept.loaded /\ slice = "free"
    <3>1. Start(<<Unlisted>>)
        BY <1>7, <2>4 DEF PlanFinenumbers, RegKnown
    <3>2. BudgetInv' /\ PhaseInv'
        BY <1>0, <1>s, <2>1, <2>2, <3>1, OneScope, StartShort
    <3> QED
        BY <2>1, <3>2
  <2>5. CASE kept.loaded /\ slice # "free"
    <3>1. Accept(kept.keys) /\ slice = "purchased"
        BY <1>0, <1>7, <2>5 DEF PlanFinenumbers, RegKnown, FetchInv, StageInv
    <3>2. out'[slice].rows = kept.keys /\ stage' = "over"
      <4>1. Over([kind |-> "rows", rows |-> kept.keys, warned |-> warned])
          BY <3>1 DEF Accept
      <4> DEFINE o == [kind |-> "rows", rows |-> kept.keys, warned |-> warned]
      <4>2. o.rows = kept.keys
          OBVIOUS
      <4> HIDE DEF o
      <4>3. Over(o)
          BY <4>1 DEF o
      <4> QED
          BY <1>0, <4>2, <4>3, AcceptFacts
    <3>3. OverInv'
      <4> SUFFICES ASSUME ~blind'
                   PROVE  IsFiniteSet(Missing') /\ Cardinality(Missing') <= 2 * moves'
          BY <2>1, SteadyFacts DEF OverInv
      <4>1. PICK m : Clean(m) /\ KeysInv(m)
          BY <1>0 DEF BudgetInv
      <4>2. Missing' = NotLate(Regs) \ kept.keys
        <5>1. Regs' = Regs /\ adapter' = adapter /\ slice' = slice
            BY <2>1, SteadyFacts
        <5>2. Promised' = Regs'
            BY <2>1, <3>1, <5>1 DEF Promised, Regs
        <5> QED
            BY <3>2, <5>1, <5>2 DEF Missing, NotLate
      <4>3. Cardinality(NotLate(Regs) \ kept.keys) <= moves
          BY <2>1, <2>5, <4>1 DEF KeysInv
      <4>4. IsFiniteSet(Regs)
        <5>1. list \in [Scopes -> Seq(Nat)]
            BY <1>0 DEF VendorType
        <5> QED
            BY <1>s, <5>1, PooledSet, SetOf DEF Regs, Concat
      <4>5. IsFiniteSet(NotLate(Regs) \ kept.keys)
          BY <4>4, FS_Subset DEF NotLate
      <4>6. moves \in Nat /\ moves' = moves /\ Cardinality(NotLate(Regs) \ kept.keys) \in Nat
          BY <1>0, <2>1, <4>5, LimitFacts, SteadyFacts, FS_CardinalityType DEF VendorType
      <4> QED
          BY <4>2, <4>3, <4>5, <4>6
    <3>4. BudgetInv' /\ PhaseInv'
        BY <1>0, <2>1, <3>2, <3>3, AcceptShort
    <3> QED
        BY <2>1, <3>4
  <2> QED
      BY <2>3, <2>4, <2>5
<1>8. CASE Resolve
  <2>1. /\ Steady /\ stage = "open" /\ adapter = "novofon"
        /\ UNCHANGED <<call, sold, blind, warned, expected, slice>>
      BY <1>8 DEF Resolve, Steady, budget, user
  <2>2. CASE Fail /\ UNCHANGED kept
      BY <1>0, <2>1, <2>2, FailIsNoRows, NoRowsShort
  <2>3. CASE stage' = "probe"
    <3>1. call' = 0 /\ sold' = {}
        BY <1>0, <2>1 DEF PhaseInv, CallsInv
    <3> QED
        BY <1>0, <2>1, <2>3, <3>1, OpenShort
  <2> QED
      BY <1>8, <2>1, <2>2, <2>3 DEF Resolve, Adopt
<1>9. CASE Probe
  <2>1. Steady /\ stage = "probe" /\ UNCHANGED <<kept, call, sold, blind, warned, slice>>
      BY <1>9 DEF Probe, Steady, budget, user
  <2>2. adapter = "novofon"
      BY <1>0, <2>1 DEF FetchInv, StageInv
  <2>3. CASE Total(0) > Window + Limit
    <3>1. expected' = Total(0) /\ Start(InOrder(Listed))
        BY <1>9, <2>3 DEF Probe
    <3>2. Total(0) \in Nat /\ Total(0) = Len(Stock(0)) /\ expected' # Unknown
      <4>1. /\ Total(0) \in Nat \cup {Unknown}
            /\ Total(0) # Unknown => Total(0) = Len(Stock(0))
          BY <1>0, TotalFacts
      <4> HIDE DEF Total
      <4>2. Total(0) # Unknown
          BY <2>3, LimitFacts
      <4> QED
          BY <3>1, <4>1, <4>2
    <3>3. ExpectInv'
      <4> DEFINE st == Stock(0)
      <4>1. st \in Seq(Nat) /\ Stock(0)' = st
          BY <1>0, <2>1, StockFacts, SteadyFacts
      <4>2. IsFiniteSet(ToSet(st)) /\ Cardinality(ToSet(st)) <= Len(st) /\ Len(st) \in Nat
          BY <4>1, SetOf
      <4>3. NotLate(ToSet(st)) \subseteq ToSet(st)
          BY DEF NotLate
      <4> HIDE DEF st
      <4>4. /\ Cardinality(NotLate(ToSet(st))) <= Cardinality(ToSet(st))
            /\ Cardinality(NotLate(ToSet(st))) \in Nat /\ Cardinality(ToSet(st)) \in Nat
          BY <4>2, <4>3, NotMore
      <4>5. Cardinality(NotLate(ToSet(st))) <= Len(st)
          BY <4>2, <4>4
      <4>6. expected' = Len(st) /\ expected' \in Nat
          BY <3>1, <3>2 DEF st
      <4> QED
          BY <4>1, <4>5, <4>6 DEF ExpectInv
    <3>4. BudgetInv' /\ PhaseInv'
        BY <1>0, <1>s, <2>1, <2>2, <3>1, <3>2, <3>3, OrderSet, StartShort
    <3> QED
        BY <2>1, <3>4
  <2>4. CASE ~(Total(0) > Window + Limit)
    <3>1. expected' = Unknown /\ Start(<<0>>)
        BY <1>9, <2>4 DEF Probe
    <3>2. ExpectInv'
        BY <3>1 DEF ExpectInv
    <3>3. BudgetInv' /\ PhaseInv'
        BY <1>0, <2>1, <2>2, <3>1, <3>2, OneScope, StartShort
    <3> QED
        BY <2>1, <3>3
  <2> QED
      BY <2>3, <2>4
<1> QED
    BY <1>1, <1>2, <1>3, <1>4, <1>5, <1>6, <1>7, <1>8, <1>9 DEF Plans

-----------------------------------------------------------------------------
(* The walks                                                               *)

LEMMA RunningFacts ==
  ASSUME PlanInv, Walking, NEW s \in Running
  PROVE  /\ s \in DOMAIN walk /\ walk[s].at # "ended" /\ s \in Scopes \cup {0}
         /\ adapter = "runexis" => s = 0
         /\ WalkType(walk[s])
<1>1. PICK i \in Pending : s = plan[i]
    BY DEF Running
<1>2. i \in DOMAIN plan /\ walk[s].at # "ended"
    BY <1>1 DEF Pending
<1>3. s \in ToSet(plan)
    BY <1>1, <1>2 DEF ToSet
<1> QED
    BY <1>2, <1>3 DEF PlanInv, Walking

LEMMA PassedStays ==
  ASSUME Steady, UNCHANGED <<expected, stage>>, NEW s, NEW r, walk[s].pos = r, walk'[s].pos = r
  PROVE  Passed(walk[s])' = Passed(walk[s])
<1>1. Rule' = Rule
    BY SteadyFacts, RuleStays
<1> QED
    BY <1>1 DEF Passed

\* A walk that stays, or breaks off at what blinds the slice.
LEMMA WalkWaits ==
  ASSUME Steady, UNCHANGED <<expected, stage>>, NEW s, WalkType(walk[s]), DOMAIN walk'[s] = DOMAIN walk[s],
         walk'[s].pos = walk[s].pos, walk'[s].read = walk[s].read, walk'[s].total = walk[s].total,
         walk'[s].at = walk[s].at \/ (walk'[s].at = "ended" /\ blind' /\ adapter \in {"runexis", "finenumbers"}),
         blind => blind', warned => warned'
  PROVE  WalkType(walk[s])' /\ \A b : WalkInv(s, b) => WalkInv(s, b)'
<1>1. adapter' = adapter /\ named' = named /\ Stock(s)' = Stock(s) /\ Summed' = Summed
    BY SteadyFacts DEF Summed
<1>2. WalkType(walk[s])'
  <2>1. adapter \in {"runexis", "finenumbers"} => ~Summed
      BY DEF Summed
  <2> QED
      BY <1>1, <2>1 DEF WalkType
<1>3. ASSUME NEW b, WalkInv(s, b) PROVE WalkInv(s, b)'
  <2> DEFINE st == Stock(s)
             r == walk[s].read
             t == walk[s].total
             a == Passed(walk[s])
             counts == adapter \in Counting
             all == adapter = "finenumbers"
             whole == WholeSoFar
             half == WholeSoFar'
             told == Told(walk[s])
             said == Told(walk[s])'
  <2>1. Held(st, r, t, a, b, counts, whole, told, all)
      BY <1>3 DEF WalkInv
  <2>2. half => whole
      BY <1>1 DEF WholeSoFar
  <2>3. said => told
      BY <1>1 DEF Told, Noticed
  <2>4. Passed(walk[s])' = a
      BY PassedStays
  <2> HIDE DEF whole, half, told, said, st, a
  <2>5. Held(st, r, t, a, b, counts, half, said, all)
      BY <2>1, <2>2, <2>3, HeldLess
  <2>6. WalkInv(s, b)' = Held(Stock(s)', walk'[s].read, walk'[s].total, Passed(walk[s])',
          b, adapter' \in Counting, WholeSoFar', Told(walk[s])', adapter' = "finenumbers")
      BY DEF WalkInv
  <2> QED
      BY <1>1, <2>4, <2>5, <2>6 DEF st, half, said
<1> QED
    BY <1>2, <1>3

LEMMA StepWalk ==
  ASSUME VendorType, BudgetInv, PhaseInv, Steady, Walking,
         UNCHANGED <<plan, stage, expected, kept, call, sold>>,
         blind => blind', warned => warned',
         NEW s \in DOMAIN walk, NEW u, walk' = [walk EXCEPT ![s] = u],
         WalkType(walk[s])', \A b \in Nat : WalkInv(s, b) => WalkInv(s, b)'
  PROVE  BudgetInv' /\ PhaseInv'
<1>1. PICK m : Clean(m) /\ Walked(m) /\ KeysInv(m)
    BY DEF BudgetInv
<1>2. adapter' = adapter /\ Clean(m)' /\ KeysInv(m)'
    BY <1>1, SteadyFacts, SteadyKeys
<1>3. DOMAIN walk' = DOMAIN walk /\ \A t \in DOMAIN walk : t # s => walk'[t] = walk[t]
    OBVIOUS
<1>4. PlanInv
    BY DEF PhaseInv
<1>5. DOMAIN walk \subseteq Scopes \cup {0} /\ \A t \in DOMAIN walk : WalkType(walk[t])
    BY <1>4 DEF PlanInv, Walking
<1>6. ASSUME NEW t \in DOMAIN walk PROVE WalkType(walk[t])' /\ WalkInv(t, Budget(m, t))'
  <2>1. Budget(m, t) \in Nat /\ Budget(m, t)' = Budget(m, t)
      BY <1>1, <1>5, BudgetNat, SteadyFacts
  <2>2. PICK b \in Nat : b = Budget(m, t)
      BY <2>1
  <2>3. WalkInv(t, b)
      BY <1>1, <2>2 DEF Walked
  <2>4. WalkType(walk[t])' /\ WalkInv(t, b)'
    <3>1. CASE t = s
        BY <2>3, <3>1
    <3>2. CASE t # s
        BY <1>3, <1>5, <2>3, <3>2, WalkWaits
    <3> QED
        BY <3>1, <3>2
  <2> QED
      BY <2>1, <2>2, <2>4
<1>7. Walked(m)'
    BY <1>3, <1>6 DEF Walked
<1>8. BudgetInv'
    BY <1>2, <1>7 DEF BudgetInv
<1>9. PlanInv'
    BY <1>2, <1>3, <1>4, <1>6 DEF PlanInv
<1>10. CallsInv' /\ ShopInv' /\ OverInv'
    BY DEF PhaseInv, CallsInv, ShopInv, OverInv, Accepted, Walking
<1>11. ExpectInv'
    BY SteadyExpect DEF PhaseInv
<1> QED
    BY <1>8, <1>9, <1>10, <1>11 DEF PhaseInv

LEMMA ReadShort ==
  ASSUME ShortInv, NEW s, ReadPage(s)
  PROVE  BudgetInv' /\ PhaseInv' /\ Steady /\ warned' \in BOOLEAN /\ blind' \in BOOLEAN
<1>0. FetchInv /\ VendorType /\ BudgetInv /\ PhaseInv /\ RoomInv /\ PlanInv
    BY DEF ShortInv, VendorInv, PhaseInv
<1>1. /\ Steady /\ Walking /\ s \in Running /\ UNCHANGED <<plan, expected, kept, call, sold, slice>>
      /\ UNCHANGED <<vendor, list, moves>>
    BY ReadIsPageRead DEF Steady, user
<1>2. PICK p \in Cuts(Page(s, walk[s])) \cup {Page(s, walk[s])} : PageRead(s, p)
    BY ReadIsPageRead
<1>3. blind' \in BOOLEAN /\ warned' \in BOOLEAN
    BY <1>0, <1>2 DEF PageRead, VendorType
<1>4. blind => blind'
    BY <1>2 DEF PageRead
<1>5. warned => warned'
    BY <1>2 DEF PageRead
<1>6. Fail \/ UNCHANGED <<stage, out>>
    BY <1>2 DEF PageRead
<1>7. CASE Fail
    BY <1>0, <1>1, <1>3, <1>4, <1>7, FailIsNoRows, NoRowsShort
<1>8. CASE UNCHANGED <<stage, out>>
  <2>1. /\ s \in DOMAIN walk /\ walk[s].at # "ended" /\ s \in Scopes \cup {0} /\ WalkType(walk[s])
        /\ adapter = "runexis" => s = 0
      BY <1>0, <1>1, RunningFacts
  <2>2. \E u : walk' = [walk EXCEPT ![s] = u]
      BY <1>2 DEF PageRead
  <2>3. ASSUME NEW b \in Nat, WalkInv(s, b) PROVE WalkType(walk[s])' /\ WalkInv(s, b)'
    <3>1. UNCHANGED <<vendor, list, expected, moves, stage>>
        BY <1>1, <1>8
    <3> QED
        BY <1>0, <1>1, <1>2, <2>1, <2>3, <3>1, PageReadKeeps
  <2>4. \E b \in Nat : WalkInv(s, b)
    <3>1. PICK m : Clean(m) /\ Walked(m)
        BY <1>0 DEF BudgetInv
    <3>2. Budget(m, s) \in Nat
        BY <1>0, <2>1, <3>1, BudgetNat
    <3> QED
        BY <1>1, <2>1, <3>1, <3>2 DEF Walked
  <2>5. WalkType(walk[s])' /\ \A b \in Nat : WalkInv(s, b) => WalkInv(s, b)'
      BY <2>3, <2>4
  <2>6. BudgetInv' /\ PhaseInv'
      BY <1>0, <1>1, <1>4, <1>5, <1>8, <2>1, <2>2, <2>5, StepWalk
  <2> QED
      BY <1>1, <1>3, <2>6
<1> QED
    BY <1>6, <1>7, <1>8

LEMMA StumbleShort ==
  ASSUME ShortInv, NEW s, Stumble(s)
  PROVE  BudgetInv' /\ PhaseInv' /\ Steady /\ warned' \in BOOLEAN /\ blind' \in BOOLEAN
<1>0. FetchInv /\ VendorType /\ BudgetInv /\ PhaseInv /\ RoomInv /\ PlanInv
    BY DEF ShortInv, VendorInv, PhaseInv
<1>1. /\ Steady /\ Walking /\ s \in Running
      /\ UNCHANGED <<plan, expected, kept, call, sold, slice, warned>>
    BY DEF Stumble, Steady, user
<1>2. \/ walk' = [walk EXCEPT ![s].tries = @ + 1] /\ UNCHANGED <<stage, out, blind>>
      \/ Fail /\ UNCHANGED <<walk, blind>>
      \/ /\ adapter \in {"runexis", "finenumbers"} /\ blind' = TRUE
         /\ walk' = [walk EXCEPT ![s].at = "ended"] /\ UNCHANGED <<stage, out>>
    BY DEF Stumble, EndsList
<1>3. blind' \in BOOLEAN /\ warned' \in BOOLEAN
    BY <1>0, <1>1, <1>2 DEF VendorType
<1>4. CASE Fail /\ UNCHANGED blind
    BY <1>0, <1>1, <1>3, <1>4, FailIsNoRows, NoRowsShort
<1>5. ASSUME NEW u, walk' = [walk EXCEPT ![s] = u], DOMAIN u = DOMAIN walk[s], blind => blind',
             u.pos = walk[s].pos, u.read = walk[s].read, u.total = walk[s].total,
             u.at = walk[s].at \/ (u.at = "ended" /\ blind' /\ adapter \in {"runexis", "finenumbers"}),
             UNCHANGED <<stage, out>>
      PROVE  BudgetInv' /\ PhaseInv'
  <2>1. s \in DOMAIN walk /\ WalkType(walk[s])
      BY <1>0, <1>1, RunningFacts
  <2>2. walk'[s] = u
      BY <1>5, <2>1
  <2>3. WalkType(walk[s])' /\ \A b : WalkInv(s, b) => WalkInv(s, b)'
      BY <1>1, <1>5, <2>1, <2>2, WalkWaits
  <2> QED
      BY <1>0, <1>1, <1>5, <2>1, <2>3, StepWalk
<1>6. DOMAIN walk[s] = {"pos", "read", "total", "again", "tries", "at"}
    BY <1>0, <1>1, RunningFacts DEF WalkType
<1>7. CASE walk' = [walk EXCEPT ![s].tries = @ + 1] /\ UNCHANGED <<stage, out, blind>>
  <2> DEFINE u == [walk[s] EXCEPT !.tries = @ + 1]
  <2>1. walk' = [walk EXCEPT ![s] = u]
      BY <1>7
  <2>2. /\ DOMAIN u = DOMAIN walk[s] /\ u.pos = walk[s].pos /\ u.read = walk[s].read
        /\ u.total = walk[s].total /\ u.at = walk[s].at
      OBVIOUS
  <2> HIDE DEF u
  <2> QED
      BY <1>1, <1>3, <1>5, <1>7, <2>1, <2>2
<1>8. CASE /\ adapter \in {"runexis", "finenumbers"} /\ blind' = TRUE
           /\ walk' = [walk EXCEPT ![s].at = "ended"] /\ UNCHANGED <<stage, out>>
  <2> DEFINE u == [walk[s] EXCEPT !.at = "ended"]
  <2>1. walk' = [walk EXCEPT ![s] = u]
      BY <1>8
  <2>2. /\ DOMAIN u = DOMAIN walk[s] /\ u.pos = walk[s].pos /\ u.read = walk[s].read
        /\ u.total = walk[s].total /\ u.at = "ended"
      BY <1>6
  <2> HIDE DEF u
  <2> QED
      BY <1>1, <1>3, <1>5, <1>8, <2>1, <2>2
<1> QED
    BY <1>1, <1>2, <1>3, <1>4, <1>7, <1>8

-----------------------------------------------------------------------------
(* The walks together                                                      *)

\* What each walk may lack adds up to the moves.
LEMMA Spending ==
  ASSUME VendorType, NEW m, Clean(m), NEW S, S \subseteq {0} \/ S \subseteq Scopes,
         NEW f \in [0..Top -> Int], \A s \in 0..Top : f[s] <= IF s \in S THEN Budget(m, s) ELSE 0
  PROVE  SumUp(f) <= moves
<1>1. /\ m \in [0..Top -> Nat] /\ SumUp(m) = moves /\ moves \in Nat /\ 0 \notin Scopes
      /\ Top \in Nat /\ 0 \in 0..Top
    BY ScopeFacts, LimitFacts DEF Clean, VendorType
<1>2. CASE S \subseteq Scopes
  <2>1. \A s \in 0..Top : f[s] <= m[s]
    <3>1. \A s \in 0..Top : m[s] \in Nat /\ f[s] \in Int
        BY <1>1
    <3>2. \A s \in S : Budget(m, s) = m[s]
        BY <1>1, <1>2 DEF Budget
    <3> QED
        BY <3>1, <3>2
  <2>2. m \in [0..Top -> Int]
      BY <1>1
  <2>3. SumUp(f) <= SumUp(m)
      BY <2>1, <2>2, SumLeq
  <2> QED
      BY <1>1, <2>3
<1>3. CASE S \subseteq {0}
  <2> DEFINE g == [s \in 0..Top |-> IF s = 0 THEN moves ELSE 0]
  <2>1. g \in [0..Top -> Int] /\ g[0] = moves /\ \A s \in 0..Top : s # 0 => g[s] = 0
      BY <1>1
  <2>2. \A s \in 0..Top : f[s] <= g[s]
    <3>1. Budget(m, 0) = moves
        BY DEF Budget
    <3> QED
        BY <1>1, <1>3, <3>1
  <2> HIDE DEF g
  <2>3. SumUp(g) = g[0] /\ SumUp(f) <= SumUp(g)
      BY <1>1, <2>1, <2>2, SumPoint, SumLeq
  <2> QED
      BY <2>1, <2>3
<1> QED
    BY <1>2, <1>3

LEMMA Spread ==
  ASSUME VendorType, NEW m, Clean(m), NEW S, S \subseteq {0} \/ S \subseteq Scopes,
         NEW A, \A s \in S : IsFiniteSet(A[s]) /\ Cardinality(A[s]) <= Budget(m, s)
  PROVE  LET U == UNION {A[s] : s \in S} IN IsFiniteSet(U) /\ Cardinality(U) <= moves
<1> DEFINE B == [s \in 0..Top |-> IF s \in S THEN A[s] ELSE {}]
           f == [s \in 0..Top |-> Cardinality(B[s])]
           U == UNION {A[s] : s \in S}
           V == UNION {B[s] : s \in 0..Top}
<1>1. S \subseteq 0..Top
    BY ScopeFacts
<1>2. U = V
    BY <1>1
<1>3. IsFiniteSet({}) /\ Cardinality({}) = 0
    BY FS_EmptySet
<1>4. \A s \in 0..Top : IsFiniteSet(B[s])
    BY <1>3
<1>5. \A s \in 0..Top : f[s] = Cardinality(B[s]) /\ f[s] \in Nat
    BY <1>4, FS_CardinalityType
<1>6. f \in [0..Top -> Int]
    BY <1>5
<1>7. \A s \in 0..Top : f[s] <= IF s \in S THEN Budget(m, s) ELSE 0
    BY <1>3, <1>5
<1> HIDE DEF f, B
<1>8. IsFiniteSet(V) /\ Cardinality(V) <= SumUp(f) /\ Cardinality(V) \in Nat
  <2>1. IsFiniteSet(V) /\ Cardinality(V) <= SumUp(f)
      BY <1>4, <1>5, <1>6, UnionSize
  <2> QED
      BY <2>1, FS_CardinalityType
<1>9. SumUp(f) <= moves /\ SumUp(f) \in Int /\ moves \in Int
  <2>1. SumUp(f) <= moves
      BY <1>6, <1>7, Spending
  <2>2. SumUp(f) \in Int
      BY <1>6, SumType
  <2>3. moves \in Int
      BY LimitFacts DEF VendorType
  <2> QED
      BY <2>1, <2>2, <2>3
<1>10. Cardinality(V) <= moves
  <2> HIDE DEF V
  <2> QED
      BY <1>8, <1>9
<1> QED
    BY <1>2, <1>8, <1>10

\* What is said of each walk when all have ended.
WalksOver(m) ==
  /\ VendorType /\ Clean(m) /\ DOMAIN walk = ToSet(plan)
  /\ DOMAIN walk \subseteq {0} \/ DOMAIN walk \subseteq Scopes
  /\ \A s \in DOMAIN walk : WalkType(walk[s]) /\ walk[s].at = "ended" /\ WalkInv(s, Budget(m, s))

LEMMA WalksAreOver ==
  ASSUME VendorType, PlanInv, Walking, Pending = {}, NEW m, Clean(m), Walked(m)
  PROVE  WalksOver(m)
<1>1. /\ DOMAIN walk = ToSet(plan) /\ (DOMAIN walk \subseteq {0} \/ DOMAIN walk \subseteq Scopes)
      /\ \A s \in DOMAIN walk : WalkType(walk[s])
    BY DEF PlanInv, Walking
<1>2. ASSUME NEW s \in DOMAIN walk PROVE walk[s].at = "ended"
  <2>1. PICK i \in DOMAIN plan : plan[i] = s
      BY <1>1 DEF ToSet
  <2> QED
      BY <2>1 DEF Pending
<1> QED
    BY <1>1, <1>2 DEF WalksOver, Walked

LEMMA OverFacts ==
  ASSUME NEW m, WalksOver(m), NEW s \in DOMAIN walk
  PROVE  LET st == Stock(s)  r == walk[s].read
         IN /\ s \in Scopes \cup {0} /\ st \in Seq(Nat) /\ r \in Seq(Nat) /\ Budget(m, s) \in Nat
            /\ Passed(walk[s]) \in Nat
            /\ IsFiniteSet(Gone(st, r)) /\ Cardinality(Gone(st, r)) <= Budget(m, s)
            /\ adapter \in Counting =>
                 Len(r) - Cardinality(NotLate(ToSet(r) \cap ToSet(st))) <= Budget(m, s)
            /\ walk[s].total # Unknown => Cardinality(NotLate(ToSet(st))) <= walk[s].total
            /\ ~blind /\ ~Summed /\ ~Noticed =>
                 /\ IsFiniteSet(Lost(st, r)) /\ Cardinality(Lost(st, r)) <= Budget(m, s)
                 /\ adapter = "finenumbers" =>
                      IsFiniteSet(ToSet(st) \ ToSet(r)) /\ Cardinality(ToSet(st) \ ToSet(r)) <= Budget(m, s)
<1> DEFINE st == Stock(s)
           w == walk[s]
           r == w.read
           b == Budget(m, s)
           a == Passed(w)
<1>1. s \in Scopes \cup {0} /\ WalkType(w) /\ w.at = "ended" /\ VendorType /\ Clean(m)
    BY DEF WalksOver
<1>2. st \in Seq(Nat) /\ r \in Seq(Nat) /\ b \in Nat /\ w.pos \in Nat
    BY <1>1, StockFacts, BudgetNat DEF WalkType
<1>3. a \in Nat
    BY <1>2, LimitFacts, MulMono DEF Passed
<1>4. Held(st, r, w.total, a, b, adapter \in Counting, WholeSoFar, Told(w), adapter = "finenumbers")
    BY DEF WalksOver, WalkInv
<1>5. ~blind /\ ~Summed /\ ~Noticed => Told(w)
    BY <1>1 DEF Told
<1> DEFINE t == w.total
<1> HIDE DEF st, r, a, b, w, t
<1>6. /\ Cardinality(Gone(st, r)) <= b
      /\ adapter \in Counting => Excess(st, r, a) <= b
      /\ t # Unknown => Cardinality(NotLate(ToSet(st))) <= t
      /\ Told(w) => Cardinality(Lost(st, r)) <= b
      /\ Told(w) /\ adapter = "finenumbers" => Cardinality(ToSet(st) \ ToSet(r)) <= b
    BY <1>4 DEF Held, t
<1>7. /\ IsFiniteSet(Gone(st, r)) /\ IsFiniteSet(Lost(st, r)) /\ IsFiniteSet(ToSet(st) \ ToSet(r))
      /\ Excess(st, r, a) \in Int
    BY <1>2, <1>3, WalkFinite
<1>8. /\ Len(r) - Cardinality(NotLate(ToSet(r) \cap ToSet(st))) <= Excess(st, r, a)
      /\ Cardinality(NotLate(ToSet(r) \cap ToSet(st))) \in Nat /\ Len(r) \in Nat
  <2>1. /\ Len(r) - Cardinality(NotLate(ToSet(r) \cap ToSet(st))) <= Excess(st, r, a)
        /\ Cardinality(NotLate(ToSet(r) \cap ToSet(st))) \in Nat
      BY <1>2, <1>3, ExcessTells
  <2>2. Len(r) \in Nat
      BY <1>2
  <2> QED
      BY <2>1, <2>2
<1>9. adapter \in Counting => Len(r) - Cardinality(NotLate(ToSet(r) \cap ToSet(st))) <= b
    BY <1>2, <1>6, <1>7, <1>8
<1> QED
    BY <1>1, <1>2, <1>3, <1>5, <1>6, <1>7, <1>9 DEF st, r, a, b, w, t

\* What the scopes of the plan list.
Shown == UNION {ToSet(Stock(s)) : s \in DOMAIN walk}

\* Of walks that end without a word, no more is lost than was moved.
LEMMA LostTogether ==
  ASSUME NEW m, WalksOver(m), ~blind, ~Summed, ~Noticed
  PROVE  /\ IsFiniteSet(NotLate(Shown) \ ReadNumbers)
         /\ Cardinality(NotLate(Shown) \ ReadNumbers) <= moves
<1> DEFINE A == [s \in DOMAIN walk |-> Lost(Stock(s), walk[s].read)]
           S == DOMAIN walk
           U == UNION {A[s] : s \in S}
           L == NotLate(Shown) \ ReadNumbers
<1>1. \A s \in S : IsFiniteSet(A[s]) /\ Cardinality(A[s]) <= Budget(m, s)
    BY OverFacts
<1>2. S \subseteq {0} \/ S \subseteq Scopes
    BY DEF WalksOver
<1>3. VendorType /\ Clean(m)
    BY DEF WalksOver
<1>4. L \subseteq U
    BY DEF Shown, ReadNumbers, NotLate, Lost
<1> HIDE DEF A, S, L
<1>5. IsFiniteSet(U) /\ Cardinality(U) <= moves
    BY <1>1, <1>2, <1>3, Spread
<1> HIDE DEF U
<1>6. IsFiniteSet(L) /\ Cardinality(L) <= Cardinality(U) /\ Cardinality(L) \in Nat /\ Cardinality(U) \in Nat
    BY <1>4, <1>5, NotMore
<1>7. moves \in Nat
    BY <1>3, LimitFacts DEF VendorType
<1> QED
    BY <1>5, <1>6, <1>7 DEF L

\* Nor is more read that is not listed.
LEMMA GoneTogether ==
  ASSUME NEW m, WalksOver(m), NEW A, \A s \in DOMAIN walk : A[s] = Gone(Stock(s), walk[s].read)
  PROVE  \A s \in DOMAIN walk : IsFiniteSet(A[s]) /\ Cardinality(A[s]) <= Budget(m, s)
BY OverFacts

\* The numbers read, beyond those that are listed.
LEMMA ReadTogether ==
  ASSUME NEW m, WalksOver(m), adapter \in Counting
  PROVE  LET g == [s \in 0..Top |-> IF s \in DOMAIN walk
                     THEN Cardinality(NotLate(ToSet(walk[s].read) \cap ToSet(Stock(s)))) ELSE 0]
         IN g \in [0..Top -> Int] /\ ReadLength <= SumUp(g) + moves
<1> DEFINE S == DOMAIN walk
           f == [s \in 0..Top |-> IF s \in S THEN Len(walk[s].read) ELSE 0]
           c(s) == Cardinality(NotLate(ToSet(walk[s].read) \cap ToSet(Stock(s))))
           g == [s \in 0..Top |-> IF s \in S THEN c(s) ELSE 0]
           h == [s \in 0..Top |-> IF s \in S THEN Len(walk[s].read) - c(s) ELSE 0]
<1>1. ASSUME NEW s \in S
      PROVE  Len(walk[s].read) \in Nat /\ c(s) \in Nat /\ Len(walk[s].read) - c(s) <= Budget(m, s)
  <2>1. /\ walk[s].read \in Seq(Nat) /\ Stock(s) \in Seq(Nat)
        /\ Len(walk[s].read) - c(s) <= Budget(m, s)
      BY OverFacts
  <2>2. c(s) \in Nat
      BY <2>1, ExcessTells
  <2> QED
      BY <2>1, <2>2
<1> HIDE DEF c
<1>2. f \in [0..Top -> Int] /\ g \in [0..Top -> Int] /\ h \in [0..Top -> Int]
    BY <1>1
<1>3. \A s \in 0..Top : f[s] = g[s] + h[s]
    BY <1>1
<1>4. \A s \in 0..Top : h[s] <= IF s \in S THEN Budget(m, s) ELSE 0
    BY <1>1
<1>5. VendorType /\ Clean(m) /\ (S \subseteq {0} \/ S \subseteq Scopes)
    BY DEF WalksOver
<1>6. ReadLength = SumUp(f)
    BY DEF ReadLength
<1> HIDE DEF f, g, h, S
<1>7. SumUp(f) = SumUp(g) + SumUp(h)
    BY <1>2, <1>3, SumPlus
<1>8. SumUp(h) <= moves /\ SumUp(h) \in Int /\ SumUp(g) \in Int /\ moves \in Int
  <2>1. SumUp(h) <= moves
      BY <1>2, <1>4, <1>5, Spending
  <2>2. SumUp(h) \in Int /\ SumUp(g) \in Int
      BY <1>2, SumType
  <2>3. moves \in Int
      BY <1>5, LimitFacts DEF VendorType
  <2> QED
      BY <2>1, <2>2, <2>3
<1>9. ReadLength <= SumUp(g) + moves
    BY <1>6, <1>7, <1>8
<1> QED
    BY <1>2, <1>9 DEF g, c, S

LEMMA ReadFinite ==
  ASSUME NEW m, WalksOver(m)
  PROVE  IsFiniteSet(ReadNumbers) /\ DOMAIN walk \subseteq 0..Top
<1> DEFINE S == DOMAIN walk
           A == [s \in 0..Top |-> IF s \in S THEN ToSet(walk[s].read) ELSE {}]
           f == [s \in 0..Top |-> Cardinality(A[s])]
<1>1. S \subseteq 0..Top
  <2>1. S \subseteq {0} \/ S \subseteq Scopes
      BY DEF WalksOver
  <2>2. {0} \subseteq 0..Top /\ Scopes \subseteq 0..Top
      BY ScopeFacts
  <2> HIDE DEF S
  <2> QED
      BY <2>1, <2>2
<1>2. \A s \in S : walk[s].read \in Seq(Nat)
    BY OverFacts
<1>3. \A s \in 0..Top : IsFiniteSet(A[s]) /\ f[s] = Cardinality(A[s]) /\ f[s] \in Nat
    BY <1>2, SetOf, FS_EmptySet, FS_CardinalityType
<1>4. f \in [0..Top -> Int]
    BY <1>3
<1>5. ReadNumbers = UNION {A[s] : s \in 0..Top}
    BY <1>1 DEF ReadNumbers
<1> HIDE DEF A, f
<1>6. IsFiniteSet(UNION {A[s] : s \in 0..Top})
    BY <1>3, <1>4, UnionSize
<1> QED
    BY <1>1, <1>5, <1>6

\* Voximplant: as many different numbers as the totals name.
LEMMA SummedTogether ==
  ASSUME NEW m, WalksOver(m), Summed, ~(Cardinality(ReadNumbers) < TotalLength)
  PROVE  /\ IsFiniteSet(NotLate(Shown) \ ReadNumbers)
         /\ Cardinality(NotLate(Shown) \ ReadNumbers) <= moves
<1> DEFINE S == DOMAIN walk
           R == ReadNumbers
           N == NotLate(Shown)
           A == [s \in S |-> ToSet(walk[s].read) \ NotLate(ToSet(Stock(s)))]
           B == [s \in 0..Top |-> IF s \in S THEN NotLate(ToSet(Stock(s))) ELSE {}]
           f == [s \in 0..Top |-> Cardinality(B[s])]
           t == [s \in 0..Top |-> IF s \in S /\ walk[s].total # Unknown THEN walk[s].total ELSE 0]
<1>1. VendorType /\ Clean(m) /\ (S \subseteq {0} \/ S \subseteq Scopes) /\ adapter \in Counting
    BY DEF WalksOver, Summed, Counting
<1>2. IsFiniteSet(R) /\ S \subseteq 0..Top
    BY ReadFinite
<1>3. ASSUME NEW s \in S
      PROVE  /\ IsFiniteSet(A[s]) /\ Cardinality(A[s]) <= Budget(m, s)
             /\ IsFiniteSet(B[s]) /\ Cardinality(B[s]) <= t[s] /\ t[s] \in Nat
  <2> DEFINE r == walk[s].read
             st == Stock(s)
             b == Budget(m, s)
             C == NotLate(ToSet(r) \cap ToSet(st))
             n == walk[s].total
  <2>1. /\ r \in Seq(Nat) /\ st \in Seq(Nat) /\ b \in Nat /\ Len(r) - Cardinality(C) <= b
        /\ n # Unknown => Cardinality(NotLate(ToSet(st))) <= n
      BY <1>1, OverFacts
  <2>2. n # Unknown /\ n \in Nat
    <3>1. WalkType(walk[s]) /\ walk[s].at = "ended"
        BY DEF WalksOver
    <3> QED
        BY <3>1 DEF WalkType
  <2>3. t[s] = n /\ B[s] = NotLate(ToSet(st)) /\ A[s] = ToSet(r) \ NotLate(ToSet(st))
      BY <1>2, <2>2
  <2> HIDE DEF A, B, t, r, st, b, n
  <2>4. IsFiniteSet(ToSet(r)) /\ Cardinality(ToSet(r)) <= Len(r) /\ Cardinality(ToSet(r)) \in Nat
      BY <2>1, SetOf, FS_CardinalityType
  <2>5. C = ToSet(r) \cap NotLate(ToSet(st))
      BY DEF NotLate
  <2> DEFINE X == ToSet(r)
             Y == NotLate(ToSet(st))
  <2>6. /\ IsFiniteSet(X \ Y) /\ Cardinality(X) = Cardinality(X \cap Y) + Cardinality(X \ Y)
        /\ Cardinality(X \ Y) \in Nat /\ Cardinality(X \cap Y) \in Nat
    <3> HIDE DEF X, Y
    <3>1. IsFiniteSet(X)
        BY <2>4 DEF X
    <3> QED
        BY <3>1, InTwo
  <2>7. Cardinality(A[s]) <= b
    <3>1. Len(r) \in Nat
        BY <2>1
    <3>2. /\ Cardinality(C) = Cardinality(X \cap Y) /\ Cardinality(A[s]) = Cardinality(X \ Y)
          /\ Cardinality(X) <= Len(r) /\ Cardinality(X) \in Nat
        BY <2>3, <2>4, <2>5
    <3> HIDE DEF X, Y, C
    <3> QED
        BY <2>1, <2>6, <3>1, <3>2
  <2>8. IsFiniteSet(NotLate(ToSet(st)))
    <3>1. 0 \in Nat
        OBVIOUS
    <3> QED
        BY <2>1, <3>1, WalkFinite
  <2> QED
      BY <2>1, <2>2, <2>3, <2>6, <2>7, <2>8 DEF b
<1>4. ASSUME NEW s \in 0..Top
      PROVE  IsFiniteSet(B[s]) /\ f[s] = Cardinality(B[s]) /\ f[s] \in Int /\ t[s] \in Int /\ f[s] <= t[s]
  <2>1. CASE s \in S
    <3>1. IsFiniteSet(B[s]) /\ Cardinality(B[s]) <= t[s] /\ t[s] \in Nat /\ f[s] = Cardinality(B[s])
        BY <1>3, <2>1
    <3> QED
        BY <3>1, FS_CardinalityType
  <2>2. CASE s \notin S
    <3>1. B[s] = {} /\ t[s] = 0 /\ f[s] = Cardinality(B[s])
        BY <2>2
    <3> QED
        BY <3>1, FS_EmptySet
  <2> QED
      BY <2>1, <2>2
<1>5. f \in [0..Top -> Int] /\ t \in [0..Top -> Int] /\ TotalLength = SumUp(t)
    BY <1>4 DEF TotalLength
<1>6. N = UNION {B[s] : s \in 0..Top}
    BY <1>2 DEF Shown, NotLate
<1>7. R \ N \subseteq UNION {A[s] : s \in S}
    BY DEF ReadNumbers, Shown, NotLate
<1> HIDE DEF A, B, f, t, S, R, N
<1>8. IsFiniteSet(N) /\ Cardinality(N) <= SumUp(f) /\ SumUp(f) <= SumUp(t)
    BY <1>4, <1>5, <1>6, UnionSize, SumLeq
<1>9. SumUp(f) \in Int /\ SumUp(t) \in Int /\ Cardinality(N) \in Nat /\ Cardinality(R) \in Nat
    BY <1>2, <1>5, <1>8, SumType, FS_CardinalityType
<1>10. Cardinality(N) <= Cardinality(R)
    BY <1>5, <1>8, <1>9 DEF R
<1>11. Cardinality(R \ N) <= moves /\ Cardinality(R \ N) \in Nat
  <2> DEFINE U == UNION {A[s] : s \in S}
  <2>0. \A s \in S : IsFiniteSet(A[s]) /\ Cardinality(A[s]) <= Budget(m, s)
      BY <1>3
  <2>a. S \subseteq {0} \/ S \subseteq Scopes
      BY <1>1
  <2>b. VendorType /\ Clean(m)
      BY <1>1
  <2>1. IsFiniteSet(U) /\ Cardinality(U) <= moves
      BY <2>0, <2>a, <2>b, Spread
  <2> HIDE DEF U
  <2>2. Cardinality(R \ N) <= Cardinality(U) /\ Cardinality(R \ N) \in Nat /\ Cardinality(U) \in Nat
      BY <1>7, <2>1, NotMore DEF U
  <2>3. moves \in Nat
      BY <1>1, LimitFacts DEF VendorType
  <2> QED
      BY <2>1, <2>2, <2>3
<1>12. /\ IsFiniteSet(N \ R) /\ Cardinality(N) = Cardinality(N \cap R) + Cardinality(N \ R)
       /\ Cardinality(N \ R) \in Nat /\ Cardinality(N \cap R) \in Nat
    BY <1>8, InTwo
<1>13. Cardinality(R) = Cardinality(R \cap N) + Cardinality(R \ N)
    BY <1>2, InTwo
<1>14. R \cap N = N \cap R /\ moves \in Nat
    BY <1>1, LimitFacts DEF VendorType
<1>15. Cardinality(N \ R) <= moves
    BY <1>9, <1>10, <1>11, <1>12, <1>13, <1>14
<1> QED
    BY <1>12, <1>15 DEF N, R

\* Novofon by category: as many numbers as the list's total.
LEMMA CategoriesTogether ==
  ASSUME NEW m, WalksOver(m), adapter = "novofon", ApartInv, ExpectInv, expected # Unknown,
         DOMAIN walk = Listed, ReadLength = expected
  PROVE  LET N == NotLate(ToSet(Stock(0)))
         IN IsFiniteSet(N \ ReadNumbers) /\ Cardinality(N \ ReadNumbers) <= moves
<1> DEFINE S == DOMAIN walk
           R == ReadNumbers
           N == NotLate(ToSet(Stock(0)))
           A == [s \in 0..Top |-> IF s \in S THEN NotLate(ToSet(walk[s].read) \cap ToSet(Stock(s))) ELSE {}]
           g == [s \in 0..Top |-> IF s \in S
                   THEN Cardinality(NotLate(ToSet(walk[s].read) \cap ToSet(Stock(s)))) ELSE 0]
           U == UNION {A[s] : s \in 0..Top}
<1>1. VendorType /\ adapter \in Counting /\ moves \in Nat
    BY LimitFacts DEF WalksOver, Counting, VendorType
<1>2. g \in [0..Top -> Int] /\ ReadLength <= SumUp(g) + moves
    BY <1>1, ReadTogether
<1>3. ASSUME NEW s \in 0..Top PROVE IsFiniteSet(A[s]) /\ g[s] = Cardinality(A[s])
  <2>1. CASE s \in S
    <3>1. /\ A[s] = NotLate(ToSet(walk[s].read) \cap ToSet(Stock(s)))
          /\ g[s] = Cardinality(NotLate(ToSet(walk[s].read) \cap ToSet(Stock(s))))
        BY <2>1
    <3>2. walk[s].read \in Seq(Nat) /\ Stock(s) \in Seq(Nat) /\ 0 \in Nat
        BY <2>1, OverFacts
    <3> DEFINE r == walk[s].read
               st == Stock(s)
    <3> HIDE DEF A, g
    <3>3. IsFiniteSet(NotLate(ToSet(r) \cap ToSet(st)))
      <4> HIDE DEF r, st
      <4> QED
          BY <3>2, ExcessTells DEF r, st
    <3> QED
        BY <3>1, <3>3
  <2>2. CASE s \notin S
      BY <2>2, FS_EmptySet
  <2> QED
      BY <2>1, <2>2
<1>4. \A s, t \in 0..Top : s # t => A[s] \cap A[t] = {}
  <2> SUFFICES ASSUME NEW s \in S, NEW t \in S, s # t
               PROVE  NotLate(ToSet(walk[s].read) \cap ToSet(Stock(s)))
                        \cap NotLate(ToSet(walk[t].read) \cap ToSet(Stock(t))) = {}
      OBVIOUS
  <2>1. s \in Scopes /\ t \in Scopes
      BY ScopeFacts
  <2>2. Stock(s) = list[s] /\ Stock(t) = list[t]
      BY <1>1, <2>1, StockFacts
  <2>3. NotLate(ToSet(list[s])) \cap NotLate(ToSet(list[t])) = {}
      BY <1>1, <2>1 DEF ApartInv
  <2> QED
      BY <2>2, <2>3 DEF NotLate
<1>5. U \subseteq N \cap R
  <2>1. ToSet(Stock(0)) = UNION {ToSet(list[s]) : s \in Scopes}
    <3>1. Stock(0) = Pooled(list, Scopes) /\ list \in [Scopes -> Seq(Nat)]
        BY <1>1, StockFacts DEF VendorType
    <3> QED
        BY <3>1, PooledSet
  <2>2. \A s \in S : s \in Scopes /\ Stock(s) = list[s]
      BY <1>1, ScopeFacts, StockFacts
  <2>3. \A s \in S : ToSet(Stock(s)) \subseteq ToSet(Stock(0))
      BY <2>1, <2>2
  <2>4. \A s \in S : ToSet(walk[s].read) \subseteq R
      BY DEF ReadNumbers
  <2> QED
      BY <2>3, <2>4 DEF NotLate
<1>6. Stock(0) \in Seq(Nat)
    BY <1>1, StockFacts
<1>7. IsFiniteSet(N)
  <2>1. 0 \in Nat
      OBVIOUS
  <2> QED
      BY <1>6, <2>1, WalkFinite
<1>8. Cardinality(N) <= expected /\ expected \in Nat
    BY DEF ExpectInv
<1> HIDE DEF A, g, S, R, N
<1>9. IsFiniteSet(U) /\ Cardinality(U) = SumUp(g)
  <2>1. \A s \in 0..Top : IsFiniteSet(A[s]) /\ g[s] = Cardinality(A[s])
      BY <1>3
  <2>2. g \in [0..Top -> Int]
      BY <1>2
  <2> QED
      BY <1>4, <2>1, <2>2, UnionSize
<1>10. SumUp(g) \in Int
    BY <1>2, SumType
<1> HIDE DEF U
<1>11. IsFiniteSet(N \cap R) /\ Cardinality(U) <= Cardinality(N \cap R) /\ Cardinality(U) \in Nat
    BY <1>5, <1>7, FS_Subset, NotMore, InTwo
<1>12. /\ IsFiniteSet(N \ R) /\ Cardinality(N) = Cardinality(N \cap R) + Cardinality(N \ R)
       /\ Cardinality(N \ R) \in Nat /\ Cardinality(N \cap R) \in Nat
    BY <1>7, InTwo
<1>13. Cardinality(N \ R) <= moves
    BY <1>1, <1>2, <1>8, <1>9, <1>10, <1>11, <1>12
<1> QED
    BY <1>12, <1>13 DEF N, R

\* The REG numbers: what is read is theirs, but for the moves of their scopes.
LEMMA RegsTogether ==
  ASSUME NEW m, WalksOver(m), adapter = "finenumbers", ~blind, DOMAIN walk = Listed
  PROVE  /\ IsFiniteSet(ReadNumbers)
         /\ Cardinality(NotLate(ReadNumbers) \ Regs) + m[Unlisted] <= moves
         /\ IsFiniteSet(NotLate(Regs) \ ReadNumbers)
         /\ Cardinality(NotLate(Regs) \ ReadNumbers) <= moves
<1> DEFINE S == DOMAIN walk
           R == ReadNumbers
           A == [s \in 0..Top |-> IF s \in S THEN Gone(Stock(s), walk[s].read) ELSE {}]
           f == [s \in 0..Top |-> Cardinality(A[s])]
           e == [s \in 0..Top |-> IF s = Unlisted THEN m[s] ELSE 0]
           h == [s \in 0..Top |-> f[s] + e[s]]
           U == UNION {A[s] : s \in 0..Top}
<1>1. /\ VendorType /\ moves \in Nat /\ m \in [0..Top -> Nat] /\ SumUp(m) = moves
      /\ Unlisted \in 0..Top /\ Unlisted \notin S
    BY LimitFacts, ScopeFacts DEF WalksOver, Clean, VendorType
<1>2. Shown = Regs
  <2>1. \A s \in S : Stock(s) = list[s]
      BY <1>1, ScopeFacts, StockFacts
  <2>2. Regs = UNION {ToSet(list[s]) : s \in Listed}
      BY <1>1, ScopeFacts, PooledSet DEF Regs, Concat, VendorType
  <2> QED
      BY <2>1, <2>2 DEF Shown
<1>3. IsFiniteSet(NotLate(Regs) \ R) /\ Cardinality(NotLate(Regs) \ R) <= moves
    BY <1>2, LostTogether DEF Summed, Noticed
<1>4. IsFiniteSet(R) /\ S \subseteq 0..Top
    BY ReadFinite
<1>5. ASSUME NEW s \in 0..Top
      PROVE  IsFiniteSet(A[s]) /\ f[s] = Cardinality(A[s]) /\ f[s] \in Int /\ h[s] <= m[s] /\ e[s] \in Int
  <2>1. CASE s \in S
    <3>1. IsFiniteSet(Gone(Stock(s), walk[s].read)) /\ Cardinality(Gone(Stock(s), walk[s].read)) <= Budget(m, s)
        BY <2>1, OverFacts
    <3>2. Budget(m, s) = m[s] /\ e[s] = 0 /\ A[s] = Gone(Stock(s), walk[s].read)
        BY <1>1, <2>1, ScopeFacts DEF Budget
    <3>3. f[s] = Cardinality(A[s]) /\ h[s] = f[s] + e[s]
        OBVIOUS
    <3> HIDE DEF A, f, h, e
    <3>4. Cardinality(A[s]) \in Nat /\ Cardinality(A[s]) <= m[s]
        BY <3>1, <3>2, FS_CardinalityType
    <3> QED
        BY <3>1, <3>2, <3>3, <3>4
  <2>2. CASE s \notin S
    <3>1. A[s] = {} /\ f[s] = Cardinality(A[s]) /\ h[s] = f[s] + e[s] /\ (e[s] = m[s] \/ e[s] = 0)
        BY <2>2
    <3>2. m[s] \in Nat
        BY <1>1
    <3> HIDE DEF A, f, h, e
    <3> QED
        BY <3>1, <3>2, FS_EmptySet
  <2> QED
      BY <2>1, <2>2
<1>6. f \in [0..Top -> Int] /\ e \in [0..Top -> Int] /\ h \in [0..Top -> Int]
    BY <1>1, <1>5
<1>7. (\A s \in 0..Top : h[s] = f[s] + e[s]) /\ e[Unlisted] = m[Unlisted] /\ \A s \in 0..Top : s # Unlisted => e[s] = 0
    BY <1>1
<1>8. NotLate(R) \ Regs \subseteq U
  <2>1. \A s \in S : A[s] = Gone(Stock(s), walk[s].read)
      BY <1>4
  <2>2. \A s \in S : A[s] \subseteq U
      BY <1>4
  <2> HIDE DEF A, U
  <2>3. \A s \in S : NotLate(ToSet(walk[s].read)) \ ToSet(Stock(s)) \subseteq U
      BY <2>1, <2>2 DEF Gone
  <2> QED
      BY <1>2, <2>3 DEF ReadNumbers, Shown, NotLate
<1> HIDE DEF A, f, e, h
<1>9. IsFiniteSet(U) /\ Cardinality(U) <= SumUp(f)
    BY <1>5, <1>6, UnionSize
<1>10. SumUp(h) = SumUp(f) + SumUp(e)
    BY <1>6, <1>7, SumPlus
<1>11. SumUp(e) = m[Unlisted]
    BY <1>1, <1>6, <1>7, SumPoint
<1>12. SumUp(h) <= SumUp(m)
  <2>1. m \in [0..Top -> Int]
      BY <1>1
  <2> QED
      BY <1>5, <1>6, <2>1, SumLeq
<1>13. SumUp(f) \in Int /\ m[Unlisted] \in Nat
    BY <1>1, <1>6, SumType
<1> HIDE DEF U
<1>14. /\ Cardinality(NotLate(R) \ Regs) <= Cardinality(U) /\ Cardinality(U) \in Nat
       /\ Cardinality(NotLate(R) \ Regs) \in Nat
    BY <1>8, <1>9, NotMore
<1>15. Cardinality(NotLate(R) \ Regs) + m[Unlisted] <= moves
    BY <1>1, <1>9, <1>10, <1>11, <1>12, <1>13, <1>14
<1> QED
    BY <1>3, <1>4, <1>15

-----------------------------------------------------------------------------
(* The merges                                                              *)

LEMMA ImageSize ==
  ASSUME NEW D, IsFiniteSet(D), NEW f, DOMAIN f = D
  PROVE  LET T == {f[x] : x \in D} IN IsFiniteSet(T) /\ Cardinality(T) <= Cardinality(D) /\ Cardinality(T) \in Nat
<1> DEFINE T == {f[x] : x \in D}
           h == [x \in D |-> f[x]]
<1>1. h \in [D -> T] /\ \A y \in T : \E x \in D : h[x] = y
    OBVIOUS
<1>2. h \in Surjection(D, T)
    BY <1>1 DEF Surjection
<1>3. IsFiniteSet(T) /\ Cardinality(T) <= Cardinality(D)
    BY <1>2, FS_Surjection
<1> QED
    BY <1>3, FS_CardinalityType

\* A range is two numbers.
LEMMA ExpandedSize ==
  ASSUME NEW D, IsFiniteSet(D)
  PROVE  IsFiniteSet(Expanded(D)) /\ Cardinality(Expanded(D)) <= 2 * Cardinality(D)
<1> DEFINE f == [r \in D |-> 2 * r]
           g == [r \in D |-> 2 * r + 1]
           A == {f[r] : r \in D}
           B == {g[r] : r \in D}
<1>1. Expanded(D) = A \cup B
    BY DEF Expanded, Expand
<1>2. DOMAIN f = D /\ DOMAIN g = D
    OBVIOUS
<1> HIDE DEF f, g
<1>3. IsFiniteSet(A) /\ Cardinality(A) <= Cardinality(D) /\ Cardinality(A) \in Nat
    BY <1>2, ImageSize
<1>4. IsFiniteSet(B) /\ Cardinality(B) <= Cardinality(D) /\ Cardinality(B) \in Nat
    BY <1>2, ImageSize
<1> HIDE DEF A, B
<1>5. /\ IsFiniteSet(A \cup B)
      /\ Cardinality(A \cup B) = Cardinality(A) + Cardinality(B) - Cardinality(A \cap B)
    BY <1>3, <1>4, FS_Union
<1>6. Cardinality(A \cap B) \in Nat /\ Cardinality(D) \in Nat
    BY <1>3, FS_Intersection, FS_CardinalityType
<1> QED
    BY <1>1, <1>3, <1>4, <1>5, <1>6

\* Rows that are accepted as they were read.
Takings == out'[slice].rows = ReadNumbers /\ stage' = "over"

LEMMA MissingWalked ==
  ASSUME Steady, UNCHANGED <<plan, slice>>, Takings, ~key, DOMAIN walk = ToSet(plan),
         adapter # "finenumbers"
  PROVE  Missing' = NotLate(IF adapter = "novofon" THEN DataPart ELSE Shown) \ ReadNumbers
<1>1. /\ adapter' = adapter /\ key' = key /\ \A s : Stock(s)' = Stock(s)
      /\ plan' = plan /\ slice' = slice
    BY SteadyFacts
<1>2. Promised' = (UNION {ToSet(Stock(s)) : s \in ToSet(plan)})
                    \cup (IF adapter = "novofon" THEN ToSet(Stock(0)) ELSE {})
    BY <1>1 DEF Promised
<1>3. Promised' = IF adapter = "novofon" THEN DataPart ELSE Shown
    BY <1>2 DEF DataPart, Shown
<1> QED
    BY <1>1, <1>3 DEF Missing, NotLate, Takings

LEMMA TakingsShort ==
  ASSUME FetchInv, VendorType, Steady, UNCHANGED <<plan, slice>>, Takings, ~key, DOMAIN walk = ToSet(plan),
         adapter # "finenumbers", ToSet(plan) \subseteq Scopes \cup {0},
         ~blind' /\ ~out'[slice].warned =>
           LET L == NotLate(IF adapter = "novofon" THEN DataPart ELSE Shown) \ ReadNumbers
           IN IsFiniteSet(L) /\ Cardinality(L) <= moves
  PROVE  OverInv'
<1>1. adapter' = adapter /\ moves' = moves /\ slice' = slice
    BY SteadyFacts
<1> DEFINE L == NotLate(IF adapter = "novofon" THEN DataPart ELSE Shown) \ ReadNumbers
<1>2. Missing' = L
    BY MissingWalked
<1> HIDE DEF L
<1>3. ~blind' /\ ~out'[slice].warned => IsFiniteSet(L) /\ Cardinality(L) <= moves
    BY DEF L
<1> QED
    BY <1>1, <1>2, <1>3 DEF OverInv

\* Novofon's Data API: the whole list, or the categories that add up to it.
LEMMA NovofonTogether ==
  ASSUME NEW m, WalksOver(m), adapter = "novofon", ApartInv, ExpectInv, AddsUp, ~blind, ~warned,
         DOMAIN walk = IF expected = Unknown THEN {0} ELSE Listed
  PROVE  LET L == NotLate(DataPart) \ ReadNumbers IN IsFiniteSet(L) /\ Cardinality(L) <= moves
<1>1. DataPart = Shown \cup ToSet(Stock(0)) /\ VendorType
    BY DEF DataPart, Shown, WalksOver
<1>2. CASE expected = Unknown
  <2>1. DataPart = Shown
      BY <1>1, <1>2 DEF Shown
  <2>2. ~Summed /\ ~Noticed
      BY DEF Summed, Noticed
  <2> QED
      BY <1>2, <2>1, <2>2, LostTogether
<1>3. CASE expected # Unknown
  <2>1. ReadLength = expected /\ DOMAIN walk = Listed
      BY <1>3 DEF AddsUp
  <2>2. ToSet(Stock(0)) = UNION {ToSet(list[s]) : s \in Scopes}
    <3>1. Stock(0) = Pooled(list, Scopes) /\ list \in [Scopes -> Seq(Nat)]
        BY <1>1, StockFacts DEF VendorType
    <3> QED
        BY <3>1, PooledSet
  <2>3. \A s \in Listed : s \in Scopes /\ Stock(s) = list[s]
      BY <1>1, ScopeFacts, StockFacts
  <2>4. DataPart = ToSet(Stock(0))
      BY <1>1, <2>1, <2>2, <2>3 DEF Shown
  <2> QED
      BY <1>3, <2>1, <2>4, CategoriesTogether
<1> QED
    BY <1>2, <1>3

LEMMA MergesShort ==
  ASSUME ShortInv, Merges
  PROVE  BudgetInv' /\ PhaseInv' /\ Steady /\ warned' \in BOOLEAN /\ blind' = blind
<1>0. /\ FetchInv /\ VendorType /\ BudgetInv /\ PhaseInv /\ PlanInv /\ ApartInv /\ ExpectInv /\ ShopType
      /\ warned \in BOOLEAN
    BY DEF ShortInv, VendorInv, PhaseInv, VendorType
<1>1. PICK m : Clean(m) /\ Walked(m) /\ KeysInv(m)
    BY <1>0 DEF BudgetInv
<1>2. ASSUME NEW a, Merged(a)
      PROVE  /\ Steady /\ UNCHANGED <<slice, plan, walk, expected, kept, call, sold, blind>>
             /\ stage = "walk" /\ adapter = a /\ WalksOver(m) /\ DOMAIN walk = ToSet(plan)
        /\ ToSet(plan) \subseteq Scopes \cup {0}
             /\ ToSet(plan) \subseteq Scopes \cup {0}
  <2>1. /\ Steady /\ UNCHANGED <<slice, plan, walk, expected, kept, call, sold, blind>>
        /\ stage = "walk" /\ adapter = a /\ Pending = {}
      BY <1>2 DEF Merged, Steady, budget, user
  <2>2. WalksOver(m)
      BY <1>0, <1>1, <2>1, WalksAreOver DEF Walking
  <2> QED
      BY <2>1, <2>2 DEF WalksOver
<1>3. ASSUME NEW a, Merged(a), Fail, warned' = warned
      PROVE  BudgetInv' /\ PhaseInv' /\ Steady /\ warned' \in BOOLEAN /\ blind' = blind
  <2>1. Steady /\ UNCHANGED <<slice, expected, kept, blind>>
      BY <1>2, <1>3
  <2> QED
      BY <1>0, <1>3, <2>1, FailIsNoRows, NoRowsShort
<1>4. ASSUME Accept(ReadNumbers)
      PROVE  Takings /\ out'[slice].warned = warned
  <2> DEFINE o == [kind |-> "rows", rows |-> ReadNumbers, warned |-> warned]
  <2>1. Over(o)
      BY <1>4 DEF Accept
  <2>2. o.rows = ReadNumbers /\ o.warned = warned
      OBVIOUS
  <2> HIDE DEF o
  <2> QED
      BY <1>0, <2>1, <2>2, AcceptFacts DEF Takings
<1>5. ASSUME NEW a, Merged(a), Accept(ReadNumbers), warned' = warned, a \notin {"finenumbers", "novofon"},
             a # "voximplant"
      PROVE  BudgetInv' /\ PhaseInv' /\ Steady /\ warned' \in BOOLEAN /\ blind' = blind
  <2>1. /\ Steady /\ UNCHANGED <<slice, plan, walk, expected, kept, call, sold, blind>>
        /\ stage = "walk" /\ adapter = a /\ WalksOver(m) /\ DOMAIN walk = ToSet(plan)
        /\ ToSet(plan) \subseteq Scopes \cup {0}
      BY <1>2, <1>5
  <2>2. Takings /\ out'[slice].warned = warned
      BY <1>4, <1>5
  <2>3. ~key /\ adapter # "finenumbers" /\ adapter # "novofon" /\ ~Summed
      BY <1>0, <1>5, <2>1 DEF VendorType, Summed
  <2>4. ~blind /\ ~warned => IsFiniteSet(NotLate(Shown) \ ReadNumbers)
                             /\ Cardinality(NotLate(Shown) \ ReadNumbers) <= moves
      BY <2>1, <2>3, LostTogether DEF Noticed
  <2>5. OverInv'
      BY <1>0, <2>1, <2>2, <2>3, <2>4, TakingsShort
  <2>6. stage' = "over"
      BY <2>2 DEF Takings
  <2>7. BudgetInv' /\ PhaseInv'
      BY <1>0, <2>1, <2>5, <2>6, AcceptShort
  <2> QED
      BY <1>0, <1>5, <2>1, <2>7
<1>6. CASE MergeExolve
    BY <1>3, <1>5, <1>6 DEF MergeExolve
<1>7. CASE MergeMcn
    BY <1>3, <1>5, <1>7 DEF MergeMcn
<1>8. CASE MergeRest
    BY <1>5, <1>8 DEF MergeRest
<1>9. CASE MergeVoximplant
  <2>1. /\ Steady /\ UNCHANGED <<slice, plan, walk, expected, kept, call, sold, blind>>
        /\ stage = "walk" /\ adapter = "voximplant" /\ WalksOver(m) /\ DOMAIN walk = ToSet(plan)
        /\ ToSet(plan) \subseteq Scopes \cup {0}
      BY <1>2, <1>9 DEF MergeVoximplant
  <2>2. /\ warned' = (Cardinality(ReadNumbers) < TotalLength)
        /\ Over([kind |-> "rows", rows |-> ReadNumbers, warned |-> warned'])
      BY <1>9 DEF MergeVoximplant
  <2>3. Takings /\ out'[slice].warned = warned'
    <3> DEFINE o == [kind |-> "rows", rows |-> ReadNumbers, warned |-> warned']
    <3>1. Over(o)
        BY <2>2
    <3>2. o.rows = ReadNumbers /\ o.warned = warned'
        OBVIOUS
    <3> HIDE DEF o
    <3> QED
        BY <1>0, <3>1, <3>2, AcceptFacts DEF Takings
  <2>4. ~key
      BY <1>0, <2>1 DEF VendorType
  <2>5. ~blind /\ ~warned' => IsFiniteSet(NotLate(Shown) \ ReadNumbers)
                              /\ Cardinality(NotLate(Shown) \ ReadNumbers) <= moves
    <3>1. ~Noticed
        BY <2>1 DEF Noticed
    <3>2. ~warned' => ~(Cardinality(ReadNumbers) < TotalLength)
        BY <2>2
    <3>3. CASE Summed
        BY <2>1, <3>2, <3>3, SummedTogether
    <3>4. CASE ~Summed
        BY <2>1, <3>1, <3>4, LostTogether
    <3> QED
        BY <3>3, <3>4
  <2>6. OverInv'
      BY <1>0, <2>1, <2>3, <2>4, <2>5, TakingsShort
  <2>7. stage' = "over"
      BY <2>3 DEF Takings
  <2>8. BudgetInv' /\ PhaseInv'
      BY <1>0, <2>1, <2>6, <2>7, AcceptShort
  <2>9. warned' \in BOOLEAN
      BY <2>2
  <2> QED
      BY <2>1, <2>8, <2>9
<1>10. CASE MergeNovofon
  <2>1. /\ Steady /\ UNCHANGED <<slice, plan, walk, expected, kept, call, sold, blind>>
        /\ stage = "walk" /\ adapter = "novofon" /\ WalksOver(m) /\ DOMAIN walk = ToSet(plan)
        /\ ToSet(plan) \subseteq Scopes \cup {0}
      BY <1>2, <1>10 DEF MergeNovofon
  <2>2. warned' = warned
      BY <1>10 DEF MergeNovofon
  <2>3. CASE ~AddsUp
    <3>1. Fail /\ Merged("novofon")
        BY <1>10, <2>3 DEF MergeNovofon
    <3> QED
        BY <1>3, <2>2, <3>1
  <2>4. DOMAIN walk = IF expected = Unknown THEN {0} ELSE Listed
      BY <1>0, <2>1 DEF PlanInv
  <2>5. AddsUp /\ ~blind /\ ~warned =>
          LET L == NotLate(DataPart) \ ReadNumbers IN IsFiniteSet(L) /\ Cardinality(L) <= moves
      BY <1>0, <2>1, <2>4, NovofonTogether
  <2>6. CASE AddsUp /\ ~key
    <3>1. Accept(ReadNumbers)
        BY <1>10, <2>6 DEF MergeNovofon
    <3>2. Takings /\ out'[slice].warned = warned
        BY <1>4, <3>1
    <3>3. OverInv'
        BY <1>0, <2>1, <2>5, <2>6, <3>2, TakingsShort
    <3>4. stage' = "over"
        BY <3>2 DEF Takings
    <3>5. BudgetInv' /\ PhaseInv'
        BY <1>0, <2>1, <3>3, <3>4, AcceptShort
    <3> QED
        BY <1>0, <2>1, <2>2, <3>5
  <2>7. CASE AddsUp /\ key
    <3>1. stage' = "shop"
        BY <1>10, <2>7 DEF MergeNovofon
    <3>2. call = 0 /\ sold = {}
        BY <1>0, <2>1 DEF PhaseInv, CallsInv
    <3>3. BudgetInv'
        BY <1>0, <2>1, <3>1, NoWalk
    <3>4. \A s : Stock(s)' = Stock(s)
        BY <2>1, SteadyFacts
    <3>5. adapter' = adapter /\ shop' = shop /\ moves' = moves
        BY <2>1, SteadyFacts
    <3>6. DataPart' = DataPart /\ ReadNumbers' = ReadNumbers
        BY <2>1, <3>4 DEF DataPart, ReadNumbers
    <3>7. NotLate(DataPart)' = NotLate(DataPart)
        BY <3>6 DEF NotLate
    <3>8. Earlier' = {}
      <4>1. call' = 0
          BY <2>1, <3>2
      <4>2. \A c \in 2..(Len(shop') + 1) : ~(c < call')
          BY <4>1
      <4> QED
          BY <4>2 DEF Earlier
    <3>9. Calls' \in Nat /\ Calls' > 0
      <4>1. Len(shop) \in Nat
          BY <1>0 DEF ShopType
      <4>2. Calls' = 1 \/ Calls' = 2 + Len(shop)
          BY <3>5 DEF Calls
      <4> QED
          BY <4>1, <4>2
    <3>10. ShopInv'
      <4>1. call' \in Nat /\ call' < Calls' /\ sold' = Earlier'
          BY <2>1, <3>2, <3>8, <3>9
      <4>2. ~blind' /\ ~warned' => LET L == NotLate(DataPart)' \ ReadNumbers'
                                    IN IsFiniteSet(L) /\ Cardinality(L) <= moves'
          BY <2>1, <2>2, <2>5, <2>7, <3>5, <3>6, <3>7
      <4> QED
          BY <4>1, <4>2 DEF ShopInv
    <3>11. PlanInv'
      <4>1. \A s \in DOMAIN walk : WalkType(walk[s])
          BY <2>1 DEF WalksOver
      <4>2. \A s \in DOMAIN walk' : WalkType(walk[s])'
        <5>1. named' = named /\ adapter' = adapter /\ walk' = walk
            BY <2>1, SteadyFacts
        <5> QED
            BY <4>1, <5>1 DEF WalkType, Summed
      <4>3. DOMAIN walk \subseteq {0} \/ DOMAIN walk \subseteq Scopes
          BY <2>1 DEF WalksOver
      <4> QED
          BY <2>1, <2>4, <3>1, <3>5, <4>2, <4>3 DEF PlanInv
    <3>12. CallsInv' /\ OverInv'
        BY <3>1 DEF CallsInv, OverInv, Accepted
    <3>13. ExpectInv'
        BY <1>0, <2>1, SteadyExpect
    <3> QED
        BY <1>0, <2>1, <2>2, <3>3, <3>10, <3>11, <3>12, <3>13 DEF PhaseInv
  <2> QED
      BY <2>3, <2>6, <2>7
<1>11. CASE RegLoaded
  <2>1. /\ Steady /\ stage = "reg" /\ Pending = {} /\ kept' = [loaded |-> TRUE, keys |-> ReadNumbers, who |-> "nobody"]
        /\ UNCHANGED <<slice, expected, call, sold, blind, warned>>
      BY <1>11 DEF RegLoaded, Steady, budget, user
  <2>2. adapter = "finenumbers" /\ slice \in {"free", "purchased"}
      BY <1>0, <2>1 DEF FetchInv, StageInv
  <2>3. WalksOver(m) /\ DOMAIN walk = Listed
      BY <1>0, <1>1, <2>1, WalksAreOver DEF Walking, PlanInv
  <2>4. ~blind => /\ IsFiniteSet(ReadNumbers)
                  /\ Cardinality(NotLate(ReadNumbers) \ Regs) + m[Unlisted] <= moves
                  /\ IsFiniteSet(NotLate(Regs) \ ReadNumbers)
                  /\ Cardinality(NotLate(Regs) \ ReadNumbers) <= moves
      BY <2>2, <2>3, RegsTogether
  <2>5. kept'.keys = ReadNumbers
      BY <2>1
  <2>6. adapter' = adapter /\ moves' = moves /\ Regs' = Regs /\ Clean(m)'
      BY <1>1, <2>1, SteadyFacts
  <2>7. KeysInv(m)'
      BY <2>1, <2>4, <2>5, <2>6 DEF KeysInv, NotLate
  <2>8. ExpectInv' /\ CallsInv
      BY <1>0, <2>1, SteadyExpect DEF PhaseInv
  <2>9. CASE slice = "free"
    <3>1. Start(<<Unlisted>>)
        BY <1>11, <2>9 DEF RegLoaded
    <3>2. ToSet(plan') = {Unlisted} /\ walk' = [s \in {Unlisted} |-> Fresh] /\ stage' = "walk"
        BY <3>1, OneScope DEF Start
    <3>3. BudgetInv' /\ PhaseInv'
        BY <1>0, <1>1, <2>1, <2>2, <2>7, <2>8, <3>2, ScopeFacts, BeginShort
    <3> QED
        BY <1>0, <2>1, <3>3
  <2>10. CASE slice = "purchased"
    <3>1. Accept(ReadNumbers)
        BY <1>11, <2>10 DEF RegLoaded
    <3>2. out'[slice].rows = ReadNumbers /\ stage' = "over"
        BY <1>4, <3>1 DEF Takings
    <3>3. Missing' = NotLate(Regs) \ ReadNumbers
      <4>1. Promised' = Regs'
          BY <2>1, <2>2, <2>6, <2>10 DEF Promised, Regs
      <4> QED
          BY <2>1, <2>6, <3>2, <4>1 DEF Missing, NotLate
    <3>4. OverInv'
      <4> SUFFICES ASSUME ~blind' PROVE IsFiniteSet(Missing') /\ Cardinality(Missing') <= 2 * moves'
          BY <2>2, <2>6 DEF OverInv
      <4>1. IsFiniteSet(Missing') /\ Cardinality(Missing') <= moves
          BY <2>1, <2>4, <3>3
      <4>2. moves \in Nat /\ Cardinality(Missing') \in Nat
          BY <1>0, <4>1, LimitFacts, FS_CardinalityType DEF VendorType
      <4> QED
          BY <2>6, <4>1, <4>2
    <3>5. Walked(m)' /\ PlanInv' /\ CallsInv' /\ ShopInv'
        BY <3>2 DEF Walked, Walking, PlanInv, CallsInv, ShopInv
    <3>6. BudgetInv' /\ PhaseInv'
        BY <2>6, <2>7, <2>8, <3>4, <3>5 DEF BudgetInv, PhaseInv
    <3> QED
        BY <1>0, <2>1, <3>6
  <2> QED
      BY <2>2, <2>9, <2>10
<1>12. CASE MergeFinenumbers
  <2>1. /\ Steady /\ UNCHANGED <<slice, plan, walk, expected, kept, call, sold, blind>>
        /\ stage = "walk" /\ adapter = "finenumbers" /\ WalksOver(m) /\ DOMAIN walk = ToSet(plan)
      BY <1>2, <1>12 DEF MergeFinenumbers
  <2>2. warned' = warned
      BY <1>12 DEF MergeFinenumbers
  <2>3. slice = "free" /\ kept.loaded /\ DOMAIN walk = {Unlisted}
      BY <1>0, <2>1 DEF FetchInv, StageInv, PlanInv
  <2>4. Fail \/ Accept(Expanded(ReadNumbers) \ kept.keys)
      BY <1>12 DEF MergeFinenumbers
  <2>5. CASE Fail
      BY <1>3, <1>12, <2>2, <2>5 DEF MergeFinenumbers
  <2>6. CASE Accept(Expanded(ReadNumbers) \ kept.keys)
    <3> DEFINE rows == Expanded(ReadNumbers) \ kept.keys
               K == NotLate(kept.keys) \ Regs
               st == list[Unlisted]
               D == ToSet(st) \ ReadNumbers
               E == Expanded(D)
    <3>1. out'[slice].rows = rows /\ stage' = "over"
      <4> DEFINE o == [kind |-> "rows", rows |-> rows, warned |-> warned]
      <4>1. Over(o)
          BY <2>6 DEF Accept
      <4>2. o.rows = rows
          OBVIOUS
      <4> HIDE DEF o, rows
      <4> QED
          BY <1>0, <4>1, <4>2, AcceptFacts
    <3>2. Missing' \subseteq E \cup K
      <4>1. adapter' = adapter /\ list' = list /\ Regs' = Regs /\ slice' = slice
          BY <2>1, SteadyFacts
      <4>2. Promised' = Expanded(ToSet(st)) \ Regs
          BY <2>1, <2>3, <4>1 DEF Promised, Regs
      <4>3. Missing' = NotLate(Expanded(ToSet(st)) \ Regs) \ rows
          BY <3>1, <4>1, <4>2 DEF Missing, NotLate
      <4>4. Expanded(ToSet(st)) \subseteq Expanded(ReadNumbers) \cup E
          BY DEF Expanded
      <4> HIDE DEF E
      <4> QED
          BY <4>3, <4>4 DEF NotLate
    <3>3. ASSUME ~blind
          PROVE  /\ IsFiniteSet(K) /\ Cardinality(K) + m[Unlisted] <= moves
                 /\ IsFiniteSet(D) /\ Cardinality(D) <= m[Unlisted]
      <4>1. IsFiniteSet(kept.keys) /\ Cardinality(K) + m[Unlisted] <= moves
          BY <1>1, <2>1, <2>3, <3>3 DEF KeysInv
      <4>2. IsFiniteSet(K)
        <5>1. K \subseteq kept.keys
            BY DEF NotLate
        <5> QED
            BY <4>1, <5>1, FS_Subset
      <4>3. ReadNumbers = ToSet(walk[Unlisted].read) /\ Unlisted \in DOMAIN walk
          BY <2>3 DEF ReadNumbers
      <4>4. Stock(Unlisted) = st /\ Budget(m, Unlisted) = m[Unlisted]
          BY <1>0, ScopeFacts, StockFacts DEF Budget
      <4>5. ~Summed /\ ~Noticed
          BY <2>1 DEF Summed, Noticed
      <4>6. IsFiniteSet(D) /\ Cardinality(D) <= m[Unlisted]
          BY <2>1, <3>3, <4>3, <4>4, <4>5, OverFacts
      <4> QED
          BY <4>1, <4>2, <4>6
    <3>4. adapter' = adapter /\ moves' = moves /\ blind' = blind
        BY <2>1, SteadyFacts
    <3>5. moves \in Nat /\ m[Unlisted] \in Nat
        BY <1>0, <1>1, LimitFacts, ScopeFacts DEF VendorType, Clean
    <3> HIDE DEF K, D
    <3>6. OverInv'
      <4> SUFFICES ASSUME ~blind PROVE IsFiniteSet(Missing') /\ Cardinality(Missing') <= 2 * moves
          BY <2>1, <3>4 DEF OverInv
      <4>1. IsFiniteSet(E) /\ Cardinality(E) <= 2 * Cardinality(D) /\ IsFiniteSet(K)
          BY <3>3, ExpandedSize
      <4>2. Cardinality(E) \in Nat /\ Cardinality(D) \in Nat /\ Cardinality(K) \in Nat
          BY <3>3, <4>1, FS_CardinalityType
      <4> HIDE DEF E
      <4>3. /\ IsFiniteSet(E \cup K)
            /\ Cardinality(E \cup K) = Cardinality(E) + Cardinality(K) - Cardinality(E \cap K)
          BY <4>1, FS_Union
      <4>4. Cardinality(E \cap K) \in Nat
          BY <4>1, FS_Intersection, FS_CardinalityType
      <4>5. IsFiniteSet(Missing') /\ Cardinality(Missing') <= Cardinality(E \cup K) /\ Cardinality(Missing') \in Nat
          BY <3>2, <4>3, NotMore
      <4> DEFINE x == Cardinality(Missing')
      <4> HIDE DEF x
      <4>6. x <= 2 * moves
          BY <3>3, <3>5, <4>1, <4>2, <4>3, <4>4, <4>5 DEF x
      <4> QED
          BY <4>5, <4>6 DEF x
    <3>7. BudgetInv' /\ PhaseInv'
        BY <1>0, <2>1, <3>1, <3>6, AcceptShort
    <3> QED
        BY <1>0, <2>1, <2>2, <3>7
  <2> QED
      BY <2>4, <2>5, <2>6
<1> QED
    BY <1>6, <1>7, <1>8, <1>9, <1>10, <1>11, <1>12 DEF Merges

-----------------------------------------------------------------------------
(* Novofon's User API                                                      *)

\* The merge of the sources goes on.
LEMMA ShopStays ==
  ASSUME FetchInv, BudgetInv, PhaseInv, Steady, stage = "shop", stage' = "shop",
         UNCHANGED <<slice, plan, walk, expected, kept, warned>>, blind => blind', ShopInv'
  PROVE  BudgetInv' /\ PhaseInv'
<1>1. BudgetInv'
    BY NoWalk
<1>2. adapter' = adapter /\ named' = named
    BY SteadyFacts
<1>3. \A s \in DOMAIN walk : WalkType(walk[s])'
    BY <1>2 DEF PhaseInv, PlanInv, WalkType, Summed
<1>4. PlanInv'
    BY <1>2, <1>3 DEF PhaseInv, PlanInv
<1>5. ExpectInv'
    BY SteadyExpect DEF PhaseInv
<1>6. CallsInv' /\ OverInv'
    BY DEF CallsInv, OverInv, Accepted
<1> QED
    BY <1>1, <1>4, <1>5, <1>6 DEF PhaseInv

\* What a call in the shop leaves to be read by key.
LEMMA ShopFacts ==
  ASSUME Steady, UNCHANGED <<slice, plan, walk>>
  PROVE  /\ adapter' = adapter /\ moves' = moves /\ shop' = shop /\ slice' = slice
         /\ NotLate(DataPart)' = NotLate(DataPart) /\ ReadNumbers' = ReadNumbers
         /\ Calls' = Calls
<1>1. /\ adapter' = adapter /\ moves' = moves /\ shop' = shop
      /\ \A s : Stock(s)' = Stock(s)
    BY SteadyFacts
<1>2. DataPart' = DataPart /\ ReadNumbers' = ReadNumbers
    BY <1>1 DEF DataPart, ReadNumbers
<1>3. NotLate(DataPart)' = NotLate(DataPart)
    BY <1>2 DEF NotLate
<1>4. Calls' = Calls
    BY <1>1 DEF Calls
<1> QED
    BY <1>1, <1>2, <1>3, <1>4

LEMMA CallsFacts ==
  ASSUME ShopType, FetchInv, call \in Nat, call < Calls, call' = call + 1, UNCHANGED <<slice, shop>>
  PROVE  /\ Calls \in Nat /\ call' \in Nat /\ (call' # Calls => call' < Calls /\ slice = "free")
         /\ slice = "free" => Earlier' = Earlier \cup Listing
         /\ call' = Calls => UNION Directions = IF slice = "purchased" THEN Listing ELSE Earlier'
<1>1. Len(shop) \in Nat /\ DOMAIN shop = 1..Len(shop) /\ (shop = <<>> => Len(shop) = 0)
    BY DEF ShopType
<1>2. slice \in {"free", "purchased"}
    BY DEF FetchInv, StageInv
<1>3. Calls = IF slice = "purchased" \/ shop = <<>> THEN 1 ELSE 2 + Len(shop)
    BY DEF Calls
<1>4. Calls \in Nat /\ call' \in Nat /\ (call' # Calls => call' < Calls /\ slice = "free")
    BY <1>1, <1>2, <1>3
<1>5. CASE slice = "purchased"
    BY <1>4, <1>5 DEF Listing
<1>6. CASE slice = "free"
  <2> DEFINE C == {c \in 2..(Len(shop) + 1) : c < call}
             D == {c \in 2..(Len(shop) + 1) : c < call + 1}
  <2>1. Earlier = UNION {shop[c - 1] : c \in C} /\ Earlier' = UNION {shop[c - 1] : c \in D}
      BY <1>6 DEF Earlier
  <2>2. call <= Len(shop) + 1
      BY <1>1, <1>3, <1>6
  <2>3. D = (IF call >= 2 THEN C \cup {call} ELSE {}) /\ (call < 2 => C = {})
      BY <1>1, <2>2
  <2>4. Listing = IF call >= 2 THEN shop[call - 1] ELSE {}
      BY <1>6 DEF Listing
  <2> HIDE DEF C, D
  <2>5. Earlier' = Earlier \cup Listing
    <3>1. CASE call >= 2
      <4>1. D = C \cup {call} /\ Listing = shop[call - 1]
          BY <2>3, <2>4, <3>1
      <4> QED
          BY <2>1, <4>1
    <3>2. CASE call < 2
      <4>1. D = {} /\ C = {} /\ Listing = {}
          BY <2>3, <2>4, <3>2
      <4> QED
          BY <2>1, <4>1
    <3> QED
        BY <3>1, <3>2
  <2>6. ASSUME call' = Calls PROVE UNION Directions = Earlier'
    <3>1. CASE shop = <<>>
      <4>1. Directions = {}
          BY <1>1, <3>1 DEF Directions, ToSet
      <4>2. D = {}
          BY <1>1, <3>1 DEF D
      <4> QED
          BY <2>1, <4>1, <4>2
    <3>2. CASE shop # <<>>
      <4>1. call = Len(shop) + 1
          BY <1>1, <1>3, <1>6, <2>6, <3>2
      <4>2. D = 2..(Len(shop) + 1)
          BY <1>1, <4>1 DEF D
      <4>3. Directions = {shop[i] : i \in 1..Len(shop)}
          BY <1>1 DEF Directions, ToSet
      <4>4. {shop[c - 1] : c \in D} = Directions
        <5>1. \A c \in D : c - 1 \in 1..Len(shop)
            BY <1>1, <4>2
        <5>2. \A i \in 1..Len(shop) : i + 1 \in D /\ (i + 1) - 1 = i
            BY <1>1, <4>2
        <5> QED
            BY <4>3, <5>1, <5>2
      <4> QED
          BY <2>1, <4>4
    <3> QED
        BY <3>1, <3>2
  <2> QED
      BY <1>4, <1>6, <2>5, <2>6
<1> QED
    BY <1>2, <1>5, <1>6

LEMMA ShopRefuses ==
  ASSUME ShortInv, Refuse, Steady, UNCHANGED <<slice, kept, expected>>, blind => blind'
  PROVE  BudgetInv' /\ PhaseInv'
<1>1. FetchInv /\ BudgetInv /\ PhaseInv
    BY DEF ShortInv
<1>2. NoRows
    BY FailIsNoRows
<1> QED
    BY <1>1, <1>2, NoRowsShort

\* Both sources are merged: what the merge lacks, the Data API's list lacked.
LEMMA BothShort ==
  ASSUME ShortInv, stage = "shop", Steady, UNCHANGED <<slice, plan, walk, expected, kept, warned>>,
         blind => blind', Accept(Combined),
         ~blind' => UNION Directions \subseteq sold'
  PROVE  BudgetInv' /\ PhaseInv'
<1>1. FetchInv /\ BudgetInv /\ PhaseInv /\ ShopInv /\ adapter = "novofon"
    BY DEF ShortInv, PhaseInv, FetchInv, StageInv
<1>2. /\ adapter' = adapter /\ moves' = moves /\ shop' = shop /\ key' = key /\ plan' = plan
      /\ \A s : Stock(s)' = Stock(s)
    BY SteadyFacts
<1>3. out'[slice].rows = Combined /\ out'[slice].warned = warned /\ stage' = "over"
  <2> DEFINE o == [kind |-> "rows", rows |-> Combined, warned |-> warned]
  <2>1. Over(o)
      BY DEF Accept
  <2>2. o.rows = Combined /\ o.warned = warned
      OBVIOUS
  <2> HIDE DEF o
  <2> QED
      BY <1>1, <2>1, <2>2, AcceptFacts
<1>4. Promised' \subseteq DataPart \cup UNION Directions
  <2>1. Promised' = (UNION {ToSet(Stock(s)) : s \in ToSet(plan)})
                    \cup ToSet(Stock(0)) \cup (IF key THEN UNION Directions ELSE {})
      BY <1>1, <1>2, <1>3 DEF Promised, Directions
  <2> QED
      BY <2>1 DEF DataPart
<1>5. ~blind' => Missing' \subseteq NotLate(DataPart) \ ReadNumbers
  <2>1. Missing' = NotLate(Promised') \ (ReadNumbers \cup sold')
      BY <1>3 DEF Missing, NotLate, Combined
  <2> QED
      BY <1>4, <2>1 DEF NotLate
<1>6. OverInv'
  <2>0. ToSet(plan) \subseteq Scopes \cup {0}
      BY <1>1 DEF PhaseInv, PlanInv
  <2> SUFFICES ASSUME ~blind', ~warned
               PROVE  IsFiniteSet(Missing') /\ Cardinality(Missing') <= moves
      BY <1>1, <1>2, <1>3, <2>0 DEF OverInv
  <2> DEFINE L == NotLate(DataPart) \ ReadNumbers
  <2>1. IsFiniteSet(L) /\ Cardinality(L) <= moves
      BY <1>1 DEF ShopInv
  <2>2. Missing' \subseteq L
      BY <1>5
  <2> HIDE DEF L
  <2>3. IsFiniteSet(Missing') /\ Cardinality(Missing') \in Nat /\ Cardinality(L) \in Nat
        /\ Cardinality(Missing') <= Cardinality(L)
      BY <2>1, <2>2, NotMore
  <2>4. moves \in Nat
      BY LimitFacts DEF ShortInv, VendorInv, VendorType
  <2> QED
      BY <2>1, <2>3, <2>4
<1> QED
    BY <1>1, <1>3, <1>6, AcceptShort

LEMMA AnswersShort ==
  ASSUME ShortInv, UserAnswers
  PROVE  BudgetInv' /\ PhaseInv' /\ Steady /\ warned' = warned /\ blind' \in BOOLEAN
<1>0. /\ FetchInv /\ BudgetInv /\ PhaseInv /\ ShopType /\ blind \in BOOLEAN /\ stage = "shop" /\ ShopInv
      /\ call \in Nat /\ call < Calls
    BY DEF ShortInv, VendorInv, VendorType, UserAnswers, Asks, PhaseInv, ShopInv
<1>1. Steady /\ UNCHANGED <<slice, plan, walk, expected, kept, warned>>
    BY DEF UserAnswers, Steady
<1>2. PICK heard \in SUBSET Listing :
        /\ blind' = (blind \/ (heard # Listing /\ ~(named /\ slice = "purchased")))
        /\ IF Repeated \/ (CountsCabinet /\ heard # Listing) THEN Refuse /\ UNCHANGED <<call, sold>>
           ELSE /\ call' = call + 1 /\ sold' = sold \cup heard
                /\ IF call' = Calls THEN Accept(Combined) ELSE UNCHANGED <<stage, out>>
    BY DEF UserAnswers
<1>3. blind' \in BOOLEAN /\ (blind => blind')
    BY <1>0, <1>2
<1>4. CASE Refuse
    BY <1>1, <1>3, <1>4, ShopRefuses
<1>5. CASE ~Refuse
  <2>1. /\ ~(CountsCabinet /\ heard # Listing) /\ call' = call + 1 /\ sold' = sold \cup heard
        /\ IF call' = Calls THEN Accept(Combined) ELSE UNCHANGED <<stage, out>>
      BY <1>2, <1>5
  <2>2. ~blind' => ~blind /\ heard = Listing
      BY <1>2, <2>1 DEF CountsCabinet
  <2>3. /\ moves' = moves /\ shop' = shop /\ slice' = slice /\ Calls' = Calls
        /\ NotLate(DataPart)' = NotLate(DataPart) /\ ReadNumbers' = ReadNumbers
      BY <1>1, ShopFacts
  <2>4. /\ Calls \in Nat /\ call' \in Nat /\ (call' # Calls => call' < Calls /\ slice = "free")
        /\ slice = "free" => Earlier' = Earlier \cup Listing
        /\ call' = Calls => UNION Directions = IF slice = "purchased" THEN Listing ELSE Earlier'
      BY <1>0, <2>1, <2>3, CallsFacts
  <2>5. ~blind' => sold' = Earlier \cup Listing
      BY <1>0, <2>1, <2>2 DEF ShopInv
  <2>6. CASE call' = Calls
    <3>1. ~blind' => UNION Directions \subseteq sold'
      <4>1. slice \in {"free", "purchased"}
          BY <1>0 DEF FetchInv, StageInv
      <4> QED
          BY <2>4, <2>5, <2>6, <4>1
    <3> QED
        BY <1>0, <1>1, <1>3, <2>1, <2>6, <3>1, BothShort
  <2>7. CASE call' # Calls
    <3>1. stage' = "shop"
        BY <1>0, <2>1, <2>7
    <3>2. call' < Calls' /\ (~blind' => sold' = Earlier')
        BY <2>3, <2>4, <2>5, <2>7
    <3>3. ShopInv'
      <4> DEFINE L == NotLate(DataPart) \ ReadNumbers
                 fine == IsFiniteSet(L) /\ Cardinality(L) <= moves
      <4>1. ~blind' => warned \/ fine
          BY <1>0, <2>2 DEF ShopInv
      <4>2. fine' = fine
          BY <2>3
      <4>3. ~blind' => warned' \/ fine'
          BY <1>1, <4>1, <4>2
      <4> QED
          BY <2>4, <3>2, <4>3 DEF ShopInv
    <3> QED
        BY <1>0, <1>1, <1>3, <3>1, <3>3, ShopStays
  <2> QED
      BY <2>6, <2>7
<1> QED
    BY <1>1, <1>3, <1>4, <1>5

\* Waits, repeats and refusals of the User API.
LEMMA ShopWaits ==
  ASSUME ShortInv, stage = "shop", Steady,
         UNCHANGED <<slice, plan, walk, expected, kept, warned, call, sold, blind>>,
         UNCHANGED stage \/ Refuse
  PROVE  BudgetInv' /\ PhaseInv'
<1>1. FetchInv /\ BudgetInv /\ PhaseInv /\ ShopInv
    BY DEF ShortInv, PhaseInv
<1>2. CASE Refuse
    BY <1>2, ShopRefuses
<1>3. CASE UNCHANGED stage
  <2>1. /\ moves' = moves /\ shop' = shop /\ Calls' = Calls
        /\ NotLate(DataPart)' = NotLate(DataPart) /\ ReadNumbers' = ReadNumbers
      BY ShopFacts
  <2>2. Earlier' = Earlier
      BY <2>1 DEF Earlier
  <2>3. ShopInv'
      BY <1>1, <1>3, <2>1, <2>2 DEF ShopInv
  <2> QED
      BY <1>1, <1>3, <2>3, ShopStays
<1> QED
    BY <1>2, <1>3

LEMMA WaitsShort ==
  ASSUME ShortInv, AwaitReset \/ UserBreaks
  PROVE  BudgetInv' /\ PhaseInv' /\ Steady /\ warned' = warned /\ blind' = blind
<1>1. /\ stage = "shop" /\ Steady
      /\ UNCHANGED <<slice, plan, walk, expected, kept, warned, call, sold, blind>>
    BY DEF AwaitReset, UserBreaks, Asks, Steady, budget
<1>2. UNCHANGED stage \/ Refuse
    BY DEF AwaitReset, UserBreaks
<1> QED
    BY <1>1, <1>2, ShopWaits

-----------------------------------------------------------------------------
(* The other steps that leave the vendor                                   *)

LEMMA NextShort ==
  ASSUME ShortInv, NextSlice
  PROVE  BudgetInv' /\ PhaseInv' /\ Steady /\ warned' \in BOOLEAN /\ blind' \in BOOLEAN
<1>1. BudgetInv /\ blind \in BOOLEAN
    BY DEF ShortInv, VendorInv, VendorType
<1>2. /\ Steady /\ stage' = "open" /\ UNCHANGED kept /\ blind' = (blind /\ adapter = "finenumbers")
      /\ expected' = Unknown /\ call' = 0 /\ sold' = {} /\ warned' = FALSE
    BY DEF NextSlice, Steady, budget
<1>3. blind' \in BOOLEAN /\ (blind => blind' \/ adapter # "finenumbers")
    BY <1>1, <1>2
<1>4. BudgetInv' /\ PhaseInv'
    BY <1>1, <1>2, <1>3, OpenShort
<1> QED
    BY <1>2, <1>3, <1>4

LEMMA BreakShort ==
  ASSUME ShortInv, BreakOpen
  PROVE  BudgetInv' /\ PhaseInv' /\ Steady /\ warned' = warned /\ blind' = blind
<1>1. FetchInv /\ BudgetInv /\ PhaseInv
    BY DEF ShortInv
<1>2. Steady /\ UNCHANGED <<slice, kept, expected, warned, blind>> /\ Fail
    BY DEF BreakOpen, Steady
<1>3. NoRows
    BY <1>2, FailIsNoRows
<1>4. BudgetInv' /\ PhaseInv'
    BY <1>1, <1>2, <1>3, NoRowsShort
<1> QED
    BY <1>2, <1>4

LEMMA SteadyShort ==
  ASSUME ShortInv, Next, ~Moves
  PROVE  BudgetInv' /\ PhaseInv' /\ VendorInv'
<1>1. VendorInv /\ warned \in BOOLEAN /\ blind \in BOOLEAN
    BY DEF ShortInv, VendorInv, VendorType
<1>2. BudgetInv' /\ PhaseInv' /\ Steady /\ warned' \in BOOLEAN /\ blind' \in BOOLEAN
  <2>1. CASE Plans
      BY <1>1, <2>1, PlansShort
  <2>2. CASE Merges
      BY <1>1, <2>2, MergesShort
  <2>3. CASE UserAnswers
      BY <1>1, <2>3, AnswersShort
  <2>4. CASE AwaitReset \/ UserBreaks
      BY <1>1, <2>4, WaitsShort
  <2>5. CASE NextSlice
      BY <2>5, NextShort
  <2>6. CASE BreakOpen
      BY <1>1, <2>6, BreakShort
  <2>7. CASE \E s \in Running : ReadPage(s)
    <3>1. PICK s \in Running : ReadPage(s)
        BY <2>7
    <3> QED
        BY <3>1, ReadShort
  <2>8. CASE \E s \in Running : Stumble(s)
    <3>1. PICK s \in Running : Stumble(s)
        BY <2>8
    <3> QED
        BY <3>1, StumbleShort
  <2> QED
      BY <2>1, <2>2, <2>3, <2>4, <2>5, <2>6, <2>7, <2>8 DEF Next, Reads, Faults, Shopping
<1>3. VendorInv'
    BY <1>1, <1>2, SteadyVendor
<1> QED
    BY <1>2, <1>3

-----------------------------------------------------------------------------
(* The vendor's moves                                                      *)

MovesFacts(k) ==
  /\ k \in Scopes /\ Shifting(k)
  /\ UNCHANGED <<vendor, slice, stage, plan, walk, expected, kept, user, warned, out, blind>>
  /\ moves' = moves + 1 /\ moves < MaxMoves

\* What moves at all is the list of k and the whole list.
LEMMA MovesOne ==
  ASSUME VendorType, Moves
  PROVE  \E k : MovesFacts(k)
<1>1. PICK k \in Scopes : Shifting(k)
    BY MovesShift
<1>2. MovesFacts(k)
    BY <1>1 DEF Moves, MovesFacts
<1> QED
    BY <1>2

LEMMA MoveFacts ==
  ASSUME VendorType, NEW k, MovesFacts(k)
  PROVE  /\ moves \in Nat /\ moves' = moves + 1 /\ moves' \in 0..MaxMoves
         /\ adapter' = adapter /\ named' = named /\ key' = key /\ shop' = shop
         /\ \A s \in Scopes \cup {0} :
              /\ Stock(s) \in Seq(Nat) /\ Stock(s)' \in Seq(Nat) /\ Shifts(Stock(s), Stock(s)')
              /\ NotLate(ToSet(Stock(s)))' \subseteq NotLate(ToSet(Stock(s)))
         /\ \A s \in Scopes : s # k => Stock(s)' = Stock(s)
<1>1. moves \in Nat /\ moves' = moves + 1 /\ moves' \in 0..MaxMoves
    BY LimitFacts DEF VendorType, MovesFacts
<1>2. adapter' = adapter /\ named' = named /\ key' = key /\ shop' = shop
    BY DEF MovesFacts, vendor
<1>3. \A s \in Scopes \cup {0} : Stock(s) \in Seq(Nat) /\ Shifts(Stock(s), Stock(s)')
    BY StockFacts DEF MovesFacts, Shifting
<1>4. \A s \in Scopes \cup {0} : Stock(s)' \in Seq(Nat)
    BY <1>3, ShiftTypes
<1>5. \A s \in Scopes \cup {0} : NotLate(ToSet(Stock(s)'))\subseteq NotLate(ToSet(Stock(s)))
    BY <1>3, ShiftSets
<1>6. \A s \in Scopes : Stock(s) = list[s] /\ Stock(s)' = list'[s]
    BY ScopeFacts DEF Stock
<1>7. \A s \in Scopes : s # k => Stock(s)' = Stock(s)
    BY <1>6 DEF MovesFacts, Shifting
<1> QED
    BY <1>1, <1>2, <1>3, <1>4, <1>5, <1>7 DEF NotLate

LEMMA MoveVendor ==
  ASSUME VendorInv, NEW k, MovesFacts(k)
  PROVE  VendorInv'
<1>0. VendorType
    BY DEF VendorInv
<1>1. /\ moves \in Nat /\ moves' = moves + 1 /\ moves' \in 0..MaxMoves
      /\ adapter' = adapter /\ named' = named /\ key' = key /\ shop' = shop
    BY <1>0, MoveFacts
<1>2. VendorType'
    BY <1>0, <1>1 DEF VendorType, MovesFacts, Shifting
<1>3. RoomInv'
  <2>1. Stock(0) \in Seq(Nat) /\ Shifts(Stock(0), Stock(0)')
      BY <1>0, MoveFacts
  <2>2. Len(Stock(0)') <= Len(Stock(0)) + 1 /\ Stock(0)' \in Seq(Nat)
      BY <2>1, ShiftTypes
  <2>3. Len(Stock(0)') \in Nat /\ Len(Stock(0)) \in Nat
      BY <2>1, <2>2
  <2>4. MaxPage * Limit \in Nat /\ MaxMoves \in Nat
      BY LimitFacts, MulMono
  <2> DEFINE x == Len(Stock(0)')
             y == Len(Stock(0))
             c == MaxPage * Limit
  <2>5. adapter = "runexis" => y + MaxMoves <= c + moves
      BY DEF VendorInv, RoomInv
  <2>6. RoomInv' = (adapter = "runexis" => x + MaxMoves <= c + moves')
      BY <1>1 DEF RoomInv
  <2> HIDE DEF x, y, c
  <2>7. adapter = "runexis" => x + MaxMoves <= c + moves'
      BY <1>1, <2>2, <2>3, <2>4, <2>5 DEF x, y, c
  <2> QED
      BY <2>6, <2>7
<1>4. ApartInv'
  <2>1. \A s \in Scopes : list[s] \in Seq(Nat) /\ Shifts(list[s], list'[s])
      BY DEF MovesFacts, Shifting
  <2>2. \A s \in Scopes : NotLate(ToSet(list'[s])) \subseteq NotLate(ToSet(list[s]))
      BY <2>1, ShiftSets
  <2>3. \A s \in Scopes : NotLate(ToSet(list[s]))' \subseteq NotLate(ToSet(list[s]))
      BY <2>2 DEF NotLate
  <2>4. ApartInv
      BY DEF VendorInv
  <2> QED
      BY <1>1, <2>3, <2>4 DEF ApartInv
<1>5. ShopType'
    BY <1>1 DEF VendorInv, ShopType
<1> QED
    BY <1>2, <1>3, <1>4, <1>5 DEF VendorInv

\* REG numbers leave and come.
LEMMA MoveRegs ==
  ASSUME VendorType, NEW k, MovesFacts(k)
  PROVE  /\ IsFiniteSet(Regs) /\ NotLate(Regs') \subseteq NotLate(Regs)
         /\ \E x : NotLate(Regs) \subseteq NotLate(Regs') \cup {x}
         /\ k = Unlisted => Regs' = Regs
<1>1. /\ list \in [Scopes -> Seq(Nat)] /\ list' \in [Scopes -> Seq(Nat)]
      /\ Listed \subseteq Scopes /\ k \in Scopes /\ Unlisted \notin Listed
    BY ScopeFacts DEF VendorType, MovesFacts, Shifting
<1>2. Regs = UNION {ToSet(list[s]) : s \in Listed} /\ IsFiniteSet(Regs)
  <2>1. Pooled(list, Listed) \in Seq(Nat) /\ ToSet(Pooled(list, Listed)) = UNION {ToSet(list[s]) : s \in Listed}
      BY <1>1, PooledSet
  <2> QED
      BY <2>1, SetOf DEF Regs, Concat
<1>3. Regs' = UNION {ToSet(list'[s]) : s \in Listed}
  <2>1. ToSet(Pooled(list', Listed)) = UNION {ToSet(list'[s]) : s \in Listed}
      BY <1>1, PooledSet
  <2> QED
      BY <2>1 DEF Regs, Concat
<1>4. \A s \in Listed : s # k => list'[s] = list[s]
    BY <1>1 DEF MovesFacts, Shifting
<1>5. list[k] \in Seq(Nat) /\ Shifts(list[k], list'[k])
    BY <1>1 DEF MovesFacts, Shifting
<1>6. NotLate(ToSet(list'[k])) \subseteq NotLate(ToSet(list[k]))
    BY <1>5, ShiftSets
<1>7. PICK x : NotLate(ToSet(list[k])) \subseteq NotLate(ToSet(list'[k])) \cup {x}
  <2>1. 0 \in Nat
      OBVIOUS
  <2> QED
      BY <1>5, <2>1, ShiftSets
<1>8. ASSUME NEW n, n \in NotLate(Regs') PROVE n \in NotLate(Regs)
  <2>1. PICK s \in Listed : n \in ToSet(list'[s]) /\ n \notin ToSet(Late)
      BY <1>3, <1>8 DEF NotLate
  <2>2. n \in ToSet(list[s])
    <3>1. CASE s = k
        BY <1>6, <2>1, <3>1 DEF NotLate
    <3>2. CASE s # k
        BY <1>4, <2>1, <3>2
    <3> QED
        BY <3>1, <3>2
  <2> QED
      BY <1>2, <2>1, <2>2 DEF NotLate
<1>9. ASSUME NEW n, n \in NotLate(Regs), n # x PROVE n \in NotLate(Regs')
  <2>1. PICK s \in Listed : n \in ToSet(list[s]) /\ n \notin ToSet(Late)
      BY <1>2, <1>9 DEF NotLate
  <2>2. n \in ToSet(list'[s])
    <3>1. CASE s = k
        BY <1>7, <1>9, <2>1, <3>1 DEF NotLate
    <3>2. CASE s # k
        BY <1>4, <2>1, <3>2
    <3> QED
        BY <3>1, <3>2
  <2> QED
      BY <1>3, <2>1, <2>2 DEF NotLate
<1>10. k = Unlisted => Regs' = Regs
    BY <1>1, <1>2, <1>3, <1>4
<1> QED
    BY <1>2, <1>8, <1>9, <1>10

More(m, k) == [m EXCEPT ![k] = @ + 1]

LEMMA MoreFacts ==
  ASSUME VendorType, NEW k, MovesFacts(k), NEW m, Clean(m)
  PROVE  /\ More(m, k) \in [0..Top -> Nat] /\ More(m, k)[k] = m[k] + 1 /\ k \in 0..Top /\ k # 0
         /\ \A s \in 0..Top : s # k => More(m, k)[s] = m[s]
         /\ \A s \in Scopes \cup {0} :
              Budget(More(m, k), s)' = IF s \in {0, k} THEN Budget(m, s) + 1 ELSE Budget(m, s)
         /\ SumUp(More(m, k)) = SumUp(m) + 1
<1>1. m \in [0..Top -> Nat] /\ k \in 0..Top /\ k # 0 /\ moves' = moves + 1 /\ Scopes \subseteq 0..Top
    BY ScopeFacts DEF Clean, MovesFacts
<1>2. /\ More(m, k) \in [0..Top -> Nat] /\ More(m, k)[k] = m[k] + 1
      /\ \A s \in 0..Top : s # k => More(m, k)[s] = m[s]
    BY <1>1 DEF More
<1>3. SumUp(More(m, k)) = SumUp(m) + 1
  <2>1. m \in [0..Top -> Int]
      BY <1>1
  <2>2. \A d \in Int : SumUp([m EXCEPT ![k] = @ + d]) = SumUp(m) + d
      BY <1>1, <2>1, SumMore
  <2> QED
      BY <2>2 DEF More
<1>4. \A s \in Scopes \cup {0} :
        Budget(More(m, k), s)' = IF s \in {0, k} THEN Budget(m, s) + 1 ELSE Budget(m, s)
  <2>1. \A s : Budget(m, s) = IF s = 0 THEN moves ELSE m[s]
      BY DEF Budget
  <2>2. \A s : Budget(More(m, k), s)' = IF s = 0 THEN moves' ELSE More(m, k)[s]
      BY DEF Budget
  <2> QED
      BY <1>1, <1>2, <2>1, <2>2
<1> QED
    BY <1>1, <1>2, <1>3, <1>4

LEMMA MoveClean ==
  ASSUME VendorType, NEW k, MovesFacts(k), NEW m, Clean(m)
  PROVE  Clean(More(m, k))'
<1> DEFINE n == More(m, k)
<1>1. n \in [0..Top -> Nat] /\ SumUp(n) = moves' /\ adapter' = adapter
    BY MoreFacts, MoveFacts DEF Clean
<1>2. ASSUME adapter \in Counting, NEW s \in Scopes \cup {0}
      PROVE  Excess(Stock(s)', <<>>, 0) <= Budget(n, s)'
  <2>1. Excess(Stock(s), <<>>, 0) <= Budget(m, s) /\ Budget(m, s) \in Nat
      BY <1>2, BudgetNat DEF Clean
  <2>2. /\ Stock(s) \in Seq(Nat) /\ Stock(s)' \in Seq(Nat) /\ Shifts(Stock(s), Stock(s)')
        /\ <<>> \in Seq(Nat) /\ 0 \in Nat
      BY MoveFacts
  <2>3. Excess(Stock(s)', <<>>, 0) <= Excess(Stock(s), <<>>, 0) + 1
      BY <2>2, ShiftExcess
  <2>4. Excess(Stock(s), <<>>, 0) \in Int /\ Excess(Stock(s)', <<>>, 0) \in Int
      BY <2>2, WalkFinite
  <2>5. Budget(n, s)' = IF s \in {0, k} THEN Budget(m, s) + 1 ELSE Budget(m, s)
      BY MoreFacts
  <2> HIDE DEF n
  <2>6. CASE s \in {0, k}
      BY <2>1, <2>3, <2>4, <2>5, <2>6
  <2>7. CASE s \notin {0, k}
    <3>1. Stock(s)' = Stock(s)
        BY <2>7, MoveFacts
    <3> QED
        BY <2>1, <2>5, <2>7, <3>1
  <2> QED
      BY <2>6, <2>7
<1>3. \A s : Excess(Stock(s), <<>>, 0)' = Excess(Stock(s)', <<>>, 0)
    BY DEF Excess, Left, NotLate
<1> HIDE DEF n
<1> QED
    BY <1>1, <1>2, <1>3 DEF Clean, n

LEMMA MoveWalk ==
  ASSUME VendorType, NEW k, MovesFacts(k), NEW m, Clean(m), NEW s \in Scopes \cup {0},
         WalkType(walk[s]), WalkInv(s, Budget(m, s))
  PROVE  WalkInv(s, Budget(More(m, k), s))'
<1> DEFINE st == Stock(s)
           new == Stock(s)'
           r == walk[s].read
           t == walk[s].total
           a == Passed(walk[s])
           c == Budget(More(m, k), s)'
           counts == adapter \in Counting
           all == adapter = "finenumbers"
           whole == WholeSoFar
           told == Told(walk[s])
<1>1. PICK b \in Nat : b = Budget(m, s)
    BY BudgetNat
<1>2. st \in Seq(Nat) /\ Shifts(st, new) /\ (s # 0 /\ s # k => new = st)
    BY MoveFacts
<1>3. r \in Seq(Nat) /\ t \in Nat \cup {Unknown} /\ a \in Nat
  <2>1. r \in Seq(Nat) /\ t \in Nat \cup {Unknown} /\ walk[s].pos \in Nat
      BY DEF WalkType
  <2>2. a \in Nat
      BY <2>1, LimitFacts, MulMono DEF Passed
  <2> QED
      BY <2>1, <2>2
<1>4. Held(st, r, t, a, b, counts, whole, told, all)
    BY <1>1 DEF WalkInv
<1>5. c = IF s \in {0, k} THEN b + 1 ELSE b
    BY <1>1, MoreFacts
<1>6. /\ walk' = walk /\ adapter' = adapter /\ Passed(walk[s])' = a /\ WholeSoFar' = whole
      /\ Told(walk[s])' = told
  <2>1. walk' = walk /\ adapter' = adapter /\ named' = named /\ UNCHANGED <<expected, stage, blind, warned>>
      BY MoveFacts DEF MovesFacts
  <2>2. Rule' = Rule
      BY <2>1, RuleStays
  <2> QED
      BY <2>1, <2>2 DEF Passed, WholeSoFar, Told, Summed, Noticed
<1>7. WalkInv(s, Budget(More(m, k), s))' =
        Held(Stock(s)', walk'[s].read, walk'[s].total, Passed(walk[s])',
             c, adapter' \in Counting, WholeSoFar', Told(walk[s])', adapter' = "finenumbers")
    BY DEF WalkInv
<1>8. WalkInv(s, Budget(More(m, k), s))' = Held(new, r, t, a, c, counts, whole, told, all)
    BY <1>6, <1>7
<1> HIDE DEF st, new, r, t, a, c, counts, all, whole, told
<1>9. Held(new, r, t, a, c, counts, whole, told, all)
  <2>1. CASE s \in {0, k}
    <3>1. Held(new, r, t, a, b + 1, counts, whole, told, all)
        BY <1>2, <1>3, <1>4, HeldShifts
    <3> QED
        BY <1>5, <2>1, <3>1
  <2>2. CASE s \notin {0, k}
      BY <1>2, <1>4, <1>5, <2>2
  <2> QED
      BY <2>1, <2>2
<1> QED
    BY <1>8, <1>9

LEMMA MoveKeys ==
  ASSUME VendorType, NEW k, MovesFacts(k), NEW m, Clean(m), KeysInv(m)
  PROVE  KeysInv(More(m, k))'
<1> DEFINE n == More(m, k)
           K == NotLate(kept.keys) \ Regs
           K2 == NotLate(kept.keys) \ Regs'
           L == NotLate(Regs) \ kept.keys
           L2 == NotLate(Regs') \ kept.keys
<1>1. /\ adapter' = adapter /\ kept' = kept /\ blind' = blind /\ moves' = moves + 1 /\ moves \in Nat
    BY MoveFacts DEF MovesFacts
<1>2. m[Unlisted] \in Nat
    BY ScopeFacts DEF Clean
<1>3. KeysInv(n)' = (adapter = "finenumbers" /\ kept.loaded /\ ~blind =>
        IsFiniteSet(kept.keys) /\ Cardinality(K2) + n[Unlisted] <= moves' /\ Cardinality(L2) <= moves')
    BY <1>1 DEF KeysInv, NotLate
<1> SUFFICES ASSUME adapter = "finenumbers", kept.loaded, ~blind
             PROVE  /\ IsFiniteSet(kept.keys) /\ Cardinality(K2) + n[Unlisted] <= moves'
                    /\ Cardinality(L2) <= moves'
    BY <1>3
<1>4. IsFiniteSet(kept.keys) /\ Cardinality(K) + m[Unlisted] <= moves /\ Cardinality(L) <= moves
    BY DEF KeysInv
<1>5. /\ IsFiniteSet(Regs) /\ NotLate(Regs') \subseteq NotLate(Regs)
      /\ \E x : NotLate(Regs) \subseteq NotLate(Regs') \cup {x}
      /\ k = Unlisted => Regs' = Regs
    BY MoveRegs
<1>6. IsFiniteSet(K) /\ IsFiniteSet(L)
  <2>1. K \subseteq kept.keys /\ L \subseteq Regs
      BY DEF NotLate
  <2> QED
      BY <1>4, <1>5, <2>1, FS_Subset
<1>7. Cardinality(L2) <= moves'
  <2>1. L2 \subseteq L
      BY <1>5
  <2> HIDE DEF L, L2
  <2>2. Cardinality(L2) \in Nat /\ Cardinality(L) \in Nat /\ Cardinality(L2) <= Cardinality(L)
      BY <1>6, <2>1, NotMore
  <2> QED
      BY <1>1, <1>4, <2>2
<1>8. Cardinality(K2) + n[Unlisted] <= moves'
  <2>1. CASE k = Unlisted
    <3>1. K2 = K /\ n[Unlisted] = m[Unlisted] + 1
        BY <1>5, <2>1, MoreFacts
    <3> HIDE DEF K, K2, n
    <3>2. Cardinality(K) \in Nat
        BY <1>6, FS_CardinalityType
    <3> QED
        BY <1>1, <1>2, <1>4, <3>1, <3>2
  <2>2. CASE k # Unlisted
    <3>1. n[Unlisted] = m[Unlisted]
        BY <2>2, MoreFacts, ScopeFacts
    <3>2. PICK x : NotLate(Regs) \subseteq NotLate(Regs') \cup {x}
        BY <1>5
    <3>3. K2 \subseteq K \cup {x}
        BY <3>2 DEF NotLate
    <3> HIDE DEF K, K2, n
    <3>4. Cardinality(K2) \in Nat /\ Cardinality(K2) <= Cardinality(K) + 1
        BY <1>6, <3>3, OneMore
    <3>5. Cardinality(K) \in Nat
        BY <1>6, FS_CardinalityType
    <3> QED
        BY <1>1, <1>2, <1>4, <3>1, <3>4, <3>5
  <2> QED
      BY <2>1, <2>2
<1> QED
    BY <1>4, <1>7, <1>8

LEMMA MoveBudget ==
  ASSUME VendorType, BudgetInv, PlanInv, NEW k, MovesFacts(k)
  PROVE  BudgetInv'
<1>1. PICK m : Clean(m) /\ Walked(m) /\ KeysInv(m)
    BY DEF BudgetInv
<1>2. Clean(More(m, k))' /\ KeysInv(More(m, k))'
    BY <1>1, MoveClean, MoveKeys
<1>3. walk' = walk /\ Walking' = Walking
    BY DEF MovesFacts, Walking
<1>4. ASSUME Walking, NEW s \in DOMAIN walk PROVE WalkInv(s, Budget(More(m, k), s))'
  <2>1. WalkType(walk[s]) /\ s \in Scopes \cup {0} /\ WalkInv(s, Budget(m, s))
      BY <1>1, <1>4 DEF PlanInv, Walking, Walked
  <2> QED
      BY <1>1, <2>1, MoveWalk
<1>5. Walked(More(m, k))'
    BY <1>3, <1>4 DEF Walked
<1> QED
    BY <1>2, <1>5 DEF BudgetInv

LEMMA MoveExpect ==
  ASSUME VendorType, ExpectInv, NEW k, MovesFacts(k)
  PROVE  ExpectInv'
<1> DEFINE N == NotLate(ToSet(Stock(0)))
           N2 == NotLate(ToSet(Stock(0)'))
<1>1. Stock(0) \in Seq(Nat) /\ Stock(0)' \in Seq(Nat) /\ N2 \subseteq N /\ expected' = expected
    BY MoveFacts DEF MovesFacts, NotLate
<1>2. IsFiniteSet(N)
  <2>1. <<>> \in Seq(Nat) /\ 0 \in Nat
      OBVIOUS
  <2> QED
      BY <1>1, <2>1, WalkFinite
<1>3. ExpectInv' = (expected # Unknown => expected \in Nat /\ Cardinality(N2) <= expected)
    BY <1>1 DEF ExpectInv, NotLate
<1>4. expected # Unknown => expected \in Nat /\ Cardinality(N) <= expected
    BY DEF ExpectInv
<1> HIDE DEF N, N2
<1>5. Cardinality(N2) \in Nat /\ Cardinality(N) \in Nat /\ Cardinality(N2) <= Cardinality(N)
    BY <1>1, <1>2, NotMore
<1>6. expected # Unknown => expected \in Nat /\ Cardinality(N2) <= expected
    BY <1>4, <1>5
<1> QED
    BY <1>3, <1>6

\* What is listed in some scopes.
MovedSet(S) == UNION {ToSet(Stock(s)) : s \in S}

LEMMA MoveSet ==
  ASSUME VendorType, NEW k, MovesFacts(k), NEW S, S \subseteq Scopes \cup {0}
  PROVE  NotLate(MovedSet(S)') \subseteq NotLate(MovedSet(S))
<1> SUFFICES ASSUME NEW n, n \in NotLate(MovedSet(S)') PROVE n \in NotLate(MovedSet(S))
    OBVIOUS
<1>1. PICK s \in S : n \in ToSet(Stock(s)') /\ n \notin ToSet(Late)
    BY DEF NotLate, MovedSet
<1>2. n \in NotLate(ToSet(Stock(s)'))
    BY <1>1 DEF NotLate
<1>3. NotLate(ToSet(Stock(s)')) \subseteq NotLate(ToSet(Stock(s)))
    BY MoveFacts DEF NotLate
<1> QED
    BY <1>1, <1>2, <1>3 DEF NotLate, MovedSet

LEMMA MoveShop ==
  ASSUME VendorType, FetchInv, PlanInv, ShopInv, NEW k, MovesFacts(k)
  PROVE  ShopInv'
<1>1. /\ UNCHANGED <<slice, stage, plan, walk, warned, blind, call, sold, shop>>
      /\ moves' = moves + 1 /\ moves \in Nat
    BY MoveFacts DEF MovesFacts, user, vendor
<1> SUFFICES ASSUME stage = "shop" PROVE ShopInv'
    BY <1>1 DEF ShopInv
<1> DEFINE D == NotLate(DataPart) \ ReadNumbers
           D2 == NotLate(DataPart') \ ReadNumbers
<1>2. Calls' = Calls /\ Earlier' = Earlier /\ ReadNumbers' = ReadNumbers
    BY <1>1 DEF Calls, Earlier, ReadNumbers
<1>3. D2 \subseteq D
  <2>1. PICK S : S = ToSet(plan) \cup {0}
      OBVIOUS
  <2>2. S \subseteq Scopes \cup {0}
      BY <2>1 DEF PlanInv
  <2>3. DataPart = MovedSet(S) /\ DataPart' = MovedSet(S)'
      BY <1>1, <2>1 DEF DataPart, MovedSet
  <2> QED
      BY <2>2, <2>3, MoveSet
<1>4. ShopInv' = (/\ call \in Nat /\ call < Calls
                  /\ ~blind => /\ warned \/ (IsFiniteSet(D2) /\ Cardinality(D2) <= moves')
                               /\ sold = Earlier)
    BY <1>1, <1>2 DEF ShopInv, NotLate
<1>5. /\ call \in Nat /\ call < Calls
      /\ ~blind => /\ warned \/ (IsFiniteSet(D) /\ Cardinality(D) <= moves)
                   /\ sold = Earlier
    BY DEF ShopInv
<1> HIDE DEF D, D2
<1>6. IsFiniteSet(D) /\ Cardinality(D) <= moves => IsFiniteSet(D2) /\ Cardinality(D2) <= moves'
  <2> SUFFICES ASSUME IsFiniteSet(D), Cardinality(D) <= moves
               PROVE  IsFiniteSet(D2) /\ Cardinality(D2) <= moves'
      OBVIOUS
  <2>1. IsFiniteSet(D2) /\ Cardinality(D2) \in Nat /\ Cardinality(D) \in Nat /\ Cardinality(D2) <= Cardinality(D)
      BY <1>3, NotMore
  <2> QED
      BY <1>1, <2>1
<1> QED
    BY <1>4, <1>5, <1>6

\* What is missing may grow by two numbers, where the list is one of ranges.
LEMMA MoveMissing ==
  ASSUME VendorType, FetchInv, NEW k, MovesFacts(k), Accepted,
         adapter # "finenumbers" => ToSet(plan) \subseteq Scopes \cup {0}
  PROVE  IF adapter = "finenumbers" THEN \E x, y : Missing' \subseteq (Missing \cup {x}) \cup {y}
         ELSE Missing' \subseteq Missing
<1>1. /\ UNCHANGED <<slice, stage, plan, out, adapter, key, shop>>
      /\ k \in Scopes
    BY MoveFacts DEF MovesFacts
<1>2. Missing = NotLate(Promised) \ out[slice].rows /\ Missing' = NotLate(Promised') \ out[slice].rows
    BY <1>1 DEF Missing, NotLate
<1>3. CASE adapter # "finenumbers"
  <2> DEFINE D == IF stage = "over" /\ key THEN UNION Directions ELSE {}
  <2>0. PICK S : S = ToSet(plan) \cup (IF adapter = "novofon" THEN {0} ELSE {})
      OBVIOUS
  <2>1. S \subseteq Scopes \cup {0}
      BY <1>3, <2>0
  <2>2. Promised = MovedSet(S) \cup D /\ Promised' = MovedSet(S)' \cup D
      BY <1>1, <1>3, <2>0 DEF Promised, MovedSet, Directions
  <2>3. NotLate(MovedSet(S)') \subseteq NotLate(MovedSet(S))
      BY <2>1, MoveSet
  <2> HIDE DEF D
  <2>4. NotLate(Promised') \subseteq NotLate(Promised)
      BY <2>2, <2>3 DEF NotLate
  <2> QED
      BY <1>2, <1>3, <2>4
<1>4. CASE adapter = "finenumbers"
  <2>1. /\ NotLate(Regs') \subseteq NotLate(Regs)
        /\ \E x : NotLate(Regs) \subseteq NotLate(Regs') \cup {x}
        /\ k = Unlisted => Regs' = Regs
      BY MoveRegs
  <2>2. CASE slice = "purchased"
    <3>1. Promised = Regs /\ Promised' = Regs'
        BY <1>1, <1>4, <2>2 DEF Promised, Regs
    <3>2. Missing' \subseteq Missing
        BY <1>2, <2>1, <3>1
    <3> QED
        BY <1>4, <3>2
  <2>3. CASE slice # "purchased"
    <3> DEFINE E == Expanded(ToSet(list[Unlisted]))
               E2 == Expanded(ToSet(list'[Unlisted]))
    <3>1. Promised = E \ Regs /\ Promised' = E2 \ Regs'
        BY <1>1, <1>4, <2>3 DEF Promised, Regs
    <3>2. CASE k = Unlisted
      <4>1. list[Unlisted] \in Seq(Nat) /\ Shifts(list[Unlisted], list'[Unlisted])
          BY <1>1, <3>2 DEF MovesFacts, Shifting
      <4>2. 0 \in Nat
          OBVIOUS
      <4>3. PICK x : ToSet(list'[Unlisted]) \subseteq ToSet(list[Unlisted]) \cup {x}
          BY <4>1, <4>2, ShiftSets
      <4>4. E2 \subseteq (E \cup {2 * x}) \cup {2 * x + 1}
          BY <4>3 DEF Expanded, Expand
      <4> HIDE DEF E, E2
      <4>5. Missing' \subseteq (Missing \cup {2 * x}) \cup {2 * x + 1}
          BY <1>2, <2>1, <3>1, <3>2, <4>4 DEF NotLate
      <4> QED
          BY <1>4, <4>5
    <3>3. CASE k # Unlisted
      <4>1. list'[Unlisted] = list[Unlisted]
          BY <3>3, ScopeFacts DEF MovesFacts, Shifting
      <4>2. PICK x : NotLate(Regs) \subseteq NotLate(Regs') \cup {x}
          BY <2>1
      <4>3. E2 = E
          BY <4>1
      <4> HIDE DEF E, E2
      <4>4. Missing' \subseteq (Missing \cup {x}) \cup {x}
          BY <1>2, <3>1, <4>2, <4>3 DEF NotLate
      <4> QED
          BY <1>4, <4>4
    <3> QED
        BY <3>2, <3>3
  <2> QED
      BY <2>2, <2>3
<1> QED
    BY <1>3, <1>4

LEMMA MoveOver ==
  ASSUME VendorType, FetchInv, OverInv, NEW k, MovesFacts(k)
  PROVE  OverInv'
<1>1. /\ UNCHANGED <<slice, stage, plan, out, blind, adapter>>
      /\ moves' = moves + 1 /\ moves \in Nat
    BY MoveFacts DEF MovesFacts
<1>2. Accepted' = Accepted
    BY <1>1 DEF Accepted
<1> SUFFICES ASSUME Accepted, ~blind, ~out[slice].warned PROVE OverInv'
    BY <1>1, <1>2 DEF OverInv
<1>3. /\ IsFiniteSet(Missing) /\ (adapter # "finenumbers" => ToSet(plan) \subseteq Scopes \cup {0})
      /\ Cardinality(Missing) <= (IF adapter = "finenumbers" THEN 2 * moves ELSE moves)
    BY DEF OverInv
<1>4. IF adapter = "finenumbers" THEN \E x, y : Missing' \subseteq (Missing \cup {x}) \cup {y}
      ELSE Missing' \subseteq Missing
    BY <1>3, MoveMissing
<1>5. Cardinality(Missing) \in Nat
    BY <1>3, FS_CardinalityType
<1>6. CASE adapter = "finenumbers"
  <2>1. PICK x, y : Missing' \subseteq (Missing \cup {x}) \cup {y}
      BY <1>4, <1>6
  <2> DEFINE M == Missing \cup {x}
  <2>2. M \subseteq Missing \cup {x}
      OBVIOUS
  <2>3. IsFiniteSet(M) /\ Cardinality(M) \in Nat /\ Cardinality(M) <= Cardinality(Missing) + 1
      BY <1>3, <2>2, OneMore
  <2>4. Missing' \subseteq M \cup {y}
      BY <2>1
  <2> HIDE DEF M
  <2>5. /\ IsFiniteSet(Missing') /\ Cardinality(Missing') \in Nat
        /\ Cardinality(Missing') <= Cardinality(M) + 1
      BY <2>3, <2>4, OneMore
  <2>6. Cardinality(Missing') <= 2 * moves'
    <3> DEFINE a == Cardinality(Missing)
               b == Cardinality(M)
               c == Cardinality(Missing')
    <3>1. a \in Nat /\ b \in Nat /\ c \in Nat /\ a <= 2 * moves /\ b <= a + 1 /\ c <= b + 1
        BY <1>3, <1>5, <1>6, <2>3, <2>5
    <3> HIDE DEF a, b, c
    <3>2. c <= 2 * moves'
        BY <1>1, <3>1
    <3> QED
        BY <3>2 DEF c
  <2> QED
      BY <1>1, <1>6, <2>5, <2>6 DEF OverInv
<1>7. CASE adapter # "finenumbers"
  <2>1. Missing' \subseteq Missing
      BY <1>4, <1>7
  <2>2. /\ IsFiniteSet(Missing') /\ Cardinality(Missing') \in Nat
        /\ Cardinality(Missing') <= Cardinality(Missing)
      BY <1>3, <2>1, NotMore
  <2>3. Cardinality(Missing') <= moves'
      BY <1>1, <1>3, <1>5, <1>7, <2>2
  <2> QED
      BY <1>1, <1>3, <1>7, <2>2, <2>3 DEF OverInv
<1> QED
    BY <1>6, <1>7

LEMMA MoveShort ==
  ASSUME ShortInv, Moves
  PROVE  BudgetInv' /\ PhaseInv' /\ VendorInv'
<1>1. /\ FetchInv /\ VendorInv /\ VendorType /\ BudgetInv /\ PlanInv /\ ExpectInv /\ CallsInv /\ ShopInv
      /\ OverInv
    BY DEF ShortInv, VendorInv, PhaseInv
<1>2. PICK k : MovesFacts(k)
    BY <1>1, MovesOne
<1>3. VendorInv'
    BY <1>1, <1>2, MoveVendor
<1>4. BudgetInv'
    BY <1>1, <1>2, MoveBudget
<1>5. ExpectInv' /\ ShopInv' /\ OverInv'
    BY <1>1, <1>2, MoveExpect, MoveShop, MoveOver
<1>6. PlanInv'
  <2>1. adapter' = adapter /\ named' = named /\ UNCHANGED <<stage, plan, walk, expected>>
      BY <1>1, <1>2, MoveFacts DEF MovesFacts
  <2> QED
      BY <1>1, <2>1 DEF PlanInv, WalkType, Summed
<1>7. CallsInv'
    BY <1>1, <1>2 DEF CallsInv, MovesFacts, user
<1> QED
    BY <1>3, <1>4, <1>5, <1>6, <1>7 DEF PhaseInv

-----------------------------------------------------------------------------
(* Short slices are known                                                  *)

\* Of a list that names a number once nothing is counted twice.
LEMMA OnceNoExcess ==
  ASSUME NEW st \in Seq(Nat), IsInjective(st), ToSet(st) \cap ToSet(Late) = {}
  PROVE  Excess(st, <<>>, 0) = 0
<1>1. NotLate((ToSet(<<>>) \cap ToSet(st)) \cup Behind(st, 0)) = ToSet(st)
  <2>1. ToSet(<<>>) = {}
      BY DEF ToSet
  <2>2. Behind(st, 0) = ToSet(st)
      BY PlaceFacts
  <2> QED
      BY <2>1, <2>2 DEF NotLate
<1>2. Left(st, 0) = Len(st) /\ Len(<<>>) = 0 /\ Len(st) \in Nat
    BY PlaceFacts
<1>3. Cardinality(ToSet(st)) = Len(st)
    BY SetOf
<1> QED
    BY <1>1, <1>2, <1>3 DEF Excess

LEMMA InitVendor ==
  ASSUME PagesSuffice, Init
  PROVE  VendorInv
<1>1. /\ adapter \in FanOut \cup Sequential /\ list \in Stocks[adapter] /\ moves = 0
      /\ named \in BOOLEAN /\ warned \in BOOLEAN /\ blind \in BOOLEAN
      /\ adapter \in {"exolve", "sipout", "aurora", "finenumbers"} => ~named
      /\ key => adapter = "novofon"
      /\ shop \in Shops \/ shop = <<>>
  <2>1. /\ named \in BOOLEAN /\ (adapter \in {"exolve", "sipout", "aurora", "finenumbers"} => ~named)
      BY DEF Init
  <2>2. key => adapter = "novofon"
      BY DEF Init
  <2>3. shop \in Shops \/ shop = <<>>
      BY DEF Init
  <2>4. /\ adapter \in FanOut \cup Sequential /\ list \in Stocks[adapter] /\ moves = 0
        /\ warned \in BOOLEAN /\ blind \in BOOLEAN
      BY DEF Init
  <2> QED
      BY <2>1, <2>2, <2>3, <2>4
<1>2. list \in [Scopes -> Seq(Nat)]
    BY <1>1, StockAssumption
<1>3. VendorType
    BY <1>1, <1>2, LimitFacts DEF VendorType
<1>4. RoomInv
  <2>1. adapter = "runexis" => Len(Pooled(list, Scopes)) + MaxMoves <= MaxPage * Limit
      BY <1>1 DEF PagesSuffice
  <2>2. adapter = "runexis" => Stock(0) = Pooled(list, Scopes)
      BY <1>3, StockFacts
  <2>3. MaxPage * Limit \in Nat
      BY LimitFacts, MulMono
  <2>4. MaxPage * Limit + moves = MaxPage * Limit
      BY <1>1, <2>3
  <2> QED
      BY <2>1, <2>2, <2>4 DEF RoomInv
<1>5. ApartInv
  <2>1. adapter \in Counting => \A s, t \in Scopes : s # t => ToSet(list[s]) \cap ToSet(list[t]) = {}
      BY <1>1, StockAssumption
  <2> QED
      BY <2>1 DEF ApartInv, NotLate
<1>6. ShopType
  <2>1. <<>> \in Seq(SUBSET Nat)
      OBVIOUS
  <2>2. \A d \in Shops : d \in Seq(SUBSET Nat)
      BY StockAssumption
  <2> QED
      BY <1>1, <2>1, <2>2 DEF ShopType
<1> QED
    BY <1>3, <1>4, <1>5, <1>6 DEF VendorInv

LEMMA InitClean ==
  ASSUME Init, VendorType
  PROVE  Clean([s \in 0..Top |-> 0])
<1> DEFINE m == [s \in 0..Top |-> 0]
<1>1. m \in [0..Top -> Nat] /\ m \in [0..Top -> Int] /\ moves = 0 /\ 0 \in 0..Top /\ Scopes \subseteq 0..Top
  <2>1. Top \in Nat /\ Scopes \subseteq 0..Top
      BY ScopeFacts
  <2> QED
      BY <2>1 DEF Init
<1>2. SumUp(m) = m[0] /\ m[0] = 0
  <2>1. \A s \in 0..Top : s # 0 => m[s] = 0
      OBVIOUS
  <2>2. m[0] = 0
      BY <1>1
  <2> HIDE DEF m
  <2> QED
      BY <1>1, <2>1, <2>2, SumPoint
<1>3. \A s \in Scopes \cup {0} : Budget(m, s) = 0
    BY <1>1 DEF Budget
<1>4. ASSUME adapter \in Counting, NEW s \in Scopes \cup {0} PROVE Excess(Stock(s), <<>>, 0) = 0
  <2>1. /\ list \in [Scopes -> Seq(Nat)] /\ list \in Stocks[adapter] /\ adapter \in FanOut \cup Sequential
      BY DEF Init, VendorType
  <2>2. \A r, t \in Scopes :
          /\ IsInjective(list[r]) /\ Late[t] \notin ToSet(list[r])
          /\ r # t => ToSet(list[r]) \cap ToSet(list[t]) = {}
      BY <1>4, <2>1, StockAssumption
  <2>3. ToSet(Late) = {Late[t] : t \in Scopes}
      BY StockAssumption DEF ToSet
  <2>4. CASE s \in Scopes
    <3>1. Stock(s) = list[s] /\ list[s] \in Seq(Nat)
        BY <2>1, <2>4, StockFacts
    <3>2. ToSet(list[s]) \cap ToSet(Late) = {}
        BY <2>2, <2>3, <2>4
    <3> QED
        BY <2>2, <2>4, <3>1, <3>2, OnceNoExcess
  <2>5. CASE s = 0
    <3>1. Stock(0) = Pooled(list, Scopes)
        BY <1>4, StockFacts DEF Counting
    <3>2. /\ Pooled(list, Scopes) \in Seq(Nat)
          /\ ToSet(Pooled(list, Scopes)) = UNION {ToSet(list[r]) : r \in Scopes}
        BY <2>1, PooledSet
    <3>3. IsInjective(Pooled(list, Scopes))
      <4>1. /\ \A r \in Scopes : IsInjective(list[r])
            /\ \A r, t \in Scopes : r # t => ToSet(list[r]) \cap ToSet(list[t]) = {}
          BY <2>2
      <4>2. Scopes \subseteq Scopes
          OBVIOUS
      <4> QED
          BY <2>1, <4>1, <4>2, PooledInjective
    <3>4. ToSet(Pooled(list, Scopes)) \cap ToSet(Late) = {}
        BY <2>2, <2>3, <3>2
    <3> QED
        BY <2>5, <3>1, <3>2, <3>3, <3>4, OnceNoExcess
  <2> QED
      BY <2>4, <2>5
<1> HIDE DEF m
<1>5. Clean(m)
    BY <1>1, <1>2, <1>3, <1>4 DEF Clean
<1> QED
    BY <1>5 DEF m

LEMMA InitShort == PagesSuffice /\ Init => ShortInv
<1> SUFFICES ASSUME PagesSuffice, Init PROVE ShortInv
    OBVIOUS
<1>1. FetchInv /\ VendorInv /\ VendorType
    BY InitFetchInv, InitVendor DEF VendorInv
<1>2. stage = "open" /\ kept.loaded = FALSE /\ expected = Unknown /\ call = 0 /\ sold = {}
    BY DEF Init
<1>3. BudgetInv
  <2>1. PICK m : Clean(m)
      BY <1>1, InitClean
  <2>2. Walked(m) /\ KeysInv(m)
      BY <1>2 DEF Walked, Walking, KeysInv
  <2> QED
      BY <2>1, <2>2 DEF BudgetInv
<1>4. PhaseInv
    BY <1>2 DEF PhaseInv, PlanInv, ExpectInv, CallsInv, ShopInv, OverInv, Accepted
<1> QED
    BY <1>1, <1>3, <1>4 DEF ShortInv

LEMMA WaitShort ==
  ASSUME ShortInv, UNCHANGED vars
  PROVE  BudgetInv' /\ PhaseInv' /\ VendorInv'
<1>1. /\ Steady
      /\ UNCHANGED <<slice, stage, plan, walk, expected, kept, call, sold, warned, out, blind>>
    BY DEF vars, Steady, user, budget
<1>2. /\ adapter' = adapter /\ named' = named /\ key' = key /\ shop' = shop /\ moves' = moves
      /\ list' = list /\ Regs' = Regs
      /\ \A s : Stock(s)' = Stock(s)
      /\ \A m : Clean(m) => Clean(m)'
      /\ \A m, s : Budget(m, s)' = Budget(m, s)
    BY <1>1, SteadyFacts
<1>3. /\ VendorInv /\ BudgetInv /\ PlanInv /\ ExpectInv /\ CallsInv /\ ShopInv /\ OverInv
      /\ warned \in BOOLEAN /\ blind \in BOOLEAN
    BY DEF ShortInv, PhaseInv, VendorInv, VendorType
<1>4. VendorInv'
  <2>1. warned' \in BOOLEAN /\ blind' \in BOOLEAN
      BY <1>1, <1>3
  <2> QED
      BY <1>1, <1>3, <2>1, SteadyVendor
<1>5. BudgetInv'
  <2>1. PICK m : Clean(m) /\ Walked(m) /\ KeysInv(m)
      BY <1>3 DEF BudgetInv
  <2>2. Clean(m)' /\ KeysInv(m)'
      BY <1>1, <1>2, <2>1, SteadyKeys
  <2>3. ASSUME Walking, NEW s \in DOMAIN walk PROVE WalkInv(s, Budget(m, s))'
    <3>1. WalkType(walk[s]) /\ WalkInv(s, Budget(m, s))
        BY <1>3, <2>1, <2>3 DEF PlanInv, Walking, Walked
    <3>2. \A b : WalkInv(s, b) => WalkInv(s, b)'
        BY <1>1, <3>1, WalkWaits
    <3>3. PICK b : b = Budget(m, s)
        OBVIOUS
    <3>4. b = Budget(m, s)'
        BY <1>2, <3>3
    <3> QED
        BY <3>1, <3>2, <3>3, <3>4 DEF WalkInv
  <2>4. Walked(m)'
      BY <1>1, <2>3 DEF Walked, Walking
  <2> QED
      BY <2>2, <2>4 DEF BudgetInv
<1>6. PlanInv' /\ CallsInv'
    BY <1>1, <1>2, <1>3 DEF PlanInv, WalkType, Summed, CallsInv
<1>7. ExpectInv'
    BY <1>1, <1>3, SteadyExpect
<1>8. ShopInv'
  <2>1. Calls' = Calls /\ NotLate(DataPart)' = NotLate(DataPart) /\ ReadNumbers' = ReadNumbers
      BY <1>1, ShopFacts
  <2>2. Earlier' = Earlier
      BY <1>1, <1>2 DEF Earlier
  <2> QED
      BY <1>1, <1>2, <1>3, <2>1, <2>2 DEF ShopInv
<1>9. OverInv'
  <2>1. Concat(Listed)' = Concat(Listed)
      BY <1>2 DEF Concat
  <2>2. Promised' = Promised
      BY <1>1, <1>2, <2>1 DEF Promised, Directions
  <2>3. Missing' = Missing /\ Accepted' = Accepted
      BY <1>1, <2>2 DEF Missing, NotLate, Accepted
  <2> QED
      BY <1>1, <1>2, <1>3, <2>3 DEF OverInv
<1> QED
    BY <1>4, <1>5, <1>6, <1>7, <1>8, <1>9 DEF PhaseInv

LEMMA StepShort == ShortInv /\ [Next]_vars => ShortInv'
<1> SUFFICES ASSUME ShortInv, [Next]_vars PROVE ShortInv'
    OBVIOUS
<1>1. FetchInv'
    BY StepFetchInv DEF ShortInv
<1>2. BudgetInv' /\ PhaseInv' /\ VendorInv'
  <2>1. CASE UNCHANGED vars
      BY <2>1, WaitShort
  <2>2. CASE Moves
      BY <2>2, MoveShort
  <2>3. CASE Next /\ ~Moves
      BY <2>3, SteadyShort
  <2> QED
      BY <2>1, <2>2, <2>3
<1> QED
    BY <1>1, <1>2 DEF ShortInv

\* A slice that the adapter accepts without a word (no warning, no error) lacks
\* at most one of the vendor's numbers for each that was sold or added meanwhile
\* (two for Finenumbers, whose free list is measured by its list of REG
\* numbers), unless the vendor cut an answer that nothing could be checked by.
\* It is about every loop over pages, which
\* ends on an empty, a short or a last page, on a total, or at its window
\* (exolve/client.py:309-366, mcn/client.py:217-259, voximplant/client.py:212-271,
\* novofon/client.py:375-457, uis/client.py:148-217, runexis/client.py:203-245,
\* finenumbers/reg_client.py:139-189), and about how the slices' walks are
\* merged and their totals compared (mcn/provider.py:317-358,
\* voximplant/provider.py:276-346, novofon/client.py:502-531).  Runexis' loop
\* ends at its last page without looking at the total, hence the hypothesis.
THEOREM ShortIsKnownHolds == ASSUME PagesSuffice PROVE Spec => []ShortIsKnown
<1>1. ShortInv => ShortIsKnown
    BY DEF ShortInv, PhaseInv, OverInv, ShortIsKnown
<1>2. Init => ShortInv
    BY InitShort
<1>3. ShortInv /\ [Next]_vars => ShortInv'
    BY StepShort
<1> QED
    BY <1>1, <1>2, <1>3, PTL DEF Spec
=============================================================================
