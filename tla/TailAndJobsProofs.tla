--------------------------- MODULE TailAndJobsProofs ---------------------------
(***************************************************************************)
(* Two components that share no state.  First the last stages of a run     *)
(* (CatalogTail), for any rows, registry, directories and files, and any   *)
(* order of answers, batches, imports and restarts.  Then one writer among *)
(* the jobs and wipes of Twilio and DIDWW (LockedJobs), for any sets of    *)
(* threads, requests and environments.                                     *)
(***************************************************************************)
EXTENDS CatalogTail, LockedJobs, FiniteSetTheorems, SequenceTheorems, WellFoundedInduction, TLAPS

-----------------------------------------------------------------------------
(* Numbers                                                                 *)

LEMMA LeastOf ==
  ASSUME NEW S \in SUBSET Nat, S # {}
  PROVE  \E i \in S : \A j \in S : i <= j
<1>1. PICK x \in S : \A y \in S : ~ (<<y, x>> \in OpToRel(<, Nat))
    BY NatLessThanWellFounded, WFMin
<1>2. \A y \in S : ~ (y < x)
    BY <1>1 DEF OpToRel
<1> QED
    BY <1>2

LEMMA MinOf ==
  ASSUME NEW S \in SUBSET Nat, S # {}
  PROVE  Min(S) \in S /\ \A j \in S : Min(S) <= j
BY LeastOf DEF Min

LEMMA GreatestOf ==
  ASSUME NEW n \in Nat, NEW S \in SUBSET (0..n), S # {}
  PROVE  \E i \in S : \A j \in S : j <= i
<1> DEFINE T == {n - i : i \in S}
<1>1. T \subseteq Nat /\ T # {}
  <2>1. \A i \in S : i \in 0..n /\ n - i \in Nat
      OBVIOUS
  <2> QED
      BY <2>1
<1>2. PICK x \in T : \A y \in T : x <= y
    BY <1>1, LeastOf
<1>3. PICK i \in S : x = n - i
    OBVIOUS
<1>4. \A j \in S : j <= i
    BY <1>2, <1>3
<1> QED
    BY <1>4

-----------------------------------------------------------------------------
(* Splits                                                                  *)

\* The code and the local part are the number, cut somewhere; a number that
\* cannot be looked up has neither.
IsSplit(entry) ==
  IF Valid(entry.num)
  THEN \E n \in 0..Len(entry.num) : /\ entry.abc = SplitAt(entry.num, n).abc
                                  /\ entry.local = SplitAt(entry.num, n).local
  ELSE entry.abc = <<>> /\ entry.local = <<>>

LEMMA SplitFacts ==
  ASSUME NEW num \in Digits, NEW n \in 0..Len(num)
  PROVE  /\ SplitAt(num, n).abc \o SplitAt(num, n).local = num
         /\ Len(SplitAt(num, n).abc) = n
         /\ SplitAt(num, n).abc = SubSeq(num, 1, n)
<1>1. Len(num) \in Nat /\ n \in Nat /\ n <= Len(num) /\ \A i \in 1..Len(num) : num[i] \in 0..9
    BY DEF Digits
<1>2. SubSeq(num, 1, n) \o SubSeq(num, n + 1, Len(num)) = SubSeq(num, 1, Len(num))
  <2>1. 1 \in 1..(Len(num) + 1) /\ n \in (1 - 1)..Len(num) /\ Len(num) \in n..Len(num)
      BY <1>1
  <2> QED
      BY <2>1, ConcatAdjacentSubSeq DEF Digits
<1>3. SubSeq(num, 1, Len(num)) = num
    BY SubSeqFull DEF Digits
<1>4. Len(SubSeq(num, 1, n)) = n
  <2>1. \A i \in 1..n : num[i] \in 0..9
      BY <1>1
  <2> QED
      BY <1>1, <2>1, SubSeqProperties
<1> QED
    BY <1>2, <1>3, <1>4 DEF SplitAt

LEMMA PhoneSplit ==
  ASSUME NEW num \in Digits
  PROVE  /\ Valid(num) => Split(num) = SplitAt(num, 3) /\ 3 \in 0..Len(num)
         /\ ~Valid(num) => Split(num).abc = <<>> /\ Split(num).local = <<>>
BY DEF Split, Valid

-----------------------------------------------------------------------------
(* Ranges                                                                  *)

\* The renamed city is the only place that does not come from a territory.
Named == SUBSET (STRING \cup {"Kemerovo"})
Geo == [city : Named, region : Named, clear : BOOLEAN]
AnyRange == [abc : Digits, lo : Nat, hi : Nat, op : STRING, geo : Geo]
Range3 == {x \in AnyRange : Len(x.abc) = 3 /\ x.op \notin {Nothing, Sentinel}}
Caches == Seq(Range3)

LEMMA ApiFacts ==
  ASSUME NEW entry \in ApiRows
  PROVE  /\ FromApi(entry) \in AnyRange
         /\ FromApi(entry).abc = entry.abc /\ FromApi(entry).op = entry.op
<1>1. ParseGar(entry.abc, entry.gar) \in Geo
  <2>1. entry.gar \in Seq(Places) /\ {} \in Named /\ \A s \in Places : s \in Named
      BY DEF ApiRows, Places, Named
  <2>2. CASE entry.gar = <<>> \/ Category(entry.abc) \notin {"mobile", "tollfree"}
      BY <2>1, <2>2 DEF ParseGar, NoGeo, Geo
  <2>3. CASE entry.gar # <<>> /\ Category(entry.abc) \in {"mobile", "tollfree"}
    <3>1. Head(entry.gar) \in Named
        BY <2>1, <2>3
    <3>2. Last(entry.gar) \in Named
      <4>1. Len(entry.gar) \in 1..Len(entry.gar)
          BY <2>1, <2>3
      <4>2. entry.gar[Len(entry.gar)] \in Places
          BY <2>1, <4>1
      <4> QED
          BY <2>1, <4>2 DEF Last
    <3>3. \A s \in Named : Side(s) \in Named /\ IsCoverage(s) \in BOOLEAN
        BY <2>1 DEF Side, IsCoverage
    <3>4. \A s \in Named : Alias(s) \in Named
      <4>1. {"Kemerovo"} \in Named
          BY DEF Named
      <4> QED
          BY <4>1 DEF Alias
    <3>5. ParseGar(entry.abc, entry.gar) =
            [city |-> Alias(Side(Head(entry.gar))), region |-> Side(Last(entry.gar)),
             clear |-> IsCoverage(Head(entry.gar)) \/ IsCoverage(Last(entry.gar))]
        BY <2>3 DEF ParseGar
    <3> QED
        BY <3>1, <3>2, <3>3, <3>4, <3>5 DEF Geo
  <2> QED
      BY <2>2, <2>3
<1> QED
    BY <1>1 DEF FromApi, ApiRows, AnyRange

\* A range that is added comes after the others, of which none changes but for
\* its territory.
LEMMA AddFacts ==
  ASSUME NEW c \in Caches, NEW x \in AnyRange, Len(x.abc) = 3, x.op # Sentinel
  PROVE  /\ Add(c, x) \in Caches
         /\ Len(c) <= Len(Add(c, x))
         /\ \A i \in 1..Len(c) : /\ Add(c, x)[i].abc = c[i].abc /\ Add(c, x)[i].op = c[i].op
                                 /\ Add(c, x)[i].lo = c[i].lo /\ Add(c, x)[i].hi = c[i].hi
<1> DEFINE same == {i \in DOMAIN c : c[i].abc = x.abc /\ c[i].lo = x.lo /\ c[i].hi = x.hi}
           Merge(i) == IF i \in same /\ ~HasGeo(c[i].geo) THEN [c[i] EXCEPT !.geo = x.geo] ELSE c[i]
<1>1. c \in Seq(Range3) /\ Len(c) \in Nat /\ DOMAIN c = 1..Len(c) /\ \A i \in 1..Len(c) : c[i] \in Range3
    BY DEF Caches
<1>2. CASE x.abc = <<>> \/ x.op = Nothing \/ x.hi < x.lo
    BY <1>1, <1>2 DEF Add, Caches
<1>3. CASE ~(x.abc = <<>> \/ x.op = Nothing \/ x.hi < x.lo) /\ same = {}
  <2>1. x \in Range3
      BY <1>3 DEF Range3
  <2>2. Add(c, x) = Append(c, x)
      BY <1>3 DEF Add
  <2>3. /\ Append(c, x) \in Seq(Range3) /\ Len(Append(c, x)) = Len(c) + 1
        /\ \A i \in 1..Len(c) : Append(c, x)[i] = c[i]
      BY <1>1, <2>1, AppendProperties
  <2> QED
      BY <1>1, <2>2, <2>3 DEF Caches
<1>4. CASE ~(x.abc = <<>> \/ x.op = Nothing \/ x.hi < x.lo) /\ same # {}
  <2>1. Add(c, x) = [i \in 1..Len(c) |-> Merge(i)]
      BY <1>1, <1>4 DEF Add
  <2>2. \A i \in 1..Len(c) :
          /\ Merge(i) \in Range3
          /\ Merge(i).abc = c[i].abc /\ Merge(i).op = c[i].op
          /\ Merge(i).lo = c[i].lo /\ Merge(i).hi = c[i].hi
    <3> TAKE i \in 1..Len(c)
    <3>1. c[i] \in AnyRange /\ Len(c[i].abc) = 3 /\ c[i].op \notin {Nothing, Sentinel}
        BY <1>1 DEF Range3
    <3>2. x.geo \in Geo
        BY DEF AnyRange
    <3> DEFINE y == [c[i] EXCEPT !.geo = x.geo]
    <3>3. /\ y \in AnyRange /\ y.abc = c[i].abc /\ y.op = c[i].op
          /\ y.lo = c[i].lo /\ y.hi = c[i].hi
        BY <3>1, <3>2 DEF AnyRange
    <3>4. y \in Range3
        BY <3>1, <3>3 DEF Range3
    <3> QED
        BY <1>1, <3>3, <3>4
  <2> HIDE DEF Merge
  <2>3. Add(c, x) \in [1..Len(c) -> Range3]
      BY <2>1, <2>2
  <2>4. Add(c, x) \in Seq(Range3)
      BY <1>1, <2>3, SeqDef
  <2>5. Len(Add(c, x)) = Len(c)
      BY <1>1, <2>3, <2>4, LenProperties
  <2> QED
      BY <1>1, <2>1, <2>2, <2>4, <2>5 DEF Caches
<1> QED
    BY <1>2, <1>3, <1>4

\* The recursion over the local ranges is well-founded, and each step adds a range.
LEMMA SeededFacts ==
  ASSUME NEW s \in Seq(ApiRows),
         \A i \in DOMAIN s : Len(s[i].abc) = 3 /\ s[i].op # Sentinel
  PROVE  Seeded(s) \in Caches
<1> DEFINE N == Len(s)
           Step(g, n) == IF n = 0 THEN <<>> ELSE Add(g[n - 1], FromApi(s[n]))
           Goes(g, m) == g = [n \in 0..m |-> Step(g, n)]
<1>1. N \in Nat /\ DOMAIN s = 1..N /\ \A i \in 1..N : s[i] \in ApiRows
    OBVIOUS
<1> DEFINE Has(m) == \E g : Goes(g, m)
<1>2. \A m \in Nat : Has(m)
  <2> DEFINE Bad == {m \in Nat : ~Has(m)}
  <2> SUFFICES ASSUME Bad # {} PROVE FALSE
      OBVIOUS
  <2>1. PICK m \in Bad : \A k \in Bad : m <= k
      BY LeastOf
  <2>2. CASE m = 0
    <3> DEFINE g == [n \in 0..0 |-> <<>>]
    <3>1. \A n \in 0..0 : n = 0
        OBVIOUS
    <3>2. Goes(g, 0)
        BY <3>1
    <3>3. Has(0)
        BY <3>2
    <3> HIDE DEF Has
    <3> QED
        BY <2>1, <2>2, <3>3
  <2>3. CASE m # 0
    <3>1. m - 1 \in Nat /\ Has(m - 1)
      <4>1. m \in Nat /\ m - 1 \in Nat /\ m - 1 < m
          BY <2>3
      <4> HIDE DEF Has
      <4> QED
          BY <2>1, <4>1
    <3>2. PICK g : Goes(g, m - 1)
        BY <3>1
    <3> DEFINE h == [n \in 0..m |-> IF n = m THEN Step(g, m) ELSE g[n]]
    <3>3. ASSUME NEW n \in 0..m PROVE h[n] = Step(h, n)
      <4>1. CASE n = 0
        <5>1. 0 # m /\ 0 \in 0..(m - 1)
            BY <2>1, <2>3
        <5>2. g[0] = <<>>
            BY <3>2, <5>1
        <5> QED
            BY <4>1, <5>1, <5>2
      <4>2. CASE n # 0 /\ n # m
        <5>1. n \in 0..(m - 1) /\ n - 1 \in 0..m /\ n - 1 # m
            BY <2>1, <4>2
        <5>2. g[n] = Add(g[n - 1], FromApi(s[n]))
            BY <3>2, <4>2, <5>1
        <5> QED
            BY <4>2, <5>1, <5>2
      <4>3. CASE n = m
        <5>1. m - 1 \in 0..m /\ m - 1 # m
            BY <2>1, <2>3
        <5> QED
            BY <2>3, <4>3, <5>1
      <4> QED
          BY <4>1, <4>2, <4>3
    <3>4. h = [n \in 0..m |-> Step(h, n)]
        BY <3>3
    <3> QED
        BY <2>1, <3>4
  <2> QED
      BY <2>2, <2>3
<1> DEFINE load == CHOOSE g : Goes(g, N)
<1>3. Goes(load, N)
    BY <1>1, <1>2
<1>4. Seeded(s) = load[N]
    BY DEF Seeded
<1>5. \A n \in 0..N : load[n] \in Caches
  <2> HIDE DEF load
  <2> DEFINE Bad == {n \in 0..N : load[n] \notin Caches}
  <2> SUFFICES ASSUME Bad # {} PROVE FALSE
      OBVIOUS
  <2>1. PICK n \in Bad : \A k \in Bad : n <= k
    <3>1. Bad \subseteq Nat
        BY <1>1
    <3> QED
        BY <3>1, LeastOf
  <2>2. CASE n = 0
    <3>1. load[0] = <<>>
        BY <1>1, <1>3
    <3>2. <<>> \in Caches
        BY DEF Caches
    <3> QED
        BY <2>1, <2>2, <3>1, <3>2
  <2>3. CASE n # 0
    <3>1. n - 1 \in 0..N /\ n \in 1..N /\ n - 1 < n
        BY <1>1, <2>1, <2>3
    <3>2. load[n - 1] \in Caches
        BY <1>1, <2>1, <3>1
    <3>3. load[n] = Add(load[n - 1], FromApi(s[n]))
        BY <1>3, <2>3, <3>1
    <3>4. FromApi(s[n]) \in AnyRange /\ Len(FromApi(s[n]).abc) = 3 /\ FromApi(s[n]).op # Sentinel
        BY <1>1, <3>1, ApiFacts
    <3>5. load[n] \in Caches
        BY <3>2, <3>3, <3>4, AddFacts
    <3> QED
        BY <2>1, <3>5
  <2> QED
      BY <2>2, <2>3
<1> QED
    BY <1>1, <1>4, <1>5

\* A match is the first range over the number; there is one if any is over it.
LEMMA CoverFacts ==
  ASSUME NEW c \in Caches, NEW abc, NEW local
  PROVE  LET over == Covering(c, abc, local)
         IN /\ over \subseteq 1..Len(c)
            /\ over = {} => Resolve(c, abc, local) = NoMatch
            /\ over # {} => /\ Min(over) \in over /\ \A i \in over : Min(over) <= i
                            /\ Resolve(c, abc, local).op = c[Min(over)].op
                            /\ Resolve(c, abc, local) # NoMatch
                            /\ Resolve(c, abc, local).op \notin {Nothing, Sentinel}
                            /\ Len(abc) = 3
<1> DEFINE over == Covering(c, abc, local)
<1>1. DOMAIN c = 1..Len(c) /\ Len(c) \in Nat /\ \A i \in 1..Len(c) : c[i] \in Range3
    BY DEF Caches
<1>2. over \subseteq 1..Len(c) /\ over \subseteq Nat /\ \A i \in over : c[i].abc = abc
    BY <1>1 DEF Covering
<1> HIDE DEF over
<1>3. ASSUME over # {}
      PROVE  /\ Min(over) \in over /\ \A i \in over : Min(over) <= i
             /\ Resolve(c, abc, local).op = c[Min(over)].op
             /\ Resolve(c, abc, local) # NoMatch
             /\ Resolve(c, abc, local).op \notin {Nothing, Sentinel}
             /\ Len(abc) = 3
  <2>1. Min(over) \in over /\ \A i \in over : Min(over) <= i
      BY <1>2, <1>3, MinOf
  <2>2. Resolve(c, abc, local) = [op |-> c[Min(over)].op, geo |-> c[Min(over)].geo]
      BY <1>3 DEF Resolve, over
  <2>3. c[Min(over)].op \notin {Nothing, Sentinel} /\ Len(c[Min(over)].abc) = 3
      BY <1>1, <1>2, <2>1 DEF Range3
  <2>4. Resolve(c, abc, local).op = c[Min(over)].op
      BY <2>2
  <2>5. NoMatch.op = Nothing
      BY DEF NoMatch
  <2>6. Resolve(c, abc, local) # NoMatch
      BY <2>3, <2>4, <2>5
  <2>7. c[Min(over)].abc = abc
      BY <1>2, <2>1
  <2> QED
      BY <2>1, <2>3, <2>4, <2>6, <2>7
<1>4. over = {} => Resolve(c, abc, local) = NoMatch
    BY DEF Resolve, over
<1> QED
    BY <1>2, <1>3, <1>4 DEF over

\* Ranges that come later change nothing for a number that has one.
LEMMA CoverStays ==
  ASSUME NEW c \in Caches, NEW x \in AnyRange, Len(x.abc) = 3, x.op # Sentinel,
         NEW abc, NEW local, Covering(c, abc, local) # {}
  PROVE  LET d == Add(c, x)
         IN /\ Covering(d, abc, local) # {}
            /\ d[Min(Covering(d, abc, local))].op = c[Min(Covering(c, abc, local))].op
<1> DEFINE d == Add(c, x)
           old == Covering(c, abc, local)
           new == Covering(d, abc, local)
<1>1. /\ d \in Caches /\ Len(c) \in Nat /\ Len(d) \in Nat /\ Len(c) <= Len(d)
      /\ DOMAIN c = 1..Len(c) /\ DOMAIN d = 1..Len(d)
      /\ \A i \in 1..Len(c) : /\ d[i].abc = c[i].abc /\ d[i].op = c[i].op
                              /\ d[i].lo = c[i].lo /\ d[i].hi = c[i].hi
  <2>1. d \in Caches
      BY AddFacts
  <2>2. \A e \in Caches : Len(e) \in Nat /\ DOMAIN e = 1..Len(e)
      BY DEF Caches
  <2> QED
      BY <2>1, <2>2, AddFacts
<1> HIDE DEF d
<1>2. \A i \in 1..Len(c) : i \in old <=> i \in new
    BY <1>1 DEF Covering
<1> HIDE DEF old, new
<1>3. /\ old \subseteq 1..Len(c) /\ new \subseteq 1..Len(d)
      /\ Min(old) \in old /\ \A i \in old : Min(old) <= i
    BY CoverFacts, <1>1 DEF old, new
<1>4. Min(old) \in new
    BY <1>2, <1>3
<1>5. Min(new) \in new /\ \A i \in new : Min(new) <= i
    BY CoverFacts, <1>1, <1>4 DEF new
<1>6. Min(new) = Min(old)
  <2>1. Min(new) <= Min(old) /\ Min(new) \in 1..Len(d) /\ Min(old) \in 1..Len(c)
      BY <1>3, <1>4, <1>5
  <2>2. Min(new) \in 1..Len(c)
      BY <1>1, <2>1
  <2>3. Min(old) <= Min(new)
      BY <1>2, <1>3, <1>5, <2>2
  <2> QED
      BY <1>1, <2>1, <2>3
<1> QED
    BY <1>1, <1>3, <1>4, <1>6 DEF d, old, new

-----------------------------------------------------------------------------
(* Rows                                                                    *)

Fields == {"num", "op", "city", "region", "abc", "local", "type"}
RowOf(entry, r) == DOMAIN entry = Fields /\ entry.num = Fresh[r].num /\ IsSplit(entry)

LEMMA InsertedFacts ==
  ASSUME NEW r \in Rows, NEW had
  PROVE  /\ RowOf(Inserted(r, had), r)
         /\ Inserted(r, had).op = Sentinel => had = Sentinel
<1>1. Fresh[r].num \in Digits /\ Fresh[r].op # Sentinel
    BY FreshAssumption
<1> DEFINE entry == Inserted(r, had)
<1>2. /\ DOMAIN entry = Fields /\ entry.num = Fresh[r].num
      /\ entry.op = (IF Fresh[r].op = Nothing THEN had ELSE Fresh[r].op)
      /\ entry.abc = Split(Fresh[r].num).abc /\ entry.local = Split(Fresh[r].num).local
    BY DEF Inserted, Fields
<1> HIDE DEF entry
<1>3. IsSplit(entry)
    BY <1>1, <1>2, PhoneSplit DEF IsSplit
<1> QED
    BY <1>1, <1>2, <1>3 DEF RowOf, entry

LEMMA UpdatedFacts ==
  ASSUME NEW entry, NEW r \in Rows, RowOf(entry, r), NEW match, NEW missing
  PROVE  /\ RowOf(Updated(entry, match, missing), r)
         /\ Updated(entry, match, missing).op = match.op
<1> DEFINE u == Updated(entry, match, missing)
<1>1. DOMAIN entry = Fields
    BY DEF RowOf
<1>2. /\ DOMAIN u = Fields /\ u.num = entry.num /\ u.abc = entry.abc /\ u.local = entry.local
      /\ u.op = match.op
    BY <1>1 DEF Updated, Fields
<1> HIDE DEF u
<1>3. IsSplit(u)
    BY <1>2 DEF RowOf, IsSplit
<1> QED
    BY <1>2, <1>3 DEF RowOf, u

\* A row agrees with a directory of regions.
Agrees(entry, directory) ==
  LET listed == {d \in directory : IsPrefix(d.abc, entry.num)}
  IN IF listed = {} THEN entry.abc = Split(entry.num).abc /\ entry.city = {}
     ELSE \E d \in listed : /\ entry.abc = d.abc /\ entry.city = d.city /\ entry.region = d.region
                            /\ \A e \in listed : Len(e.abc) <= Len(d.abc)

LEMMA PlacedFacts ==
  ASSUME NEW entry, DOMAIN entry = Fields, NEW split, NEW city, NEW region
  PROVE  LET p == Placed(entry, split, city, region)
         IN /\ DOMAIN p = Fields /\ p.num = entry.num /\ p.op = entry.op
            /\ p.abc = split.abc /\ p.local = split.local /\ p.city = city /\ p.region = region
BY DEF Placed, Fields

LEMMA LocatedFacts ==
  ASSUME NEW entry, NEW r \in Rows, RowOf(entry, r), IsGeographic(entry.num),
         NEW directory, \A d \in directory : d.abc \in Digits
  PROVE  /\ RowOf(Located(entry, directory), r)
         /\ Located(entry, directory).op = entry.op
         /\ Agrees(Located(entry, directory), directory)
<1> DEFINE hits == {d \in directory : IsPrefix(d.abc, entry.num)}
           l == Located(entry, directory)
           num == entry.num
<1>1. DOMAIN entry = Fields /\ num = Fresh[r].num /\ num \in Digits /\ Valid(num)
    BY FreshAssumption DEF RowOf, IsGeographic
<1>2. Len(num) \in Nat /\ Split(num) = SplitAt(num, 3) /\ 3 \in 0..Len(num)
    BY <1>1, PhoneSplit DEF Digits
<1>3. CASE hits = {}
  <2>1. l = Placed(entry, Split(num), {}, {})
      BY <1>3 DEF Located
  <2>2. /\ DOMAIN l = Fields /\ l.num = num /\ l.op = entry.op
        /\ l.abc = Split(num).abc /\ l.local = Split(num).local /\ l.city = {}
      BY <1>1, <2>1, PlacedFacts
  <2> HIDE DEF l
  <2>3. IsSplit(l)
      BY <1>1, <1>2, <2>2 DEF IsSplit
  <2>4. Agrees(l, directory)
      BY <1>3, <2>2 DEF Agrees
  <2> QED
      BY <1>1, <2>2, <2>3, <2>4 DEF RowOf, l
<1>4. CASE hits # {}
  <2> DEFINE best == CHOOSE d \in hits : \A e \in hits : Len(e.abc) <= Len(d.abc)
  <2>1. \E d \in hits : \A e \in hits : Len(e.abc) <= Len(d.abc)
    <3> DEFINE lens == {Len(d.abc) : d \in hits}
    <3>1. lens \subseteq 0..Len(num)
        BY <1>2 DEF IsPrefix, Digits
    <3>2. lens # {}
        BY <1>4
    <3>3. PICK n \in lens : \A k \in lens : k <= n
        BY <1>2, <3>1, <3>2, GreatestOf
    <3>4. PICK d \in hits : n = Len(d.abc)
        OBVIOUS
    <3> QED
        BY <3>3, <3>4
  <2>2. best \in hits /\ \A e \in hits : Len(e.abc) <= Len(best.abc)
      BY <2>1
  <2>3. l = Placed(entry, SplitAt(num, Len(best.abc)), best.city, best.region)
      BY <1>4 DEF Located
  <2> HIDE DEF best
  <2>4. best.abc \in Digits /\ Len(best.abc) \in 0..Len(num)
        /\ SubSeq(best.abc, 1, Len(best.abc)) = SubSeq(num, 1, Len(best.abc))
      BY <1>2, <2>2 DEF IsPrefix, Digits
  <2>5. SplitAt(num, Len(best.abc)).abc = best.abc
    <3>1. SplitAt(num, Len(best.abc)).abc = SubSeq(num, 1, Len(best.abc))
        BY DEF SplitAt
    <3> QED
        BY <2>4, <3>1, SubSeqFull DEF Digits
  <2>6. /\ DOMAIN l = Fields /\ l.num = num /\ l.op = entry.op
        /\ l.abc = SplitAt(num, Len(best.abc)).abc /\ l.local = SplitAt(num, Len(best.abc)).local
        /\ l.city = best.city /\ l.region = best.region
      BY <1>1, <2>3, PlacedFacts
  <2> HIDE DEF l
  <2>7. IsSplit(l)
      BY <1>1, <2>4, <2>6 DEF IsSplit
  <2>8. Agrees(l, directory)
      BY <1>4, <2>2, <2>5, <2>6 DEF Agrees
  <2> QED
      BY <1>1, <2>6, <2>7, <2>8 DEF RowOf, l
<1> QED
    BY <1>3, <1>4

\* The split of a row finds what the digits of its number find: a range has a
\* three-digit code, and a row's is the first digits of its number.
LEMMA FirstMatchFacts ==
  ASSUME NEW c \in Caches, NEW r \in Rows, RowOf(rows[r], r)
  PROVE  FirstMatch(c, r) = ResolveNumber(c, Fresh[r].num)
<1> DEFINE num == Fresh[r].num
           abc == rows[r].abc
           local == rows[r].local
<1>1. rows[r].num = num /\ num \in Digits /\ IsSplit(rows[r])
    BY FreshAssumption DEF RowOf
<1>2. CASE Covering(c, abc, local) = {}
    BY <1>1, <1>2, CoverFacts DEF FirstMatch, Phone
<1>3. CASE Covering(c, abc, local) # {}
  <2>1. Len(abc) = 3 /\ Resolve(c, abc, local) # NoMatch
      BY <1>3, CoverFacts
  <2>2. Valid(num)
    <3>1. Len(<<>>) = 0
        BY EmptySeq
    <3>2. ~Valid(num) => abc = <<>>
        BY <1>1 DEF IsSplit
    <3> HIDE DEF num, abc, local
    <3>3. ~Valid(num) => Len(abc) = 0
        BY <3>1, <3>2, Zenon
    <3> QED
        BY <2>1, <3>3
  <2>3. PICK n \in 0..Len(num) : abc = SplitAt(num, n).abc /\ local = SplitAt(num, n).local
      BY <1>1, <2>2 DEF IsSplit
  <2>4. n = 3
      BY <1>1, <2>1, <2>3, SplitFacts
  <2>5. abc = Split(num).abc /\ local = Split(num).local
      BY <1>1, <2>2, <2>3, <2>4, PhoneSplit
  <2>6. FirstMatch(c, r) = Resolve(c, abc, local)
      BY <2>1 DEF FirstMatch
  <2>7. ResolveNumber(c, num) = Resolve(c, Split(num).abc, Split(num).local)
      BY <2>2 DEF ResolveNumber
  <2> QED
      BY <2>5, <2>6, <2>7
<1> QED
    BY <1>2, <1>3

-----------------------------------------------------------------------------
(* The inductive invariant                                                 *)

\* The registry has said so or answered with nothing to read, or cannot be asked.
Confirmed(entry, phones) == entry.op = Sentinel => ~Valid(entry.num) \/ entry.num \in phones

\* An operator that the run may give to a number: that of the first range over
\* it, or its own answer.
Rightly(op, num, c, answers, misses) ==
  LET over == IF Valid(num) THEN Covering(c, Split(num).abc, Split(num).local) ELSE {}
  IN \/ over # {} /\ op = c[Min(over)].op
     \/ num \in DOMAIN answers /\ op = answers[num]
     \/ (num \in misses \/ ~Valid(num)) /\ op = Sentinel

\* The operator of a row when all updates are written.
Due(r, table, todo) == IF r \in DOMAIN todo THEN todo[r].op ELSE table[r].op

Enriching == {"wave", "ask", "write"}

RowsInv ==
  /\ \A r \in Rows : RowOf(rows[r], r) /\ Confirmed(rows[r], said \cup blank)
  /\ DOMAIN updates \subseteq Rows
  /\ \A r \in DOMAIN updates : RowOf(updates[r], r) /\ Confirmed(updates[r], said \cup blank)
  /\ pc \notin Enriching => updates = <<>>

\* Two rows of one number are decided together, so that the answer for a
\* number that is decided does not change.
LookupInv ==
  /\ cache \in Caches
  /\ pending \subseteq Rows /\ \A r \in pending : Valid(Fresh[r].num) /\ r \notin DOMAIN updates
  /\ \A r, s \in Rows : Fresh[r].num = Fresh[s].num /\ r \in pending => s \in pending
  /\ asked \subseteq {Fresh[r].num : r \in pending}
  /\ pc # "ask" => asked = {}
  /\ \A p \in DOMAIN direct : direct[p] \notin {Nothing, Sentinel}
  /\ absent \subseteq said \cup blank

OrderInv ==
  /\ pc \in Enriching => \A r \in Rows \ pending : Rightly(Due(r, rows, updates), Fresh[r].num, cache, direct, absent)
  /\ pc \in {"regions", "seed", "masks"} /\ outcome["enrich"] = "ok" =>
       \A r \in Rows : Rightly(rows[r].op, Fresh[r].num, cache, direct, absent)

AllAgree(table, directory) ==
  \A r \in Rows : IsGeographic(Fresh[r].num) => Agrees(table[r], directory)
AllTyped(table, types) ==
  \A r \in Rows : table[r].type = MaskType(types, Line(Fresh[r].num), table[r].abc, table[r].local)

LastStagesInv ==
  /\ outcome \in [Stages -> {Nothing, "ok", "failed"}] /\ DOMAIN seen = {"regions", "masks"}
  /\ regions \in RegionFiles
  /\ pc # "idle" => outcome["masks"] # "ok"
  /\ pc \in {"seed", "masks"} /\ outcome["regions"] = "ok" => AllAgree(rows, seen.regions)
  /\ pc = "idle" /\ (\A s \in Stages : outcome[s] = "ok") =>
       AllAgree(rows, seen.regions) /\ AllTyped(rows, seen.masks)

TailInv == RowsInv /\ LookupInv /\ OrderInv /\ LastStagesInv

LEMMA TailStarts == TailInit => TailInv
<1> SUFFICES ASSUME TailInit PROVE TailInv
    OBVIOUS
<1>1. DOMAIN updates = {} /\ updates = <<>> /\ DOMAIN direct = {} /\ cache \in Caches
    BY EmptySeq DEF TailInit, Caches
<1>2. RowsInv
  <2>1. \A r \in Rows : rows[r] = Inserted(r, Nothing)
      BY DEF TailInit
  <2>2. \A r \in Rows : RowOf(rows[r], r) /\ rows[r].op # Sentinel
      BY <2>1, InsertedFacts DEF Nothing, Sentinel
  <2> QED
      BY <1>1, <2>2 DEF RowsInv, Confirmed
<1>3. LookupInv
    BY <1>1 DEF LookupInv, TailInit
<1>4. OrderInv
    BY DEF OrderInv, TailInit, Enriching
<1>5. LastStagesInv
    BY DEF LastStagesInv, TailInit, Stages, Nothing
<1> QED
    BY <1>2, <1>3, <1>4, <1>5 DEF TailInv

LEMMA TailFrame ==
  ASSUME TailInv, rows' = rows, UNCHANGED <<waves, updates, outcome, said, blank, seen>>,
         regions' \in RegionFiles, pc' = pc \/ (pc = "seed" /\ pc' = "masks")
  PROVE  TailInv'
<1>1. RowsInv'
    BY DEF TailInv, RowsInv, Enriching
<1>2. LookupInv'
    BY DEF TailInv, LookupInv, waves
<1>3. OrderInv'
    BY DEF TailInv, OrderInv, waves, Enriching
<1>4. LastStagesInv'
    BY DEF TailInv, LastStagesInv
<1> QED
    BY <1>1, <1>2, <1>3, <1>4 DEF TailInv

\* The run is over and not every stage ended well.
LEMMA TailStops ==
  ASSUME TailInv, rows' = rows, Dropped, UNCHANGED <<regions, said, blank, seen>>,
         outcome' \in [Stages -> {Nothing, "ok", "failed"}], \E s \in Stages : outcome'[s] # "ok"
  PROVE  TailInv'
<1>1. DOMAIN updates' = {} /\ updates' = <<>> /\ DOMAIN direct' = {} /\ cache' \in Caches
    BY EmptySeq DEF Dropped, Caches
<1>2. RowsInv'
    BY <1>1 DEF TailInv, RowsInv
<1>3. LookupInv'
    BY <1>1 DEF LookupInv, Dropped
<1>4. OrderInv'
    BY DEF OrderInv, Dropped, Enriching
<1>5. LastStagesInv'
    BY DEF TailInv, LastStagesInv, Dropped
<1> QED
    BY <1>2, <1>3, <1>4, <1>5 DEF TailInv

LEMMA TailDies == ASSUME TailInv, ProcessDies PROVE TailInv'
<1>1. "masks" \in Stages /\ outcome'["masks"] # "ok"
    BY DEF TailInv, LastStagesInv, ProcessDies, Stages
<1> QED
    BY <1>1, TailStops DEF TailInv, LastStagesInv, ProcessDies, directories

LEMMA TailWriteFails == ASSUME TailInv, WriteFails PROVE TailInv'
<1>1. outcome' \in [Stages -> {Nothing, "ok", "failed"}] /\ "enrich" \in Stages /\ outcome'["enrich"] = "failed"
    BY DEF TailInv, LastStagesInv, WriteFails, Stages
<1> QED
    BY <1>1, TailStops DEF WriteFails, directories

LEMMA TailMasksFail == ASSUME TailInv, MasksFail PROVE TailInv'
<1>1. outcome' \in [Stages -> {Nothing, "ok", "failed"}] /\ "masks" \in Stages /\ outcome'["masks"] = "failed"
    BY DEF TailInv, LastStagesInv, MasksFail, RunEnds, Stages
<1> QED
    BY <1>1, TailStops DEF MasksFail, RunEnds, directories

LEMMA TailStartRun ==
  ASSUME TailInv, NEW replaced, StartRun(replaced)
  PROVE  TailInv'
<1>1. /\ rows' = [r \in Rows |-> IF r \in UNION replaced THEN Inserted(r, rows[r].op) ELSE rows[r]]
      /\ pc = "idle" /\ pc' = "match" /\ outcome' = [s \in Stages |-> Nothing]
      /\ UNCHANGED <<waves, updates, said, blank, seen, regions>>
    BY DEF StartRun, directories
<1>2. RowsInv'
  <2>1. \A r \in Rows : RowOf(rows'[r], r) /\ Confirmed(rows'[r], said \cup blank)
    <3> TAKE r \in Rows
    <3>1. RowOf(rows[r], r) /\ Confirmed(rows[r], said \cup blank)
        BY DEF TailInv, RowsInv
    <3>2. RowOf(Inserted(r, rows[r].op), r) /\ Confirmed(Inserted(r, rows[r].op), said \cup blank)
        BY <3>1, InsertedFacts DEF Confirmed, RowOf
    <3>3. rows'[r] = Inserted(r, rows[r].op) \/ rows'[r] = rows[r]
        BY <1>1
    <3> QED
        BY <3>1, <3>2, <3>3
  <2> QED
      BY <1>1, <2>1 DEF TailInv, RowsInv, Enriching
<1>3. LookupInv'
    BY <1>1 DEF TailInv, LookupInv, waves
<1>4. OrderInv'
    BY <1>1 DEF OrderInv, Enriching
<1>5. LastStagesInv'
    BY <1>1 DEF TailInv, LastStagesInv, Stages, Nothing
<1> QED
    BY <1>2, <1>3, <1>4, <1>5 DEF TailInv

\* A stage that fails before it has changed a row.
LEMMA TailStageFails ==
  ASSUME TailInv, NoRegistry \/ RegionsFail
  PROVE  TailInv'
<1>1. /\ rows' = rows /\ UNCHANGED <<waves, updates, said, blank, seen, regions>>
      /\ \/ pc = "match" /\ pc' = "regions" /\ outcome' = [outcome EXCEPT !["enrich"] = "failed"]
         \/ pc = "regions" /\ pc' = "seed" /\ outcome' = [outcome EXCEPT !["regions"] = "failed"]
    BY DEF NoRegistry, RegionsFail, StageEnds, directories
<1>2. outcome \in [Stages -> {Nothing, "ok", "failed"}] /\ {"enrich", "regions", "masks"} = Stages
    BY DEF TailInv, LastStagesInv, Stages
<1>3. RowsInv'
    BY <1>1 DEF TailInv, RowsInv, Enriching
<1>4. LookupInv'
    BY <1>1 DEF TailInv, LookupInv, waves
<1>5. OrderInv'
    BY <1>1, <1>2 DEF TailInv, OrderInv, waves, Enriching
<1>6. LastStagesInv'
    BY <1>1, <1>2 DEF TailInv, LastStagesInv
<1> QED
    BY <1>3, <1>4, <1>5, <1>6 DEF TailInv

-----------------------------------------------------------------------------
(* Operators                                                               *)

\* Rows that are decided, of which none waits to be written.
LEMMA ChangesFacts ==
  ASSUME RowsInv, NEW decided, DOMAIN decided \subseteq Rows,
         \A r \in DOMAIN decided : /\ RowOf(decided[r], r) /\ Confirmed(decided[r], said \cup blank)
                                   /\ r \notin DOMAIN updates
  PROVE  LET u == Changes(decided)
         IN /\ DOMAIN u \subseteq Rows /\ DOMAIN u \subseteq DOMAIN decided \cup DOMAIN updates
            /\ \A r \in DOMAIN u : RowOf(u[r], r) /\ Confirmed(u[r], said \cup blank)
            /\ \A r \in DOMAIN decided : Due(r, rows, u) = decided[r].op
            /\ \A r \in Rows : r \notin DOMAIN decided => Due(r, rows, u) = Due(r, rows, updates)
<1> DEFINE changed == {r \in DOMAIN decided : decided[r] # rows[r]}
           u == Changes(decided)
<1>1. u = [r \in changed \cup DOMAIN updates |-> IF r \in changed THEN decided[r] ELSE updates[r]]
    BY DEF Changes
<1>2. changed \subseteq DOMAIN decided /\ DOMAIN updates \subseteq Rows
    BY DEF RowsInv
<1> HIDE DEF u
<1>3. \A r \in DOMAIN u : (r \in DOMAIN decided /\ u[r] = decided[r]) \/ (r \in DOMAIN updates /\ u[r] = updates[r])
    BY <1>1
<1>4. \A r \in DOMAIN u : RowOf(u[r], r) /\ Confirmed(u[r], said \cup blank)
    BY <1>3 DEF RowsInv
<1>5. \A r \in DOMAIN decided : Due(r, rows, u) = decided[r].op
    BY <1>1 DEF Due
<1>6. \A r \in Rows : r \notin DOMAIN decided => Due(r, rows, u) = Due(r, rows, updates)
    BY <1>1 DEF Due
<1> QED
    BY <1>1, <1>2, <1>4, <1>5, <1>6 DEF u

\* A number that ranges cover has the operator of the first of them.
LEMMA NumberFacts ==
  ASSUME NEW c \in Caches, NEW num, NEW answers, NEW misses
  PROVE  /\ ResolveNumber(c, num) # NoMatch =>
              /\ Rightly(ResolveNumber(c, num).op, num, c, answers, misses)
              /\ ResolveNumber(c, num).op \notin {Nothing, Sentinel}
              /\ Valid(num)
<1> SUFFICES ASSUME ResolveNumber(c, num) # NoMatch
             PROVE  /\ Rightly(ResolveNumber(c, num).op, num, c, answers, misses)
                    /\ ResolveNumber(c, num).op \notin {Nothing, Sentinel}
                    /\ Valid(num)
    OBVIOUS
<1> DEFINE over == Covering(c, Split(num).abc, Split(num).local)
<1>1. Valid(num) /\ ResolveNumber(c, num) = Resolve(c, Split(num).abc, Split(num).local)
    BY DEF ResolveNumber
<1>2. over # {} /\ Resolve(c, Split(num).abc, Split(num).local).op = c[Min(over)].op
      /\ Resolve(c, Split(num).abc, Split(num).local).op \notin {Nothing, Sentinel}
    BY <1>1, CoverFacts
<1> QED
    BY <1>1, <1>2 DEF Rightly

LEMMA TailMatch == ASSUME TailInv, Match PROVE TailInv'
<1>1. PICK c \in {Seeded(s) : s \in Seeds} :
        LET hit == {r \in Rows : FirstMatch(c, r) # NoMatch}
            invalid == {r \in Rows \ hit : ~Valid(Phone(r))}
        IN /\ cache' = c
           /\ updates' = Changes([r \in hit \cup invalid |->
                IF r \in hit THEN Updated(rows[r], FirstMatch(c, r), FALSE)
                ELSE Updated(rows[r], [NoMatch EXCEPT !.op = Sentinel], TRUE)])
           /\ pending' = Rows \ (hit \cup invalid)
    BY DEF Match
<1> DEFINE hit == {r \in Rows : FirstMatch(c, r) # NoMatch}
           invalid == {r \in Rows \ hit : ~Valid(Phone(r))}
           missed == [NoMatch EXCEPT !.op = Sentinel]
           decided == [r \in hit \cup invalid |->
                IF r \in hit THEN Updated(rows[r], FirstMatch(c, r), FALSE)
                ELSE Updated(rows[r], missed, TRUE)]
<1>2. c \in Caches
    BY SeedAssumption, SeededFacts
<1>3. /\ cache' = c /\ updates' = Changes(decided) /\ pending' = Rows \ (hit \cup invalid)
      /\ pc = "match" /\ pc' = "wave" /\ rows' = rows
      /\ UNCHANGED <<asked, direct, absent, outcome, said, blank, seen, regions>>
    BY <1>1 DEF Match, directories
<1>4. \A r \in Rows : RowOf(rows[r], r) /\ Phone(r) = Fresh[r].num
    BY DEF TailInv, RowsInv, RowOf, Phone
<1>5. \A r \in Rows : FirstMatch(c, r) = ResolveNumber(c, Fresh[r].num)
    BY <1>2, <1>4, FirstMatchFacts
<1>6. updates = <<>> /\ DOMAIN updates = {}
  <2>1. updates = <<>>
      BY <1>3 DEF TailInv, RowsInv, Enriching
  <2> QED
      BY <2>1, EmptySeq
<1>7. missed.op = Sentinel
    BY DEF NoMatch
<1> HIDE DEF missed
<1>8. ASSUME NEW r \in Rows, NEW match, NEW missing
       PROVE  /\ RowOf(Updated(rows[r], match, missing), r)
              /\ Updated(rows[r], match, missing).op = match.op
    BY <1>4, UpdatedFacts
<1>9. DOMAIN decided = hit \cup invalid /\ hit \subseteq Rows /\ invalid \subseteq Rows
    OBVIOUS
<1>10. \A r \in hit \cup invalid :
        /\ RowOf(decided[r], r) /\ Confirmed(decided[r], said \cup blank)
        /\ Rightly(decided[r].op, Fresh[r].num, c, direct, absent)
  <2> TAKE r \in hit \cup invalid
  <2>1. CASE r \in hit
    <3>1. decided[r] = Updated(rows[r], FirstMatch(c, r), FALSE)
        BY <2>1
    <3>2. RowOf(decided[r], r) /\ decided[r].op = FirstMatch(c, r).op
        BY <1>8, <2>1, <3>1
    <3>3. ResolveNumber(c, Fresh[r].num) # NoMatch /\ FirstMatch(c, r) = ResolveNumber(c, Fresh[r].num)
        BY <1>5, <2>1
    <3>4. /\ Rightly(ResolveNumber(c, Fresh[r].num).op, Fresh[r].num, c, direct, absent)
          /\ ResolveNumber(c, Fresh[r].num).op \notin {Nothing, Sentinel}
        BY <1>2, <3>3, NumberFacts
    <3> HIDE DEF decided
    <3> QED
        BY <3>2, <3>3, <3>4 DEF Confirmed
  <2>2. CASE r \in invalid
    <3>1. decided[r] = Updated(rows[r], missed, TRUE) /\ ~Valid(Phone(r)) /\ r \in Rows
        BY <2>2
    <3>2. RowOf(decided[r], r) /\ decided[r].op = Sentinel
        BY <1>7, <1>8, <3>1
    <3> HIDE DEF decided
    <3>3. decided[r].num = Fresh[r].num /\ ~Valid(Fresh[r].num)
        BY <1>4, <3>1, <3>2 DEF RowOf
    <3> QED
        BY <3>2, <3>3 DEF Confirmed, Rightly
  <2> QED
      BY <2>1, <2>2
<1> HIDE DEF decided
<1>11. /\ DOMAIN updates' \subseteq Rows /\ DOMAIN updates' \subseteq hit \cup invalid
       /\ \A r \in DOMAIN updates' : RowOf(updates'[r], r) /\ Confirmed(updates'[r], said \cup blank)
       /\ \A r \in hit \cup invalid : Due(r, rows, updates') = decided[r].op
  <2>1. RowsInv
      BY DEF TailInv
  <2> QED
      BY <1>3, <1>6, <1>9, <1>10, <2>1, ChangesFacts
<1>12. RowsInv'
    BY <1>3, <1>11 DEF TailInv, RowsInv, Enriching
<1>13. LookupInv'
  <2>1. pending' \subseteq Rows
      BY <1>3
  <2>2. \A r \in pending' : Valid(Fresh[r].num) /\ r \notin DOMAIN updates'
      BY <1>3, <1>4, <1>11
  <2>3. \A r, s \in Rows : Fresh[r].num = Fresh[s].num /\ r \in pending' => s \in pending'
      BY <1>3, <1>4, <1>5
  <2>4. asked' = {} /\ absent' \subseteq said' \cup blank' /\ \A p \in DOMAIN direct' : direct'[p] \notin {Nothing, Sentinel}
      BY <1>3 DEF TailInv, LookupInv
  <2> QED
      BY <1>2, <1>3, <2>1, <2>2, <2>3, <2>4 DEF LookupInv
<1>14. OrderInv'
  <2>1. \A r \in Rows \ pending' : Rightly(Due(r, rows', updates'), Fresh[r].num, cache', direct', absent')
      BY <1>3, <1>10, <1>11
  <2> QED
      BY <1>3, <2>1 DEF OrderInv
<1>15. LastStagesInv'
    BY <1>3 DEF TailInv, LastStagesInv
<1> QED
    BY <1>12, <1>13, <1>14, <1>15 DEF TailInv


\* What is decided of a row between two waves depends on its number only.
LEMMA WaveFacts ==
  ASSUME TailInv, NEW r \in pending
  PROVE  /\ Phone(r) = Fresh[r].num /\ Valid(Fresh[r].num)
         /\ r \in Decided => /\ RowOf(Decision(r), r) /\ Confirmed(Decision(r), said \cup blank)
                             /\ Rightly(Decision(r).op, Fresh[r].num, cache, direct, absent)
<1> DEFINE num == Fresh[r].num
           missed == [NoMatch EXCEPT !.op = Sentinel]
<1>1. r \in Rows /\ RowOf(rows[r], r) /\ Phone(r) = num /\ Valid(num)
    BY DEF TailInv, RowsInv, LookupInv, RowOf, Phone
<1>2. cache \in Caches /\ absent \subseteq said \cup blank /\ \A p \in DOMAIN direct : direct[p] \notin {Nothing, Sentinel}
    BY DEF TailInv, LookupInv
<1>3. missed.op = Sentinel
    BY DEF NoMatch
<1> HIDE DEF missed
<1>4. ASSUME NEW match, NEW missing
      PROVE  RowOf(Updated(rows[r], match, missing), r) /\ Updated(rows[r], match, missing).op = match.op
    BY <1>1, UpdatedFacts
<1>5. ASSUME WaveMatch(r) # NoMatch
      PROVE  /\ RowOf(Decision(r), r) /\ Confirmed(Decision(r), said \cup blank)
             /\ Rightly(Decision(r).op, num, cache, direct, absent)
  <2>1. Decision(r) = Updated(rows[r], WaveMatch(r), FALSE)
      BY <1>5 DEF Decision
  <2>2. RowOf(Decision(r), r) /\ Decision(r).op = WaveMatch(r).op
      BY <1>4, <2>1
  <2>3. CASE ResolveNumber(cache, num) # NoMatch
    <3>1. WaveMatch(r) = ResolveNumber(cache, num)
        BY <1>1, <2>3 DEF WaveMatch
    <3> QED
        BY <1>2, <2>2, <2>3, <3>1, NumberFacts DEF Confirmed
  <2>4. CASE ResolveNumber(cache, num) = NoMatch
    <3>1. num \in DOMAIN direct /\ WaveMatch(r) = [NoMatch EXCEPT !.op = direct[num]]
        BY <1>1, <1>5, <2>4 DEF WaveMatch
    <3>2. WaveMatch(r).op = direct[num]
        BY <3>1 DEF NoMatch
    <3> QED
        BY <1>2, <2>2, <3>1, <3>2 DEF Confirmed, Rightly
  <2> QED
      BY <2>3, <2>4
<1>6. ASSUME WaveMatch(r) = NoMatch, Phone(r) \in absent
      PROVE  /\ RowOf(Decision(r), r) /\ Confirmed(Decision(r), said \cup blank)
             /\ Rightly(Decision(r).op, num, cache, direct, absent)
  <2>1. Decision(r) = Updated(rows[r], missed, TRUE)
      BY <1>6 DEF Decision, missed
  <2>2. RowOf(Decision(r), r) /\ Decision(r).op = Sentinel
      BY <1>3, <1>4, <2>1
  <2>3. Decision(r).num = num /\ num \in said \cup blank
      BY <1>1, <1>2, <1>6, <2>2 DEF RowOf
  <2> QED
      BY <1>1, <1>6, <2>2, <2>3 DEF Confirmed, Rightly
<1> QED
    BY <1>1, <1>5, <1>6 DEF Decided

LEMMA TailWave == ASSUME TailInv, Wave PROVE TailInv'
<1> DEFINE decided == [r \in Decided |-> Decision(r)]
<1>1. /\ updates' = Changes(decided) /\ pending' = pending \ Decided /\ pc = "wave"
      /\ rows' = rows /\ UNCHANGED <<cache, direct, absent, outcome, said, blank, seen, regions>>
      /\ \/ pc' = "write" /\ asked' = asked
         \/ pc' = "ask" /\ asked' = {Phone(r) : r \in pending'}
    BY DEF Wave, directories
<1>2. Decided \subseteq pending /\ pending \subseteq Rows /\ \A r \in pending : r \notin DOMAIN updates
    BY DEF Decided, TailInv, LookupInv
<1>3. \A r \in Decided : /\ RowOf(decided[r], r) /\ Confirmed(decided[r], said \cup blank)
                         /\ Rightly(decided[r].op, Fresh[r].num, cache, direct, absent)
    BY <1>2, WaveFacts
<1>4. DOMAIN decided = Decided
    OBVIOUS
<1> HIDE DEF decided
<1>5. /\ DOMAIN updates' \subseteq Rows /\ DOMAIN updates' \subseteq Decided \cup DOMAIN updates
      /\ \A r \in DOMAIN updates' : RowOf(updates'[r], r) /\ Confirmed(updates'[r], said \cup blank)
      /\ \A r \in Decided : Due(r, rows, updates') = decided[r].op
      /\ \A r \in Rows : r \notin Decided => Due(r, rows, updates') = Due(r, rows, updates)
  <2>1. RowsInv
      BY DEF TailInv
  <2> QED
      BY <1>1, <1>2, <1>3, <1>4, <2>1, ChangesFacts
<1>6. \A r, s \in pending : Fresh[r].num = Fresh[s].num /\ s \in Decided => r \in Decided
  <2> SUFFICES ASSUME NEW r \in pending, NEW s \in pending, Fresh[r].num = Fresh[s].num, s \in Decided
               PROVE  r \in Decided
      OBVIOUS
  <2>1. Phone(r) = Phone(s)
      BY WaveFacts
  <2>2. WaveMatch(r) = WaveMatch(s)
      BY <2>1 DEF WaveMatch
  <2> QED
      BY <2>1, <2>2 DEF Decided
<1>7. RowsInv'
    BY <1>1, <1>5 DEF TailInv, RowsInv, Enriching
<1>8. LookupInv'
  <2>1. pending' \subseteq Rows /\ \A r \in pending' : Valid(Fresh[r].num) /\ r \notin DOMAIN updates'
      BY <1>1, <1>2, <1>5, WaveFacts
  <2>2. \A r, s \in Rows : Fresh[r].num = Fresh[s].num /\ r \in pending' => s \in pending'
    <3> SUFFICES ASSUME NEW r \in Rows, NEW s \in Rows, Fresh[r].num = Fresh[s].num, r \in pending'
                 PROVE  s \in pending'
        OBVIOUS
    <3>1. r \in pending /\ r \notin Decided
        BY <1>1
    <3>2. s \in pending
        BY <3>1 DEF TailInv, LookupInv
    <3> QED
        BY <1>1, <1>6, <3>1, <3>2
  <2>3. asked' \subseteq {Fresh[r].num : r \in pending'} /\ (pc' # "ask" => asked' = {})
    <3>1. asked = {}
        BY <1>1 DEF TailInv, LookupInv
    <3>2. \A r \in pending' : Phone(r) = Fresh[r].num
        BY <1>1, WaveFacts
    <3> QED
        BY <1>1, <3>1, <3>2
  <2> QED
      BY <1>1, <2>1, <2>2, <2>3 DEF TailInv, LookupInv
<1>9. OrderInv'
  <2>1. \A r \in Rows \ pending' : Rightly(Due(r, rows', updates'), Fresh[r].num, cache', direct', absent')
    <3> TAKE r \in Rows \ pending'
    <3>1. CASE r \in Decided
        BY <1>1, <1>3, <1>5, <3>1
    <3>2. CASE r \notin Decided
      <4>1. r \in Rows \ pending
          BY <1>1, <3>2
      <4>2. Rightly(Due(r, rows, updates), Fresh[r].num, cache, direct, absent)
          BY <1>1, <4>1 DEF TailInv, OrderInv, Enriching
      <4> QED
          BY <1>1, <1>5, <3>2, <4>2
    <3> QED
        BY <3>1, <3>2
  <2> QED
      BY <1>1, <2>1 DEF OrderInv
<1>10. LastStagesInv'
    BY <1>1 DEF TailInv, LastStagesInv
<1> QED
    BY <1>7, <1>8, <1>9, <1>10 DEF TailInv

\* An answer changes nothing for a number that is decided: what ranges it
\* brings come last, and the number itself is not of this wave.
LEMMA TailReply == ASSUME TailInv, NEW phone, Reply(phone) PROVE TailInv'
<1>1. /\ pc = "ask" /\ phone \in asked /\ asked' = asked \ {phone}
      /\ pc' = (IF asked' = {} THEN "wave" ELSE "ask") /\ rows' = rows
      /\ UNCHANGED <<pending, updates, outcome, seen, regions>>
    BY DEF Reply, directories
<1>2. PICK s \in pending : phone = Fresh[s].num
    BY <1>1 DEF TailInv, LookupInv
<1>3. s \in Rows /\ phone \in Phones
    BY <1>2 DEF TailInv, LookupInv, Phones
<1>4. /\ cache \in Caches /\ absent \subseteq said \cup blank /\ said \cup blank \subseteq said' \cup blank'
      /\ \A p \in DOMAIN direct : direct[p] \notin {Nothing, Sentinel}
    BY DEF TailInv, LookupInv, Reply
<1>5. /\ absent \subseteq absent' /\ absent' \subseteq said' \cup blank'
      /\ \/ cache' = cache /\ direct' = direct
         \/ \E entry \in Registry[phone] :
              /\ cache' = Add(cache, FromApi(entry))
              /\ direct' = [p \in DOMAIN direct \cup {phone} |-> IF p = phone THEN entry.op ELSE direct[p]]
  <2>1. PICK reply \in Replies :
          /\ said' = (IF reply \in {"missing", "rejected"} THEN said \cup {phone} ELSE said)
          /\ blank' = (IF reply = "blank" THEN blank \cup {phone} ELSE blank)
          /\ CASE Classify(reply) = "absent" -> absent' = absent \cup {phone} /\ UNCHANGED <<cache, direct>>
               [] Classify(reply) = "error" -> UNCHANGED <<cache, direct, absent>>
               [] Classify(reply) = "found" ->
                    \E entry \in Registry[phone] :
                      /\ cache' = Add(cache, FromApi(entry)) /\ UNCHANGED absent
                      /\ direct' = [p \in DOMAIN direct \cup {phone} |->
                                     IF p = phone THEN entry.op ELSE direct[p]]
      BY DEF Reply
  <2>2. CASE reply \in {"missing", "rejected", "blank"}
    <3>1. absent' = absent \cup {phone} /\ cache' = cache /\ direct' = direct
        BY <2>1, <2>2 DEF Classify
    <3>2. phone \in said' \cup blank'
        BY <2>1, <2>2
    <3> QED
        BY <1>4, <3>1, <3>2
  <2>3. CASE reply \in {"denied", "broken"}
    <3>1. absent' = absent /\ cache' = cache /\ direct' = direct
        BY <2>1, <2>3 DEF Classify
    <3> QED
        BY <1>4, <3>1
  <2>4. CASE reply = "found"
    <3>1. Classify(reply) = "found"
        BY <2>4 DEF Classify
    <3>2. /\ absent' = absent
          /\ \E entry \in Registry[phone] :
              /\ cache' = Add(cache, FromApi(entry))
              /\ direct' = [p \in DOMAIN direct \cup {phone} |-> IF p = phone THEN entry.op ELSE direct[p]]
        BY <2>1, <3>1
    <3> QED
        BY <1>4, <3>2
  <2> QED
      BY <2>2, <2>3, <2>4 DEF Replies
<1> DEFINE Kept ==
      /\ cache' \in Caches
      /\ \A p \in DOMAIN direct' : direct'[p] \notin {Nothing, Sentinel}
      /\ \A p \in DOMAIN direct : p # phone => p \in DOMAIN direct' /\ direct'[p] = direct[p]
      /\ \A abc, local : Covering(cache, abc, local) # {} =>
           /\ Covering(cache', abc, local) # {}
           /\ cache'[Min(Covering(cache', abc, local))].op = cache[Min(Covering(cache, abc, local))].op
<1>6. Kept
  <2>1. CASE cache' = cache /\ direct' = direct
      BY <1>4, <2>1
  <2>2. ASSUME NEW entry \in Registry[phone],
               cache' = Add(cache, FromApi(entry)),
               direct' = [p \in DOMAIN direct \cup {phone} |-> IF p = phone THEN entry.op ELSE direct[p]]
        PROVE  Kept
    <3>1. entry \in ApiRows /\ Len(entry.abc) = 3 /\ entry.op \notin {Nothing, Sentinel}
        BY <1>3, RegistryAssumption
    <3>2. FromApi(entry) \in AnyRange /\ Len(FromApi(entry).abc) = 3 /\ FromApi(entry).op # Sentinel
        BY <3>1, ApiFacts
    <3>3. cache' \in Caches
        BY <1>4, <2>2, <3>2, AddFacts
    <3>4. \A abc, local : Covering(cache, abc, local) # {} =>
            /\ Covering(cache', abc, local) # {}
            /\ cache'[Min(Covering(cache', abc, local))].op = cache[Min(Covering(cache, abc, local))].op
        BY <1>4, <2>2, <3>2, CoverStays
    <3>5. \A p \in DOMAIN direct' : direct'[p] \notin {Nothing, Sentinel}
        BY <1>4, <2>2, <3>1
    <3>6. \A p \in DOMAIN direct : p # phone => p \in DOMAIN direct' /\ direct'[p] = direct[p]
        BY <2>2
    <3> QED
        BY <3>3, <3>4, <3>5, <3>6
  <2> QED
      BY <1>5, <2>1, <2>2
<1>7. RowsInv'
    BY <1>1, <1>4 DEF TailInv, RowsInv, Confirmed, Enriching
<1>8. LookupInv'
    BY <1>1, <1>5, <1>6 DEF TailInv, LookupInv
<1>9. \A r \in Rows \ pending : Rightly(Due(r, rows', updates'), Fresh[r].num, cache', direct', absent')
  <2> TAKE r \in Rows \ pending
  <2> DEFINE num == Fresh[r].num
             op == Due(r, rows, updates)
  <2>1. Rightly(op, num, cache, direct, absent)
      BY <1>1 DEF TailInv, OrderInv, Enriching
  <2>2. num # phone
      BY <1>2, <1>3 DEF TailInv, LookupInv
  <2> HIDE DEF num, op
  <2>3. Rightly(op, num, cache', direct', absent')
      BY <1>5, <1>6, <2>1, <2>2 DEF Rightly
  <2> QED
      BY <1>1, <2>3 DEF num, op
<1>10. OrderInv'
    BY <1>1, <1>9 DEF OrderInv
<1>11. LastStagesInv'
    BY <1>1 DEF TailInv, LastStagesInv
<1> QED
    BY <1>7, <1>8, <1>10, <1>11 DEF TailInv

LEMMA TailWrite ==
  ASSUME TailInv, NEW batch \in SUBSET DOMAIN updates, Write(batch)
  PROVE  TailInv'
<1>1. /\ rows' = [r \in Rows |-> IF r \in batch THEN updates[r] ELSE rows[r]]
      /\ updates' = [r \in DOMAIN updates \ batch |-> updates[r]]
      /\ pc = "write" /\ pc' = pc
      /\ UNCHANGED <<waves, outcome, said, blank, seen, regions>>
    BY DEF Write, directories
<1>2. DOMAIN updates \subseteq Rows /\ DOMAIN updates' \subseteq DOMAIN updates
    BY <1>1 DEF TailInv, RowsInv
<1>3. \A r \in DOMAIN updates' : updates'[r] = updates[r]
    BY <1>1
<1>4. \A r \in Rows : rows'[r] = rows[r] \/ (r \in DOMAIN updates /\ rows'[r] = updates[r])
    BY <1>1
<1>5. \A r \in Rows : Due(r, rows', updates') = Due(r, rows, updates)
    BY <1>1, <1>2 DEF Due
<1>6. RowsInv'
    BY <1>1, <1>2, <1>3, <1>4 DEF TailInv, RowsInv, Enriching
<1>7. LookupInv'
    BY <1>1, <1>2 DEF TailInv, LookupInv, waves
<1>8. OrderInv'
    BY <1>1, <1>5 DEF TailInv, OrderInv, waves, Enriching
<1>9. LastStagesInv'
    BY <1>1 DEF TailInv, LastStagesInv
<1> QED
    BY <1>6, <1>7, <1>8, <1>9 DEF TailInv

LEMMA TailEnrichEnds == ASSUME TailInv, EnrichEnds PROVE TailInv'
<1>1. /\ pc = "write" /\ pc' = "regions" /\ updates = <<>> /\ rows' = rows
      /\ outcome' = [outcome EXCEPT !["enrich"] = IF Covered THEN "ok" ELSE "failed"]
      /\ UNCHANGED <<waves, updates, said, blank, seen, regions>>
    BY DEF EnrichEnds, StageEnds, directories
<1>2. DOMAIN updates = {}
    BY <1>1, EmptySeq
<1>3. outcome \in [Stages -> {Nothing, "ok", "failed"}] /\ Stages = {"enrich", "regions", "masks"}
    BY DEF TailInv, LastStagesInv, Stages
<1>4. RowsInv'
    BY <1>1 DEF TailInv, RowsInv
<1>5. LookupInv'
    BY <1>1 DEF TailInv, LookupInv, waves
<1>6. OrderInv'
  <2>1. outcome'["enrich"] = "ok" => pending = {}
      BY <1>1, <1>3 DEF Covered
  <2>2. \A r \in Rows \ pending : Rightly(rows[r].op, Fresh[r].num, cache, direct, absent)
      BY <1>1, <1>2 DEF TailInv, OrderInv, Enriching, Due
  <2> QED
      BY <1>1, <2>1, <2>2 DEF OrderInv, Enriching, waves
<1>7. LastStagesInv'
  <2>1. outcome' \in [Stages -> {Nothing, "ok", "failed"}] /\ outcome'["masks"] = outcome["masks"]
      BY <1>1, <1>3
  <2> QED
      BY <1>1, <2>1 DEF TailInv, LastStagesInv
<1> QED
    BY <1>4, <1>5, <1>6, <1>7 DEF TailInv

-----------------------------------------------------------------------------
(* Regions and masks                                                       *)

LEMMA TailApplyRegions == ASSUME TailInv, ApplyRegions PROVE TailInv'
<1>1. /\ rows' = [r \in Rows |-> IF IsGeographic(Phone(r)) THEN Located(rows[r], regions) ELSE rows[r]]
      /\ pc = "regions" /\ pc' = "seed" /\ outcome' = [outcome EXCEPT !["regions"] = "ok"]
      /\ seen' = [seen EXCEPT !.regions = regions]
      /\ UNCHANGED <<waves, updates, said, blank, regions>>
    BY DEF ApplyRegions, StageEnds, directories
<1>2. outcome \in [Stages -> {Nothing, "ok", "failed"}] /\ Stages = {"enrich", "regions", "masks"}
      /\ DOMAIN seen = {"regions", "masks"} /\ regions \in RegionFiles
    BY DEF TailInv, LastStagesInv, Stages
<1>3. \A d \in regions : d.abc \in Digits
    BY <1>2, RegionAssumption
<1>4. \A r \in Rows : /\ RowOf(rows'[r], r) /\ rows'[r].op = rows[r].op
                      /\ IsGeographic(Fresh[r].num) => Agrees(rows'[r], regions)
  <2> TAKE r \in Rows
  <2>1. RowOf(rows[r], r) /\ Phone(r) = Fresh[r].num /\ rows[r].num = Fresh[r].num
      BY DEF TailInv, RowsInv, RowOf, Phone
  <2>2. CASE IsGeographic(Fresh[r].num)
    <3>1. rows'[r] = Located(rows[r], regions)
        BY <1>1, <2>1, <2>2
    <3> QED
        BY <1>3, <2>1, <2>2, <3>1, LocatedFacts
  <2>3. CASE ~IsGeographic(Fresh[r].num)
      BY <1>1, <2>1, <2>3
  <2> QED
      BY <2>2, <2>3
<1>5. RowsInv'
  <2>1. \A r \in Rows : Confirmed(rows'[r], said \cup blank)
      BY <1>4 DEF TailInv, RowsInv, RowOf, Confirmed
  <2> QED
      BY <1>1, <1>4, <2>1 DEF TailInv, RowsInv, Enriching
<1>6. LookupInv'
    BY <1>1 DEF TailInv, LookupInv, waves
<1>7. OrderInv'
  <2>1. outcome'["enrich"] = outcome["enrich"]
      BY <1>1, <1>2
  <2> QED
      BY <1>1, <1>4, <2>1 DEF TailInv, OrderInv, waves, Enriching
<1>8. LastStagesInv'
  <2>1. outcome' \in [Stages -> {Nothing, "ok", "failed"}] /\ outcome'["masks"] = outcome["masks"]
      BY <1>1, <1>2
  <2>2. DOMAIN seen' = {"regions", "masks"} /\ seen'.regions = regions
      BY <1>1, <1>2
  <2>3. AllAgree(rows', seen'.regions)
      BY <1>4, <2>2 DEF AllAgree
  <2> QED
      BY <1>1, <1>2, <2>1, <2>2, <2>3 DEF TailInv, LastStagesInv
<1> QED
    BY <1>5, <1>6, <1>7, <1>8 DEF TailInv

LEMMA TailApplyMasks == ASSUME TailInv, ApplyMasks PROVE TailInv'
<1>1. /\ rows' = [r \in Rows |-> [rows[r] EXCEPT
                    !.type = MaskType(masks, Line(Phone(r)), rows[r].abc, rows[r].local)]]
      /\ pc = "masks" /\ pc' = "idle" /\ outcome' = [outcome EXCEPT !["masks"] = "ok"]
      /\ seen' = [seen EXCEPT !.masks = masks] /\ Dropped
      /\ UNCHANGED <<said, blank, regions>>
    BY DEF ApplyMasks, RunEnds, Dropped, directories
<1>2. outcome \in [Stages -> {Nothing, "ok", "failed"}] /\ Stages = {"enrich", "regions", "masks"}
      /\ DOMAIN seen = {"regions", "masks"} /\ regions \in RegionFiles
    BY DEF TailInv, LastStagesInv, Stages
<1>3. \A r \in Rows :
        /\ DOMAIN rows'[r] = Fields /\ rows'[r].num = rows[r].num /\ rows'[r].op = rows[r].op
        /\ rows'[r].abc = rows[r].abc /\ rows'[r].local = rows[r].local
        /\ rows'[r].city = rows[r].city /\ rows'[r].region = rows[r].region
        /\ rows'[r].type = MaskType(masks, Line(Fresh[r].num), rows'[r].abc, rows'[r].local)
  <2> TAKE r \in Rows
  <2>1. DOMAIN rows[r] = Fields /\ Phone(r) = Fresh[r].num
      BY DEF TailInv, RowsInv, RowOf, Phone
  <2> QED
      BY <1>1, <2>1 DEF Fields
<1>4. DOMAIN updates' = {} /\ updates' = <<>> /\ DOMAIN direct' = {} /\ cache' \in Caches
    BY <1>1, EmptySeq DEF Dropped, Caches
<1>5. RowsInv'
  <2>1. \A r \in Rows : RowOf(rows'[r], r) /\ Confirmed(rows'[r], said \cup blank)
      BY <1>3 DEF TailInv, RowsInv, RowOf, IsSplit, Confirmed
  <2> QED
      BY <1>1, <1>4, <2>1 DEF RowsInv
<1>6. LookupInv'
    BY <1>1, <1>4 DEF LookupInv, Dropped
<1>7. OrderInv'
    BY <1>1 DEF OrderInv, Enriching
<1>8. LastStagesInv'
  <2>1. /\ outcome' \in [Stages -> {Nothing, "ok", "failed"}] /\ outcome'["regions"] = outcome["regions"]
        /\ "regions" \in Stages
      BY <1>1, <1>2
  <2>2. DOMAIN seen' = {"regions", "masks"} /\ seen'.regions = seen.regions /\ seen'.masks = masks
      BY <1>1, <1>2
  <2>3. outcome["regions"] = "ok" => AllAgree(rows', seen'.regions)
    <3>1. outcome["regions"] = "ok" => AllAgree(rows, seen.regions)
        BY <1>1 DEF TailInv, LastStagesInv
    <3> QED
        BY <1>3, <2>2, <3>1 DEF AllAgree, Agrees
  <2>4. AllTyped(rows', seen'.masks)
      BY <1>3, <2>2 DEF AllTyped
  <2> QED
      BY <1>1, <1>2, <2>1, <2>2, <2>3, <2>4 DEF LastStagesInv
<1> QED
    BY <1>5, <1>6, <1>7, <1>8 DEF TailInv


-----------------------------------------------------------------------------
(* The directory of masks                                                  *)

\* One row per key, and every required one.
OneEach(table) == \A a, b \in table : Key(a) = Key(b) => a = b
HasRequired(table) == \A k \in RequiredKeys(Masks) : IsRequired(k) => \E entry \in table : Key(entry) = k

LEMMA TypedFacts ==
  ASSUME NEW k, NEW type, k = [cap |-> k.cap, category |-> k.category, abc |-> k.abc, mask |-> k.mask]
  PROVE  Key(Typed(k, type)) = k
BY DEF Key, Typed

LEMMA SeedingFacts ==
  ASSUME NEW table
  PROVE  OneEach(MasksSeeded(table, Masks)) /\ HasRequired(MasksSeeded(table, Masks))
<1> DEFINE merged == Merged(table)
           missing == {k \in RequiredKeys(Masks) : IsRequired(k)} \ {Key(entry) : entry \in merged}
           whole(k) == k = [cap |-> k.cap, category |-> k.category, abc |-> k.abc, mask |-> k.mask]
<1>1. MasksSeeded(table, Masks) = merged \cup {Typed(k, Nothing) : k \in missing}
    BY DEF MasksSeeded
<1>2. \A a, b \in merged : Key(a) = Key(b) => a = b
  <2> DEFINE type(key) ==
        LET same == {entry \in table : NormalKey(entry) = key}
            own  == {entry \in same : Key(entry) = key /\ entry.type # Nothing}
            typed == IF own # {} THEN own ELSE {entry \in same : entry.type # Nothing}
        IN IF typed = {} THEN Nothing ELSE (CHOOSE entry \in typed : TRUE).type
             keys == {NormalKey(entry) : entry \in table}
  <2>1. merged = {Typed(key, type(key)) : key \in keys}
      BY DEF Merged
  <2>2. \A key \in keys : whole(key)
      BY DEF NormalKey
  <2> HIDE DEF merged, type, keys
  <2>3. \A key \in keys : Key(Typed(key, type(key))) = key
      BY <2>2, TypedFacts
  <2> QED
      BY <2>1, <2>3
<1>3. \A k \in missing : k \in RequiredKeys(Masks) /\ Key(Typed(k, Nothing)) = k /\ \A a \in merged : Key(a) # k
  <2>1. \A k \in RequiredKeys(Masks) : whole(k)
      BY DEF RequiredKeys
  <2> HIDE DEF merged
  <2> QED
      BY <2>1, TypedFacts
<1>4. \A k \in RequiredKeys(Masks) : IsRequired(k) => k \in missing \/ \E a \in merged : Key(a) = k
    OBVIOUS
<1> HIDE DEF merged, missing
<1>5. OneEach(MasksSeeded(table, Masks))
    BY <1>1, <1>2, <1>3 DEF OneEach
<1>6. HasRequired(MasksSeeded(table, Masks))
    BY <1>1, <1>3, <1>4 DEF HasRequired
<1> QED
    BY <1>5, <1>6

LEMMA ImportFacts ==
  ASSUME NEW table, OneEach(table), HasRequired(table), NEW file, Accepts(file)
  PROVE  OneEach(Imported(table, Parsed(file))) /\ HasRequired(Imported(table, Parsed(file)))
<1> DEFINE parsed == Parsed(file)
           keys == {Key(entry) : entry \in parsed}
           listed == {entry.mask : entry \in parsed}
           kept == {entry \in table : Key(entry) \notin keys /\ (entry.mask \in listed => IsRequired(Key(entry)))}
<1>1. Imported(table, parsed) = kept \cup parsed
    BY DEF Imported
<1>2. OneEach(parsed)
  <2>1. \A i \in DOMAIN file : Key(Typed(NormalKey(file[i]), file[i].type)) = NormalKey(file[i])
    <3> TAKE i \in DOMAIN file
    <3> DEFINE k == NormalKey(file[i])
    <3>1. k = [cap |-> k.cap, category |-> k.category, abc |-> k.abc, mask |-> k.mask]
        BY DEF NormalKey
    <3> QED
        BY <3>1, TypedFacts
  <2> QED
      BY <2>1 DEF OneEach, Parsed, Accepts
<1>3. \A entry \in kept : entry \in table /\ Key(entry) \notin keys
    OBVIOUS
<1>4. \A entry \in table : IsRequired(Key(entry)) => entry \in kept \/ Key(entry) \in keys
    OBVIOUS
<1>5. \A entry \in parsed : Key(entry) \in keys
    OBVIOUS
<1>6. \A k \in keys : \E entry \in parsed : Key(entry) = k
    OBVIOUS
<1> HIDE DEF parsed, keys, kept
<1>7. OneEach(kept \cup parsed)
    BY <1>2, <1>3, <1>5 DEF OneEach
<1>8. HasRequired(kept \cup parsed)
    BY <1>4, <1>6 DEF HasRequired
<1> QED
    BY <1>1, <1>7, <1>8 DEF parsed

\* However the directory of masks began and whatever is imported, it has every
\* required row and no two rows of one key: ensure_mask_types_seeded at boot and
\* at each stage, and upsert_from_xlsx.
THEOREM RequiredMasksHolds == TailSpec => []RequiredMasks
<1>1. TailInit => RequiredMasks
    BY DEF TailInit, RequiredMasks
<1>2. RequiredMasks /\ [TailNext]_tailVars => RequiredMasks'
  <2> SUFFICES ASSUME RequiredMasks, [TailNext]_tailVars, up' PROVE OneEach(masks') /\ HasRequired(masks')
      BY DEF RequiredMasks, OneEach, HasRequired
  <2>1. up => OneEach(masks) /\ HasRequired(masks)
      BY DEF RequiredMasks, OneEach, HasRequired
  <2>2. CASE masks' = MasksSeeded(masks, Masks)
      BY <2>2, SeedingFacts
  <2>3. ASSUME NEW file \in MaskFiles, ImportMasks(file)
        PROVE  OneEach(masks') /\ HasRequired(masks')
    <3>1. \/ masks' = MasksSeeded(masks, Masks)
          \/ Accepts(file) /\ masks' = Imported(MasksSeeded(masks, Masks), Parsed(file))
        BY <2>3 DEF ImportMasks
    <3> QED
        BY <3>1, SeedingFacts, ImportFacts
  <2>4. CASE up' = up /\ masks' = masks
      BY <2>1, <2>4
  <2>5. CASE Stage
    <3>1. Stage => (up' = up /\ masks' = masks) \/ masks' = MasksSeeded(masks, Masks)
        BY DEF Stage, Match, Wave, EnrichEnds, ApplyRegions, SeedMasks, ApplyMasks, Reply, Write, directories
    <3> QED
        BY <2>2, <2>4, <2>5, <3>1
  <2>6. CASE \/ ProcessDies \/ NoRegistry \/ WriteFails \/ RegionsFail \/ MasksFail
             \/ \E file \in RegionFiles : ImportRegions(file)
             \/ \E replaced \in SUBSET Slices : StartRun(replaced)
      BY <2>4, <2>6 DEF ProcessDies, NoRegistry, WriteFails, RegionsFail, MasksFail,
        ImportRegions, StartRun, directories
  <2>7. CASE Boot
      BY <2>2, <2>7 DEF Boot
  <2>8. CASE UNCHANGED tailVars
      BY <2>4, <2>8 DEF tailVars, directories
  <2> QED
      BY <2>3, <2>5, <2>6, <2>7, <2>8 DEF TailNext
<1> QED
    BY <1>1, <1>2, PTL DEF TailSpec

-----------------------------------------------------------------------------
(* The invariant holds, and what follows                                   *)

LEMMA TailStep == TailInv /\ [TailNext]_tailVars => TailInv'
<1> SUFFICES ASSUME TailInv, [TailNext]_tailVars PROVE TailInv'
    OBVIOUS
<1>1. regions \in RegionFiles
    BY DEF TailInv, LastStagesInv
<1>2. CASE Stage
  <2>1. CASE \E phone \in asked : Reply(phone)
      BY <2>1, TailReply
  <2>2. CASE \E batch \in Batches : Write(batch)
      BY <2>2, TailWrite DEF Batches
  <2>3. CASE SeedMasks
      BY <1>1, <2>3, TailFrame DEF SeedMasks
  <2> QED
      BY <1>2, <2>1, <2>2, <2>3, TailMatch, TailWave, TailEnrichEnds, TailApplyRegions, TailApplyMasks DEF Stage
<1>3. CASE Boot
    BY <1>1, <1>3, TailFrame DEF Boot
<1>4. CASE \E file \in RegionFiles : ImportRegions(file)
    BY <1>4, TailFrame DEF ImportRegions
<1>5. CASE \E file \in MaskFiles : ImportMasks(file)
    BY <1>1, <1>5, TailFrame DEF ImportMasks
<1>6. CASE UNCHANGED tailVars
    BY <1>1, <1>6, TailFrame DEF tailVars, directories
<1> QED
    BY <1>2, <1>3, <1>4, <1>5, <1>6, TailDies, TailStartRun, TailStageFails,
       TailWriteFails, TailMasksFail DEF TailNext

LEMMA TailHolds == TailSpec => []TailInv
<1> QED
    BY TailStarts, TailStep, PTL DEF TailSpec

\* "Not in the registry" is written only of a number that cannot be asked, that
\* the registry said it does not have, or of which it answered below 400 with
\* nothing to read: classify_lookup_response, and preserve_operators_on_numbers,
\* which carries the verdict of an earlier run over.
THEOREM SentinelConfirmedHolds == TailSpec => []SentinelConfirmed
<1>1. TailInv => SentinelConfirmed
    BY DEF TailInv, RowsInv, Confirmed, SentinelConfirmed
<1> QED
    BY <1>1, TailHolds, PTL

\* When the stage ends well, each row has the operator of the first range over
\* it, or its own answer: OperatorRangeCache and the waves of lookups.
THEOREM FirstRangeWinsHolds == TailSpec => []FirstRangeWins
<1>1. TailInv => FirstRangeWins
  <2> SUFFICES ASSUME TailInv, pc \in {"regions", "seed", "masks"}, outcome["enrich"] = "ok"
               PROVE  \A r \in Rows :
                        LET num == rows[r].num
                            over == IF Valid(num) THEN Covering(cache, Split(num).abc, Split(num).local) ELSE {}
                        IN \/ over # {} /\ rows[r].op = cache[Min(over)].op
                           \/ num \in DOMAIN direct /\ rows[r].op = direct[num]
                           \/ (num \in absent \/ ~Valid(num)) /\ rows[r].op = Sentinel
      BY DEF FirstRangeWins
  <2>1. \A r \in Rows : rows[r].num = Fresh[r].num /\ Rightly(rows[r].op, Fresh[r].num, cache, direct, absent)
      BY DEF TailInv, RowsInv, RowOf, OrderInv
  <2> QED
      BY <2>1 DEF Rightly
<1> QED
    BY <1>1, TailHolds, PTL

\* After a run whose last stages ended well, split, place and type of every row
\* are those of the directories that the stages read: _GEO_UPDATE_SQL and the
\* stage of masks.
THEOREM TailConsistentHolds == TailSpec => []TailConsistent
<1>1. TailInv => TailConsistent
  <2> SUFFICES ASSUME TailInv, pc = "idle", \A s \in Stages : outcome[s] = "ok", NEW r \in Rows
               PROVE  /\ IsGeographic(rows[r].num) => Agrees(rows[r], seen.regions)
                      /\ Valid(rows[r].num) => rows[r].abc \o rows[r].local = rows[r].num
                      /\ rows[r].type = MaskType(seen.masks, Line(rows[r].num), rows[r].abc, rows[r].local)
      BY DEF TailConsistent, Agrees
  <2>1. rows[r].num = Fresh[r].num /\ Fresh[r].num \in Digits /\ IsSplit(rows[r])
      BY FreshAssumption DEF TailInv, RowsInv, RowOf
  <2>2. AllAgree(rows, seen.regions) /\ AllTyped(rows, seen.masks)
      BY DEF TailInv, LastStagesInv
  <2>3. Valid(rows[r].num) => rows[r].abc \o rows[r].local = rows[r].num
    <3> SUFFICES ASSUME Valid(rows[r].num) PROVE rows[r].abc \o rows[r].local = rows[r].num
        OBVIOUS
    <3>1. PICK n \in 0..Len(rows[r].num) : /\ rows[r].abc = SplitAt(rows[r].num, n).abc
                                           /\ rows[r].local = SplitAt(rows[r].num, n).local
        BY <2>1 DEF IsSplit
    <3> QED
        BY <2>1, <3>1, SplitFacts
  <2> QED
      BY <2>1, <2>2, <2>3 DEF AllAgree, AllTyped
<1> QED
    BY <1>1, TailHolds, PTL

-----------------------------------------------------------------------------
(* The jobs of Twilio and DIDWW.  No unique index and no check of a        *)
(* request keeps two jobs apart; the proof rests on who holds the advisory *)
(* lock alone.                                                             *)

WorkerPc == {"idle", "start", "refused", "check", "working", "failing", "cutover",
             "finish", "release", "done"}
ClientPc == {"idle", "listed", "probe", "probed", "mark", "busy",
             "insert", "wipe", "wiping", "deleting", "unlock"}
Worker == [job : 0..MaxJobs, dead : BOOLEAN, gaveUp : BOOLEAN, pc : WorkerPc]
Client == [asks : {"none", "poll", "wipe", "countries", "numbers", "groups"},
           seen : SUBSET Jobs, pc : ClientPc]

Types ==
  /\ env \in Environments
  /\ workers \in [Workers -> Worker]
  /\ clients \in [AllClients -> Client]
  /\ budget \in [FaultKinds -> Nat]
  /\ budget["loss"] <= env.budget["loss"]

\* Between a successful try-lock and the end of what it protects the lock is
\* held, and no session is dead, as long as none was lost.
Protected == {"check", "working", "failing", "cutover", "finish"}
Guarded == {"probed", "wiping", "deleting"}
Held == NothingLost =>
  /\ \A w \in Workers : workers[w].dead = FALSE /\ (workers[w].pc \in Protected => lock = w)
  /\ \A c \in AllClients : clients[c].pc \in Guarded => lock = c

LockInv == Types /\ Held

-----------------------------------------------------------------------------
\* What the assumptions say of the names and of an environment.
LEMMA Names ==
  /\ \A w \in Workers : w # Free /\ w # Ghost
  /\ \A c \in AllClients : c # Free /\ c # Ghost /\ c \notin Workers
  /\ \A e \in Environments : e.workers \subseteq Workers /\ e.budget \in [FaultKinds -> Nat]
                             /\ e.asks \subseteq {"countries", "numbers", "poll", "wipe", "groups"}
BY BoundAssumption, EnvironmentAssumption DEF AllClients

LEMMA IdleWorkerType ==
  /\ IdleWorker \in Worker /\ IdleWorker.pc = "idle" /\ IdleWorker.dead = FALSE
  /\ DoneWorker \in Worker /\ DoneWorker.pc = "done" /\ DoneWorker.dead = FALSE
<1>1. 0 \in 0..MaxJobs
    BY BoundAssumption
<1>2. IdleWorker \in Worker /\ IdleWorker.pc = "idle" /\ IdleWorker.dead = FALSE
    BY <1>1 DEF IdleWorker, Worker, WorkerPc
<1> QED
    BY <1>2 DEF DoneWorker, Worker, WorkerPc

Leaves(c) == clients' = [clients EXCEPT ![c] = IdleClient]
Ends(w) == workers' = [workers EXCEPT ![w] = DoneWorker]

\* A worker or a client that moves on stays one.
LEMMA Moves ==
  ASSUME Types
  PROVE  /\ \A w \in Workers, at \in WorkerPc : Goto(w, at) => workers' \in [Workers -> Worker]
         /\ \A c \in AllClients, at \in ClientPc : Move(c, at) => clients' \in [AllClients -> Client]
         /\ \A c \in AllClients : Leaves(c) => clients' \in [AllClients -> Client]
         /\ \A w \in Workers : Ends(w) => workers' \in [Workers -> Worker]
<1>1. IdleClient \in Client
    BY DEF IdleClient, Client, ClientPc
<1>2. DoneWorker \in Worker
    BY IdleWorkerType
<1>3. \A w \in Workers, at \in WorkerPc : [workers[w] EXCEPT !.pc = at] \in Worker
    BY DEF Types, Worker
<1>4. \A c \in AllClients, at \in ClientPc : [clients[c] EXCEPT !.pc = at] \in Client
    BY DEF Types, Client
<1> QED
    BY <1>1, <1>2, <1>3, <1>4 DEF Types, Goto, Move, Leaves, Ends

\* The thread that a request or a boot starts.
LEMMA Starts ==
  ASSUME Types, NEW w \in Idle, NEW j \in Jobs
  PROVE  /\ w \in Workers
         /\ [IdleWorker EXCEPT !.pc = "start", !.job = j] \in Worker
         /\ [IdleWorker EXCEPT !.pc = "start", !.job = j].pc = "start"
         /\ [IdleWorker EXCEPT !.pc = "start", !.job = j].dead = FALSE
<1>1. w \in env.workers
  <2> DEFINE unused == {v \in env.workers : At(v, "idle")}
  <2>1. unused # {} /\ w = CHOOSE v \in unused : TRUE
      BY DEF Idle
  <2>2. (CHOOSE v \in unused : TRUE) \in unused
      BY <2>1
  <2> QED
      BY <2>1, <2>2
<1>2. j \in 0..MaxJobs
    BY BoundAssumption DEF Jobs
<1>3. w \in Workers
    BY <1>1, Names DEF Types
<1> QED
    BY <1>2, <1>3, IdleWorkerType DEF Worker, WorkerPc

-----------------------------------------------------------------------------
\* The new rows and the rows to respawn are rows.
LEMMA RowsAreJobs == NewRows \subseteq Jobs /\ Resumable \subseteq Jobs /\ ToRespawn \subseteq Jobs
BY DEF NewRows, Resumable, Numbers, ToRespawn, ActiveJobs

LEMMA InitLockInv == Init => LockInv
<1> SUFFICES ASSUME Init PROVE LockInv
    OBVIOUS
<1>1. IdleClient \in Client /\ IdleClient.pc = "idle"
    BY DEF IdleClient, Client, ClientPc
<1>2. /\ env \in Environments /\ env.budget \in [FaultKinds -> Nat] /\ budget = env.budget
      /\ "loss" \in FaultKinds
    BY Names DEF Init, FaultKinds
<1>3. Types
    BY <1>1, <1>2, IdleWorkerType DEF Init, Types
<1>4. Held
    BY <1>1, IdleWorkerType DEF Init, Held, Protected, Guarded
<1> QED
    BY <1>3, <1>4 DEF LockInv

\* A step of a request keeps the types; a thread it starts is one.
LEMMA ClientTypes ==
  ASSUME Types, NEW c \in AllClients, ClientStep(c) \/ \E a \in env.asks : Enter(c, a)
  PROVE  Types'
<1>1. ASSUME NEW a \in env.asks, Enter(c, a) PROVE Types'
  <2>1. a \in {"countries", "numbers", "poll", "wipe", "groups"}
      BY Names DEF Types
  <2>2. {j \in ActiveJobs : ShouldReclaim(jobs[j])} \in SUBSET Jobs /\ {} \in SUBSET Jobs
      BY DEF ActiveJobs
  <2>3. clients' \in [AllClients -> Client]
      BY <1>1, <2>1, <2>2 DEF Enter, Types, Client, ClientPc
  <2> QED
      BY <1>1, <2>3 DEF Enter, Types
<1>2. ASSUME Insert(c) PROVE Types'
  <2>1. PICK w \in Idle, j \in Jobs : workers' = Started(w, j)
      BY <1>2, RowsAreJobs DEF Insert
  <2>2. workers' \in [Workers -> Worker]
      BY <2>1, Starts DEF Started, Types
  <2> QED
      BY <1>2, <2>2, Moves DEF Insert, Leaves, Types
<1>3. ASSUME \/ Probe(c) \/ Unprobe(c) \/ Mark(c) \/ InsertRefused(c) \/ Answer(c) \/ BusyCheck(c)
             \/ WipeLock(c) \/ WipeReclaim(c) \/ WipeData(c) \/ WipeUnlock(c)
      PROVE Types'
  <2>1. Leaves(c) \/ \E at \in ClientPc : Move(c, at)
    <3>1. CASE Answer(c) \/ BusyCheck(c)
        BY <3>1 DEF Answer, BusyCheck, ClientPc, Leaves, Move
    <3>2. CASE Mark(c) \/ Probe(c) \/ Unprobe(c) \/ InsertRefused(c)
        BY <3>2 DEF Probe, Unprobe, Mark, InsertRefused, ClientPc, Leaves
    <3>3. CASE WipeLock(c) \/ WipeReclaim(c) \/ WipeData(c) \/ WipeUnlock(c)
        BY <3>3 DEF WipeLock, WipeReclaim, WipeData, WipeUnlock, ClientPc, Leaves
    <3> QED
        BY <1>3, <3>1, <3>2, <3>3
  <2>2. clients' \in [AllClients -> Client]
      BY <2>1, Moves
  <2>3. UNCHANGED <<env, workers, budget>>
      BY <1>3 DEF Probe, Unprobe, Mark, InsertRefused, Answer, BusyCheck, WipeLock, WipeReclaim,
           WipeData, WipeUnlock
  <2> QED
      BY <2>2, <2>3 DEF Types
<1> QED
    BY <1>1, <1>2, <1>3 DEF ClientStep

LEMMA FaultBudget ==
  ASSUME Types, NEW k \in FaultKinds, Fault(k), env' = env
  PROVE  /\ budget' \in [FaultKinds -> Nat] /\ budget'["loss"] <= env'.budget["loss"]
         /\ k # "loss" => budget'["loss"] = budget["loss"]
         /\ k = "loss" => ~NothingLost'
BY Names DEF Types, Fault, FaultKinds, NothingLost

\* A step of a thread, or of the faults that befall it, keeps the types.
LEMMA WorkerTypes ==
  ASSUME Types, NEW w \in Workers,
         WorkerStep(w) \/ HandlerFails(w) \/ LoseSession(w) \/ Keepalive(w)
  PROVE  Types'
<1>1. workers' \in [Workers -> Worker]
  <2>1. CASE \/ TryLock(w) \/ Begin(w) \/ Ping(w) \/ Cutover(w) \/ Finish(w) \/ EndRow(w)
             \/ Fail(w) \/ HandlerFails(w)
    <3>1. \E at \in WorkerPc : Goto(w, at)
        BY <2>1 DEF TryLock, Begin, Ping, Cutover, Finish, EndRow, Fail, HandlerFails, WorkerPc
    <3> QED
        BY <3>1, Moves
  <2>2. CASE Refuse(w) \/ Release(w)
      BY <2>2, Moves DEF Refuse, Release, Ends
  <2>3. CASE LoseSession(w)
      BY <2>3 DEF LoseSession, Types, Worker
  <2>4. CASE Keepalive(w)
      BY <2>4 DEF Keepalive, Types, Worker
  <2>5. CASE Work(w)
      BY <2>5 DEF Work, Types
  <2> QED
      BY <2>1, <2>2, <2>3, <2>4, <2>5 DEF WorkerStep
<1>2. env' = env /\ clients' = clients
    BY DEF WorkerStep, TryLock, Refuse, Begin, Work, Ping, Cutover, Finish, EndRow, Fail, Release,
         HandlerFails, LoseSession, Keepalive
<1>3. budget' = budget \/ \E k \in FaultKinds : Fault(k)
    BY DEF WorkerStep, TryLock, Refuse, Begin, Work, Ping, Cutover, Finish, EndRow, Fail, Release,
         HandlerFails, LoseSession, Keepalive, FaultKinds
<1>4. budget' \in [FaultKinds -> Nat] /\ budget'["loss"] <= env'.budget["loss"]
    BY <1>2, <1>3, FaultBudget DEF Types
<1> QED
    BY <1>1, <1>2, <1>4 DEF Types

\* A restart leaves threads that are done, idle or at their start, and no
\* request in a handler.
LEMMA RestartFacts ==
  ASSUME Types, Restart
  PROVE  /\ Types' /\ budget'["loss"] = budget["loss"] /\ env' = env
         /\ \A w \in Workers : workers'[w].pc \in {"idle", "start", "done"} /\ workers'[w].dead = FALSE
         /\ \A c \in AllClients : clients'[c].pc = "idle"
<1> DEFINE Fine(v) == v \in Worker /\ v.pc \in {"idle", "start", "done"} /\ v.dead = FALSE
<1>1. Fine(IdleWorker) /\ Fine(DoneWorker)
    BY IdleWorkerType
<1>a. \A w \in Workers : Dead[w] = IdleWorker \/ Dead[w] = DoneWorker
    BY DEF Dead
<1>2. DOMAIN Dead = Workers /\ Dead = [w \in Workers |-> Dead[w]]
    BY DEF Dead
<1>3. workers' \in [Workers -> Worker] /\ \A w \in Workers : Fine(workers'[w])
  <2>1. CASE workers' = Dead
      BY <1>1, <1>2, <1>a, <2>1
  <2>2. ASSUME NEW w \in Idle, NEW j \in Jobs,
               workers' = [Dead EXCEPT ![w] = [IdleWorker EXCEPT !.pc = "start", !.job = j]]
        PROVE  workers' \in [Workers -> Worker] /\ \A v \in Workers : Fine(workers'[v])
      BY <1>1, <1>2, <1>a, <2>2, Starts
  <2> QED
      BY <2>1, <2>2, RowsAreJobs DEF Restart
<1>4. IdleClient \in Client /\ IdleClient.pc = "idle"
    BY DEF IdleClient, Client, ClientPc
<1>5. clients' \in [AllClients -> Client] /\ \A c \in AllClients : clients'[c].pc = "idle"
    BY <1>4 DEF Restart
<1>6. /\ env' = env /\ budget' \in [FaultKinds -> Nat] /\ budget'["loss"] <= env'.budget["loss"]
      /\ budget'["loss"] = budget["loss"]
    BY FaultBudget DEF Restart, FaultKinds
<1> QED
    BY <1>3, <1>5, <1>6 DEF Types

LEMMA TimeTypes ==
  ASSUME Types, (\E j \in Jobs : Unattended(j) \/ Late(j)) \/ GhostGone
  PROVE  Types' /\ budget'["loss"] = budget["loss"] /\ UNCHANGED <<env, workers, clients>>
<1>1. UNCHANGED <<env, workers, clients>>
    BY DEF Unattended, Late, GhostGone
<1>2. budget' = budget \/ (\E k \in FaultKinds \ {"loss"} : Fault(k))
    BY DEF Unattended, Late, GhostGone, FaultKinds
<1>3. /\ budget' \in [FaultKinds -> Nat] /\ budget'["loss"] <= env'.budget["loss"]
      /\ budget'["loss"] = budget["loss"]
    BY <1>1, <1>2, FaultBudget DEF Types
<1> QED
    BY <1>1, <1>3 DEF Types
-----------------------------------------------------------------------------
\* A request takes the lock only when it is free and gives back only its own;
\* the thread it starts holds nothing yet.
LEMMA ClientHeld ==
  ASSUME LockInv, NEW c \in AllClients, ClientStep(c) \/ \E a \in env.asks : Enter(c, a)
  PROVE  Held'
<1>0. Types' /\ UNCHANGED <<env, budget>> /\ (NothingLost' => NothingLost)
  <2>1. UNCHANGED <<env, budget>>
      BY DEF ClientStep, Enter, Probe, Unprobe, Mark, Answer, BusyCheck, Insert, InsertRefused,
           WipeLock, WipeReclaim, WipeData, WipeUnlock
  <2> QED
      BY <2>1, ClientTypes DEF LockInv, NothingLost
<1> SUFFICES ASSUME NothingLost' PROVE Held'
    BY DEF Held
<1>1. /\ \A w \in Workers : workers[w].dead = FALSE /\ (workers[w].pc \in Protected => lock = w)
      /\ \A d \in AllClients : clients[d].pc \in Guarded => lock = d
      /\ clients \in [AllClients -> Client] /\ workers \in [Workers -> Worker]
    BY <1>0 DEF LockInv, Types, Held
<1>2. ASSUME Insert(c) PROVE Held'
  <2>1. PICK v \in Idle, j \in Jobs : workers' = Started(v, j)
      BY <1>2, RowsAreJobs DEF Insert
  <2>2. \A w \in Workers : workers'[w].dead = FALSE /\ (workers'[w].pc \in Protected => lock = w)
    <3>1. v \in Workers /\ workers'[v].pc = "start" /\ workers'[v].dead = FALSE
        BY <1>1, <2>1, Starts DEF Started, LockInv
    <3>2. \A w \in Workers \ {v} : workers'[w] = workers[w]
        BY <1>1, <2>1 DEF Started
    <3> QED
        BY <1>1, <3>1, <3>2 DEF Protected
  <2>3. \A d \in AllClients : clients'[d].pc \in Guarded => lock = d
      BY <1>1, <1>2 DEF Insert, IdleClient, Guarded
  <2>4. lock' = lock
      BY <1>2 DEF Insert
  <2> QED
      BY <2>2, <2>3, <2>4 DEF Held
<1>3. ASSUME \/ Probe(c) \/ Unprobe(c) \/ WipeLock(c) \/ WipeUnlock(c)
      PROVE  Held'
  <2>1. workers' = workers
      BY <1>3 DEF Probe, Unprobe, WipeLock, WipeUnlock
  <2>2. \A d \in AllClients \ {c} : clients'[d] = clients[d]
      BY <1>1, <1>3 DEF Probe, Unprobe, WipeLock, WipeUnlock, Move
  <2>3. \/ lock' = lock /\ clients'[c].pc \notin Guarded
        \/ lock = Free /\ lock' = c
        \/ lock = c /\ lock' = Free /\ clients'[c].pc \notin Guarded
    <3>1. CASE Probe(c) \/ WipeLock(c)
        BY <1>1, <3>1 DEF Probe, WipeLock, Move, Guarded, Client, IdleClient
    <3>2. CASE Unprobe(c)
        BY <1>1, <3>2 DEF Unprobe, Move, Asks, Guarded, Client
    <3>3. CASE WipeUnlock(c)
        BY <1>1, <3>3 DEF WipeUnlock, Guarded, IdleClient
    <3> QED
        BY <1>3, <3>1, <3>2, <3>3
  <2> QED
      BY <1>1, <2>1, <2>2, <2>3, Names DEF Held
<1>4. ASSUME \/ Mark(c) \/ Answer(c) \/ BusyCheck(c) \/ InsertRefused(c)
             \/ WipeReclaim(c) \/ WipeData(c) \/ \E a \in env.asks : Enter(c, a)
      PROVE  Held'
  <2>1. UNCHANGED <<workers, lock>>
      BY <1>4 DEF Mark, Answer, BusyCheck, InsertRefused, WipeReclaim, WipeData, Enter
  <2>2. \A d \in AllClients \ {c} : clients'[d] = clients[d]
      BY <1>1, <1>4 DEF Mark, Answer, BusyCheck, InsertRefused, WipeReclaim, WipeData, Enter, Move
  <2>3. clients'[c].pc \in Guarded => clients[c].pc \in Guarded
    <3>1. CASE Answer(c) \/ BusyCheck(c)
        BY <1>1, <3>1 DEF Answer, BusyCheck, IdleClient, Client, Guarded
    <3>2. CASE Mark(c) \/ InsertRefused(c)
        BY <1>1, <3>2 DEF Mark, InsertRefused, Move, IdleClient, Client, Guarded
    <3>3. CASE WipeReclaim(c) \/ WipeData(c)
        BY <1>1, <3>3 DEF WipeReclaim, WipeData, Asks, Move, Client, Guarded
    <3>4. ASSUME NEW a \in env.asks, Enter(c, a) PROVE clients'[c].pc \notin Guarded
        BY <1>1, <3>4 DEF Enter, Guarded
    <3> QED
        BY <1>4, <3>1, <3>2, <3>3, <3>4
  <2> QED
      BY <1>1, <2>1, <2>2, <2>3 DEF Held
<1> QED
    BY <1>2, <1>3, <1>4 DEF ClientStep

\* A thread works under the lock it took, until its finally.
LEMMA WorkerHeld ==
  ASSUME LockInv, NEW w \in Workers,
         WorkerStep(w) \/ HandlerFails(w) \/ LoseSession(w) \/ Keepalive(w)
  PROVE  Held'
<1> SUFFICES ASSUME NothingLost' PROVE Held'
    BY DEF Held
<1>0. env' = env /\ clients' = clients
    BY DEF WorkerStep, TryLock, Refuse, Begin, Work, Ping, Cutover, Finish, EndRow, Fail, Release,
         HandlerFails, LoseSession, Keepalive
<1>1. ~LoseSession(w)
    BY <1>0, FaultBudget DEF LockInv, LoseSession, FaultKinds
<1>2. budget'["loss"] = budget["loss"]
  <2>1. budget' = budget \/ Fault("dberr")
      BY <1>1 DEF WorkerStep, TryLock, Refuse, Begin, Work, Ping, Cutover, Finish, EndRow, Fail, Release,
           HandlerFails, Keepalive
  <2> QED
      BY <1>0, <2>1, FaultBudget DEF LockInv, FaultKinds
<1>3. /\ \A v \in Workers : workers[v].dead = FALSE /\ (workers[v].pc \in Protected => lock = v)
      /\ \A d \in AllClients : clients[d].pc \in Guarded => lock = d
      /\ workers \in [Workers -> Worker]
    BY <1>0, <1>2 DEF LockInv, Types, Held, NothingLost
<1>4. \A v \in Workers \ {w} : workers'[v] = workers[v]
    BY <1>1, <1>3 DEF WorkerStep, TryLock, Refuse, Begin, Work, Ping, Cutover, Finish, EndRow, Fail,
         Release, HandlerFails, Keepalive, Goto
<1>5. CASE TryLock(w)
  <2>1. \/ lock = Free /\ lock' = w
        \/ lock' = lock /\ workers'[w].pc \notin Protected
      BY <1>3, <1>5 DEF TryLock, Goto, Protected, Worker
  <2>2. workers'[w].dead = FALSE
      BY <1>3, <1>5 DEF TryLock, Goto, Worker
  <2> QED
      BY <1>0, <1>3, <1>4, <2>1, <2>2, Names DEF Held
<1>6. CASE Release(w)
  <2>1. workers'[w].pc \notin Protected /\ workers'[w].dead = FALSE
      BY <1>3, <1>6, IdleWorkerType DEF Release, Protected
  <2>2. lock' = lock \/ (lock = w /\ lock' = Free)
      BY <1>6 DEF Release, Alive
  <2> QED
      BY <1>0, <1>3, <1>4, <2>1, <2>2, Names DEF Held
<1>7. CASE Refuse(w)
  <2>1. workers'[w].pc \notin Protected /\ workers'[w].dead = FALSE /\ lock' = lock
      BY <1>3, <1>7, IdleWorkerType DEF Refuse, Protected
  <2> QED
      BY <1>0, <1>3, <1>4, <2>1 DEF Held
<1>8. CASE Begin(w) \/ Ping(w) \/ Cutover(w) \/ Finish(w) \/ EndRow(w) \/ Fail(w) \/ HandlerFails(w)
  <2>1. lock' = lock
      BY <1>8 DEF Begin, Ping, Cutover, Finish, EndRow, Fail, HandlerFails
  <2>2. workers'[w].dead = workers[w].dead
      BY <1>3, <1>8 DEF Begin, Ping, Cutover, Finish, EndRow, Fail, HandlerFails, Goto, Worker
  <2>3. workers'[w].pc \in Protected => workers[w].pc \in Protected
      BY <1>3, <1>8 DEF Begin, Ping, Cutover, Finish, EndRow, Fail, HandlerFails, At, Goto, Worker, Protected
  <2> QED
      BY <1>0, <1>3, <1>4, <2>1, <2>2, <2>3 DEF Held
<1>9. CASE Work(w)
    BY <1>0, <1>3, <1>9 DEF Work, Held
<1>10. CASE Keepalive(w)
    BY <1>3, <1>10 DEF Keepalive
<1> QED
    BY <1>1, <1>5, <1>6, <1>7, <1>8, <1>9, <1>10 DEF WorkerStep

LEMMA StepLockInv == LockInv /\ [Next]_vars => LockInv'
<1> SUFFICES ASSUME LockInv, [Next]_vars PROVE LockInv'
    OBVIOUS
<1>0. Types
    BY DEF LockInv
<1>1. ASSUME NEW c \in AllClients, ClientStep(c) \/ \E a \in env.asks : Enter(c, a) PROVE LockInv'
    BY <1>0, <1>1, ClientTypes, ClientHeld DEF LockInv
<1>2. ASSUME NEW w \in Workers, WorkerStep(w) \/ HandlerFails(w) \/ LoseSession(w) \/ Keepalive(w)
      PROVE LockInv'
    BY <1>0, <1>2, WorkerTypes, WorkerHeld DEF LockInv
<1>3. ASSUME (\E j \in Jobs : Unattended(j) \/ Late(j)) \/ GhostGone PROVE LockInv'
  <2>1. lock' = lock \/ (lock = Ghost /\ lock' = Free)
      BY <1>3 DEF Unattended, Late, GhostGone
  <2>2. Types' /\ budget'["loss"] = budget["loss"] /\ UNCHANGED <<env, workers, clients>>
      BY <1>0, <1>3, TimeTypes
  <2>3. Held'
      BY <2>1, <2>2, Names DEF LockInv, Held, NothingLost
  <2> QED
      BY <2>2, <2>3 DEF LockInv
<1>4. ASSUME Restart PROVE LockInv'
    BY <1>0, <1>4, RestartFacts DEF LockInv, Held, Protected, Guarded
<1>5. ASSUME UNCHANGED vars PROVE LockInv'
    BY <1>5 DEF vars, LockInv, Types, Held, NothingLost
<1> QED
    BY <1>1, <1>2, <1>3, <1>4, <1>5 DEF Next

\* At most one job or wipe writes the provider's tables, whatever requests,
\* polls, late heartbeats, restarts and database errors do, as long as no
\* lock session is lost (twilio/runner.py:545-559, didww/runner.py:182-331).
THEOREM LockedOneWriterHolds == Spec => []OneWriter
<1>1. LockInv => OneWriter
  <2> SUFFICES ASSUME LockInv, NothingLost PROVE Cardinality(Writing \cup Wiping) <= 1
      BY DEF OneWriter
  <2>1. Writing \cup Wiping \subseteq {lock}
      BY DEF LockInv, Held, Writing, Wiping, Protected, Guarded
  <2>2. IsFiniteSet({lock}) /\ Cardinality({lock}) = 1
      BY FS_Singleton
  <2>3. Cardinality(Writing \cup Wiping) <= Cardinality({lock})
      BY <2>1, <2>2, FS_Subset
  <2> QED
      BY <2>2, <2>3
<1> QED
    BY <1>1, InitLockInv, StepLockInv, PTL DEF Spec
================================================================================
