--------------------------- MODULE UnifiedRunProofs ---------------------------
(***************************************************************************)
(* Proofs about UnifiedRun, for every order of providers, whatever they    *)
(* support, and any number of faults: the stages of a run show where it is,*)
(* its outcome is what they show, every enabled provider is accounted for, *)
(* and at most one step begins after the run was closed under the worker.  *)
(***************************************************************************)
EXTENDS UnifiedRun, TLAPS

-----------------------------------------------------------------------------
(* The inductive invariant.  A place is where the worker is (pos) or will  *)
(* be after its tracker call (call); with it goes the progress it finds    *)
(* there, stages or seen.                                                  *)

InLoop   == {"disabled", "job", "phase", "work", "commit", "remaining", "pendings"}
InJob    == InLoop \ {"disabled"}
PostLoop == {"finalize", "report", "tail", "tailwork", "outcome", "snapshot",
             "scheduling", "finish", "log"}
Verdict  == {"snapshot", "scheduling", "finish"}
Left     == {"aborting", "crashed", "exited"}

Stage(i, ph) == <<Order[i], ph>>
PhaseRank(ph) == CASE ph = "dictionaries" -> 1 [] ph = "free" -> 2 [] OTHER -> 3

\* The indices that go with a place.
PlaceOK(p) ==
    /\ p \in Places
    /\ p.at \in InLoop => p.i \in 1..N
    /\ p.at = "provider" => p.i \in 1..(N + 1)
    /\ p.at \in {"tail", "tailwork"} => p.i \in 1..4
    /\ p.at \in InJob => Order[p.i] \in Enabled
    /\ p.at = "disabled" => Order[p.i] \notin Enabled
    /\ p.at \in {"phase", "work"} /\ Order[p.i] \in FreeOnly => p.ph = "free"

\* Every stage that comes before this rank is closed.
Low(p) ==
    IF p.at \in {"phase", "work"} /\ Order[p.i] \notin FreeOnly
    THEN 4 * p.i + PhaseRank(p.ph)
    ELSE CASE p.at \in InLoop \cup {"provider"}     -> 4 * p.i
           [] p.at \in {"finalize", "report"}       -> 4 * N + 4
           [] p.at \in {"tail", "tailwork"}         -> 4 * N + 4 + p.i
           [] p.at \in {"outcome", "snapshot", "scheduling"} -> 4 * N + 9
           [] p.at \in {"finish", "log"}            -> 4 * N + 10
           [] OTHER                                 -> 0

\* The stages that may be running.
MayRun(p) ==
    CASE p.at = "connections" -> {RunStage("prepare")}
      [] p.at = "work"        -> {Stage(p.i, p.ph)}
      [] p.at = "remaining"   -> {Stage(p.i, ph) : ph \in Phases}
      [] p.at = "report"      -> {RunStage("finalize")}
      [] p.at = "tailwork"    -> {RunStage(TailStages[p.i])}
      [] p.at = "scheduling"  -> {RunStage("catalog_snapshot")}
      [] p.at \in Left        -> Stages
      [] OTHER                -> {}

Exempt(r, s) == r[1] = s[1] /\ r[1] \in FreeOnly

\* Closed, or the gap that a lost verdict leaves; mu stands for muted.
ClosedBut(s, st, mu) == st[s] \in Closed \/ (s[2] = "free" /\ s[1] \in mu /\ st[s] = "pending")

InOrder(st, mu) ==
    \A s \in Stages : st[s] = "running" =>
        \A r \in Stages : Rank(r) < Rank(s) => ClosedBut(r, st, mu) \/ Exempt(r, s)

Failed(q, st) == \E ph \in Phases : st[<<q, ph>>] = "failed"

\* The stages show where the worker is, aborted or not.
Shape(p, st, mu) ==
    /\ PlaceOK(p)
    /\ st \in [Stages -> Open \cup Closed]
    /\ InOrder(st, mu)
    /\ \A s \in Stages : Rank(s) < Low(p) => ClosedBut(s, st, mu)
    /\ \A s \in Stages : st[s] = "running" => s \in MayRun(p)
    /\ p.at \in {"commit", "pendings"} =>
          st[Stage(p.i, "free")] \in Closed \/ Failed(Order[p.i], st)

-----------------------------------------------------------------------------
(* Ranks *)

LEMMA TailNames == /\ Len(TailStages) = 4
              /\ TailStages[1] = "operator_enrichment" /\ TailStages[2] = "rtu_flags"
              /\ TailStages[3] = "geographic_from_regions" /\ TailStages[4] = "mask_types"
BY DEF TailStages

\* A stage is a provider's or the run's, never both.
LEMMA StageKinds ==
    /\ N \in Nat
    /\ \A i \in 1..N : Order[i] \in Providers /\ Order[i] # "run"
    /\ \A i \in 1..N, ph \in Phases : Stage(i, ph) \in Stages
    /\ \A x \in {"prepare", "finalize", "catalog_snapshot"} : RunStage(x) \in Stages
    /\ \A t \in 1..4 : RunStage(TailStages[t]) \in Stages
    /\ \A s \in Stages : \/ \E i \in 1..N, ph \in Phases : s = Stage(i, ph)
                         \/ s = RunStage("prepare") \/ s = RunStage("finalize")
                         \/ s = RunStage("catalog_snapshot")
                         \/ \E t \in 1..4 : s = RunStage(TailStages[t])
<1>1. N \in Nat /\ "run" \notin Providers
    BY OrderAssumption
<1>2. \A i \in 1..N : Order[i] \in Providers
    BY DEF Providers
<1>3. Len(TailStages) = 4
    BY TailNames
<1>4. \A s \in Providers \X Phases : \E i \in 1..N, ph \in Phases : s = Stage(i, ph)
    BY DEF Providers, Stage
<1> QED
    BY <1>1, <1>2, <1>3, <1>4 DEF Stages, Stage, RunStage

LEMMA ProviderRank ==
    ASSUME NEW i \in 1..N, NEW ph \in Phases
    PROVE  Rank(Stage(i, ph)) = 4 * i + PhaseRank(ph)
<1>1. Stage(i, ph)[1] = Order[i] /\ Stage(i, ph)[2] = ph
    BY DEF Stage
<1>2. Order[i] \in Providers
    BY StageKinds
<1>3. (CHOOSE j \in 1..N : Order[j] = Order[i]) = i
    BY OrderAssumption
<1> QED
    BY <1>1, <1>2, <1>3 DEF Rank, PhaseRank

LEMMA RunRank ==
    /\ Rank(RunStage("prepare")) = 0
    /\ Rank(RunStage("finalize")) = 4 * N + 4
    /\ \A t \in 1..4 : Rank(RunStage(TailStages[t])) = 4 * N + 4 + t
    /\ Rank(RunStage("catalog_snapshot")) = 4 * N + 9
<1>1. \A x : RunStage(x)[1] \notin Providers /\ RunStage(x)[2] = x
    BY OrderAssumption DEF RunStage
<1>2. ASSUME NEW t \in 1..4
      PROVE  Rank(RunStage(TailStages[t])) = 4 * N + 4 + t
    <2>1. (CHOOSE u \in 1..Len(TailStages) : TailStages[u] = TailStages[t]) = t
        <3>1. \A u \in 1..4 : TailStages[u] = TailStages[t] => u = t
            BY TailNames
        <3> QED
            BY <3>1, TailNames
    <2>2. TailStages[t] \notin {"prepare", "finalize", "catalog_snapshot"}
        BY TailNames
    <2> QED
        BY <1>1, <2>1, <2>2 DEF Rank
<1> QED
    BY <1>1, <1>2 DEF Rank

\* What has which rank; two stages never have the same.
LEMMA Ranks ==
    ASSUME NEW s \in Stages
    PROVE  \/ \E i \in 1..N, ph \in Phases : s = Stage(i, ph) /\ Rank(s) = 4 * i + PhaseRank(ph)
                                             /\ PhaseRank(ph) \in 1..3
           \/ s = RunStage("prepare") /\ Rank(s) = 0
           \/ s = RunStage("finalize") /\ Rank(s) = 4 * N + 4
           \/ \E t \in 1..4 : s = RunStage(TailStages[t]) /\ Rank(s) = 4 * N + 4 + t
           \/ s = RunStage("catalog_snapshot") /\ Rank(s) = 4 * N + 9
BY StageKinds, ProviderRank, RunRank DEF PhaseRank

LEMMA RankIsNat == \A s \in Stages : Rank(s) \in Nat /\ Rank(s) < 4 * N + 10
BY Ranks, StageKinds

LEMMA RankInjective ==
    ASSUME NEW r \in Stages, NEW s \in Stages, Rank(r) = Rank(s)
    PROVE  r = s
<1>0. N \in Nat
    BY StageKinds
<1>1. CASE \E i \in 1..N, ph \in Phases : r = Stage(i, ph)
    <2>1. PICK i \in 1..N, ph \in Phases : r = Stage(i, ph)
        BY <1>1
    <2>2. Rank(r) = 4 * i + PhaseRank(ph) /\ PhaseRank(ph) \in 1..3
        BY <2>1, ProviderRank DEF PhaseRank
    <2>3. \E j \in 1..N, x \in Phases : s = Stage(j, x)
        <3>1. i \in Nat /\ i <= N
            BY <1>0
        <3>2. Rank(s) # 0 /\ Rank(s) < 4 * N + 4
            BY <1>0, <2>2, <3>1
        <3> QED
            BY <1>0, <3>2, Ranks
    <2>4. PICK j \in 1..N, x \in Phases : s = Stage(j, x)
        BY <2>3
    <2>5. Rank(s) = 4 * j + PhaseRank(x) /\ PhaseRank(x) \in 1..3
        BY <2>4, ProviderRank DEF PhaseRank
    <2>6. i = j /\ PhaseRank(ph) = PhaseRank(x)
        <3>1. \A a, b \in Nat, c, d \in 1..3 : 4 * a + c = 4 * b + d => a = b /\ c = d
            OBVIOUS
        <3>2. 4 * i + PhaseRank(ph) = 4 * j + PhaseRank(x)
            BY <2>2, <2>5
        <3>3. i \in Nat /\ j \in Nat
            BY <1>0
        <3> QED
            BY <2>2, <2>5, <3>1, <3>2, <3>3
    <2>7. ph = x
        BY <2>1, <2>4, <2>6 DEF PhaseRank, Phases
    <2> QED
        BY <2>1, <2>4, <2>6, <2>7
<1>2. CASE ~ \E i \in 1..N, ph \in Phases : r = Stage(i, ph)
    <2>1. ~ \E i \in 1..N, ph \in Phases : s = Stage(i, ph)
        <3> SUFFICES ASSUME NEW i \in 1..N, NEW ph \in Phases, s = Stage(i, ph)
                     PROVE  FALSE
            OBVIOUS
        <3>1. Rank(s) = 4 * i + PhaseRank(ph) /\ PhaseRank(ph) \in 1..3
            BY ProviderRank DEF PhaseRank
        <3> QED
            BY <1>0, <1>2, <3>1, Ranks
    <2> QED
        BY <1>0, <1>2, <2>1, Ranks
<1> QED
    BY <1>1, <1>2

\* The stages of one provider lie between two multiples of four.
LEMMA RankSplit ==
    ASSUME NEW i \in 1..N, NEW s \in Stages, Rank(s) < 4 * (i + 1)
    PROVE  Rank(s) < 4 * i \/ \E ph \in Phases : s = Stage(i, ph)
<1>0. N \in Nat /\ i \in Nat
    BY StageKinds
<1> QED
    BY <1>0, Ranks

LEMMA FirstRank == \A s \in Stages : Rank(s) < 4 => s = RunStage("prepare")
BY Ranks, StageKinds

-----------------------------------------------------------------------------
(* Shape: a stage begins, a stage ends, the row is closed *)

Set(st, s, to) == [st EXCEPT ![s] = to]

\* A stage may begin when those before it are closed and none is running.
LEMMA StageBegins ==
    ASSUME NEW p, NEW q, NEW st, NEW mu, NEW s \in Stages, Shape(p, st, mu), PlaceOK(q),
           MayRun(p) = {}, s \in MayRun(q),
           Low(q) <= Low(p), Low(q) \in Nat, Low(p) \in Nat, Low(q) <= Rank(s),
           \A r \in Stages : Rank(r) < Rank(s) => Rank(r) < Low(p) \/ Exempt(r, s),
           q.at \notin {"commit", "pendings"}
    PROVE  Shape(q, Set(st, s, "running"), mu)
<1> DEFINE new == Set(st, s, "running")
<1>1. st \in [Stages -> Open \cup Closed] /\ \A r \in Stages : st[r] # "running"
    BY DEF Shape
<1>2. /\ new \in [Stages -> Open \cup Closed]
      /\ new[s] = "running"
      /\ \A r \in Stages : r # s => new[r] = st[r]
    BY <1>1 DEF Set, Open
<1>3. \A r \in Stages : new[r] = "running" => r = s
    BY <1>1, <1>2
<1>4. InOrder(new, mu)
    <2> SUFFICES ASSUME NEW r \in Stages, Rank(r) < Rank(s), ~Exempt(r, s)
                 PROVE  ClosedBut(r, new, mu)
        BY <1>3 DEF InOrder
    <2>1. ClosedBut(r, st, mu)
        BY DEF Shape
    <2>2. r # s
        BY RankIsNat
    <2> QED
        BY <1>2, <2>1, <2>2 DEF ClosedBut
<1>5. ASSUME NEW r \in Stages, Rank(r) < Low(q)
      PROVE  ClosedBut(r, new, mu)
    <2>1. r # s
        BY <1>5, RankIsNat
    <2>2. Rank(r) < Low(p)
        BY <1>5, RankIsNat
    <2>3. ClosedBut(r, st, mu)
        BY <2>2 DEF Shape
    <2> QED
        BY <1>2, <2>1, <2>3 DEF ClosedBut
<1> HIDE DEF new
<1> QED
    BY <1>2, <1>3, <1>4, <1>5 DEF Shape, new

\* A stage may end at any time.
LEMMA StageEnds ==
    ASSUME NEW p, NEW q, NEW st, NEW mu, NEW s \in Stages, NEW to \in Closed,
           Shape(p, st, mu), PlaceOK(q),
           MayRun(p) \subseteq MayRun(q) \cup {s},
           \A r \in Stages : Rank(r) < Low(q) => r = s \/ ClosedBut(r, st, mu),
           q.at \in {"commit", "pendings"} =>
               \/ s = Stage(q.i, "free") \/ st[Stage(q.i, "free")] \in Closed
               \/ Failed(Order[q.i], Set(st, s, to))
    PROVE  Shape(q, Set(st, s, to), mu)
<1> DEFINE new == Set(st, s, to)
<1>1. st \in [Stages -> Open \cup Closed]
    BY DEF Shape
<1>2. /\ new \in [Stages -> Open \cup Closed]
      /\ new[s] = to
      /\ \A r \in Stages : r # s => new[r] = st[r]
      /\ to # "running"
    BY <1>1 DEF Set, Closed
<1>3. \A r \in Stages : ClosedBut(r, st, mu) => ClosedBut(r, new, mu)
    BY <1>2 DEF ClosedBut
<1>4. \A r \in Stages : new[r] = "running" => r # s /\ st[r] = "running"
    BY <1>2
<1>5. InOrder(new, mu)
    BY <1>3, <1>4 DEF InOrder, Shape
<1>6. \A r \in Stages : new[r] = "running" => r \in MayRun(q)
    BY <1>4 DEF Shape
<1>7. \A r \in Stages : Rank(r) < Low(q) => ClosedBut(r, new, mu)
    BY <1>2, <1>3 DEF ClosedBut
<1>8. q.at \in {"commit", "pendings"} => Stage(q.i, "free") \in Stages
    BY StageKinds DEF PlaceOK, InLoop, Phases
<1>9. q.at \in {"commit", "pendings"} =>
          new[Stage(q.i, "free")] \in Closed \/ Failed(Order[q.i], new)
    BY <1>2, <1>8
<1> HIDE DEF new
<1> QED
    BY <1>2, <1>5, <1>6, <1>7, <1>9 DEF Shape, new

\* The worker moves and no stage changes.
LEMMA PlaceMoves ==
    ASSUME NEW p, NEW q, NEW st, NEW mu, Shape(p, st, mu), PlaceOK(q),
           \A r \in Stages : st[r] = "running" => r \in MayRun(q),
           \A r \in Stages : Rank(r) < Low(q) => ClosedBut(r, st, mu),
           q.at \in {"commit", "pendings"} =>
               st[Stage(q.i, "free")] \in Closed \/ Failed(Order[q.i], st)
    PROVE  Shape(q, st, mu)
BY DEF Shape

\* A verdict is lost and no stage changes.
LEMMA MutedGrows ==
    ASSUME NEW p, NEW st, NEW mu, NEW mm, mu \subseteq mm, Shape(p, st, mu)
    PROVE  Shape(p, st, mm)
<1>1. \A s \in Stages : ClosedBut(s, st, mu) => ClosedBut(s, st, mm)
    BY DEF ClosedBut
<1> QED
    BY <1>1 DEF Shape, InOrder

\* The row is closed from outside: every stage is closed, so that none is out
\* of order.
LEMMA AbortedFacts ==
    ASSUME NEW st \in [Stages -> Open \cup Closed]
    PROVE  /\ Aborted(st) \in [Stages -> Open \cup Closed]
           /\ \A s \in Stages : /\ Aborted(st)[s] \in Closed
                                /\ st[s] \in Closed => Aborted(st)[s] = st[s]
                                /\ st[s] = "pending" => Aborted(st)[s] = "skipped"
                                /\ st[s] # "running" /\ st[s] # "failed" => Aborted(st)[s] # "failed"
BY DEF Aborted, Open, Closed

LEMMA AbortKeepsShape ==
    ASSUME NEW p, NEW st, NEW mu, Shape(p, st, mu)
    PROVE  Shape(p, Aborted(st), mu)
<1>1. st \in [Stages -> Open \cup Closed]
    BY DEF Shape
<1>2. /\ Aborted(st) \in [Stages -> Open \cup Closed]
      /\ \A s \in Stages : Aborted(st)[s] \in Closed /\ Aborted(st)[s] # "running"
    BY <1>1, AbortedFacts DEF Closed
<1>3. p.at \in {"commit", "pendings"} => Stage(p.i, "free") \in Stages
    BY StageKinds DEF Shape, PlaceOK, InLoop, Phases
<1> QED
    BY <1>2, <1>3 DEF Shape, InOrder, ClosedBut

-----------------------------------------------------------------------------
(* What the lists, the outcome and the stages say of each other.  The      *)
(* lists are parameters: o for oks, f for fails, si for silent, mu for     *)
(* muted.                                                                  *)

Before(i) == {Order[j] : j \in 1..(i - 1)} \cap Enabled
FailuresShow(st, f, si) == \A q \in f \ si : Failed(q, st)
TailFailedIn(st) == \E t \in 1..4 : st[RunStage(TailStages[t])] = "failed"

\* What holds whether the row is active or not.
Books(p, st, o, f, si, mu, out) ==
    /\ o \cap f = {} /\ o \subseteq Providers /\ f \subseteq Providers
    /\ p.at \in {"prepare", "connections"} => o \cup f = {}
    /\ p.at \in InLoop \cup {"provider"} => o \cup f = Before(p.i)
    /\ p.at \in PostLoop => o \cup f = Providers \cap Enabled
    /\ p.at \notin Left => si \subseteq f \cup (IF p.at = "remaining" THEN {Order[p.i]} ELSE {})
    /\ mu \subseteq Providers
    /\ p.at \notin Left => mu \subseteq o \cup (IF p.at = "pendings" THEN {Order[p.i]} ELSE {})
    /\ \A q \in mu : Failed(q, st)
    /\ \A q \in o \ mu, ph \in Phases : st[<<q, ph>>] \in {"done", "skipped"}
    /\ \A q \in Providers \ Enabled, ph \in Phases : st[<<q, ph>>] \in {"pending", "skipped"}
    /\ p.at \notin Left \cup {"prepare", "connections"} => st[RunStage("prepare")] = "done"
    /\ p.at \in PostLoop \ {"finalize", "report"} => st[RunStage("finalize")] = "done"
    /\ p.at = "pendings" /\ Failed(Order[p.i], st) => Order[p.i] \in mu
    /\ p.at \in PostLoop => FailuresShow(st, f, si)
    /\ p.at \in Verdict =>
          /\ out = "success" => f = {} /\ ~TailFailedIn(st)
          /\ out # "success" => f # {} \/ TailFailedIn(st)

\* The purchased stage of a provider without purchased numbers, skipped before
\* its job begins.
Skipped(i, ph, st) == ph = "purchased" /\ Order[i] \notin WithPurchased
                      /\ st[Stage(i, ph)] = "skipped"

\* What is still to come, as long as the row is active.
Coming(p, st, f, si) ==
    /\ FailuresShow(st, f, si)
    /\ p.at \in {"prepare", "connections"} =>
          \A j \in 1..N, ph \in Phases : st[Stage(j, ph)] = "pending"
    /\ p.at \in InLoop \cup {"provider"} =>
          \A j \in 1..N, ph \in Phases :
              j > p.i \/ (j = p.i /\ p.at \in {"provider", "job"}) => st[Stage(j, ph)] = "pending"
    /\ p.at \in {"phase", "work"} =>
          \A ph \in Phases : PhaseRank(ph) > PhaseRank(p.ph) =>
              st[Stage(p.i, ph)] = "pending" \/ Skipped(p.i, ph, st)
    /\ p.at = "phase" => st[Stage(p.i, p.ph)] = "pending" \/ Skipped(p.i, p.ph, st)
    /\ p.at = "work" => st[Stage(p.i, p.ph)] = "running"
    /\ p.at = "remaining" => \/ Failed(Order[p.i], st) \/ Order[p.i] \in si
                             \/ \E ph \in Phases : st[Stage(p.i, ph)] \in Open

\* The job has failed if and only if a stage of its provider has: as long as
\* the row is active, and where the outcome of the job is committed.
Judged(p, st, act, fat) ==
    p.at = "commit" \/ (act /\ p.at \in {"phase", "work"}) => (fat <=> Failed(Order[p.i], st))

Good(p, st, act, o, f, si, mu, out) ==
    /\ Shape(p, st, mu)
    /\ Books(p, st, o, f, si, mu, out)
    /\ act => Coming(p, st, f, si)

\* The place the worker is in is good; while a tracker call is saved the place
\* it goes to is good as well, with the progress that will be written.
RunInv ==
    /\ TypeOK
    /\ Good(pos, stages, status \in Active, oks, fails, silent, muted, outcome)
    /\ call # NoCall => Good(call, seen, status \in Active, oks, fails, silent, muted, outcome)
    /\ call = NoCall => Judged(pos, stages, status \in Active, fatal)
    /\ call # NoCall => Judged(call, seen, status \in Active, fatal)
    /\ status \in {"success", "partial"} => pos.at \in {"log", "crashed", "exited"} /\ call = NoCall
    /\ OutcomeMatchesStages
    /\ late \in 0..1 /\ (late = 1 => status \notin Active /\ call = NoCall)

-----------------------------------------------------------------------------
(* The two kinds of step: a tracker call is begun, or the worker moves     *)

LEMMA PlaceAt ==
    ASSUME NEW l \in Ats
    PROVE  /\ At(l) \in Places /\ At(l).at = l /\ At(l).i = 1 /\ At(l).ph = "dictionaries"
           /\ l \notin InLoop \cup {"provider", "tail", "tailwork"} => PlaceOK(At(l))
           /\ At("provider").i = 1 /\ PlaceOK(At("provider")) /\ PlaceOK(At("tail"))
           /\ l # "exited" => At(l) # NoCall
<1>1. N \in Nat /\ 1 \in 1..(N + Len(TailStages) + 1) /\ 1 \in 1..(N + 1) /\ 1 \in 1..4
    BY StageKinds, TailNames
<1>2. \A m \in Ats : At(m) \in Places /\ At(m).at = m /\ At(m).i = 1 /\ At(m).ph = "dictionaries"
    BY <1>1 DEF At, Places, Phases
<1>3. "provider" \in Ats /\ "tail" \in Ats /\ "exited" \in Ats
    BY DEF Ats
<1>4. PlaceOK(At("provider")) /\ PlaceOK(At("tail"))
    BY <1>1, <1>2, <1>3 DEF PlaceOK, InLoop, InJob
<1>5. l \notin InLoop \cup {"provider", "tail", "tailwork"} => PlaceOK(At(l))
    BY <1>2 DEF PlaceOK, InLoop, InJob
<1>6. l # "exited" => At(l) # NoCall
    BY <1>2, <1>3 DEF NoCall
<1> QED
    BY <1>2, <1>3, <1>4, <1>5, <1>6

LEMMA TrackStep ==
    ASSUME RunInv, call = NoCall, status \in Active,
           UNCHANGED <<status, stages, pos, late, oks, fails, silent, muted, outcome>>,
           fatal' \in BOOLEAN, faults' \in 0..MaxFaults,
           call' \in Places, call' # NoCall,
           Shape(call', seen', muted), Books(call', seen', oks, fails, silent, muted, outcome),
           Coming(call', seen', fails, silent), Judged(call', seen', TRUE, fatal')
    PROVE  RunInv'
<1>1. seen' \in [Stages -> Open \cup Closed]
    BY DEF Shape
<1>2. TypeOK'
    BY <1>1 DEF RunInv, TypeOK
<1>3. Good(pos, stages, status \in Active, oks, fails, silent, muted, outcome)'
    BY DEF RunInv
<1>4. Good(call, seen, status \in Active, oks, fails, silent, muted, outcome)'
    BY DEF Good
<1>5. status' \notin {"success", "partial"} /\ OutcomeMatchesStages'
    BY DEF OutcomeMatchesStages, Active
<1>6. late' = 0
    BY DEF RunInv
<1>7. Judged(call, seen, status \in Active, fatal)'
    BY DEF Judged
<1> QED
    BY <1>2, <1>3, <1>4, <1>5, <1>6, <1>7 DEF RunInv

LEMMA MoveStep ==
    ASSUME RunInv, UNCHANGED <<status, stages, seen, late>>, call' = NoCall,
           \/ pos.at \notin {"log", "crashed", "exited"}
           \/ pos'.at \in {"crashed", "exited"} /\ silent' = silent /\ muted' = muted,
           pos' \in Places, fatal' \in BOOLEAN, faults' \in 0..MaxFaults, outcome' \in Outcomes,
           oks' \subseteq Providers, fails' \subseteq Providers, silent' \subseteq Providers,
           muted' \subseteq Providers,
           Good(pos', stages, status \in Active, oks', fails', silent', muted', outcome'),
           Judged(pos', stages, status \in Active, fatal')
    PROVE  RunInv'
<1>0. call' \in Places
    BY PlaceAt DEF NoCall, Ats
<1>1. TypeOK'
    BY <1>0 DEF RunInv, TypeOK
<1>2. \/ status \notin {"success", "partial"}
      \/ pos'.at \in {"crashed", "exited"} /\ silent' = silent /\ muted' = muted
    BY DEF RunInv
<1>3. Good(pos, stages, status \in Active, oks, fails, silent, muted, outcome)'
    OBVIOUS
<1>4. OutcomeMatchesStages'
    BY <1>2 DEF RunInv, OutcomeMatchesStages, Gap
<1>5. late' \in 0..1 /\ (late' = 1 => status' \notin Active /\ call' = NoCall)
    <2>1. late \in 0..1 /\ (late = 1 => status \notin Active)
        BY DEF RunInv
    <2> QED
        BY <2>1
<1>6. Judged(pos, stages, status \in Active, fatal)'
    OBVIOUS
<1>7. call' = NoCall
    OBVIOUS
<1>8. status' \in {"success", "partial"} => pos'.at \in {"log", "crashed", "exited"}
    BY <1>2
<1> QED
    BY <1>1, <1>3, <1>4, <1>5, <1>6, <1>7, <1>8 DEF RunInv

\* What a step that begins a tracker call, or a move, may assume.
LEMMA Here ==
    ASSUME RunInv
    PROVE  /\ TypeOK
           /\ Shape(pos, stages, muted) /\ PlaceOK(pos)
           /\ Books(pos, stages, oks, fails, silent, muted, outcome)
           /\ status \in Active => Coming(pos, stages, fails, silent)
           /\ call = NoCall => Judged(pos, stages, status \in Active, fatal)
           /\ stages \in [Stages -> Open \cup Closed]
BY DEF RunInv, Good, Shape

\* The places, each with its rank and the stages that may run there.
LEMMA LowFacts ==
    ASSUME NEW p, PlaceOK(p)
    PROVE  /\ Low(p) \in Nat /\ Low(p) <= 4 * N + 10
           /\ p.at \in {"prepare", "connections", "aborting", "crashed", "exited"} => Low(p) = 0
           /\ p.at \in {"provider", "disabled", "job", "commit", "remaining", "pendings"} => Low(p) = 4 * p.i
           /\ p.at \in {"phase", "work"} => Low(p) = IF Order[p.i] \in FreeOnly THEN 4 * p.i
                                                     ELSE 4 * p.i + PhaseRank(p.ph)
           /\ p.at \in {"finalize", "report"} => Low(p) = 4 * N + 4
           /\ p.at \in {"tail", "tailwork"} => Low(p) = 4 * N + 4 + p.i
           /\ p.at \in {"outcome", "snapshot", "scheduling"} => Low(p) = 4 * N + 9
           /\ p.at \in {"finish", "log"} => Low(p) = 4 * N + 10
<1>1. N \in Nat /\ p.i \in Nat /\ PhaseRank(p.ph) \in 1..3
    BY StageKinds DEF PlaceOK, Places, PhaseRank
<1>2. p.at \in InLoop => p.i \in 1..N
    BY DEF PlaceOK
<1>3. p.at = "provider" => p.i \in 1..(N + 1)
    BY DEF PlaceOK
<1>4. p.at \in {"tail", "tailwork"} => p.i \in 1..4
    BY DEF PlaceOK
<1>5. p.at \in Ats
    BY DEF PlaceOK, Places
<1>6. /\ p.at \in {"prepare", "connections", "aborting", "crashed", "exited"} => Low(p) = 0
      /\ p.at \in {"provider", "disabled", "job", "commit", "remaining", "pendings"} => Low(p) = 4 * p.i
      /\ p.at \in {"phase", "work"} => Low(p) = IF Order[p.i] \in FreeOnly THEN 4 * p.i
                                                ELSE 4 * p.i + PhaseRank(p.ph)
    BY DEF Low, InLoop
<1>7. /\ p.at \in {"finalize", "report"} => Low(p) = 4 * N + 4
      /\ p.at \in {"tail", "tailwork"} => Low(p) = 4 * N + 4 + p.i
      /\ p.at \in {"outcome", "snapshot", "scheduling"} => Low(p) = 4 * N + 9
      /\ p.at \in {"finish", "log"} => Low(p) = 4 * N + 10
    BY DEF Low, InLoop
<1> QED
    BY <1>1, <1>2, <1>3, <1>4, <1>5, <1>6, <1>7 DEF Ats, InLoop

LEMMA RunFacts ==
    ASSUME NEW p
    PROVE  /\ p.at = "connections" => MayRun(p) = {RunStage("prepare")}
           /\ p.at = "work" => MayRun(p) = {Stage(p.i, p.ph)}
           /\ p.at = "remaining" => MayRun(p) = {Stage(p.i, ph) : ph \in Phases}
           /\ p.at = "report" => MayRun(p) = {RunStage("finalize")}
           /\ p.at = "tailwork" => MayRun(p) = {RunStage(TailStages[p.i])}
           /\ p.at = "scheduling" => MayRun(p) = {RunStage("catalog_snapshot")}
           /\ p.at \in Left => MayRun(p) = Stages
           /\ p.at \in {"prepare", "provider", "disabled", "job", "phase", "commit", "pendings", "finalize",
                        "tail", "outcome", "snapshot", "finish", "log"} => MayRun(p) = {}
BY DEF MayRun, Left

-----------------------------------------------------------------------------
(* Books: a stage of the provider whose turn it is, or of the run, changes *)

\* Two stages of different providers differ.
LEMMA OwnStages ==
    /\ \A i, j \in 1..N, ph, x \in Phases : Stage(i, ph) = Stage(j, x) => i = j /\ ph = x
    /\ \A i \in 1..N : Order[i] \notin Before(i)
    /\ \A x : \A i \in 1..N, ph \in Phases : Stage(i, ph) # RunStage(x)
    /\ \A x : \A q \in Providers, ph \in Phases : <<q, ph>> # RunStage(x) /\ <<q, ph>> \in Stages
<1>1. \A i, j \in 1..N : Order[i] = Order[j] => i = j
    BY OrderAssumption
<1>2. N \in Nat
    BY StageKinds
<1>3. \A i \in 1..N : Order[i] \notin Before(i)
    BY <1>1, <1>2 DEF Before
<1>4. \A i \in 1..N : Order[i] # "run"
    BY StageKinds
<1>5. "run" \notin Providers
    BY OrderAssumption
<1> QED
    BY <1>1, <1>3, <1>4, <1>5 DEF Stage, RunStage, Stages

LEMMA LoopBooks ==
    ASSUME NEW p, NEW q, NEW st, NEW o, NEW f, NEW si, NEW mu, NEW out, NEW ph \in Phases,
           NEW to \in Open \cup Closed,
           Shape(p, st, mu), Books(p, st, o, f, si, mu, out), PlaceOK(q),
           p.at \in InLoop, q.at \in InLoop, q.i = p.i,
           p.at = "disabled" => to = "skipped",
           p.at = "remaining" => q.at = "remaining",
           p.at = "pendings" <=> q.at = "pendings",
           p.at = "pendings" => st[Stage(p.i, ph)] = "pending" /\ to = "skipped"
    PROVE  /\ Books(q, Set(st, Stage(p.i, ph), to), o, f, si, mu, out)
           /\ FailuresShow(st, f, si) => FailuresShow(Set(st, Stage(p.i, ph), to), f, si)
<1> DEFINE new == Set(st, Stage(p.i, ph), to)
<1>1. p.i \in 1..N /\ PlaceOK(p) /\ st \in [Stages -> Open \cup Closed]
    BY DEF Shape, PlaceOK
<1>2. o \cup f = Before(p.i) /\ o \subseteq Providers /\ f \subseteq Providers
    BY DEF Books
<1>3. Order[p.i] \notin o /\ Order[p.i] \notin f
    BY <1>1, <1>2, OwnStages
<1>4. \A r \in Stages : r # Stage(p.i, ph) => new[r] = st[r]
    BY <1>1 DEF Set
<1>5. \A r \in Providers, x \in Phases : r # Order[p.i] => new[<<r, x>>] = st[<<r, x>>]
    BY <1>4, OwnStages DEF Stage
<1>6. new[RunStage("prepare")] = st[RunStage("prepare")]
    BY <1>1, <1>4, OwnStages, StageKinds
<1>7. \A r \in o \ mu, x \in Phases : new[<<r, x>>] \in {"done", "skipped"}
    BY <1>2, <1>3, <1>5 DEF Books
<1>8. ASSUME NEW r \in Providers \ Enabled, NEW x \in Phases
      PROVE  new[<<r, x>>] \in {"pending", "skipped"}
    <2>1. CASE r = Order[p.i]
        <3>1. p.at = "disabled"
            BY <1>1, <1>8, <2>1 DEF PlaceOK, InJob
        <3>2. to = "skipped"
            BY <3>1
        <3>3. CASE x = ph
            BY <1>1, <2>1, <3>2, <3>3, StageKinds DEF Set, Stage
        <3>4. CASE x # ph
            <4>1. <<r, x>> # Stage(p.i, ph) /\ <<r, x>> \in Stages
                BY <2>1, <3>4, <1>8, OwnStages DEF Stage
            <4> QED
                BY <1>4, <1>8, <4>1 DEF Books
        <3> QED
            BY <3>3, <3>4
    <2>2. CASE r # Order[p.i]
        BY <1>5, <1>8, <2>2 DEF Books
    <2> QED
        BY <2>1, <2>2
<1>9. \A r \in f : Failed(r, st) => Failed(r, new)
    BY <1>2, <1>3, <1>5 DEF Failed
<1>10. si \subseteq f \cup (IF q.at = "remaining" THEN {Order[q.i]} ELSE {})
    BY DEF Books, InLoop, Left
<1>11. new[RunStage("prepare")] = "done"
    BY <1>6 DEF Books, InLoop, Left
<1>12. p.at = "pendings" => (Failed(Order[p.i], new) <=> Failed(Order[p.i], st))
    <2>1. \A x \in Phases : x # ph => new[Stage(p.i, x)] = st[Stage(p.i, x)]
        BY <1>1, <1>4, OwnStages, StageKinds
    <2>2. new[Stage(p.i, ph)] = to
        BY <1>1, StageKinds DEF Set
    <2> QED
        BY <2>1, <2>2 DEF Failed, Stage
<1>13. mu \subseteq o \cup (IF p.at = "pendings" THEN {Order[p.i]} ELSE {}) /\ mu \subseteq Providers
    BY DEF Books, InLoop, Left
<1>14. ASSUME NEW r \in mu
       PROVE  Failed(r, new)
    <2>1. Failed(r, st)
        BY DEF Books
    <2>2. CASE r = Order[p.i]
        BY <1>3, <1>12, <1>13, <2>1, <2>2
    <2>3. CASE r # Order[p.i]
        BY <1>5, <1>13, <2>1, <2>3 DEF Failed
    <2> QED
        BY <2>2, <2>3
<1>15. q.at = "pendings" /\ Failed(Order[q.i], new) => Order[q.i] \in mu
    BY <1>12 DEF Books
<1> HIDE DEF new
<1> QED
    <2>1. q.at \notin PostLoop /\ q.at \notin Verdict /\ q.at \notin {"prepare", "connections"}
        BY DEF InLoop, PostLoop, Verdict
    <2>2. Books(q, new, o, f, si, mu, out)
        BY <2>1, <1>2, <1>7, <1>8, <1>10, <1>11, <1>13, <1>14, <1>15 DEF Books, new
    <2> QED
        BY <1>9, <2>2 DEF FailuresShow, new

LEMMA RunBooks ==
    ASSUME NEW p, NEW q, NEW st, NEW o, NEW f, NEW si, NEW mu, NEW out, NEW x,
           NEW to \in Open \cup Closed,
           Shape(p, st, mu), Books(p, st, o, f, si, mu, out), PlaceOK(q), RunStage(x) \in Stages,
           p.at \in PostLoop, q.at \in PostLoop, x # "prepare",
           q.at \notin {"finalize", "report"} =>
               IF x = "finalize" THEN to = "done" ELSE p.at \notin {"finalize", "report"},
           q.at \in Verdict => p.at \in Verdict /\ x = "catalog_snapshot"
    PROVE  /\ Books(q, Set(st, RunStage(x), to), o, f, si, mu, out)
           /\ Coming(q, Set(st, RunStage(x), to), f, si)
<1> DEFINE new == Set(st, RunStage(x), to)
<1>1. st \in [Stages -> Open \cup Closed]
    BY DEF Shape
<1>2. /\ \A r \in Stages : r # RunStage(x) => new[r] = st[r]
      /\ new[RunStage(x)] = to
    BY <1>1 DEF Set
<1>3. \A r \in Providers, ph \in Phases : new[<<r, ph>>] = st[<<r, ph>>]
    BY <1>2, OwnStages
<1>4. \A y, z : RunStage(y) = RunStage(z) => y = z
    BY DEF RunStage
<1>5. new[RunStage("prepare")] = "done"
    BY <1>2, <1>4, StageKinds DEF Books, PostLoop, Left
<1>6. q.at \notin {"finalize", "report"} => new[RunStage("finalize")] = "done"
    BY <1>2, <1>4, StageKinds DEF Books
<1>7. q.at \in Verdict => (TailFailedIn(new) <=> TailFailedIn(st))
    <2>1. \A t \in 1..4 : TailStages[t] # "catalog_snapshot"
        BY TailNames
    <2> QED
        BY <1>2, <1>4, <2>1, StageKinds DEF TailFailedIn
<1>8. f \subseteq Providers /\ FailuresShow(st, f, si)
    BY DEF Books
<1>9. FailuresShow(new, f, si)
    BY <1>3, <1>8 DEF FailuresShow, Failed
<1>10. /\ q.at \notin InLoop /\ q.at \notin Left
       /\ q.at \notin {"provider", "prepare", "connections", "commit", "pendings", "remaining"}
       /\ q.at \notin {"phase", "work"}
    BY DEF PostLoop, InLoop, Left
<1>11. si \subseteq f
    BY DEF Books, PostLoop, Left
<1>12. o \subseteq Providers /\ o \cup f = Providers \cap Enabled /\ o \cap f = {}
    BY DEF Books
<1>13. \A r \in o \ mu, ph \in Phases : new[<<r, ph>>] \in {"done", "skipped"}
    BY <1>3, <1>12 DEF Books
<1>14. \A r \in Providers \ Enabled, ph \in Phases : new[<<r, ph>>] \in {"pending", "skipped"}
    BY <1>3 DEF Books
<1>15. q.at \in Verdict => /\ out = "success" => f = {} /\ ~TailFailedIn(new)
                           /\ out # "success" => f # {} \/ TailFailedIn(new)
    BY <1>7 DEF Books
<1>18. /\ mu \subseteq Providers /\ mu \subseteq o
       /\ \A r \in mu : Failed(r, new)
    BY <1>3 DEF Books, PostLoop, Left, Failed
<1> HIDE DEF new
<1>16. Books(q, new, o, f, si, mu, out)
    BY <1>5, <1>6, <1>8, <1>9, <1>10, <1>11, <1>12, <1>13, <1>14, <1>15,
       <1>18 DEF Books
<1>17. Coming(q, new, f, si)
    BY <1>9, <1>10 DEF Coming
<1> QED
    BY <1>16, <1>17 DEF new

-----------------------------------------------------------------------------
(* prepare *)

LEMMA PrepareKeeps ==
    ASSUME RunInv, Prepare
    PROVE  RunInv'
<1> DEFINE q == At("connections")
           s == RunStage("prepare")
           new == Set(stages, s, "running")
<1>1. /\ pos.at = "prepare" /\ call = NoCall /\ status \in Active
      /\ call' = q /\ seen' = new
      /\ UNCHANGED <<status, stages, pos, late, fatal, oks, fails, silent, muted, outcome, faults>>
    BY DEF Prepare, Is, Track, Set, locals
<1>2. q \in Places /\ q.at = "connections" /\ PlaceOK(q) /\ q # NoCall
    BY PlaceAt DEF Ats, InLoop
<1>3. /\ Shape(pos, stages, muted) /\ Books(pos, stages, oks, fails, silent, muted, outcome)
      /\ Coming(pos, stages, fails, silent) /\ PlaceOK(pos)
      /\ stages \in [Stages -> Open \cup Closed]
    BY <1>1, Here
<1>4. s \in Stages /\ Rank(s) = 0 /\ Low(q) = 0 /\ Low(pos) = 0 /\ s \in MayRun(q) /\ MayRun(pos) = {}
    BY <1>1, <1>2, <1>3, StageKinds, RunRank, LowFacts, RunFacts
<1>5. Shape(q, new, muted)
    <2>1. \A r \in Stages : ~ (Rank(r) < Rank(s))
        BY <1>4, RankIsNat
    <2> QED
        BY <1>2, <1>3, <1>4, <2>1, StageBegins
<1>6. \A r \in Providers, ph \in Phases : new[<<r, ph>>] = stages[<<r, ph>>]
    BY <1>3, OwnStages DEF Set
<1>7. oks = {} /\ fails = {} /\ silent = {} /\ muted = {}
    BY <1>1, <1>3 DEF Books, Left
<1>8. Books(q, new, oks, fails, silent, muted, outcome)
    BY <1>2, <1>3, <1>6, <1>7 DEF Books, InLoop, PostLoop, Left, Verdict
<1>9. Coming(q, new, fails, silent)
    <2>1. \A j \in 1..N, ph \in Phases : new[Stage(j, ph)] = "pending"
        BY <1>1, <1>3, <1>6, StageKinds DEF Coming, Stage
    <2> QED
        BY <1>2, <1>7, <2>1 DEF Coming, InLoop, FailuresShow
<1>10. Judged(q, new, TRUE, fatal)
    BY <1>2 DEF Judged
<1>11. fatal \in BOOLEAN /\ faults \in 0..MaxFaults
    BY Here DEF TypeOK
<1> HIDE DEF q, new
<1> QED
    BY <1>1, <1>2, <1>5, <1>8, <1>9, <1>10, <1>11, TrackStep

LEMMA PreparedKeeps ==
    ASSUME RunInv, Prepared
    PROVE  RunInv'
<1> DEFINE q == At("provider")
           s == RunStage("prepare")
           new == Set(stages, s, "done")
<1>1. /\ pos.at = "connections" /\ call = NoCall /\ status \in Active
      /\ call' = q /\ seen' = new
      /\ UNCHANGED <<status, stages, pos, late, fatal, oks, fails, silent, muted, outcome, faults>>
    BY DEF Prepared, Is, Track, Set, locals
<1>2. q \in Places /\ q.at = "provider" /\ q.i = 1 /\ PlaceOK(q) /\ q # NoCall
    BY PlaceAt DEF Ats
<1>3. /\ Shape(pos, stages, muted) /\ Books(pos, stages, oks, fails, silent, muted, outcome)
      /\ Coming(pos, stages, fails, silent) /\ PlaceOK(pos)
      /\ stages \in [Stages -> Open \cup Closed]
    BY <1>1, Here
<1>4. s \in Stages /\ Low(q) = 4 /\ MayRun(q) = {} /\ MayRun(pos) = {s}
    BY <1>1, <1>2, <1>3, StageKinds, LowFacts, RunFacts
<1>5. Shape(q, new, muted)
    <2>1. \A r \in Stages : Rank(r) < Low(q) => r = s
        BY <1>4, FirstRank
    <2>2. "done" \in Closed
        BY DEF Closed
    <2> QED
        BY <1>2, <1>3, <1>4, <2>1, <2>2, StageEnds
<1>6. /\ \A r \in Providers, ph \in Phases : new[<<r, ph>>] = stages[<<r, ph>>]
      /\ new[s] = "done"
    BY <1>3, <1>4, OwnStages DEF Set
<1>7. oks = {} /\ fails = {} /\ silent = {} /\ muted = {}
    BY <1>1, <1>3 DEF Books, Left
<1>8. Before(1) = {}
    BY DEF Before
<1>9. Books(q, new, oks, fails, silent, muted, outcome)
    BY <1>2, <1>3, <1>6, <1>7, <1>8 DEF Books, InLoop, PostLoop, Left, Verdict
<1>10. Coming(q, new, fails, silent)
    <2>1. \A j \in 1..N, ph \in Phases : new[Stage(j, ph)] = "pending"
        BY <1>1, <1>3, <1>6, StageKinds DEF Coming, Stage
    <2> QED
        BY <1>2, <1>7, <2>1 DEF Coming, InLoop, FailuresShow
<1>11. Judged(q, new, TRUE, fatal)
    BY <1>2 DEF Judged
<1>12. fatal \in BOOLEAN /\ faults \in 0..MaxFaults
    BY Here DEF TypeOK
<1> HIDE DEF q, new
<1> QED
    BY <1>1, <1>2, <1>5, <1>9, <1>10, <1>11, <1>12, TrackStep

-----------------------------------------------------------------------------
(* The stages of the run itself                                            *)

\* The stage whose turn it is begins, or it ends and the next one's turn comes.
LEMMA NextBegins ==
    ASSUME NEW p, NEW q, NEW st, NEW mu, NEW s \in Stages, Shape(p, st, mu), PlaceOK(q),
           MayRun(p) = {}, s \in MayRun(q), Rank(s) = Low(p), Low(q) = Low(p),
           q.at \notin {"commit", "pendings"}
    PROVE  Shape(q, Set(st, s, "running"), mu)
<1>1. PlaceOK(p)
    BY DEF Shape
<1>2. Low(p) \in Nat
    BY <1>1, LowFacts
<1>3. Low(q) <= Low(p) /\ Low(q) <= Rank(s)
    BY <1>2
<1>4. \A r \in Stages : Rank(r) < Rank(s) => Rank(r) < Low(p)
    OBVIOUS
<1> QED
    BY <1>2, <1>3, <1>4, StageBegins

LEMMA NextEnds ==
    ASSUME NEW p, NEW q, NEW st, NEW mu, NEW s \in Stages, NEW to \in Closed,
           Shape(p, st, mu), PlaceOK(q),
           MayRun(p) \subseteq {s}, Rank(s) = Low(p), Low(q) = Low(p) + 1,
           q.at \notin {"commit", "pendings"}
    PROVE  Shape(q, Set(st, s, to), mu)
<1>1. PlaceOK(p)
    BY DEF Shape
<1>2. Low(p) \in Nat
    BY <1>1, LowFacts
<1>3. ASSUME NEW r \in Stages, Rank(r) < Low(q)
      PROVE  r = s \/ ClosedBut(r, st, mu)
    <2>1. Rank(r) < Low(p) \/ Rank(r) = Rank(s)
        BY <1>2, <1>3, RankIsNat
    <2> QED
        BY <2>1, RankInjective DEF Shape
<1> QED
    BY <1>3, StageEnds

\* A tracker call for a stage of the run.
LEMMA RunTrack ==
    ASSUME RunInv, call = NoCall, NEW x, NEW to \in Open \cup Closed, NEW q,
           Track(RunStage(x), to, q), UNCHANGED locals, faults' \in 0..MaxFaults,
           RunStage(x) \in Stages, x # "prepare", q # NoCall,
           pos.at \in PostLoop, q.at \in PostLoop,
           q.at \notin {"finalize", "report"} =>
               IF x = "finalize" THEN to = "done" ELSE pos.at \notin {"finalize", "report"},
           q.at \in Verdict => pos.at \in Verdict /\ x = "catalog_snapshot",
           Shape(q, Set(stages, RunStage(x), to), muted)
    PROVE  RunInv'
<1> DEFINE new == Set(stages, RunStage(x), to)
<1>1. /\ status \in Active /\ call' = q /\ seen' = new
      /\ UNCHANGED <<status, stages, pos, late, fatal, oks, fails, silent, muted, outcome>>
    BY DEF Track, Set, locals
<1>2. Shape(pos, stages, muted) /\ Books(pos, stages, oks, fails, silent, muted, outcome) /\ TypeOK
    BY Here
<1>3. PlaceOK(q) /\ q \in Places
    BY DEF Shape, PlaceOK
<1>4. Books(q, new, oks, fails, silent, muted, outcome) /\ Coming(q, new, fails, silent)
    BY <1>2, <1>3, RunBooks
<1>5. Judged(q, new, TRUE, fatal)
    BY DEF Judged, PostLoop
<1>6. fatal \in BOOLEAN
    BY <1>2 DEF TypeOK
<1> HIDE DEF new
<1>7. Shape(q, new, muted)
    BY DEF new
<1> QED
    BY <1>1, <1>3, <1>4, <1>5, <1>6, <1>7, TrackStep

LEMMA FinalizeKeeps ==
    ASSUME RunInv, BeginFinalize \/ EndFinalize
    PROVE  RunInv'
<1> DEFINE s == RunStage("finalize")
<1>1. /\ Shape(pos, stages, muted) /\ PlaceOK(pos) /\ faults \in 0..MaxFaults
      /\ s \in Stages /\ Rank(s) = 4 * N + 4
    BY Here, StageKinds, RunRank DEF TypeOK
<1>2. CASE BeginFinalize
    <2> DEFINE q == At("report")
    <2>1. pos.at = "finalize" /\ call = NoCall /\ Track(s, "running", q) /\ UNCHANGED <<locals, faults>>
        BY <1>2 DEF BeginFinalize, Is
    <2>2. q.at = "report" /\ PlaceOK(q) /\ q # NoCall
        BY PlaceAt DEF Ats, InLoop
    <2>3. Low(q) = 4 * N + 4 /\ Low(pos) = 4 * N + 4 /\ MayRun(pos) = {} /\ s \in MayRun(q)
        BY <1>1, <2>1, <2>2, LowFacts, RunFacts
    <2>4. Shape(q, Set(stages, s, "running"), muted)
        BY <1>1, <2>2, <2>3, NextBegins
    <2>5. q.at \in PostLoop /\ pos.at \in PostLoop /\ q.at \notin Verdict
        BY <2>1, <2>2 DEF PostLoop, Verdict
    <2>6. "running" \in Open \cup Closed
        BY DEF Open
    <2> HIDE DEF q
    <2> QED
        BY <1>1, <2>1, <2>2, <2>4, <2>5, <2>6, RunTrack
<1>3. CASE EndFinalize
    <2> DEFINE q == At("tail")
    <2>1. pos.at = "report" /\ call = NoCall /\ Track(s, "done", q) /\ UNCHANGED <<locals, faults>>
        BY <1>3 DEF EndFinalize, Is
    <2>2. q.at = "tail" /\ q.i = 1 /\ PlaceOK(q) /\ q # NoCall
        BY PlaceAt DEF Ats
    <2>3. Low(q) = 4 * N + 4 + 1 /\ Low(pos) = 4 * N + 4 /\ MayRun(pos) = {s}
        BY <1>1, <2>1, <2>2, LowFacts, RunFacts
    <2>4. Shape(q, Set(stages, s, "done"), muted)
        BY <1>1, <2>2, <2>3, NextEnds DEF Closed
    <2>5. q.at \in PostLoop /\ pos.at \in PostLoop /\ q.at \notin Verdict
        BY <2>1, <2>2 DEF PostLoop, Verdict
    <2>6. "done" \in Open \cup Closed
        BY DEF Closed
    <2> HIDE DEF q
    <2> QED
        BY <1>1, <2>1, <2>2, <2>4, <2>5, <2>6, RunTrack
<1> QED
    BY <1>2, <1>3

\* Where the run goes after a tail step.
LEMMA AfterTail ==
    ASSUME PlaceOK(pos), pos.at \in {"tail", "tailwork"}
    PROVE  /\ PlaceOK(NextTail) /\ NextTail # NoCall /\ NextTail.at \in {"tail", "outcome"}
           /\ Low(NextTail) = Low(pos) + 1
<1>1. pos.i \in 1..4 /\ N \in Nat /\ Low(pos) = 4 * N + 4 + pos.i
    BY StageKinds, LowFacts DEF PlaceOK
<1>2. CASE pos.i = 4
    <2>1. NextTail = At("outcome")
        BY <1>2, TailNames DEF NextTail
    <2>2. PlaceOK(At("outcome")) /\ At("outcome").at = "outcome" /\ At("outcome") # NoCall
        BY PlaceAt DEF Ats, InLoop
    <2>3. Low(At("outcome")) = 4 * N + 9
        BY <2>2, LowFacts
    <2> QED
        BY <1>1, <1>2, <2>1, <2>2, <2>3
<1>3. CASE pos.i # 4
    <2> DEFINE q == [At("tail") EXCEPT !.i = pos.i + 1]
    <2>1. NextTail = q /\ pos.i + 1 \in 1..4
        BY <1>1, <1>3, TailNames DEF NextTail
    <2>2. At("tail") \in Places /\ At("tail").at = "tail"
        BY PlaceAt DEF Ats
    <2>3. q.at = "tail" /\ q.i = pos.i + 1 /\ q \in Places
        BY <1>1, <2>1, <2>2, TailNames DEF Places
    <2>4. PlaceOK(q)
        BY <2>1, <2>3 DEF PlaceOK, InLoop, InJob
    <2>5. Low(q) = 4 * N + 4 + (pos.i + 1)
        BY <2>3, <2>4, LowFacts
    <2>6. q # NoCall
        BY <2>3, PlaceAt DEF NoCall, Ats
    <2> HIDE DEF q
    <2> QED
        BY <1>1, <2>1, <2>3, <2>4, <2>5, <2>6
<1> QED
    BY <1>2, <1>3

LEMMA TailKeeps ==
    ASSUME RunInv, BeginTail \/ SkipTail \/ EndTail \/ FailTail
    PROVE  RunInv'
<1>1. /\ Shape(pos, stages, muted) /\ PlaceOK(pos) /\ faults \in 0..MaxFaults
      /\ pos.at \in {"tail", "tailwork"} /\ call = NoCall
    BY Here DEF TypeOK, BeginTail, SkipTail, EndTail, FailTail, Is
<1>2. /\ pos.i \in 1..4 /\ TailStage \in Stages /\ TailStage = RunStage(TailStages[pos.i])
      /\ Rank(TailStage) = 4 * N + 4 + pos.i /\ Low(pos) = 4 * N + 4 + pos.i
      /\ TailStages[pos.i] \notin {"prepare", "finalize", "catalog_snapshot"}
    BY <1>1, StageKinds, RunRank, LowFacts, TailNames DEF PlaceOK, TailStage
<1>3. CASE BeginTail
    <2> DEFINE q == [pos EXCEPT !.at = "tailwork"]
    <2>1. pos.at = "tail" /\ Track(TailStage, "running", q) /\ UNCHANGED <<locals, faults>>
        BY <1>3 DEF BeginTail, Is
    <2>2. q.at = "tailwork" /\ q.i = pos.i /\ q \in Places
        BY <1>1 DEF PlaceOK, Places, Ats
    <2>3. PlaceOK(q)
        BY <1>2, <2>2 DEF PlaceOK, InLoop, InJob
    <2>4. Low(q) = Low(pos) /\ MayRun(pos) = {} /\ TailStage \in MayRun(q)
        BY <1>1, <1>2, <2>1, <2>2, <2>3, LowFacts, RunFacts
    <2>5. Shape(q, Set(stages, TailStage, "running"), muted)
        BY <1>1, <1>2, <2>2, <2>3, <2>4, NextBegins
    <2>6. q # NoCall
        BY <2>2, PlaceAt DEF NoCall, Ats
    <2>7. /\ q.at \in PostLoop /\ pos.at \in PostLoop /\ q.at \notin Verdict
          /\ pos.at \notin {"finalize", "report"} /\ "running" \in Open \cup Closed
        BY <2>1, <2>2 DEF PostLoop, Verdict, Open
    <2> HIDE DEF q
    <2> QED
        BY <1>1, <1>2, <2>1, <2>5, <2>6, <2>7, RunTrack
<1>4. CASE SkipTail \/ EndTail \/ FailTail
    <2>1. PICK to \in Closed : Track(TailStage, to, NextTail)
        BY <1>4 DEF SkipTail, EndTail, FailTail, Closed
    <2>2. UNCHANGED locals /\ faults' \in 0..MaxFaults
        <3>1. faults' = faults \/ (faults < MaxFaults /\ faults' = faults + 1)
            BY <1>4 DEF SkipTail, EndTail, FailTail, Fault
        <3> QED
            BY <1>1, <1>4, <3>1, FaultsAssumption DEF SkipTail, EndTail, FailTail
    <2>3. PlaceOK(NextTail) /\ NextTail # NoCall /\ NextTail.at \in {"tail", "outcome"}
          /\ Low(NextTail) = Low(pos) + 1
        BY <1>1, AfterTail
    <2>4. MayRun(pos) \subseteq {TailStage}
        BY <1>1, <1>2, RunFacts
    <2>5. Shape(NextTail, Set(stages, TailStage, to), muted)
        BY <1>1, <1>2, <2>3, <2>4, NextEnds
    <2>6. /\ NextTail.at \in PostLoop /\ pos.at \in PostLoop /\ NextTail.at \notin Verdict
          /\ pos.at \notin {"finalize", "report"} /\ to \in Open \cup Closed
        BY <1>1, <2>3 DEF PostLoop, Verdict
    <2> QED
        BY <1>1, <1>2, <2>1, <2>2, <2>3, <2>5, <2>6, RunTrack
<1> QED
    BY <1>3, <1>4

LEMMA SnapshotKeeps ==
    ASSUME RunInv, SkipSnapshot \/ BeginSnapshot \/ EndSnapshot \/ FailSnapshot
    PROVE  RunInv'
<1> DEFINE s == RunStage("catalog_snapshot")
<1>1. /\ Shape(pos, stages, muted) /\ PlaceOK(pos) /\ faults \in 0..MaxFaults
      /\ pos.at \in {"snapshot", "scheduling"} /\ call = NoCall
      /\ s \in Stages /\ Rank(s) = 4 * N + 9 /\ N \in Nat
    BY Here, StageKinds, RunRank DEF TypeOK, SkipSnapshot, BeginSnapshot, EndSnapshot, FailSnapshot, Is
<1>2. Low(pos) = 4 * N + 9 /\ MayRun(pos) \subseteq {s}
    BY <1>1, LowFacts, RunFacts
<1>3. /\ pos.at \in PostLoop /\ pos.at \in Verdict /\ pos.at \notin {"finalize", "report"}
    BY <1>1 DEF PostLoop, Verdict
<1>4. CASE BeginSnapshot
    <2> DEFINE q == At("scheduling")
    <2>1. pos.at = "snapshot" /\ Track(s, "running", q) /\ UNCHANGED <<locals, faults>>
        BY <1>4 DEF BeginSnapshot, Is
    <2>2. q.at = "scheduling" /\ PlaceOK(q) /\ q # NoCall
        BY PlaceAt DEF Ats, InLoop
    <2>3. Low(q) = 4 * N + 9 /\ MayRun(pos) = {} /\ s \in MayRun(q)
        BY <1>1, <2>1, <2>2, LowFacts, RunFacts
    <2>4. Shape(q, Set(stages, s, "running"), muted)
        BY <1>1, <1>2, <2>2, <2>3, NextBegins
    <2>5. q.at \in PostLoop /\ "running" \in Open \cup Closed
        BY <2>2 DEF PostLoop, Open
    <2> HIDE DEF q
    <2> QED
        BY <1>1, <1>3, <2>1, <2>2, <2>4, <2>5, RunTrack
<1>5. CASE SkipSnapshot \/ EndSnapshot \/ FailSnapshot
    <2> DEFINE q == At("finish")
    <2>1. PICK to \in Closed : Track(s, to, q)
        BY <1>5 DEF SkipSnapshot, EndSnapshot, FailSnapshot, Closed
    <2>2. UNCHANGED locals /\ faults' \in 0..MaxFaults
        <3>1. faults' = faults \/ (faults < MaxFaults /\ faults' = faults + 1)
            BY <1>5 DEF SkipSnapshot, EndSnapshot, FailSnapshot, Fault
        <3> QED
            BY <1>1, <1>5, <3>1, FaultsAssumption DEF SkipSnapshot, EndSnapshot, FailSnapshot
    <2>3. q.at = "finish" /\ PlaceOK(q) /\ q # NoCall
        BY PlaceAt DEF Ats, InLoop
    <2>4. Low(q) = Low(pos) + 1
        BY <1>1, <1>2, <2>3, LowFacts
    <2>5. Shape(q, Set(stages, s, to), muted)
        BY <1>1, <1>2, <2>3, <2>4, NextEnds
    <2>6. q.at \in PostLoop /\ to \in Open \cup Closed
        BY <2>3 DEF PostLoop
    <2> HIDE DEF q
    <2> QED
        BY <1>1, <1>3, <2>1, <2>2, <2>3, <2>5, <2>6, RunTrack
<1> QED
    BY <1>4, <1>5

-----------------------------------------------------------------------------
(* The loop over the providers                                             *)

\* What a change to a stage of the present provider leaves alone.
LEMMA SetFacts ==
    ASSUME NEW i \in 1..N, NEW ph \in Phases, NEW st \in [Stages -> Open \cup Closed],
           NEW to \in Open \cup Closed
    PROVE  /\ Set(st, Stage(i, ph), to)[Stage(i, ph)] = to
           /\ \A j \in 1..N, x \in Phases :
                 j # i \/ x # ph => Set(st, Stage(i, ph), to)[Stage(j, x)] = st[Stage(j, x)]
           /\ Failed(Order[i], Set(st, Stage(i, ph), to)) <=>
                 to = "failed" \/ \E x \in Phases \ {ph} : st[Stage(i, x)] = "failed"
<1> DEFINE new == Set(st, Stage(i, ph), to)
<1>1. Stage(i, ph) \in Stages
    BY StageKinds
<1>2. new[Stage(i, ph)] = to /\ \A s \in Stages : s # Stage(i, ph) => new[s] = st[s]
    BY <1>1 DEF Set
<1>3. \A j \in 1..N, x \in Phases : j # i \/ x # ph => new[Stage(j, x)] = st[Stage(j, x)]
    BY <1>2, OwnStages, StageKinds
<1>4. Failed(Order[i], new) <=> \E x \in Phases : new[Stage(i, x)] = "failed"
    BY DEF Failed, Stage
<1> HIDE DEF new
<1>5. Failed(Order[i], new) <=> to = "failed" \/ \E x \in Phases \ {ph} : st[Stage(i, x)] = "failed"
    BY <1>2, <1>3, <1>4
<1> QED
    BY <1>2, <1>3, <1>5 DEF new

LEMMA PosMoves ==
    ASSUME PlaceOK(pos), NEW l \in Ats
    PROVE  LET q == [pos EXCEPT !.at = l] IN
           /\ q \in Places /\ q.at = l /\ q.i = pos.i /\ q.ph = pos.ph
           /\ l \notin InLoop \cup {"provider", "tail", "tailwork"} => PlaceOK(q)
           /\ pos.at \in InJob /\ l \in InJob \ {"phase", "work"} => PlaceOK(q)
<1> DEFINE q == [pos EXCEPT !.at = l]
<1>1. q \in Places /\ q.at = l /\ q.i = pos.i /\ q.ph = pos.ph
    BY DEF PlaceOK, Places
<1> HIDE DEF q
<1>2. l \notin InLoop \cup {"provider", "tail", "tailwork"} => PlaceOK(q)
    BY <1>1 DEF PlaceOK, InLoop, InJob
<1>3. pos.at \in InJob /\ l \in InJob \ {"phase", "work"} => PlaceOK(q)
    BY <1>1 DEF PlaceOK, InLoop, InJob
<1> QED
    BY <1>1, <1>2, <1>3 DEF q

\* A worker that leaves the run leaves the progress as it is.
LEMMA Leave ==
    ASSUME NEW p, NEW q, NEW st, NEW act \in BOOLEAN, NEW o, NEW f, NEW si, NEW mu, NEW out,
           Good(p, st, act, o, f, si, mu, out), PlaceOK(q), q.at \in Left
    PROVE  /\ Good(q, st, act, o, f, si, mu, out)
           /\ \A fat \in BOOLEAN : Judged(q, st, act, fat)
<1>1. Low(q) = 0 /\ MayRun(q) = Stages
    BY LowFacts, RunFacts DEF Left
<1>2. Shape(q, st, mu)
    BY <1>1, RankIsNat DEF Good, Shape, Left
<1>3. Books(q, st, o, f, si, mu, out)
    BY DEF Good, Books, Left, InLoop, PostLoop, Verdict
<1>4. act => Coming(q, st, f, si)
    BY DEF Good, Coming, Left, InLoop
<1>5. \A fat \in BOOLEAN : Judged(q, st, act, fat)
    BY DEF Judged, Left
<1> QED
    BY <1>2, <1>3, <1>4, <1>5 DEF Good

\* A tracker call for a stage of the present provider.
LEMMA LoopTrack ==
    ASSUME RunInv, call = NoCall, NEW ph \in Phases, NEW to \in Open \cup Closed, NEW q,
           Track(Mine(ph), to, q), UNCHANGED <<oks, fails, silent, muted, outcome>>,
           fatal' \in BOOLEAN, faults' \in 0..MaxFaults,
           pos.at \in InLoop, q.at \in InLoop, q.i = pos.i,
           pos.at = "disabled" => to = "skipped",
           pos.at = "remaining" => q.at = "remaining",
           pos.at = "pendings" <=> q.at = "pendings",
           pos.at = "pendings" => stages[Mine(ph)] = "pending" /\ to = "skipped",
           LET new == Set(stages, Stage(pos.i, ph), to) IN
              /\ Shape(q, new, muted)
              /\ FailuresShow(new, fails, silent) => Coming(q, new, fails, silent)
              /\ Judged(q, new, TRUE, fatal')
    PROVE  RunInv'
<1> DEFINE new == Set(stages, Stage(pos.i, ph), to)
<1>1. Mine(ph) = Stage(pos.i, ph)
    BY DEF Mine, Prov, Stage
<1>2. /\ status \in Active /\ call' = q /\ seen' = new
      /\ UNCHANGED <<status, stages, pos, late>>
    BY <1>1 DEF Track, Set
<1>3. /\ Shape(pos, stages, muted) /\ Books(pos, stages, oks, fails, silent, muted, outcome)
      /\ Coming(pos, stages, fails, silent)
    BY <1>2, Here
<1>4. PlaceOK(q) /\ q \in Places
    BY DEF Shape, PlaceOK
<1>5. /\ Books(q, new, oks, fails, silent, muted, outcome)
      /\ FailuresShow(stages, fails, silent) => FailuresShow(new, fails, silent)
    BY <1>1, <1>3, <1>4, LoopBooks
<1>6. FailuresShow(stages, fails, silent)
    BY <1>3 DEF Coming
<1>7. Shape(q, new, muted) /\ Coming(q, new, fails, silent) /\ Judged(q, new, TRUE, fatal')
    BY <1>5, <1>6
<1>8. q # NoCall
    BY PlaceAt DEF NoCall, InLoop, Ats
<1> HIDE DEF new
<1> QED
    BY <1>2, <1>4, <1>5, <1>7, <1>8, TrackStep

\* The provider's stages are closed: the next provider's turn comes.
LEMMA ToNext ==
    ASSUME PlaceOK(pos), pos.at \in {"disabled", "remaining", "pendings"}, Shape(pos, stages, muted),
           \A ph \in Phases : ClosedBut(Stage(pos.i, ph), stages, muted)
    PROVE  /\ Shape(NextProvider, stages, muted)
           /\ NextProvider.at = "provider" /\ NextProvider.i = pos.i + 1 /\ NextProvider \in Places
           /\ \A f, si : Coming(pos, stages, f, si) /\ FailuresShow(stages, f, si)
                            => Coming(NextProvider, stages, f, si)
           /\ \A act, fat : Judged(NextProvider, stages, act, fat)
<1> DEFINE q == NextProvider
<1>1. pos.i \in 1..N /\ N \in Nat
    BY StageKinds DEF PlaceOK, InLoop
<1>2. q.at = "provider" /\ q.i = pos.i + 1 /\ q \in Places
    BY <1>1, TailNames DEF NextProvider, Places, Ats, Phases
<1>3. PlaceOK(q)
    BY <1>1, <1>2 DEF PlaceOK, InLoop, InJob
<1>4. Low(q) = 4 * (pos.i + 1) /\ Low(pos) = 4 * pos.i /\ MayRun(q) = {}
    BY <1>2, <1>3, LowFacts, RunFacts
<1>5. \A r \in Stages : stages[r] = "running" => FALSE
    <2>1. MayRun(pos) \subseteq {Stage(pos.i, ph) : ph \in Phases}
        BY RunFacts
    <2>2. \A ph \in Phases : stages[Stage(pos.i, ph)] # "running"
        BY DEF Closed, ClosedBut
    <2> QED
        BY <2>1, <2>2 DEF Shape
<1>6. \A r \in Stages : Rank(r) < Low(q) => ClosedBut(r, stages, muted)
    BY <1>1, <1>4, RankSplit DEF Shape
<1>7. q.at \notin {"commit", "pendings", "phase", "work", "remaining", "prepare", "connections"}
    BY <1>2
<1> HIDE DEF q
<1>8. Shape(q, stages, muted)
    BY <1>3, <1>5, <1>6, <1>7, PlaceMoves
<1>9. ASSUME NEW f, NEW si, Coming(pos, stages, f, si), FailuresShow(stages, f, si)
      PROVE  Coming(q, stages, f, si)
    <2>1. \A j \in 1..N, ph \in Phases : j > pos.i => stages[Stage(j, ph)] = "pending"
        BY <1>9 DEF Coming, InLoop
    <2>2. \A j \in 1..N, ph \in Phases : j > q.i \/ j = q.i => stages[Stage(j, ph)] = "pending"
        BY <1>1, <1>2, <2>1
    <2> QED
        BY <1>7, <1>9, <2>2 DEF Coming
<1>10. \A act, fat : Judged(q, stages, act, fat)
    BY <1>7 DEF Judged
<1> QED
    BY <1>2, <1>8, <1>9, <1>10 DEF q

\* The providers before the next one are those before this one and this one.
LEMMA BeforeNext ==
    ASSUME NEW i \in 1..N
    PROVE  /\ Order[i] \in Enabled => Before(i + 1) = Before(i) \cup {Order[i]}
           /\ Order[i] \notin Enabled => Before(i + 1) = Before(i)
<1>1. N \in Nat
    BY StageKinds
<1>2. 1..((i + 1) - 1) = 1..(i - 1) \cup {i}
    BY <1>1
<1> QED
    BY <1>2 DEF Before

LEMMA CheckActiveKeeps ==
    ASSUME RunInv, CheckActive
    PROVE  RunInv'
<1>1. /\ pos.at = "provider" /\ call = NoCall
      /\ UNCHANGED <<status, stages, call, seen, late, fatal, oks, fails, silent, muted, outcome, faults>>
    BY DEF CheckActive, Is, Quiet, locals
<1>2. /\ Shape(pos, stages, muted) /\ Books(pos, stages, oks, fails, silent, muted, outcome)
      /\ PlaceOK(pos)
      /\ status \in Active => Coming(pos, stages, fails, silent)
      /\ TypeOK
    BY Here
<1>3. N \in Nat /\ pos.i \in 1..(N + 1) /\ Low(pos) = 4 * pos.i /\ MayRun(pos) = {}
    BY <1>1, <1>2, StageKinds, LowFacts, RunFacts DEF PlaceOK
<1>4. pos'.at \notin {"phase", "work", "commit"}
    BY <1>2, PosMoves DEF CheckActive, To, Goto, Ats
<1>5. CASE status \notin Active
    <2>1. pos' = [pos EXCEPT !.at = "aborting"]
        BY <1>5 DEF CheckActive, To, Goto
    <2>2. PlaceOK(pos') /\ pos'.at \in Left /\ pos' \in Places
        BY <1>2, <2>1, PosMoves DEF Ats, InLoop, Left
    <2>3. Good(pos, stages, status \in Active, oks, fails, silent, muted, outcome) /\ (status \in Active) \in BOOLEAN
        BY DEF RunInv
    <2>4. Good(pos', stages, status \in Active, oks, fails, silent, muted, outcome)
        BY <2>2, <2>3, Leave
    <2>5. Judged(pos', stages, status \in Active, fatal')
        BY <1>4 DEF Judged
    <2> QED
        BY <1>1, <1>2, <1>5, <2>2, <2>4, <2>5, MoveStep DEF TypeOK
<1>6. CASE status \in Active /\ pos.i > N
    <2>1. pos' = [pos EXCEPT !.at = "finalize"] /\ pos.i = N + 1
        BY <1>3, <1>6 DEF CheckActive, To, Goto
    <2>2. PlaceOK(pos') /\ pos'.at = "finalize" /\ pos' \in Places
        BY <1>2, <2>1, PosMoves DEF Ats, InLoop
    <2>3. Low(pos') = Low(pos) /\ MayRun(pos') = {}
        <3>1. Low(pos') = 4 * N + 4 /\ MayRun(pos') = {}
            BY <2>2, LowFacts, RunFacts
        <3>2. Low(pos) = 4 * (N + 1)
            BY <1>3, <2>1
        <3> QED
            BY <1>3, <3>1, <3>2
    <2>4. Shape(pos', stages, muted)
        BY <1>2, <1>3, <2>2, <2>3, PlaceMoves DEF Shape
    <2>5. oks \cup fails = Providers \cap Enabled
        <3>1. Before(N + 1) = Providers \cap Enabled
            BY <1>3 DEF Before, Providers
        <3> QED
            BY <1>1, <1>2, <2>1, <3>1 DEF Books
    <2>6. FailuresShow(stages, fails, silent)
        BY <1>2, <1>6 DEF Coming
    <2>7. Books(pos', stages, oks, fails, silent, muted, outcome)
        BY <1>1, <1>2, <2>2, <2>5, <2>6 DEF Books, Left, InLoop, PostLoop, Verdict
    <2>8. Coming(pos', stages, fails, silent)
        BY <2>2, <2>6 DEF Coming, InLoop
    <2>9. Judged(pos', stages, status \in Active, fatal')
        BY <1>4 DEF Judged
    <2>10. Good(pos', stages, status \in Active, oks, fails, silent, muted, outcome)
        BY <2>4, <2>7, <2>8 DEF Good
    <2> QED
        BY <1>1, <1>2, <2>2, <2>9, <2>10, MoveStep DEF TypeOK
<1>7. CASE status \in Active /\ ~(pos.i > N)
    <2>1. PICK l \in {"job", "disabled"} : /\ pos' = [pos EXCEPT !.at = l]
                                           /\ l = "job" <=> Order[pos.i] \in Enabled
        BY <1>7 DEF CheckActive, To, Goto, Prov
    <2>2. l \in Ats /\ pos.i \in 1..N
        BY <1>3, <1>7, <2>1 DEF Ats
    <2>3. pos' \in Places /\ pos'.at = l /\ pos'.i = pos.i
        BY <1>2, <2>1, <2>2, PosMoves
    <2>4. PlaceOK(pos')
        BY <2>1, <2>2, <2>3 DEF PlaceOK, InLoop, InJob
    <2>5. Low(pos') = Low(pos) /\ MayRun(pos') = {}
        BY <1>3, <2>1, <2>3, <2>4, LowFacts, RunFacts
    <2>6. Shape(pos', stages, muted)
        BY <1>2, <1>3, <2>1, <2>3, <2>4, <2>5, PlaceMoves DEF Shape
    <2>7. Books(pos', stages, oks, fails, silent, muted, outcome)
        BY <1>1, <1>2, <2>1, <2>3 DEF Books, Left, InLoop, PostLoop, Verdict
    <2>8. Coming(pos', stages, fails, silent)
        BY <1>1, <1>2, <1>7, <2>1, <2>3 DEF Coming, InLoop
    <2>9. Judged(pos', stages, status \in Active, fatal')
        BY <1>4 DEF Judged
    <2>10. Good(pos', stages, status \in Active, oks, fails, silent, muted, outcome)
        BY <2>6, <2>7, <2>8 DEF Good
    <2> QED
        BY <1>1, <1>2, <2>3, <2>9, <2>10, MoveStep DEF TypeOK
<1> QED
    BY <1>5, <1>6, <1>7

\* The lists when the next provider's turn comes.
LEMMA NextBooks ==
    ASSUME pos.at \in {"disabled", "remaining", "pendings"},
           NextProvider.at = "provider", NextProvider.i = pos.i + 1,
           NEW st, NEW o, NEW f, NEW si, NEW mu, NEW out, NEW oo, NEW ff,
           Books(pos, st, o, f, si, mu, out),
           oo \cup ff = Before(pos.i + 1), oo \cap ff = {}, oo \subseteq Providers, ff \subseteq Providers,
           si \subseteq ff, mu \subseteq oo,
           \A q \in oo \ mu, ph \in Phases : st[<<q, ph>>] \in {"done", "skipped"}
    PROVE  Books(NextProvider, st, oo, ff, si, mu, out)
BY DEF Books, Left, InLoop, PostLoop, Verdict

LEMMA SkipDisabledKeeps ==
    ASSUME RunInv, SkipDisabled
    PROVE  RunInv'
<1>1. /\ pos.at = "disabled" /\ call = NoCall
      /\ UNCHANGED <<fatal, oks, fails, silent, muted, outcome, faults>>
    BY DEF SkipDisabled, Is, locals
<1>2. /\ Shape(pos, stages, muted) /\ Books(pos, stages, oks, fails, silent, muted, outcome)
      /\ PlaceOK(pos)
      /\ status \in Active => Coming(pos, stages, fails, silent)
      /\ TypeOK /\ stages \in [Stages -> Open \cup Closed]
    BY Here
<1>3. /\ pos.i \in 1..N /\ pos.at \in InLoop /\ N \in Nat
      /\ Order[pos.i] \in Providers \ Enabled
    BY <1>1, <1>2, StageKinds DEF PlaceOK, InLoop
<1>4. fatal' \in BOOLEAN /\ faults' \in 0..MaxFaults
    BY <1>1, <1>2 DEF TypeOK
<1>5. CASE \E ph \in Phases : stages[Mine(ph)] = "pending" /\ Track(Mine(ph), "skipped", pos)
    <2>1. PICK ph \in Phases : stages[Mine(ph)] = "pending" /\ Track(Mine(ph), "skipped", pos)
        BY <1>5
    <2> DEFINE new == Set(stages, Stage(pos.i, ph), "skipped")
    <2>2. Shape(pos, new, muted)
        <3>1. Stage(pos.i, ph) \in Stages
            BY <1>3, StageKinds
        <3> QED
            BY <1>1, <1>2, <3>1, StageEnds DEF Closed, Shape
    <2>3. Coming(pos, stages, fails, silent)
        BY <1>2, <2>1 DEF Track
    <2>4. \A j \in 1..N, x \in Phases : j > pos.i => new[Stage(j, x)] = stages[Stage(j, x)]
        BY <1>2, <1>3, SetFacts DEF Closed
    <2>5. FailuresShow(new, fails, silent) => Coming(pos, new, fails, silent)
        BY <1>1, <1>3, <2>3, <2>4 DEF Coming
    <2>6. Judged(pos, new, TRUE, fatal')
        BY <1>1 DEF Judged
    <2>7. "skipped" \in Open \cup Closed
        BY DEF Closed
    <2> QED
        BY <1>1, <1>3, <1>4, <2>1, <2>2, <2>5, <2>6, <2>7, LoopTrack
<1>6. CASE ~ \E ph \in Phases : stages[Mine(ph)] = "pending" /\ Track(Mine(ph), "skipped", pos)
    <2>1. /\ \A ph \in Phases : stages[Mine(ph)] # "pending"
          /\ pos' = NextProvider /\ UNCHANGED <<status, stages, call, seen, late>>
        BY <1>6 DEF SkipDisabled, Goto, Quiet
    <2>2. \A ph \in Phases : stages[Stage(pos.i, ph)] = "skipped"
        BY <1>2, <1>3, <2>1 DEF Books, Mine, Prov, Stage
    <2>3. /\ Shape(NextProvider, stages, muted)
          /\ NextProvider.at = "provider" /\ NextProvider.i = pos.i + 1 /\ NextProvider \in Places
          /\ \A f, si : Coming(pos, stages, f, si) /\ FailuresShow(stages, f, si)
                            => Coming(NextProvider, stages, f, si)
          /\ \A act, fat : Judged(NextProvider, stages, act, fat)
        BY <1>1, <1>2, <2>2, ToNext DEF Closed, ClosedBut
    <2>4. oks \cup fails = Before(pos.i + 1)
        BY <1>2, <1>3, BeforeNext DEF Books
    <2>5. Books(NextProvider, stages, oks, fails, silent, muted, outcome)
        <3>1. /\ silent \subseteq fails /\ oks \subseteq Providers /\ fails \subseteq Providers
              /\ oks \cap fails = {} /\ muted \subseteq oks
              /\ \A q \in oks \ muted, ph \in Phases : stages[<<q, ph>>] \in {"done", "skipped"}
            BY <1>1, <1>2 DEF Books, Left
        <3> QED
            BY <1>1, <1>2, <2>3, <2>4, <3>1, NextBooks
    <2>6. status \in Active => Coming(NextProvider, stages, fails, silent)
        BY <1>2, <2>3 DEF Coming
    <2>7. Good(NextProvider, stages, status \in Active, oks, fails, silent, muted, outcome)
        BY <2>3, <2>5, <2>6 DEF Good
    <2> QED
        BY <1>1, <1>2, <1>4, <2>1, <2>3, <2>7, MoveStep DEF TypeOK
<1> QED
    BY <1>5, <1>6

-----------------------------------------------------------------------------
(* A provider job                                                          *)

\* Before a phase come the providers before and the phases before.
LEMMA LowStep ==
    ASSUME NEW i \in 1..N, NEW ph \in Phases, NEW s \in Stages, Rank(s) < 4 * i + PhaseRank(ph)
    PROVE  Rank(s) < 4 * i \/ \E x \in Phases : s = Stage(i, x) /\ PhaseRank(x) < PhaseRank(ph)
<1>1. N \in Nat /\ i \in Nat /\ PhaseRank(ph) \in 1..3
    BY StageKinds DEF PhaseRank
<1>2. Rank(s) \in Nat
    BY RankIsNat
<1>3. Rank(s) < 4 * i \/ \E x \in Phases : s = Stage(i, x)
    BY <1>1, <1>2, RankSplit
<1>4. ASSUME NEW x \in Phases, s = Stage(i, x)
      PROVE  PhaseRank(x) < PhaseRank(ph)
    <2>1. Rank(s) = 4 * i + PhaseRank(x) /\ PhaseRank(x) \in 1..3
        BY <1>4, ProviderRank DEF PhaseRank
    <2> QED
        BY <1>1, <2>1
<1> QED
    BY <1>3, <1>4

\* Where the worker is in a job.
LEMMA JobFacts ==
    ASSUME RunInv, pos.at \in InJob
    PROVE  /\ N \in Nat /\ pos.i \in 1..N /\ pos.at \in InLoop /\ pos.i \in Nat
           /\ Order[pos.i] \in Providers /\ Order[pos.i] \in Enabled
           /\ Prov = Order[pos.i] /\ \A ph \in Phases : Mine(ph) = Stage(pos.i, ph)
           /\ \A ph \in Phases : Stage(pos.i, ph) \in Stages /\ PhaseRank(ph) \in 1..3
           /\ pos.ph \in Phases
           /\ fatal \in BOOLEAN /\ faults \in 0..MaxFaults
           /\ pos.at \in {"phase", "work"} /\ Order[pos.i] \in FreeOnly => pos.ph = "free"
BY Here, StageKinds DEF PlaceOK, InJob, InLoop, Prov, Mine, Stage, PhaseRank, TypeOK, Places

LEMMA StartJobKeeps ==
    ASSUME RunInv, StartJob
    PROVE  RunInv'
<1>1. pos.at = "job" /\ call = NoCall /\ fatal' = FALSE
      /\ UNCHANGED <<oks, fails, silent, muted, outcome, faults>>
    BY DEF StartJob, Is
<1>2. /\ Shape(pos, stages, muted) /\ Books(pos, stages, oks, fails, silent, muted, outcome)
      /\ PlaceOK(pos)
      /\ status \in Active => Coming(pos, stages, fails, silent)
      /\ TypeOK /\ stages \in [Stages -> Open \cup Closed]
    BY Here
<1>3. /\ N \in Nat /\ pos.i \in 1..N /\ pos.at \in InLoop /\ pos.i \in Nat
      /\ Order[pos.i] \in Providers /\ Order[pos.i] \in Enabled
      /\ Prov = Order[pos.i] /\ \A ph \in Phases : Mine(ph) = Stage(pos.i, ph)
    BY <1>1, JobFacts DEF InJob, InLoop
<1> DEFINE first == [pos EXCEPT !.at = "phase",
                                !.ph = IF Prov \in FreeOnly THEN "free" ELSE "dictionaries"]
<1>4. /\ first \in Places /\ first.at = "phase" /\ first.i = pos.i
      /\ first.ph = IF Order[pos.i] \in FreeOnly THEN "free" ELSE "dictionaries"
    BY <1>2, <1>3 DEF PlaceOK, Places, Ats, Phases
<1>5. IF Order[pos.i] \in WithPurchased
      THEN pos' = first /\ UNCHANGED <<status, stages, call, seen, late>>
      ELSE Track(Mine("purchased"), "skipped", first)
    BY <1>3 DEF StartJob, Goto, Quiet
<1> HIDE DEF first
<1>6. PlaceOK(first)
    BY <1>3, <1>4 DEF PlaceOK, InLoop, InJob
<1>7. Low(pos) = 4 * pos.i /\ MayRun(pos) = {} /\ MayRun(first) = {}
    BY <1>1, <1>2, <1>4, LowFacts, RunFacts
<1>8. ASSUME NEW r \in Stages, Rank(r) < Low(first)
      PROVE  ClosedBut(r, stages, muted)
    <2>1. CASE Order[pos.i] \in FreeOnly
        <3>1. Low(first) = 4 * pos.i
            BY <1>4, <1>6, <2>1, LowFacts
        <3> QED
            BY <1>2, <1>7, <1>8, <3>1 DEF Shape
    <2>2. CASE Order[pos.i] \notin FreeOnly
        <3>1. Low(first) = 4 * pos.i + PhaseRank("dictionaries") /\ PhaseRank("dictionaries") = 1
            BY <1>4, <1>6, <2>2, LowFacts DEF PhaseRank
        <3>2. \A x \in Phases : PhaseRank(x) \in 1..3
            BY DEF PhaseRank
        <3>3. "dictionaries" \in Phases
            BY DEF Phases
        <3>4. Rank(r) < 4 * pos.i
            BY <1>3, <1>8, <3>1, <3>2, <3>3, LowStep
        <3> QED
            BY <1>2, <1>7, <3>4 DEF Shape
    <2> QED
        BY <2>1, <2>2
<1>9. \A st, f, si : Coming(pos, st, f, si) =>
          \A j \in 1..N, ph \in Phases : j >= pos.i => st[Stage(j, ph)] = "pending"
    BY <1>1, <1>3 DEF Coming, InLoop
<1>10. CASE Order[pos.i] \in WithPurchased
    <2>1. pos' = first /\ UNCHANGED <<status, stages, call, seen, late>>
        BY <1>5, <1>10
    <2>2. Shape(first, stages, muted)
        BY <1>2, <1>4, <1>6, <1>7, <1>8, PlaceMoves DEF Shape
    <2>3. Books(first, stages, oks, fails, silent, muted, outcome)
        BY <1>1, <1>2, <1>4 DEF Books, Left, InLoop, PostLoop, Verdict
    <2>4. ASSUME status \in Active
          PROVE  Coming(first, stages, fails, silent) /\ Judged(first, stages, TRUE, FALSE)
        <3>1. \A j \in 1..N, ph \in Phases : j >= pos.i => stages[Stage(j, ph)] = "pending"
            BY <1>2, <1>9, <2>4
        <3>2. Coming(first, stages, fails, silent)
            BY <1>2, <1>3, <1>4, <2>4, <3>1 DEF Coming, InLoop, Phases
        <3>3. ~Failed(Order[pos.i], stages)
            <4>1. \A ph \in Phases : stages[Stage(pos.i, ph)] = "pending"
                BY <1>3, <3>1
            <4> QED
                BY <4>1 DEF Failed, Stage
        <3> QED
            BY <1>4, <3>2, <3>3 DEF Judged
    <2>5. Good(first, stages, status \in Active, oks, fails, silent, muted, outcome)
        BY <2>2, <2>3, <2>4 DEF Good
    <2>6. Judged(first, stages, status \in Active, fatal')
        BY <1>1, <1>4, <2>4 DEF Judged
    <2> QED
        BY <1>1, <1>2, <1>4, <2>1, <2>5, <2>6, MoveStep DEF TypeOK
<1>11. CASE Order[pos.i] \notin WithPurchased
    <2> DEFINE new == Set(stages, Stage(pos.i, "purchased"), "skipped")
    <2>1. Track(Mine("purchased"), "skipped", first) /\ status \in Active
        BY <1>5, <1>11 DEF Track
    <2>2. "purchased" \in Phases /\ "skipped" \in Closed /\ "skipped" \in Open \cup Closed
        BY DEF Phases, Closed
    <2>3. Shape(first, new, muted)
        BY <1>2, <1>3, <1>4, <1>6, <1>7, <1>8, <2>2, StageKinds, StageEnds
    <2>4. \A j \in 1..N, ph \in Phases : j >= pos.i => stages[Stage(j, ph)] = "pending"
        BY <1>2, <1>9, <2>1
    <2>5. /\ new[Stage(pos.i, "purchased")] = "skipped"
          /\ \A j \in 1..N, x \in Phases :
                j # pos.i \/ x # "purchased" => new[Stage(j, x)] = stages[Stage(j, x)]
          /\ ~Failed(Order[pos.i], new)
        BY <1>2, <1>3, <2>2, <2>4, SetFacts
    <2>6. \A j \in 1..N, ph \in Phases : j > pos.i => new[Stage(j, ph)] = "pending"
        BY <1>3, <2>4, <2>5
    <2>7. \A ph \in Phases : new[Stage(pos.i, ph)] = "pending" \/ Skipped(pos.i, ph, new)
        BY <1>3, <1>11, <2>4, <2>5 DEF Skipped
    <2>8. FailuresShow(new, fails, silent) => Coming(first, new, fails, silent)
        <3>1. first.ph \in Phases
            BY <1>4 DEF Phases
        <3> QED
            BY <1>4, <2>6, <2>7, <3>1 DEF Coming, InLoop
    <2>9. Judged(first, new, TRUE, FALSE)
        BY <1>4, <2>5 DEF Judged
    <2>10. fatal' \in BOOLEAN /\ faults' \in 0..MaxFaults
        BY <1>1, <1>2 DEF TypeOK
    <2>11. first.at \in InLoop /\ first.at # "pendings"
        BY <1>4 DEF InLoop
    <2> HIDE DEF new
    <2>12. RunInv'
        BY <1>1, <1>3, <1>4, <2>1, <2>2, <2>3, <2>8, <2>9, <2>10, <2>11, LoopTrack DEF new
    <2> QED
        BY <2>12
<1> QED
    BY <1>10, <1>11

LEMMA BeginPhaseKeeps ==
    ASSUME RunInv, BeginPhase
    PROVE  RunInv'
<1> DEFINE q == [pos EXCEPT !.at = "work"]
           s == Stage(pos.i, pos.ph)
           new == Set(stages, s, "running")
<1>1. /\ pos.at = "phase" /\ call = NoCall /\ Track(Mine(pos.ph), "running", q)
      /\ status \in Active /\ UNCHANGED <<fatal, oks, fails, silent, muted, outcome, faults>>
    BY DEF BeginPhase, Is, Track, locals
<1>2. /\ Shape(pos, stages, muted) /\ Books(pos, stages, oks, fails, silent, muted, outcome)
      /\ PlaceOK(pos)
      /\ Coming(pos, stages, fails, silent) /\ Judged(pos, stages, TRUE, fatal)
      /\ stages \in [Stages -> Open \cup Closed]
    BY <1>1, Here
<1>3. /\ N \in Nat /\ pos.i \in 1..N /\ pos.at \in InLoop /\ pos.i \in Nat
      /\ Order[pos.i] \in Providers /\ Order[pos.i] \in Enabled
      /\ Mine(pos.ph) = s /\ s \in Stages /\ PhaseRank(pos.ph) \in 1..3
      /\ pos.ph \in Phases /\ fatal \in BOOLEAN /\ faults \in 0..MaxFaults
      /\ Order[pos.i] \in FreeOnly => pos.ph = "free"
    BY <1>1, JobFacts DEF InJob, InLoop
<1>4. q \in Places /\ q.at = "work" /\ q.i = pos.i /\ q.ph = pos.ph
    BY <1>2, PosMoves DEF Ats
<1> HIDE DEF q
<1>5. PlaceOK(q)
    BY <1>3, <1>4 DEF PlaceOK, InLoop, InJob
<1>6. MayRun(pos) = {} /\ s \in MayRun(q) /\ Low(q) = Low(pos) /\ Low(pos) \in Nat
    BY <1>1, <1>2, <1>4, <1>5, LowFacts, RunFacts
<1>7. Rank(s) = 4 * pos.i + PhaseRank(pos.ph)
    BY <1>3, ProviderRank
<1>8. Low(q) <= Rank(s) /\ \A r \in Stages : Rank(r) < Rank(s) => Rank(r) < Low(pos) \/ Exempt(r, s)
    <2>1. CASE Order[pos.i] \in FreeOnly
        <3>1. Low(pos) = 4 * pos.i
            BY <1>1, <1>2, <2>1, LowFacts
        <3>2. \A r \in Stages : Rank(r) < Rank(s) => Rank(r) < 4 * pos.i \/ \E x \in Phases : r = Stage(pos.i, x)
            BY <1>3, <1>7, LowStep
        <3>3. \A x \in Phases : Exempt(Stage(pos.i, x), s)
            BY <2>1 DEF Exempt, Stage
        <3> QED
            BY <1>3, <1>6, <1>7, <3>1, <3>2, <3>3
    <2>2. CASE Order[pos.i] \notin FreeOnly
        <3>1. Low(pos) = Rank(s)
            BY <1>1, <1>2, <1>7, <2>2, LowFacts
        <3> QED
            BY <1>6, <3>1
    <2> QED
        BY <2>1, <2>2
<1>9. Shape(q, new, muted)
    BY <1>2, <1>3, <1>4, <1>5, <1>6, <1>8, StageBegins
<1>10. "running" \in Open \cup Closed
    BY DEF Open
<1>11. /\ new[s] = "running"
       /\ \A j \in 1..N, x \in Phases :
             j # pos.i \/ x # pos.ph => new[Stage(j, x)] = stages[Stage(j, x)]
       /\ Failed(Order[pos.i], new) <=> \E x \in Phases \ {pos.ph} : stages[Stage(pos.i, x)] = "failed"
    BY <1>2, <1>3, <1>10, SetFacts
<1>12. Failed(Order[pos.i], new) <=> Failed(Order[pos.i], stages)
    <2>1. stages[s] # "failed"
        BY <1>1, <1>2 DEF Coming, Skipped
    <2>2. Failed(Order[pos.i], stages) <=> \E x \in Phases : stages[Stage(pos.i, x)] = "failed"
        BY DEF Failed, Stage
    <2> QED
        BY <1>3, <1>11, <2>1, <2>2
<1>13. Judged(q, new, TRUE, fatal')
    BY <1>1, <1>2, <1>4, <1>12 DEF Judged
<1>14. FailuresShow(new, fails, silent) => Coming(q, new, fails, silent)
    <2>1. \A j \in 1..N, ph \in Phases : j > pos.i => new[Stage(j, ph)] = "pending"
        BY <1>1, <1>2, <1>3, <1>11 DEF Coming
    <2>2. \A ph \in Phases : PhaseRank(ph) > PhaseRank(pos.ph) =>
              new[Stage(pos.i, ph)] = "pending" \/ Skipped(pos.i, ph, new)
        <3>1. \A ph \in Phases : PhaseRank(ph) > PhaseRank(pos.ph) => ph # pos.ph
            BY <1>3
        <3>2. \A ph \in Phases : PhaseRank(ph) > PhaseRank(pos.ph) =>
                  stages[Stage(pos.i, ph)] = "pending" \/ Skipped(pos.i, ph, stages)
            BY <1>1, <1>2 DEF Coming
        <3> QED
            BY <1>3, <1>11, <3>1, <3>2 DEF Skipped
    <2> QED
        BY <1>4, <1>11, <2>1, <2>2 DEF Coming, InLoop
<1>15. q.at \in InLoop /\ q.at # "pendings"
    BY <1>4 DEF InLoop
<1>16. fatal' \in BOOLEAN /\ faults' \in 0..MaxFaults
    BY <1>1, <1>3
<1> HIDE DEF new
<1>17. RunInv'
    BY <1>1, <1>3, <1>4, <1>9, <1>10, <1>13, <1>14, <1>15, <1>16, LoopTrack DEF new
<1> QED
    BY <1>17

\* A provider whose turn it is has not been counted yet.
LEMMA NotMuted ==
    ASSUME pos.at \in InLoop, pos.at # "pendings", PlaceOK(pos),
           Books(pos, stages, oks, fails, silent, muted, outcome)
    PROVE  Order[pos.i] \notin muted
<1>1. muted \subseteq oks /\ oks \cup fails = Before(pos.i)
    BY DEF Books, InLoop, Left
<1>2. pos.i \in 1..N
    BY DEF PlaceOK
<1> QED
    BY <1>1, <1>2, OwnStages

\* A phase ends with the stage it is about, as done, failed or skipped; bad
\* says whether the job has failed by then.
LEMMA PhaseCloses ==
    ASSUME RunInv, call = NoCall, pos.at \in {"phase", "work"},
           NEW to \in Closed, NEW bad \in BOOLEAN,
           Track(Mine(pos.ph), to, AfterPhase), UNCHANGED <<oks, fails, silent, muted, outcome>>,
           fatal' = bad, faults' \in 0..MaxFaults,
           bad <=> Failed(Order[pos.i], Set(stages, Stage(pos.i, pos.ph), to))
    PROVE  RunInv'
<1> DEFINE q == AfterPhase
           s == Stage(pos.i, pos.ph)
           new == Set(stages, s, to)
<1>1. /\ Shape(pos, stages, muted) /\ Books(pos, stages, oks, fails, silent, muted, outcome)
      /\ PlaceOK(pos)
      /\ Coming(pos, stages, fails, silent) /\ stages \in [Stages -> Open \cup Closed]
    BY Here DEF Track
<1>2. /\ N \in Nat /\ pos.i \in 1..N /\ pos.at \in InLoop /\ pos.i \in Nat
      /\ Order[pos.i] \in Providers /\ Order[pos.i] \in Enabled /\ Prov = Order[pos.i]
      /\ s \in Stages /\ pos.ph \in Phases
      /\ \A ph \in Phases : PhaseRank(ph) \in 1..3
      /\ Order[pos.i] \in FreeOnly => pos.ph = "free"
    BY JobFacts DEF InJob, InLoop
<1>3. to \in Open \cup Closed
    OBVIOUS
<1>4. /\ new[s] = to
      /\ \A j \in 1..N, x \in Phases :
            j # pos.i \/ x # pos.ph => new[Stage(j, x)] = stages[Stage(j, x)]
    BY <1>1, <1>2, <1>3, SetFacts
<1>5. MayRun(pos) \subseteq {s}
    BY RunFacts
<1>6. Rank(s) = 4 * pos.i + PhaseRank(pos.ph)
    BY <1>2, ProviderRank
<1>7. /\ q \in Places /\ q.i = pos.i /\ q.at \in InLoop /\ q.ph \in Phases
      /\ \/ q.at = "phase" /\ Order[pos.i] \notin FreeOnly /\ PhaseRank(q.ph) = PhaseRank(pos.ph) + 1
         \/ q.at = "commit" /\ pos.ph # "dictionaries"
    <2>1. CASE pos.ph = "dictionaries"
        <3>1. q = [pos EXCEPT !.at = "phase", !.ph = "free"]
            BY <2>1 DEF AfterPhase
        <3>2. Order[pos.i] \notin FreeOnly
            BY <1>2, <2>1
        <3>3. q \in Places /\ q.at = "phase" /\ q.i = pos.i /\ q.ph = "free"
            BY <1>1, <3>1 DEF PlaceOK, Places, Ats, Phases
        <3>4. PhaseRank("free") = PhaseRank("dictionaries") + 1
            BY DEF PhaseRank
        <3> QED
            BY <2>1, <3>2, <3>3, <3>4 DEF InLoop, Phases
    <2>2. CASE pos.ph = "free" /\ Order[pos.i] \notin FreeOnly
        <3>1. q = [pos EXCEPT !.at = "phase", !.ph = "purchased"]
            BY <1>2, <2>2 DEF AfterPhase
        <3>2. q \in Places /\ q.at = "phase" /\ q.i = pos.i /\ q.ph = "purchased"
            BY <1>1, <3>1 DEF PlaceOK, Places, Ats, Phases
        <3>3. PhaseRank("purchased") = PhaseRank("free") + 1
            BY DEF PhaseRank
        <3> QED
            BY <2>2, <3>2, <3>3 DEF InLoop, Phases
    <2>3. CASE pos.ph # "dictionaries" /\ ~(pos.ph = "free" /\ Order[pos.i] \notin FreeOnly)
        <3>1. q = [pos EXCEPT !.at = "commit"]
            BY <1>2, <2>3 DEF AfterPhase
        <3> QED
            BY <1>1, <1>2, <2>3, <3>1 DEF PlaceOK, Places, Ats, Phases, InLoop
    <2> QED
        BY <2>1, <2>2, <2>3
<1> HIDE DEF q
<1>8. PlaceOK(q)
    BY <1>2, <1>7 DEF PlaceOK, InLoop, InJob
<1>9. ASSUME NEW r \in Stages, Rank(r) < Low(q)
      PROVE  r = s \/ ClosedBut(r, stages, muted)
    <2>1. CASE q.at = "phase"
        <3>1. Low(q) = 4 * pos.i + PhaseRank(pos.ph) + 1 /\ Low(pos) = 4 * pos.i + PhaseRank(pos.ph)
            BY <1>1, <1>2, <1>7, <1>8, <2>1, LowFacts
        <3>2. Rank(r) < Low(pos) \/ Rank(r) = Rank(s)
            BY <1>2, <1>6, <1>9, <3>1, RankIsNat
        <3> QED
            BY <1>1, <1>2, <3>2, RankInjective DEF Shape
    <2>2. CASE q.at # "phase"
        <3>1. Low(q) = 4 * pos.i
            BY <1>7, <1>8, <2>2, LowFacts
        <3>2. Low(pos) = 4 * pos.i \/ Low(pos) = 4 * pos.i + PhaseRank(pos.ph)
            BY <1>1, LowFacts
        <3>3. Rank(r) < Low(pos)
            BY <1>2, <1>9, <3>1, <3>2, RankIsNat
        <3> QED
            BY <1>1, <3>3 DEF Shape
    <2> QED
        BY <2>1, <2>2
<1>10. q.at = "commit" => s = Stage(q.i, "free") \/ stages[Stage(q.i, "free")] \in Closed
    <2>1. CASE pos.ph = "purchased" /\ q.at = "commit"
        <3>1. Low(pos) = 4 * pos.i + 3
            BY <1>1, <1>2, <2>1, LowFacts DEF PhaseRank
        <3>2. "free" \in Phases /\ PhaseRank("free") = 2
            BY DEF Phases, PhaseRank
        <3>3. Rank(Stage(pos.i, "free")) = 4 * pos.i + 2 /\ Stage(pos.i, "free") \in Stages
            BY <1>2, <3>2, ProviderRank, StageKinds
        <3>4. Rank(Stage(pos.i, "free")) < Low(pos)
            BY <1>2, <3>1, <3>3
        <3>5. ClosedBut(Stage(pos.i, "free"), stages, muted)
            BY <1>1, <3>3, <3>4 DEF Shape
        <3> QED
            BY <1>1, <1>2, <1>7, <3>5, NotMuted DEF ClosedBut, Stage
    <2>2. CASE pos.ph = "free" /\ q.at = "commit"
        BY <1>7, <2>2
    <2> QED
        BY <1>2, <1>7, <2>1, <2>2 DEF Phases
<1>11. Shape(q, new, muted)
    BY <1>1, <1>2, <1>5, <1>7, <1>8, <1>9, <1>10, StageEnds
<1>12. \A j \in 1..N, ph \in Phases : j > pos.i => new[Stage(j, ph)] = "pending"
    BY <1>1, <1>2, <1>4 DEF Coming
<1>13. ASSUME q.at = "phase", NEW ph \in Phases, PhaseRank(ph) >= PhaseRank(q.ph)
       PROVE  new[Stage(pos.i, ph)] = "pending" \/ Skipped(pos.i, ph, new)
    <2>1. PhaseRank(ph) > PhaseRank(pos.ph)
        BY <1>2, <1>7, <1>13
    <2>2. stages[Stage(pos.i, ph)] = "pending" \/ Skipped(pos.i, ph, stages)
        BY <1>1, <2>1 DEF Coming
    <2>3. ph # pos.ph
        BY <1>2, <2>1
    <2>4. new[Stage(pos.i, ph)] = stages[Stage(pos.i, ph)]
        BY <1>2, <1>4, <2>3
    <2> QED
        BY <2>2, <2>4 DEF Skipped
<1>14. Judged(q, new, TRUE, fatal')
    BY <1>7 DEF Judged
<1>15. FailuresShow(new, fails, silent) => Coming(q, new, fails, silent)
    <2>1. \A ph \in Phases : PhaseRank(ph) > PhaseRank(q.ph) => PhaseRank(ph) >= PhaseRank(q.ph)
        BY <1>2, <1>7
    <2>2. PhaseRank(q.ph) >= PhaseRank(q.ph)
        BY <1>2, <1>7
    <2> QED
        BY <1>7, <1>12, <1>13, <2>1, <2>2 DEF Coming, InLoop
<1>16. q.at # "pendings" /\ pos.at # "pendings"
    BY <1>7
<1>17. fatal' \in BOOLEAN /\ pos.at \notin {"disabled", "remaining"}
    OBVIOUS
<1>18. Track(Mine(pos.ph), to, q)
    BY DEF q
<1> HIDE DEF new
<1>19. RunInv'
    BY <1>2, <1>3, <1>7, <1>11, <1>14, <1>15, <1>16, <1>17, <1>18, LoopTrack DEF new
<1> QED
    BY <1>19

\* What the failure flag says once a stage that had not failed has ended.
LEMMA StillFailed ==
    ASSUME RunInv, call = NoCall, status \in Active, pos.at \in {"phase", "work"},
           NEW to \in Closed \ {"failed"}
    PROVE  fatal <=> Failed(Order[pos.i], Set(stages, Stage(pos.i, pos.ph), to))
<1>1. /\ Coming(pos, stages, fails, silent) /\ Judged(pos, stages, TRUE, fatal)
      /\ stages \in [Stages -> Open \cup Closed]
    BY Here
<1>2. pos.i \in 1..N /\ pos.ph \in Phases
    BY JobFacts DEF InJob, InLoop
<1>3. stages[Stage(pos.i, pos.ph)] # "failed"
    BY <1>1 DEF Coming, Skipped
<1>4. Failed(Order[pos.i], stages) <=> \E x \in Phases : stages[Stage(pos.i, x)] = "failed"
    BY DEF Failed, Stage
<1>5. Failed(Order[pos.i], Set(stages, Stage(pos.i, pos.ph), to))
         <=> \E x \in Phases \ {pos.ph} : stages[Stage(pos.i, x)] = "failed"
    BY <1>1, <1>2, SetFacts
<1> QED
    BY <1>1, <1>2, <1>3, <1>4, <1>5 DEF Judged

LEMMA SkipPhaseKeeps ==
    ASSUME RunInv, SkipPhase
    PROVE  RunInv'
<1>1. /\ pos.at = "phase" /\ call = NoCall /\ status \in Active
      /\ Track(Mine(pos.ph), "skipped", AfterPhase)
      /\ UNCHANGED <<fatal, oks, fails, silent, muted, outcome, faults>>
    BY DEF SkipPhase, Is, Track, locals
<1>2. fatal \in BOOLEAN /\ faults \in 0..MaxFaults
    BY Here DEF TypeOK
<1>3. "skipped" \in Closed \ {"failed"}
    BY DEF Closed
<1>4. fatal <=> Failed(Order[pos.i], Set(stages, Stage(pos.i, pos.ph), "skipped"))
    BY <1>1, <1>3, StillFailed
<1> QED
    BY <1>1, <1>2, <1>3, <1>4, PhaseCloses

LEMMA EndPhaseKeeps ==
    ASSUME RunInv, EndPhase
    PROVE  RunInv'
<1>1. /\ pos.at = "work" /\ call = NoCall /\ status \in Active
      /\ Track(Mine(pos.ph), "done", AfterPhase)
      /\ UNCHANGED <<fatal, oks, fails, silent, muted, outcome, faults>>
    BY DEF EndPhase, Is, Track, locals
<1>2. fatal \in BOOLEAN /\ faults \in 0..MaxFaults
    BY Here DEF TypeOK
<1>3. "done" \in Closed \ {"failed"}
    BY DEF Closed
<1>4. fatal <=> Failed(Order[pos.i], Set(stages, Stage(pos.i, pos.ph), "done"))
    BY <1>1, <1>3, StillFailed
<1> QED
    BY <1>1, <1>2, <1>3, <1>4, PhaseCloses

\* A fault is counted.
LEMMA FaultCounts ==
    ASSUME NEW k, Fault(k), faults \in 0..MaxFaults
    PROVE  faults' \in 0..MaxFaults
BY FaultsAssumption DEF Fault

LEMMA FailPhaseKeeps ==
    ASSUME RunInv, FailPhase
    PROVE  RunInv'
<1> DEFINE s == Stage(pos.i, pos.ph)
           new == Set(stages, s, "failed")
<1>1. /\ pos.at = "work" /\ call = NoCall /\ status \in Active /\ fatal' = TRUE
      /\ UNCHANGED <<oks, fails, silent, muted, outcome>>
    BY DEF FailPhase, Is, Track
<1>2. /\ Shape(pos, stages, muted) /\ PlaceOK(pos) /\ Coming(pos, stages, fails, silent)
      /\ stages \in [Stages -> Open \cup Closed]
    BY <1>1, Here
<1>3. /\ N \in Nat /\ pos.i \in 1..N /\ pos.at \in InLoop /\ pos.i \in Nat
      /\ Order[pos.i] \in Enabled /\ s \in Stages /\ pos.ph \in Phases
      /\ Order[pos.i] \in FreeOnly => pos.ph = "free"
    BY <1>1, JobFacts DEF InJob, InLoop
<1>4. faults' \in 0..MaxFaults
    BY Here, FaultCounts DEF FailPhase, TypeOK
<1>5. "failed" \in Closed /\ "failed" \in Open \cup Closed
    BY DEF Closed
<1>6. /\ Failed(Order[pos.i], new)
      /\ \A j \in 1..N, x \in Phases : j # pos.i => new[Stage(j, x)] = stages[Stage(j, x)]
    BY <1>2, <1>3, <1>5, SetFacts
<1>7. CASE pos.ph # "dictionaries"
    <2>1. Track(Mine(pos.ph), "failed", AfterPhase)
        BY <1>7 DEF FailPhase
    <2> QED
        BY <1>1, <1>4, <1>5, <1>6, <2>1, PhaseCloses
<1>8. CASE pos.ph = "dictionaries"
    <2> DEFINE q == [pos EXCEPT !.at = "commit"]
    <2>1. Track(Mine(pos.ph), "failed", q)
        BY <1>8 DEF FailPhase
    <2>2. q.at = "commit" /\ q.i = pos.i /\ PlaceOK(q)
        BY <1>1, <1>2, PosMoves DEF Ats, InJob, InLoop
    <2> HIDE DEF q
    <2>3. Low(q) = 4 * pos.i /\ Low(pos) >= 4 * pos.i /\ Low(pos) \in Nat
        <3>1. Low(pos) = 4 * pos.i \/ Low(pos) = 4 * pos.i + PhaseRank(pos.ph)
            BY <1>1, <1>2, LowFacts
        <3>2. PhaseRank(pos.ph) \in 1..3
            BY DEF PhaseRank
        <3>3. Low(q) = 4 * pos.i
            BY <2>2, LowFacts
        <3> QED
            BY <1>3, <3>1, <3>2, <3>3
    <2>4. Shape(q, new, muted)
        <3>1. MayRun(pos) \subseteq {s}
            BY <1>1, RunFacts
        <3>2. \A r \in Stages : Rank(r) < Low(q) => ClosedBut(r, stages, muted)
            BY <1>2, <1>3, <2>3, RankIsNat DEF Shape
        <3> QED
            BY <1>2, <1>3, <1>5, <1>6, <2>2, <3>1, <3>2, StageEnds
    <2>5. \A j \in 1..N, ph \in Phases : j > pos.i => new[Stage(j, ph)] = "pending"
        BY <1>1, <1>2, <1>3, <1>6 DEF Coming
    <2>6. FailuresShow(new, fails, silent) => Coming(q, new, fails, silent)
        BY <2>2, <2>5 DEF Coming, InLoop
    <2>7. Judged(q, new, TRUE, fatal')
        BY <1>1, <1>6, <2>2 DEF Judged
    <2>8. q.at \in InLoop /\ q.at # "pendings"
        BY <2>2 DEF InLoop
    <2>9. fatal' \in BOOLEAN
        BY <1>1
    <2> HIDE DEF new
    <2>10. RunInv'
        BY <1>1, <1>3, <1>4, <1>5, <2>1, <2>2, <2>4, <2>6, <2>7, <2>8, <2>9, LoopTrack DEF new
    <2> QED
        BY <2>10
<1> QED
    BY <1>7, <1>8

\* A job that fails leaves a stage open, or failed, or is silent.
LEMMA ToRemaining ==
    ASSUME RunInv, pos.at \in {"phase", "work", "commit"}, NEW si,
           silent \subseteq si, si \subseteq silent \cup {Prov},
           status \in Active => \/ Prov \in si
                               \/ \E ph \in Phases : stages[Stage(pos.i, ph)] \in Open \cup {"failed"}
    PROVE  LET q == [pos EXCEPT !.at = "remaining"] IN
           /\ Good(q, stages, status \in Active, oks, fails, si, muted, outcome)
           /\ q \in Places /\ q.at = "remaining" /\ \A act, fat : Judged(q, stages, act, fat)
           /\ si \subseteq Providers
<1> DEFINE q == [pos EXCEPT !.at = "remaining"]
<1>1. /\ Shape(pos, stages, muted) /\ Books(pos, stages, oks, fails, silent, muted, outcome)
      /\ PlaceOK(pos)
      /\ status \in Active => Coming(pos, stages, fails, silent)
      /\ silent \subseteq Providers
    BY Here DEF TypeOK
<1>2. /\ N \in Nat /\ pos.i \in 1..N /\ pos.at \in InLoop /\ pos.i \in Nat /\ pos.ph \in Phases
      /\ Prov = Order[pos.i] /\ Prov \in Providers
    BY JobFacts DEF InJob, InLoop
<1>3. q \in Places /\ q.at = "remaining" /\ q.i = pos.i /\ PlaceOK(q)
    BY <1>1, PosMoves DEF Ats, InJob, InLoop
<1> HIDE DEF q
<1>4. MayRun(pos) \subseteq MayRun(q)
    BY <1>2, <1>3, RunFacts
<1>5. \A r \in Stages : Rank(r) < Low(q) => ClosedBut(r, stages, muted)
    <2>1. Low(pos) = 4 * pos.i \/ Low(pos) = 4 * pos.i + PhaseRank(pos.ph)
        BY <1>1, LowFacts
    <2>2. PhaseRank(pos.ph) \in 1..3 /\ Low(q) = 4 * pos.i
        BY <1>3, LowFacts DEF PhaseRank
    <2>3. \A r \in Stages : Rank(r) < Low(q) => Rank(r) < Low(pos)
        BY <1>2, <2>1, <2>2, RankIsNat
    <2> QED
        BY <1>1, <2>3 DEF Shape
<1>6. Shape(q, stages, muted)
    BY <1>1, <1>3, <1>4, <1>5, PlaceMoves DEF Shape
<1>7. Books(q, stages, oks, fails, si, muted, outcome)
    <2>1. si \subseteq fails \cup {Order[pos.i]}
        BY <1>1, <1>2 DEF Books, Left
    <2> QED
        BY <1>1, <1>2, <1>3, <2>1 DEF Books, Left, InLoop, PostLoop, Verdict
<1>8. ASSUME status \in Active
      PROVE  Coming(q, stages, fails, si)
    <2>1. Coming(pos, stages, fails, silent)
        BY <1>1, <1>8
    <2>2. FailuresShow(stages, fails, si)
        BY <2>1 DEF Coming, FailuresShow
    <2>3. \/ Failed(Order[pos.i], stages) \/ Order[pos.i] \in si
          \/ \E ph \in Phases : stages[Stage(pos.i, ph)] \in Open
        BY <1>2, <1>8 DEF Failed, Stage
    <2>4. \A j \in 1..N, ph \in Phases : j > pos.i => stages[Stage(j, ph)] = "pending"
        BY <1>2, <2>1 DEF Coming
    <2> QED
        BY <1>3, <2>2, <2>3, <2>4 DEF Coming, InLoop
<1>9. \A act, fat : Judged(q, stages, act, fat)
    BY <1>3 DEF Judged
<1>10. si \subseteq Providers
    BY <1>1, <1>2
<1>11. Good(q, stages, status \in Active, oks, fails, si, muted, outcome)
    BY <1>6, <1>7, <1>8 DEF Good
<1> QED
    BY <1>3, <1>9, <1>10, <1>11 DEF q

\* A job taken for a success shows no failure, or its verdict was lost.
LEMMA ToPendings ==
    ASSUME RunInv, pos.at = "commit", NEW mu, muted \subseteq mu, mu \subseteq muted \cup {Prov},
           Prov \in mu <=> Failed(Order[pos.i], stages)
    PROVE  LET q == [pos EXCEPT !.at = "pendings"] IN
           /\ Good(q, stages, status \in Active, oks, fails, silent, mu, outcome)
           /\ q \in Places /\ q.at = "pendings" /\ \A act, fat : Judged(q, stages, act, fat)
           /\ mu \subseteq Providers
<1> DEFINE q == [pos EXCEPT !.at = "pendings"]
<1>1. /\ Shape(pos, stages, muted) /\ Books(pos, stages, oks, fails, silent, muted, outcome)
      /\ PlaceOK(pos)
      /\ status \in Active => Coming(pos, stages, fails, silent)
    BY Here
<1>2. Prov = Order[pos.i] /\ Prov \in Providers /\ Prov \in Enabled
    BY JobFacts DEF InJob, InLoop
<1>3. q \in Places /\ q.at = "pendings" /\ q.i = pos.i /\ PlaceOK(q)
    BY <1>1, PosMoves DEF Ats, InJob, InLoop
<1> HIDE DEF q
<1>4. Low(q) = Low(pos) /\ MayRun(pos) = {} /\ MayRun(q) = {}
    BY <1>1, <1>3, LowFacts, RunFacts
<1>5. Shape(q, stages, mu)
    <2>1. Shape(pos, stages, mu)
        BY <1>1, MutedGrows
    <2> QED
        BY <1>3, <1>4, <2>1, PlaceMoves DEF Shape
<1>6. muted \subseteq oks /\ mu \subseteq Providers /\ mu \subseteq oks \cup {Order[pos.i]}
    BY <1>1, <1>2 DEF Books, Left
<1>7. \A r \in mu : Failed(r, stages)
    BY <1>1, <1>2 DEF Books
<1>8. Books(q, stages, oks, fails, silent, mu, outcome)
    BY <1>1, <1>2, <1>3, <1>6, <1>7 DEF Books, Left, InLoop, PostLoop, Verdict
<1>9. status \in Active => Coming(q, stages, fails, silent)
    BY <1>1, <1>3 DEF Coming, InLoop
<1>10. \A act, fat : Judged(q, stages, act, fat)
    BY <1>3 DEF Judged
<1>11. Good(q, stages, status \in Active, oks, fails, silent, mu, outcome)
    BY <1>5, <1>8, <1>9 DEF Good
<1> QED
    BY <1>3, <1>6, <1>10, <1>11 DEF q

\* Where the outcome of a job is committed its flag is what its stages show.
LEMMA AtCommit ==
    ASSUME RunInv, pos.at = "commit", call = NoCall
    PROVE  /\ fatal <=> Failed(Order[pos.i], stages)
           /\ Prov = Order[pos.i] /\ Prov \notin muted
<1>1. /\ Books(pos, stages, oks, fails, silent, muted, outcome) /\ PlaceOK(pos)
      /\ Judged(pos, stages, status \in Active, fatal)
    BY Here
<1>2. Prov = Order[pos.i] /\ pos.at \in InLoop
    BY DEF Prov, InLoop
<1> QED
    BY <1>1, <1>2, NotMuted DEF Judged

LEMMA CommitJobKeeps ==
    ASSUME RunInv, CommitJob
    PROVE  RunInv'
<1>1. /\ pos.at = "commit" /\ call = NoCall
      /\ pos' = [pos EXCEPT !.at = IF fatal THEN "remaining" ELSE "pendings"]
      /\ UNCHANGED <<status, stages, call, seen, late>>
      /\ UNCHANGED <<fatal, oks, fails, silent, muted, outcome, faults>>
    BY DEF CommitJob, Is, To, Goto, Quiet, locals
<1>2. TypeOK
    BY Here
<1>3. (fatal <=> Failed(Order[pos.i], stages)) /\ Prov \notin muted
    BY <1>1, AtCommit
<1>4. CASE fatal
    <2>1. \E ph \in Phases : stages[Stage(pos.i, ph)] \in Open \cup {"failed"}
        BY <1>3, <1>4 DEF Failed, Stage
    <2>2. /\ Good(pos', stages, status \in Active, oks, fails, silent, muted, outcome)
          /\ pos' \in Places /\ pos'.at = "remaining"
          /\ \A act, fat : Judged(pos', stages, act, fat)
        BY <1>1, <1>4, <2>1, ToRemaining
    <2> QED
        BY <1>1, <1>2, <2>2, MoveStep DEF TypeOK
<1>5. CASE ~fatal
    <2>1. /\ Good(pos', stages, status \in Active, oks, fails, silent, muted, outcome)
          /\ pos' \in Places /\ pos'.at = "pendings"
          /\ \A act, fat : Judged(pos', stages, act, fat)
        BY <1>1, <1>3, <1>5, ToPendings
    <2> QED
        BY <1>1, <1>2, <2>1, MoveStep DEF TypeOK
<1> QED
    BY <1>4, <1>5

LEMMA CommitLostKeeps ==
    ASSUME RunInv, CommitLost
    PROVE  RunInv'
<1>1. /\ pos.at = "commit" /\ call = NoCall /\ call' = NoCall
      /\ pos' = [pos EXCEPT !.at = "pendings"]
      /\ UNCHANGED <<status, stages, seen, late, fatal, oks, fails, silent, outcome>>
      /\ muted' = IF fatal THEN muted \cup {Prov} ELSE muted
    BY DEF CommitLost, Is, To, Goto, Quiet
<1>2. TypeOK /\ faults' \in 0..MaxFaults
    BY Here, FaultCounts DEF CommitLost, TypeOK
<1>3. (fatal <=> Failed(Order[pos.i], stages)) /\ Prov \notin muted
    BY <1>1, AtCommit
<1>4. /\ muted \subseteq muted' /\ muted' \subseteq muted \cup {Prov}
      /\ Prov \in muted' <=> Failed(Order[pos.i], stages)
    BY <1>1, <1>3
<1>5. /\ Good(pos', stages, status \in Active, oks, fails, silent, muted', outcome)
      /\ pos' \in Places /\ pos'.at = "pendings"
      /\ \A act, fat : Judged(pos', stages, act, fat)
      /\ muted' \subseteq Providers
    BY <1>1, <1>4, ToPendings
<1> QED
    BY <1>1, <1>2, <1>5, MoveStep DEF TypeOK

LEMMA RaisePhaseKeeps ==
    ASSUME RunInv, RaisePhase
    PROVE  RunInv'
<1>1. /\ pos.at \in {"phase", "work", "commit"} /\ call' = NoCall /\ fatal' = TRUE
      /\ pos' = [pos EXCEPT !.at = "remaining"]
      /\ UNCHANGED <<status, stages, seen, late, oks, fails, muted, outcome>>
      /\ silent' = IF NothingToShow THEN silent \cup {Prov} ELSE silent
    BY DEF RaisePhase, To, Goto
<1>2. faults' \in 0..MaxFaults
    BY Here, FaultCounts DEF RaisePhase, TypeOK
<1>3. /\ silent \subseteq silent' /\ silent' \subseteq silent \cup {Prov}
      /\ \/ Prov \in silent'
         \/ \E ph \in Phases : stages[Stage(pos.i, ph)] \in Open \cup {"failed"}
    <2>1. CASE NothingToShow
        BY <1>1, <2>1
    <2>2. CASE ~NothingToShow
        <3>1. /\ \A ph \in Phases : Mine(ph) = Stage(pos.i, ph) /\ Stage(pos.i, ph) \in Stages
              /\ stages \in [Stages -> Open \cup Closed]
            BY <1>1, JobFacts, Here DEF InJob, InLoop
        <3> QED
            BY <1>1, <2>2, <3>1 DEF NothingToShow, Open, Closed
    <2> QED
        BY <2>1, <2>2
<1>4. /\ Good(pos', stages, status \in Active, oks, fails, silent', muted, outcome)
      /\ pos' \in Places /\ \A act, fat : Judged(pos', stages, act, fat)
      /\ silent' \subseteq Providers
    BY <1>1, <1>3, ToRemaining
<1> QED
    BY <1>1, <1>2, <1>4, Here, MoveStep DEF TypeOK

\* The tracker refuses a run that was closed.
LEMMA TrackerRaisesKeeps ==
    ASSUME RunInv, TrackerRaises
    PROVE  RunInv'
<1>1. /\ pos.at \notin {"log", "crashed", "exited"} /\ call = NoCall /\ status \notin Active
      /\ UNCHANGED <<status, stages, call, seen, late, oks, fails, silent, muted, outcome, faults>>
    BY DEF TrackerRaises, Quiet
<1>2. TypeOK /\ PlaceOK(pos) /\ Good(pos, stages, status \in Active, oks, fails, silent, muted, outcome)
    BY Here DEF RunInv
<1>3. CASE pos.at \in {"phase", "work"}
    <2>1. fatal' = TRUE /\ pos' = [pos EXCEPT !.at = "remaining"]
        BY <1>3 DEF TrackerRaises, To, Goto
    <2>2. silent \subseteq silent /\ silent \subseteq silent \cup {Prov}
        OBVIOUS
    <2>3. /\ Good(pos', stages, status \in Active, oks, fails, silent, muted, outcome)
          /\ pos' \in Places /\ \A act, fat : Judged(pos', stages, act, fat)
        BY <1>1, <1>3, <2>1, <2>2, ToRemaining
    <2> QED
        BY <1>1, <1>2, <2>1, <2>3, MoveStep DEF TypeOK
<1>4. CASE pos.at \notin {"phase", "work"}
    <2>1. fatal' = fatal /\ pos' = [pos EXCEPT !.at = "aborting"]
        BY <1>4 DEF TrackerRaises, To, Goto
    <2>2. PlaceOK(pos') /\ pos' \in Places /\ pos'.at \in Left
        BY <1>2, <2>1, PosMoves DEF Ats, InLoop, Left
    <2>3. Good(pos', stages, status \in Active, oks, fails, silent, muted, outcome)
        <3>1. (status \in Active) \in BOOLEAN
            OBVIOUS
        <3> QED
            BY <1>2, <2>2, <3>1, Leave
    <2>4. Judged(pos', stages, status \in Active, fatal')
        BY <2>2 DEF Judged, Left
    <2> QED
        BY <1>1, <1>2, <2>1, <2>2, <2>3, <2>4, MoveStep DEF TypeOK
<1> QED
    BY <1>3, <1>4

LEMMA JobFailedKeeps ==
    ASSUME RunInv, JobFailed
    PROVE  RunInv'
<1>1. /\ pos.at = "remaining" /\ call = NoCall /\ pos.at \in InJob /\ pos.at \in InLoop
      /\ UNCHANGED <<fatal, oks, silent, muted, outcome, faults>>
    BY DEF JobFailed, Is, InJob, InLoop
<1>2. /\ Shape(pos, stages, muted) /\ Books(pos, stages, oks, fails, silent, muted, outcome)
      /\ PlaceOK(pos)
      /\ status \in Active => Coming(pos, stages, fails, silent)
      /\ TypeOK /\ stages \in [Stages -> Open \cup Closed]
    BY Here
<1>3. /\ N \in Nat /\ pos.i \in 1..N /\ Order[pos.i] \in Providers /\ Order[pos.i] \in Enabled
      /\ Prov = Order[pos.i] /\ \A ph \in Phases : Mine(ph) = Stage(pos.i, ph)
      /\ \A ph \in Phases : Stage(pos.i, ph) \in Stages
    BY <1>1, JobFacts
<1>4. fatal' \in BOOLEAN /\ faults' \in 0..MaxFaults
    BY <1>1, <1>2 DEF TypeOK
<1>5. CASE \E ph \in Remaining : Track(Mine(ph), "failed", pos) /\ UNCHANGED fails
    <2>1. PICK ph \in Phases : Track(Mine(ph), "failed", pos) /\ UNCHANGED fails
        BY <1>5 DEF Remaining
    <2> DEFINE new == Set(stages, Stage(pos.i, ph), "failed")
    <2>2. "failed" \in Closed /\ "failed" \in Open \cup Closed
        BY DEF Closed
    <2>3. Shape(pos, new, muted)
        BY <1>1, <1>2, <1>3, <2>2, StageEnds DEF Shape
    <2>4. Coming(pos, stages, fails, silent)
        BY <1>2, <2>1 DEF Track
    <2>5. /\ Failed(Order[pos.i], new)
          /\ \A j \in 1..N, x \in Phases : j # pos.i => new[Stage(j, x)] = stages[Stage(j, x)]
        BY <1>2, <1>3, <2>2, SetFacts
    <2>6. FailuresShow(new, fails, silent) => Coming(pos, new, fails, silent)
        BY <1>1, <1>3, <2>4, <2>5 DEF Coming
    <2>7. Judged(pos, new, TRUE, fatal')
        BY <1>1 DEF Judged
    <2> HIDE DEF new
    <2>8. RunInv'
        BY <1>1, <1>4, <2>1, <2>2, <2>3, <2>6, <2>7, LoopTrack DEF new
    <2> QED
        BY <2>8
<1>6. CASE ~ \E ph \in Remaining : Track(Mine(ph), "failed", pos) /\ UNCHANGED fails
    <2>1. /\ Remaining = {} /\ fails' = fails \cup {Order[pos.i]}
          /\ pos' = NextProvider /\ UNCHANGED <<status, stages, call, seen, late>>
        BY <1>3, <1>6 DEF JobFailed, Goto, Quiet
    <2>2. \A ph \in Phases : ClosedBut(Stage(pos.i, ph), stages, muted)
        BY <1>2, <1>3, <2>1 DEF Remaining, ClosedBut
    <2>3. /\ Shape(NextProvider, stages, muted)
          /\ NextProvider.at = "provider" /\ NextProvider.i = pos.i + 1 /\ NextProvider \in Places
          /\ \A f, si : Coming(pos, stages, f, si) /\ FailuresShow(stages, f, si)
                            => Coming(NextProvider, stages, f, si)
          /\ \A act, fat : Judged(NextProvider, stages, act, fat)
        BY <1>1, <1>2, <2>2, ToNext
    <2>4. oks \cup fails' = Before(pos.i + 1) /\ oks \cap fails' = {}
        <3>1. oks \cup fails = Before(pos.i) /\ oks \cap fails = {}
            BY <1>1, <1>2 DEF Books
        <3>2. Order[pos.i] \notin oks
            BY <1>3, <3>1, OwnStages
        <3> QED
            BY <1>3, <2>1, <3>1, <3>2, BeforeNext
    <2>5. fails' \subseteq Providers
        BY <1>2, <1>3, <2>1 DEF TypeOK
    <2>6. Books(NextProvider, stages, oks, fails', silent, muted, outcome)
        <3>1. /\ silent \subseteq fails' /\ oks \subseteq Providers /\ muted \subseteq oks
              /\ \A q \in oks \ muted, ph \in Phases : stages[<<q, ph>>] \in {"done", "skipped"}
            BY <1>1, <1>2, <2>1 DEF Books, Left
        <3> QED
            BY <1>1, <1>2, <2>3, <2>4, <2>5, <3>1, NextBooks
    <2>7. ASSUME status \in Active
          PROVE  Coming(NextProvider, stages, fails', silent)
        <3>1. Coming(pos, stages, fails, silent)
            BY <1>2, <2>7
        <3>2. Failed(Order[pos.i], stages) \/ Order[pos.i] \in silent
            <4>1. ~ \E ph \in Phases : stages[Stage(pos.i, ph)] \in Open
                BY <1>3, <2>1 DEF Remaining
            <4> QED
                BY <1>1, <3>1, <4>1 DEF Coming
        <3>3. FailuresShow(stages, fails', silent)
            BY <2>1, <3>1, <3>2 DEF Coming, FailuresShow
        <3>4. Coming(pos, stages, fails', silent)
            BY <3>1, <3>3 DEF Coming
        <3> QED
            BY <2>3, <3>3, <3>4
    <2>8. Good(NextProvider, stages, status \in Active, oks, fails', silent, muted, outcome)
        BY <2>3, <2>6, <2>7 DEF Good
    <2> QED
        BY <1>1, <1>2, <1>4, <2>1, <2>3, <2>5, <2>8, MoveStep DEF TypeOK
<1> QED
    BY <1>5, <1>6

LEMMA JobSucceededKeeps ==
    ASSUME RunInv, JobSucceeded
    PROVE  RunInv'
<1>1. /\ pos.at = "pendings" /\ call = NoCall /\ pos.at \in InJob /\ pos.at \in InLoop
      /\ UNCHANGED <<fatal, fails, silent, muted, outcome, faults>>
    BY DEF JobSucceeded, Is, InJob, InLoop
<1>2. /\ Shape(pos, stages, muted) /\ Books(pos, stages, oks, fails, silent, muted, outcome)
      /\ PlaceOK(pos)
      /\ status \in Active => Coming(pos, stages, fails, silent)
      /\ TypeOK /\ stages \in [Stages -> Open \cup Closed]
    BY Here
<1>3. /\ N \in Nat /\ pos.i \in 1..N /\ Order[pos.i] \in Providers /\ Order[pos.i] \in Enabled
      /\ Prov = Order[pos.i] /\ \A ph \in Phases : Mine(ph) = Stage(pos.i, ph)
      /\ \A ph \in Phases : Stage(pos.i, ph) \in Stages
    BY <1>1, JobFacts
<1>4. fatal' \in BOOLEAN /\ faults' \in 0..MaxFaults
    BY <1>1, <1>2 DEF TypeOK
<1>5. /\ stages[Stage(pos.i, "free")] \in Closed \/ Failed(Order[pos.i], stages)
      /\ Failed(Order[pos.i], stages) => Order[pos.i] \in muted
      /\ muted \subseteq oks \cup {Order[pos.i]}
    BY <1>1, <1>2 DEF Shape, Books, Left
<1>6. CASE \E ph \in Pendings : Track(Mine(ph), "skipped", pos) /\ UNCHANGED oks
    <2>1. PICK ph \in Phases : /\ Track(Mine(ph), "skipped", pos) /\ UNCHANGED oks
                               /\ stages[Mine(ph)] = "pending"
        BY <1>6 DEF Pendings
    <2> DEFINE new == Set(stages, Stage(pos.i, ph), "skipped")
    <2>2. "skipped" \in Closed /\ "skipped" \in Open \cup Closed
        BY DEF Closed
    <2>4. Coming(pos, stages, fails, silent)
        BY <1>2, <2>1 DEF Track
    <2>5. /\ Failed(Order[pos.i], stages) => Failed(Order[pos.i], new)
          /\ \A j \in 1..N, x \in Phases : j # pos.i => new[Stage(j, x)] = stages[Stage(j, x)]
        <3>1. /\ \A j \in 1..N, x \in Phases :
                    j # pos.i \/ x # ph => new[Stage(j, x)] = stages[Stage(j, x)]
              /\ Failed(Order[pos.i], new) <=>
                    "skipped" = "failed" \/ \E x \in Phases \ {ph} : stages[Stage(pos.i, x)] = "failed"
            BY <1>2, <1>3, <2>2, SetFacts
        <3>2. stages[Stage(pos.i, ph)] # "failed"
            BY <1>3, <2>1
        <3> QED
            BY <3>1, <3>2 DEF Failed, Stage
    <2>3. Shape(pos, new, muted)
        BY <1>1, <1>2, <1>3, <1>5, <2>2, <2>5, StageEnds DEF Shape
    <2>6. FailuresShow(new, fails, silent) => Coming(pos, new, fails, silent)
        BY <1>1, <1>3, <2>4, <2>5 DEF Coming
    <2>7. Judged(pos, new, TRUE, fatal')
        BY <1>1 DEF Judged
    <2> HIDE DEF new
    <2>8. RunInv'
        BY <1>1, <1>4, <2>1, <2>2, <2>3, <2>5, <2>6, <2>7, LoopTrack DEF new
    <2> QED
        BY <2>8
<1>7. CASE ~ \E ph \in Pendings : Track(Mine(ph), "skipped", pos) /\ UNCHANGED oks
    <2>1. /\ Pendings = {} /\ oks' = oks \cup {Order[pos.i]}
          /\ pos' = NextProvider /\ UNCHANGED <<status, stages, call, seen, late>>
        BY <1>3, <1>7 DEF JobSucceeded, Goto, Quiet
    <2>2. /\ \A ph \in Phases : ClosedBut(Stage(pos.i, ph), stages, muted)
          /\ Order[pos.i] \in muted
             \/ \A ph \in Phases : stages[Stage(pos.i, ph)] \in {"done", "skipped"}
        <3>1. \A ph \in Phases : /\ stages[Stage(pos.i, ph)] \in Open \cup Closed
                                 /\ stages[Stage(pos.i, ph)] # "running"
            BY <1>1, <1>2, <1>3, RunFacts DEF Shape
        <3>2. \A ph \in Phases : ph # "free" => stages[Stage(pos.i, ph)] # "pending"
            BY <1>3, <2>1 DEF Pendings
        <3>3. CASE Order[pos.i] \in muted
            BY <3>1, <3>2, <3>3 DEF ClosedBut, Stage, Open
        <3>4. CASE Order[pos.i] \notin muted
            <4>1. /\ stages[Stage(pos.i, "free")] \in Closed
                  /\ \A ph \in Phases : stages[Stage(pos.i, ph)] # "failed"
                BY <1>5, <3>4 DEF Failed, Stage
            <4> QED
                BY <3>1, <3>2, <4>1 DEF ClosedBut, Open, Closed
        <3> QED
            BY <3>3, <3>4
    <2>3. /\ Shape(NextProvider, stages, muted)
          /\ NextProvider.at = "provider" /\ NextProvider.i = pos.i + 1 /\ NextProvider \in Places
          /\ \A f, si : Coming(pos, stages, f, si) /\ FailuresShow(stages, f, si)
                            => Coming(NextProvider, stages, f, si)
          /\ \A act, fat : Judged(NextProvider, stages, act, fat)
        BY <1>1, <1>2, <2>2, ToNext DEF Closed
    <2>4. oks' \cup fails = Before(pos.i + 1) /\ oks' \cap fails = {}
        <3>1. oks \cup fails = Before(pos.i) /\ oks \cap fails = {}
            BY <1>1, <1>2 DEF Books
        <3>2. Order[pos.i] \notin fails
            BY <1>3, <3>1, OwnStages
        <3> QED
            BY <1>3, <2>1, <3>1, <3>2, BeforeNext
    <2>5. oks' \subseteq Providers
        BY <1>2, <1>3, <2>1 DEF TypeOK
    <2>6. Books(NextProvider, stages, oks', fails, silent, muted, outcome)
        <3>1. /\ silent \subseteq fails /\ fails \subseteq Providers /\ muted \subseteq oks'
              /\ \A q \in oks' \ muted, ph \in Phases : stages[<<q, ph>>] \in {"done", "skipped"}
            BY <1>1, <1>2, <1>5, <2>1, <2>2 DEF Books, Left, Stage
        <3> QED
            BY <1>1, <1>2, <2>3, <2>4, <2>5, <3>1, NextBooks
    <2>7. status \in Active => Coming(NextProvider, stages, fails, silent)
        BY <1>2, <2>3 DEF Coming
    <2>8. Good(NextProvider, stages, status \in Active, oks', fails, silent, muted, outcome)
        BY <2>3, <2>6, <2>7 DEF Good
    <2> QED
        BY <1>1, <1>2, <1>4, <2>1, <2>3, <2>5, <2>8, MoveStep DEF TypeOK
<1> QED
    BY <1>6, <1>7

-----------------------------------------------------------------------------
(* The worker leaves, the outcome, and the outside                         *)

LEMMA LeaveKeeps ==
    ASSUME RunInv, JobFailedAborted \/ JobSucceededAborted \/ LogOutcome \/ DbError
    PROVE  RunInv'
<1>1. /\ UNCHANGED <<status, stages, seen, late, fatal, oks, fails, silent, muted, outcome>>
      /\ call' = NoCall
    BY DEF JobFailedAborted, JobSucceededAborted, LogOutcome, DbError, Quiet, locals, Is
<1>2. TypeOK /\ PlaceOK(pos) /\ Good(pos, stages, status \in Active, oks, fails, silent, muted, outcome)
    BY Here DEF RunInv
<1>3. faults' \in 0..MaxFaults
    BY <1>2, FaultCounts DEF JobFailedAborted, JobSucceededAborted, LogOutcome, DbError, TypeOK
<1>4. PICK l \in {"aborting", "exited", "crashed"} :
          /\ pos' = [pos EXCEPT !.at = l]
          /\ pos.at \notin {"log", "crashed", "exited"} \/ l \in {"exited", "crashed"}
    BY DEF JobFailedAborted, JobSucceededAborted, LogOutcome, DbError, To, Goto, Is
<1>5. PlaceOK(pos') /\ pos' \in Places /\ pos'.at = l /\ pos'.at \in Left
    BY <1>2, <1>4, PosMoves DEF Ats, InLoop, Left
<1>6. Good(pos', stages, status \in Active, oks, fails, silent, muted, outcome)
    <2>1. (status \in Active) \in BOOLEAN
        OBVIOUS
    <2> QED
        BY <1>2, <1>5, <2>1, Leave
<1>7. Judged(pos', stages, status \in Active, fatal')
    BY <1>5 DEF Judged, Left
<1> QED
    BY <1>1, <1>2, <1>3, <1>4, <1>5, <1>6, <1>7, MoveStep DEF TypeOK

LEMMA TailIsShown == TailFailed <=> TailFailedIn(stages)
BY TailNames DEF TailFailed, TailFailedIn

LEMMA ComputeOutcomeKeeps ==
    ASSUME RunInv, ComputeOutcome
    PROVE  RunInv'
<1>1. /\ pos.at = "outcome" /\ call = NoCall /\ pos' = [pos EXCEPT !.at = "snapshot"]
      /\ UNCHANGED <<status, stages, call, seen, late, fatal, oks, fails, silent, muted, faults>>
      /\ outcome' = Computed
    BY DEF ComputeOutcome, Is, To, Goto, Quiet
<1>2. /\ Shape(pos, stages, muted) /\ Books(pos, stages, oks, fails, silent, muted, outcome)
      /\ PlaceOK(pos)
      /\ status \in Active => Coming(pos, stages, fails, silent)
      /\ TypeOK
    BY Here
<1>3. pos' \in Places /\ pos'.at = "snapshot" /\ PlaceOK(pos')
    BY <1>1, <1>2, PosMoves DEF Ats, InLoop
<1>4. Low(pos') = Low(pos) /\ MayRun(pos) = {} /\ MayRun(pos') = {}
    BY <1>1, <1>2, <1>3, LowFacts, RunFacts
<1>5. Shape(pos', stages, muted)
    BY <1>1, <1>2, <1>3, <1>4, PlaceMoves DEF Shape
<1>6. /\ outcome' \in Outcomes
      /\ outcome' = "success" => fails = {} /\ ~TailFailedIn(stages)
      /\ outcome' # "success" => fails # {} \/ TailFailedIn(stages)
    BY <1>1, TailIsShown DEF Computed, Outcomes
<1>7. Books(pos', stages, oks, fails, silent, muted, outcome')
    BY <1>1, <1>2, <1>3, <1>6 DEF Books, Left, InLoop, PostLoop, Verdict
<1>8. status \in Active => Coming(pos', stages, fails, silent)
    BY <1>2, <1>3 DEF Coming, InLoop
<1>9. Judged(pos', stages, status \in Active, fatal')
    BY <1>3 DEF Judged
<1>10. Good(pos', stages, status \in Active, oks, fails, silent, muted, outcome')
    BY <1>5, <1>7, <1>8 DEF Good
<1> QED
    BY <1>1, <1>2, <1>3, <1>6, <1>9, <1>10, MoveStep DEF TypeOK

\* A tracker call writes what it was to write.
LEMMA SaveKeeps ==
    ASSUME RunInv, Save
    PROVE  RunInv'
<1>1. /\ call # NoCall /\ stages' = seen /\ pos' = call /\ call' = NoCall
      /\ UNCHANGED <<status, seen, fatal, oks, fails, silent, muted, outcome, faults>>
      /\ late' = late \/ (late' = late + 1 /\ status \notin Active)
    BY DEF Save, Goto, locals
<1>2. /\ TypeOK /\ Good(call, seen, status \in Active, oks, fails, silent, muted, outcome)
      /\ Judged(call, seen, status \in Active, fatal)
      /\ status \notin {"success", "partial"} /\ late = 0
    BY <1>1 DEF RunInv
<1>3. TypeOK'
    <2>1. call' \in Places
        BY <1>1, PlaceAt DEF NoCall, Ats
    <2>2. late' \in Nat
        BY <1>1, <1>2
    <2> QED
        BY <1>1, <1>2, <2>1, <2>2 DEF TypeOK
<1>4. Good(pos, stages, status \in Active, oks, fails, silent, muted, outcome)'
    BY <1>1, <1>2
<1>5. Judged(pos, stages, status \in Active, fatal)'
    BY <1>1, <1>2
<1>6. OutcomeMatchesStages' /\ status' \notin {"success", "partial"}
    BY <1>1, <1>2 DEF OutcomeMatchesStages
<1>7. late' \in 0..1 /\ (late' = 1 => status' \notin Active)
    BY <1>1, <1>2
<1> QED
    BY <1>1, <1>3, <1>4, <1>5, <1>6, <1>7 DEF RunInv

\* The row is closed when no stage of the provider is running: it shows no new
\* failure.
LEMMA AbortKeepsFailed ==
    ASSUME NEW p, NEW st, NEW mu, Shape(p, st, mu), p.at \in {"commit", "pendings"}
    PROVE  Failed(Order[p.i], Aborted(st)) <=> Failed(Order[p.i], st)
<1>1. st \in [Stages -> Open \cup Closed] /\ PlaceOK(p)
    BY DEF Shape
<1>2. \A s \in Stages : /\ st[s] \in Closed => Aborted(st)[s] = st[s]
                        /\ st[s] = "pending" => Aborted(st)[s] = "skipped"
                        /\ st[s] # "running" /\ st[s] # "failed" => Aborted(st)[s] # "failed"
    BY <1>1, AbortedFacts
<1>3. p.i \in 1..N /\ MayRun(p) = {}
    BY <1>1, RunFacts DEF PlaceOK, InLoop
<1>4. \A ph \in Phases : Stage(p.i, ph) \in Stages
    BY <1>3, StageKinds
<1>5. \A ph \in Phases : st[Stage(p.i, ph)] # "running"
    BY <1>3, <1>4 DEF Shape
<1> QED
    BY <1>2, <1>4, <1>5 DEF Failed, Stage, Closed

\* The row is closed: what the stages show of the providers stays.
LEMMA AbortKeepsBooks ==
    ASSUME NEW p, NEW st, NEW o, NEW f, NEW si, NEW mu, NEW out,
           Shape(p, st, mu), Books(p, st, o, f, si, mu, out)
    PROVE  Books(p, Aborted(st), o, f, si, mu, out)
<1>1. st \in [Stages -> Open \cup Closed] /\ PlaceOK(p)
    BY DEF Shape
<1>2. \A s \in Stages : /\ st[s] \in Closed => Aborted(st)[s] = st[s]
                        /\ st[s] = "pending" => Aborted(st)[s] = "skipped"
                        /\ st[s] # "running" /\ st[s] # "failed" => Aborted(st)[s] # "failed"
    BY <1>1, AbortedFacts
<1>3. \A q \in Providers, ph \in Phases : <<q, ph>> \in Stages
    BY OwnStages
<1>4. o \subseteq Providers /\ f \subseteq Providers /\ mu \subseteq Providers
    BY DEF Books
<1>5. \A q \in o \ mu, ph \in Phases : Aborted(st)[<<q, ph>>] \in {"done", "skipped"}
    BY <1>2, <1>3, <1>4 DEF Books, Closed
<1>6. \A q \in Providers \ Enabled, ph \in Phases : Aborted(st)[<<q, ph>>] \in {"pending", "skipped"}
    BY <1>2, <1>3 DEF Books, Closed
<1>7. /\ p.at \notin Left \cup {"prepare", "connections"} => Aborted(st)[RunStage("prepare")] = "done"
      /\ p.at \in PostLoop \ {"finalize", "report"} => Aborted(st)[RunStage("finalize")] = "done"
    BY <1>2, StageKinds DEF Books, Closed
<1>8. ASSUME p.at = "pendings", Failed(Order[p.i], Aborted(st))
      PROVE  Order[p.i] \in mu
    BY <1>8, AbortKeepsFailed DEF Books
<1>11. \A q \in mu : Failed(q, Aborted(st))
    BY <1>2, <1>3, <1>4 DEF Books, Failed, Closed
<1>9. p.at \in PostLoop => FailuresShow(Aborted(st), f, si)
    BY <1>2, <1>3, <1>4 DEF Books, FailuresShow, Failed, Closed
<1>10. ASSUME p.at \in Verdict
       PROVE  TailFailedIn(Aborted(st)) <=> TailFailedIn(st)
    <2>1. Low(p) \in {4 * N + 9, 4 * N + 10} /\ N \in Nat
        BY <1>1, <1>10, LowFacts, StageKinds DEF Verdict
    <2>2. \A t \in 1..4 : /\ RunStage(TailStages[t]) \in Stages
                          /\ Rank(RunStage(TailStages[t])) = 4 * N + 4 + t
        BY StageKinds, RunRank
    <2>3. \A t \in 1..4 : Rank(RunStage(TailStages[t])) < Low(p)
        BY <2>1, <2>2
    <2>4. \A t \in 1..4 : st[RunStage(TailStages[t])] \in Closed
        BY <2>2, <2>3, TailNames DEF Shape, ClosedBut, RunStage
    <2> QED
        BY <1>2, <2>2, <2>4 DEF TailFailedIn
<1> QED
    BY <1>4, <1>5, <1>6, <1>7, <1>8, <1>9, <1>10, <1>11 DEF Books

LEMMA AbortKeepsGood ==
    ASSUME NEW p, NEW st, NEW act, NEW o, NEW f, NEW si, NEW mu, NEW out, Good(p, st, act, o, f, si, mu, out)
    PROVE  Good(p, Aborted(st), FALSE, o, f, si, mu, out)
BY AbortKeepsShape, AbortKeepsBooks DEF Good

LEMMA AbortKeeps ==
    ASSUME RunInv, Abort
    PROVE  RunInv'
<1>1. /\ status \in Active /\ status' = "failed" /\ stages' = Aborted(stages)
      /\ UNCHANGED <<pos, call, seen, late, fatal, oks, fails, silent, muted, outcome>>
    BY DEF Abort, locals
<1>2. /\ TypeOK /\ late = 0
      /\ Good(pos, stages, status \in Active, oks, fails, silent, muted, outcome)
      /\ call # NoCall => Good(call, seen, status \in Active, oks, fails, silent, muted, outcome)
      /\ call = NoCall => Judged(pos, stages, status \in Active, fatal)
      /\ call # NoCall => Judged(call, seen, status \in Active, fatal)
    BY <1>1 DEF RunInv
<1>3. status' \notin Active /\ status' \in Active \cup Outcomes /\ status' \notin {"success", "partial"}
    BY <1>1 DEF Active, Outcomes
<1>4. faults' \in 0..MaxFaults
    BY <1>2, FaultCounts DEF Abort, TypeOK
<1>5. stages' \in [Stages -> Open \cup Closed]
    BY <1>1, <1>2, AbortedFacts DEF TypeOK
<1>6. TypeOK'
    BY <1>1, <1>2, <1>3, <1>4, <1>5 DEF TypeOK
<1>7. Good(pos, stages, status \in Active, oks, fails, silent, muted, outcome)'
    <2>1. Good(pos, Aborted(stages), FALSE, oks, fails, silent, muted, outcome)
        BY <1>2, AbortKeepsGood
    <2> QED
        BY <1>1, <1>3, <2>1 DEF Good
<1>8. (call # NoCall => Good(call, seen, status \in Active, oks, fails, silent, muted, outcome))'
    BY <1>1, <1>2, <1>3 DEF Good
<1>9. OutcomeMatchesStages'
    BY <1>3 DEF OutcomeMatchesStages
<1>10. (call = NoCall => Judged(pos, stages, status \in Active, fatal))'
    <2> SUFFICES ASSUME call = NoCall, pos.at = "commit"
                 PROVE  fatal <=> Failed(Order[pos.i], Aborted(stages))
        BY <1>1, <1>3 DEF Judged
    <2>1. fatal <=> Failed(Order[pos.i], stages)
        BY <1>2 DEF Judged
    <2>2. Shape(pos, stages, muted)
        BY <1>2 DEF Good
    <2> QED
        BY <2>1, <2>2, AbortKeepsFailed
<1>11. (call # NoCall => Judged(call, seen, status \in Active, fatal))'
    BY <1>1, <1>2, <1>3 DEF Judged
<1> QED
    BY <1>1, <1>2, <1>3, <1>6, <1>7, <1>8, <1>9, <1>10, <1>11 DEF RunInv

LEMMA HandlersKeep ==
    ASSUME RunInv, HandleAbort \/ HandleCrash
    PROVE  RunInv'
<1>1. /\ pos.at \in {"aborting", "crashed"} /\ call = NoCall /\ pos' = [pos EXCEPT !.at = "exited"]
      /\ UNCHANGED <<call, seen, late, fatal, oks, fails, silent, muted, outcome, faults>>
      /\ \/ status' = "failed" /\ stages' = Aborted(stages)
         \/ status' = "failed" /\ stages' = stages
         \/ status' = status /\ status \notin Active /\ stages' = stages
    BY DEF HandleAbort, HandleCrash, Is, To, Goto, locals
<1>2. /\ TypeOK /\ PlaceOK(pos) /\ OutcomeMatchesStages
      /\ Good(pos, stages, status \in Active, oks, fails, silent, muted, outcome)
      /\ late \in 0..1
    BY Here DEF RunInv
<1>3. PlaceOK(pos') /\ pos' \in Places /\ pos'.at = "exited" /\ pos'.at \in Left
    BY <1>1, <1>2, PosMoves DEF Ats, InLoop, Left
<1>4. status' \notin Active /\ status' \in Active \cup Outcomes
    BY <1>1, <1>2 DEF Active, Outcomes, TypeOK
<1>5. stages' \in [Stages -> Open \cup Closed]
    BY <1>1, <1>2, AbortedFacts DEF TypeOK
<1>6. TypeOK'
    BY <1>1, <1>2, <1>3, <1>4, <1>5 DEF TypeOK
<1>7. Good(pos, stages', FALSE, oks, fails, silent, muted, outcome)
    BY <1>1, <1>2, AbortKeepsGood DEF Good
<1>8. Good(pos', stages', FALSE, oks, fails, silent, muted, outcome)
    BY <1>3, <1>7, Leave
<1>9. Good(pos, stages, status \in Active, oks, fails, silent, muted, outcome)'
    BY <1>1, <1>4, <1>8 DEF Good
<1>10. OutcomeMatchesStages'
    BY <1>1, <1>2 DEF OutcomeMatchesStages, Gap
<1>11. Judged(pos, stages, status \in Active, fatal)'
    BY <1>3 DEF Judged
<1> QED
    BY <1>1, <1>2, <1>3, <1>4, <1>6, <1>9, <1>10, <1>11 DEF RunInv

\* The outcome is written: it is what the stages show.
LEMMA FinishKeeps ==
    ASSUME RunInv, Finish
    PROVE  RunInv'
<1> DEFINE snap == stages[RunStage("catalog_snapshot")]
<1>1. /\ pos.at = "finish" /\ call = NoCall /\ pos' = [pos EXCEPT !.at = "log"]
      /\ UNCHANGED <<stages, call, seen, late, fatal, oks, fails, silent, muted, outcome, faults>>
      /\ status' = IF outcome = "success" /\ snap = "failed" THEN "partial" ELSE outcome
    BY DEF Finish, Is, To, Goto, locals
<1>2. /\ Shape(pos, stages, muted) /\ Books(pos, stages, oks, fails, silent, muted, outcome)
      /\ PlaceOK(pos)
      /\ TypeOK /\ stages \in [Stages -> Open \cup Closed] /\ late \in 0..1
    BY Here DEF RunInv
<1>3. pos' \in Places /\ pos'.at = "log" /\ PlaceOK(pos')
    BY <1>1, <1>2, PosMoves DEF Ats, InLoop
<1>4. status' \in Outcomes /\ status' \notin Active
    BY <1>1, <1>2 DEF TypeOK, Outcomes, Active
<1>5. /\ N \in Nat /\ Low(pos) = 4 * N + 10 /\ Low(pos') = 4 * N + 10
      /\ MayRun(pos) = {} /\ MayRun(pos') = {}
    BY <1>1, <1>2, <1>3, StageKinds, LowFacts, RunFacts
<1>6. Shape(pos', stages, muted)
    BY <1>1, <1>2, <1>3, <1>5, PlaceMoves DEF Shape
<1>7. Books(pos', stages, oks, fails, silent, muted, outcome)
    BY <1>1, <1>2, <1>3 DEF Books, Left, InLoop, PostLoop, Verdict
<1>8. \A s \in Stages : stages[s] \in Closed \/ Gap(s)
    BY <1>2, <1>5, RankIsNat DEF Shape, ClosedBut, Gap
<1>9. /\ silent \subseteq fails /\ fails \subseteq Providers
      /\ muted \subseteq oks /\ oks \cap fails = {}
      /\ oks \cup fails = Providers \cap Enabled /\ FailuresShow(stages, fails, silent)
      /\ stages[RunStage("prepare")] = "done" /\ stages[RunStage("finalize")] = "done"
      /\ outcome = "success" => fails = {} /\ ~TailFailedIn(stages)
      /\ outcome # "success" => fails # {} \/ TailFailedIn(stages)
    BY <1>1, <1>2 DEF Books, Left, PostLoop, Verdict
<1>10. ASSUME status' = "success"
       PROVE  silent = {} /\ \A s \in Stages : stages[s] = "failed" => s[1] \in muted
    <2>1. outcome = "success" /\ snap # "failed"
        BY <1>1, <1>10
    <2>2. fails = {} /\ ~TailFailedIn(stages)
        BY <1>9, <2>1
    <2>3. \A q \in Providers \ muted, ph \in Phases : stages[<<q, ph>>] # "failed"
        BY <1>2, <1>9, <2>2 DEF Books
    <2>4. \A t \in 1..4 : stages[RunStage(TailStages[t])] # "failed"
        BY <2>2 DEF TailFailedIn
    <2>5. \A i \in 1..N, ph \in Phases :
              stages[Stage(i, ph)] = "failed" => Stage(i, ph)[1] \in muted
        BY <2>3, StageKinds DEF Stage
    <2> QED
        BY <1>9, <2>1, <2>2, <2>4, <2>5, StageKinds
<1>11. ASSUME silent = {}, \A s \in Stages : stages[s] = "failed" => s[1] \in muted
       PROVE  status' = "success"
    <2>1. snap # "failed" /\ ~TailFailedIn(stages)
        <3>1. \A x : RunStage(x)[1] \notin muted
            BY <1>2, OrderAssumption DEF RunStage, TypeOK
        <3> QED
            BY <1>11, <3>1, StageKinds DEF TailFailedIn
    <2>2. fails = {}
        <3>1. ASSUME NEW q \in fails, NEW ph \in Phases
              PROVE  stages[<<q, ph>>] # "failed"
            <4>1. <<q, ph>> \in Stages /\ q \notin muted
                BY <1>9, OwnStages
            <4>2. <<q, ph>>[1] = q
                OBVIOUS
            <4> QED
                BY <1>11, <4>1, <4>2
        <3> QED
            BY <1>9, <1>11, <3>1 DEF FailuresShow, Failed
    <2> QED
        BY <1>1, <1>9, <2>1, <2>2
<1>12. OutcomeMatchesStages'
    BY <1>1, <1>8, <1>10, <1>11 DEF OutcomeMatchesStages, Gap
<1>13. TypeOK'
    BY <1>1, <1>2, <1>3, <1>4 DEF TypeOK
<1>14. Good(pos, stages, status \in Active, oks, fails, silent, muted, outcome)'
    BY <1>1, <1>4, <1>6, <1>7 DEF Good
<1>15. Judged(pos, stages, status \in Active, fatal)'
    BY <1>3 DEF Judged
<1> QED
    BY <1>1, <1>2, <1>3, <1>4, <1>12, <1>13, <1>14, <1>15 DEF RunInv

-----------------------------------------------------------------------------
(* The inductive invariant, and what follows from it                       *)

LEMMA InitKeeps == Init => RunInv
<1> SUFFICES ASSUME Init
             PROVE  RunInv
    OBVIOUS
<1>1. /\ status = "running" /\ stages = [s \in Stages |-> "pending"] /\ pos = At("prepare")
      /\ call = NoCall /\ seen = stages /\ fatal = FALSE /\ oks = {} /\ fails = {} /\ silent = {}
      /\ muted = {} /\ outcome = "failed" /\ late = 0 /\ faults = 0
    BY DEF Init
<1>2. pos \in Places /\ pos.at = "prepare" /\ PlaceOK(pos) /\ NoCall \in Places
    BY <1>1, PlaceAt DEF NoCall, Ats, InLoop
<1>3. stages \in [Stages -> Open \cup Closed] /\ \A s \in Stages : stages[s] = "pending"
    BY <1>1 DEF Open
<1>4. TypeOK
    <2>1. faults \in 0..MaxFaults /\ late \in Nat
        BY <1>1, FaultsAssumption
    <2>2. status \in Active \cup Outcomes /\ outcome \in Outcomes /\ fatal \in BOOLEAN
        BY <1>1 DEF Active, Outcomes
    <2>3. call \in Places /\ seen \in [Stages -> Open \cup Closed]
        BY <1>1, <1>2, <1>3
    <2> QED
        BY <1>1, <1>2, <1>3, <2>1, <2>2, <2>3 DEF TypeOK
<1>5. Low(pos) = 0
    BY <1>2, LowFacts
<1>6. Shape(pos, stages, muted)
    BY <1>2, <1>3, <1>5, RankIsNat DEF Shape, InOrder
<1>7. \A q \in Providers, ph \in Phases : stages[<<q, ph>>] = "pending"
    BY <1>3, OwnStages
<1>8. Books(pos, stages, oks, fails, silent, muted, outcome)
    BY <1>1, <1>2, <1>7 DEF Books, InLoop, PostLoop, Left, Verdict
<1>9. Coming(pos, stages, fails, silent)
    BY <1>1, <1>2, <1>3, StageKinds DEF Coming, InLoop, FailuresShow
<1>10. Judged(pos, stages, status \in Active, fatal)
    BY <1>2 DEF Judged
<1>11. status \notin {"success", "partial"} /\ OutcomeMatchesStages
    BY <1>1 DEF OutcomeMatchesStages
<1> QED
    BY <1>1, <1>4, <1>6, <1>8, <1>9, <1>10, <1>11 DEF RunInv, Good

LEMMA NextKeeps == RunInv /\ [Next]_vars => RunInv'
<1> SUFFICES ASSUME RunInv, [Next]_vars
             PROVE  RunInv'
    OBVIOUS
<1>1. CASE Save
    BY <1>1, SaveKeeps
<1>2. CASE TrackerRaises
    BY <1>2, TrackerRaisesKeeps
<1>3. CASE Prepare
    BY <1>3, PrepareKeeps
<1>4. CASE Prepared
    BY <1>4, PreparedKeeps
<1>5. CASE CheckActive
    BY <1>5, CheckActiveKeeps
<1>6. CASE SkipDisabled
    BY <1>6, SkipDisabledKeeps
<1>7. CASE StartJob
    BY <1>7, StartJobKeeps
<1>8. CASE BeginPhase
    BY <1>8, BeginPhaseKeeps
<1>9. CASE SkipPhase
    BY <1>9, SkipPhaseKeeps
<1>10. CASE EndPhase
    BY <1>10, EndPhaseKeeps
<1>11. CASE FailPhase
    BY <1>11, FailPhaseKeeps
<1>12. CASE CommitJob \/ CommitLost
    BY <1>12, CommitJobKeeps, CommitLostKeeps
<1>13. CASE RaisePhase
    BY <1>13, RaisePhaseKeeps
<1>14. CASE JobFailed
    BY <1>14, JobFailedKeeps
<1>15. CASE JobSucceeded
    BY <1>15, JobSucceededKeeps
<1>16. CASE BeginFinalize \/ EndFinalize
    BY <1>16, FinalizeKeeps
<1>17. CASE BeginTail \/ SkipTail \/ EndTail \/ FailTail
    BY <1>17, TailKeeps
<1>18. CASE ComputeOutcome
    BY <1>18, ComputeOutcomeKeeps
<1>19. CASE SkipSnapshot \/ BeginSnapshot \/ EndSnapshot \/ FailSnapshot
    BY <1>19, SnapshotKeeps
<1>20. CASE Finish
    BY <1>20, FinishKeeps
<1>21. CASE JobFailedAborted \/ JobSucceededAborted \/ LogOutcome \/ DbError
    BY <1>21, LeaveKeeps
<1>22. CASE HandleAbort \/ HandleCrash
    BY <1>22, HandlersKeep
<1>23. CASE Abort
    BY <1>23, AbortKeeps
<1>24. CASE UNCHANGED vars
    BY <1>24 DEF vars, locals, RunInv, TypeOK, OutcomeMatchesStages, Gap
<1> QED
    BY <1>1, <1>2, <1>3, <1>4, <1>5, <1>6, <1>7, <1>8, <1>9, <1>10, <1>11, <1>12, <1>13, <1>14,
       <1>15, <1>16, <1>17, <1>18, <1>19, <1>20, <1>21, <1>22, <1>23, <1>24 DEF Next

\* The invariant of a run holds however many providers there are and whatever
\* fails: an abort, an adapter, a tail step or the database, at any step.
THEOREM RunInvariant == Spec => []RunInv
<1>1. Init => RunInv
    BY InitKeeps
<1>2. RunInv /\ [Next]_vars => RunInv'
    BY NextKeeps
<1> QED
    BY <1>1, <1>2, PTL DEF Spec

\* The row, the stages and the worker's variables keep their types.
THEOREM TypeCorrect == Spec => []TypeOK
<1>1. RunInv => TypeOK
    BY DEF RunInv
<1> QED
    BY <1>1, RunInvariant, PTL

\* The progress of a run is in the order of STAGE_DEFS: a stage that is running
\* has none open before it, after any failure of a provider and after an abort;
\* only a lost verdict leaves one, the free stage of a job that ended at its
\* dictionaries.
THEOREM ProgressInOrderHolds == Spec => []ProgressInOrder
<1>1. RunInv => ProgressInOrder
    BY DEF RunInv, Good, Shape, InOrder, Exempt, ClosedBut, Gap, ProgressInOrder
<1> QED
    BY <1>1, RunInvariant, PTL

\* When the outcome is computed and until it is written, provider_ok and
\* provider_failures are the enabled providers, and the stages agree with them;
\* a failed job is counted as succeeded only where its verdict was lost.
THEOREM ProvidersAccountedHolds == Spec => []ProvidersAccounted
<1>1. ASSUME RunInv, pos.at \in {"outcome", "snapshot", "scheduling", "finish"}
      PROVE  /\ oks \cup fails = Providers \cap Enabled
             /\ oks \cap fails = {} /\ muted \subseteq oks
             /\ \A p \in oks \ muted, ph \in Phases : stages[<<p, ph>>] \in {"done", "skipped"}
             /\ \A p \in (fails \ silent) \cup muted :
                    \E ph \in Phases : stages[<<p, ph>>] = "failed"
    <2>1. Books(pos, stages, oks, fails, silent, muted, outcome)
        BY <1>1 DEF RunInv, Good
    <2>2. pos.at \in PostLoop /\ pos.at \notin Left /\ pos.at # "pendings"
        BY <1>1 DEF PostLoop, Left
    <2>3. FailuresShow(stages, fails, silent) /\ \A q \in muted : Failed(q, stages)
        BY <2>1, <2>2 DEF Books
    <2> QED
        BY <2>1, <2>2, <2>3 DEF Books, FailuresShow, Failed
<1>2. RunInv => ProvidersAccounted
    BY <1>1 DEF ProvidersAccounted
<1> QED
    BY <1>2, RunInvariant, PTL

\* A run that ends as success or partial has closed every stage but the gap of a
\* lost verdict, and it is a success exactly when no provider failed silently
\* and only providers whose verdict was lost have a stage that failed.
THEOREM OutcomeMatchesStagesHolds == Spec => []OutcomeMatchesStages
<1>1. RunInv => OutcomeMatchesStages
    BY DEF RunInv
<1> QED
    BY <1>1, RunInvariant, PTL

\* After the row was closed under the worker at most one fetch or tail step is
\* begun: the tracker looks at the status before every one.
THEOREM OneLateStepHolds == Spec => []OneLateStep
<1>1. RunInv => OneLateStep
    BY DEF RunInv, OneLateStep
<1> QED
    BY <1>1, RunInvariant, PTL
=============================================================================
