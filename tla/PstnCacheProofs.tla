--------------------------- MODULE PstnCacheProofs ---------------------------
(***************************************************************************)
(* The counters of the settings page and the readiness of the required     *)
(* operators, for any operators and any number of refreshes, edits and     *)
(* faults.  A refresh that empties nothing and a deletion that spares the  *)
(* required operators keep them ready; the counters need, beyond that,     *)
(* that each transaction has deleted all there was of its operator, which  *)
(* only transactions that never overlap guarantee.                         *)
(***************************************************************************)
EXTENDS PstnCache, FiniteSetTheorems, TLAPS

Txs == Places \cup {"delete"}
Operator == [id : Nat, on : BOOLEAN, count : Nat, err : BOOLEAN]
Pcs == {None, "lock", "begin", "next", "fetch", "swap", "raised"}
Ranges == [inn : Inns, no : Nat, gar : BOOLEAN]
Refresh == [pc : Pcs, no : Nat, todo : SUBSET (Inns \X Nat), inn : Inns \cup {None},
            id : Nat, data : SUBSET Ranges]
Transaction == [inn : Inns \cup {None}, seen : SUBSET Ranges, waits : SUBSET Txs]

Types ==
  /\ ops \in [Inns -> Operator]
  /\ table \subseteq Ranges
  /\ tx \in [Txs -> Transaction]
  /\ ref \in [Places -> Refresh]
  /\ refreshes \in Nat /\ edits \in Nat /\ mixed \in BOOLEAN

\* A refresh that is about to swap carries the one range of its answer.
OneRange(p) == \E g \in BOOLEAN : ref[p].data = {[inn |-> ref[p].inn, no |-> ref[p].no, gar |-> g]}

\* A place is empty until its refresh starts, a transaction until a swap, and
\* what it has deleted is of one operator, never a required one deleted whole.
Vacant ==
  /\ spawn = "checked" => ref["thread"].pc = None
  /\ run # "reload" => ref["stage"].pc = None
Swaps == \A p \in Places :
  /\ ref[p].pc \in {"fetch", "swap"} => ref[p].inn \in Inns /\ ref[p].id # 0
  /\ ref[p].pc = "swap" => OneRange(p) /\ tx[p].inn = ref[p].inn
  /\ ref[p].pc # "swap" => tx[p].inn = None
Deleted ==
  /\ \A t \in Txs : \A r \in tx[t].seen : r.inn = tx[t].inn
  /\ tx["delete"].inn \notin Required

\* Transactions that never overlapped: each has deleted all there is.
Whole == \A t \in Txs : tx[t].inn # None => tx[t].seen = Of(tx[t].inn)
Alone == \A t, u \in Txs : tx[t].inn = tx[u].inn /\ tx[t].inn # None => t = u
Apart == ~mixed => Whole /\ Alone

\* An operator that is not there has no count, so that adding it is true.
Uncounted == \A i \in Inns : ops[i].id = 0 => ops[i].count = 0

CacheInv == Types /\ Vacant /\ Swaps /\ Deleted /\ Apart /\ Uncounted /\ CountIsTrue

-----------------------------------------------------------------------------
\* What the empty records are.
LEMMA Constants == /\ NoOp \in Operator /\ NoOp.id = 0 /\ NoOp.count = 0
                   /\ NoRefresh \in Refresh /\ NoRefresh.pc = None
                   /\ [NoRefresh EXCEPT !.pc = "raised"] \in Refresh
                   /\ [NoRefresh EXCEPT !.pc = "raised"].pc = "raised"
                   /\ NoTx \in Transaction /\ NoTx.inn = None /\ NoTx.seen = {}
                   /\ None \notin Inns
BY InnAssumption DEF NoOp, Operator, NoRefresh, Refresh, Pcs, NoTx, Transaction, None

\* Seeding the required operators adds rows and switches them on: it touches
\* no count.
LEMMA EnsuredFacts ==
  ASSUME Types, Uncounted
  PROVE  /\ Ensured \in [Inns -> Operator]
         /\ \A i \in Inns : Ensured[i].count = ops[i].count /\ (Ensured[i].id = 0 => ops[i].id = 0)
         /\ \A i \in Required : OperatorReady(i) => Ensured[i] = ops[i]
<1>1. \A i \in Inns : ops[i] \in Operator
    BY DEF Types
<1>2. [NoOp EXCEPT !.id = 1, !.on = TRUE] \in Operator
      /\ [NoOp EXCEPT !.id = 1, !.on = TRUE].count = 0
      /\ [NoOp EXCEPT !.id = 1, !.on = TRUE].id = 1
    BY DEF NoOp, Operator
<1>3. ASSUME NEW i \in Inns
      PROVE  /\ Ensured[i] \in Operator
             /\ Ensured[i].count = ops[i].count /\ (Ensured[i].id = 0 => ops[i].id = 0)
             /\ i \in Required /\ OperatorReady(i) => Ensured[i] = ops[i]
  <2>1. CASE i \notin Required
      BY <1>1, <2>1 DEF Ensured
  <2>2. CASE i \in Required /\ ops[i].id = 0
    <3>1. Ensured[i] = [NoOp EXCEPT !.id = 1, !.on = TRUE]
        BY <2>2 DEF Ensured
    <3>2. ops[i].count = 0 /\ ~OperatorReady(i)
        BY <2>2 DEF Uncounted, OperatorReady
    <3> QED
        BY <1>2, <3>1, <3>2
  <2>3. CASE i \in Required /\ ops[i].id # 0
    <3>1. Ensured[i] = [ops[i] EXCEPT !.on = TRUE]
        BY <2>3 DEF Ensured
    <3>2. ops[i] \in Operator
        BY <1>1
    <3> QED
        BY <2>3, <3>1, <3>2 DEF Operator, OperatorReady
  <2> QED
      BY <2>1, <2>2, <2>3
<1> QED
    BY <1>3, InnAssumption DEF Ensured

\* What a step leaves alone: the ranges, their transactions and their counts.
Still == /\ UNCHANGED <<table, tx, mixed>>
         /\ \A i \in Inns : ops'[i].count = ops[i].count

LEMMA StillKeeps ==
  ASSUME CacheInv, Still PROVE Deleted' /\ Apart' /\ CountIsTrue'
BY DEF CacheInv, Still, Deleted, Apart, Whole, Alone, CountIsTrue, Of

-----------------------------------------------------------------------------
(* The steps that neither begin nor end a transaction.                     *)

\* A refresh that moves on, or ends, outside its swap.
LEMMA MovesOn ==
  ASSUME CacheInv, UNCHANGED tx, NEW p \in Places, NEW v \in Refresh,
         ref' = [ref EXCEPT ![p] = v], ref[p].pc # "swap", v.pc # "swap",
         v.pc = "fetch" => v.inn \in Inns /\ v.id # 0
  PROVE  Swaps' /\ ref' \in [Places -> Refresh]
BY DEF CacheInv, Types, Swaps, OneRange

LEMMA QuietStep ==
  ASSUME CacheInv,
         \/ Boot \/ GhostGone \/ SpawnCheck \/ SpawnFails
         \/ RunAsks \/ RunGate \/ RunStarts \/ RunReseeds
  PROVE  CacheInv'
<1>1. UNCHANGED <<table, tx, ref, edits, mixed>> /\ (ops' = ops \/ ops' = Ensured) /\ refreshes' \in Nat
    BY DEF Boot, GhostGone, SpawnCheck, SpawnFails, RunAsks, RunGate, RunStarts, RunReseeds,
           settings, threads, bounds, history, CacheInv, Types
<1>2. Still /\ ops' \in [Inns -> Operator] /\ Uncounted'
    BY <1>1, EnsuredFacts DEF Still, CacheInv, Types, Uncounted
<1>3. Vacant'
    BY <1>1 DEF CacheInv, Vacant, None, Boot, GhostGone, SpawnCheck, SpawnFails, RunAsks, RunGate,
           RunStarts, RunReseeds, settings, threads, bounds, history
<1>4. Swaps'
    BY <1>1 DEF CacheInv, Swaps, OneRange
<1> QED
    BY <1>1, <1>2, <1>3, <1>4, StillKeeps DEF CacheInv, Types

LEMMA RestartStep == ASSUME CacheInv, Restart PROVE CacheInv'
<1>1. /\ UNCHANGED <<table, ops, refreshes, edits, mixed>>
      /\ ref' = [p \in Places |-> NoRefresh] /\ spawn' = None /\ run' = None
      /\ tx' = [t \in Txs |-> NoTx]
    BY DEF Restart, CacheInv, Types
<1>2. ref' \in [Places -> Refresh] /\ tx' \in [Txs -> Transaction]
    BY <1>1, Constants
<1>3. /\ \A p \in Places : ref'[p].pc = None
      /\ \A t \in Txs : tx'[t].inn = None /\ tx'[t].seen = {}
    BY <1>1, Constants
<1>4. Vacant' /\ Swaps' /\ Deleted' /\ Apart'
  <2>1. Vacant'
      BY <1>3 DEF Vacant, Places
  <2>2. Swaps'
      BY <1>3 DEF Swaps, Places, Txs, None
  <2>3. Deleted' /\ Apart'
      BY <1>3, InnAssumption DEF Deleted, Apart, Whole, Alone, Txs
  <2> QED
      BY <2>1, <2>2, <2>3
<1> QED
    BY <1>1, <1>2, <1>4 DEF CacheInv, Types, Uncounted, CountIsTrue, Of

LEMMA EditStep ==
  ASSUME CacheInv, NEW i \in Inns, AddOperator(i) \/ UpdateOperator(i) PROVE CacheInv'
<1>1. UNCHANGED <<table, tx, ref, spawn, run, refreshes, mixed>> /\ edits' \in Nat
    BY DEF AddOperator, UpdateOperator, Edit, threads, history, CacheInv, Types
<1>2. /\ ops' \in [Inns -> Operator]
      /\ \A j \in Inns : ops'[j].count = ops[j].count /\ (ops'[j].id = 0 => ops[j].id = 0)
  <2>1. \A j \in Inns : ops[j] \in Operator
      BY DEF CacheInv, Types
  <2>2. CASE AddOperator(i)
    <3>0. edits + 2 \in Nat /\ edits + 2 # 0
        BY DEF CacheInv, Types
    <3>1. /\ [NoOp EXCEPT !.id = edits + 2, !.on = TRUE] \in Operator
          /\ [NoOp EXCEPT !.id = edits + 2, !.on = TRUE].id = edits + 2
          /\ [NoOp EXCEPT !.id = edits + 2, !.on = TRUE].count = 0
        BY <3>0 DEF NoOp, Operator
    <3>2. ops[i].count = 0
        BY <2>2 DEF AddOperator, CacheInv, Uncounted
    <3> QED
        BY <2>1, <2>2, <3>0, <3>1, <3>2 DEF AddOperator, CacheInv, Types
  <2>3. CASE UpdateOperator(i)
      BY <2>1, <2>3 DEF UpdateOperator, CacheInv, Types, Operator
  <2> QED
      BY <2>2, <2>3
<1>3. Still /\ Uncounted'
    BY <1>1, <1>2 DEF Still, CacheInv, Uncounted
<1>4. Vacant' /\ Swaps'
    BY <1>1 DEF CacheInv, Vacant, Swaps, OneRange
<1> QED
    BY <1>1, <1>2, <1>3, <1>4, StillKeeps DEF CacheInv, Types

\* The refreshes that begin.
LEMMA StartStep == ASSUME CacheInv, SpawnThread \/ RunSeeds PROVE CacheInv'
<1>1. UNCHANGED <<table, tx, ops, edits, mixed>> /\ refreshes' \in Nat
    BY DEF SpawnThread, RunSeeds, settings, bounds, history, CacheInv, Types
<1>0. refreshes \in Nat /\ refreshes + 1 \in Nat
    BY DEF CacheInv, Types
<1>2. /\ [NoRefresh EXCEPT !.pc = "lock", !.no = refreshes] \in Refresh
      /\ [NoRefresh EXCEPT !.pc = "lock", !.no = refreshes].pc = "lock"
      /\ [NoRefresh EXCEPT !.pc = "begin", !.no = refreshes + 1] \in Refresh
      /\ [NoRefresh EXCEPT !.pc = "begin", !.no = refreshes + 1].pc = "begin"
    BY <1>0 DEF NoRefresh, Refresh, Pcs
<1>3. ref["thread"] \in Refresh /\ ref["stage"] \in Refresh
    BY DEF CacheInv, Types, Places
<1>4. Swaps' /\ ref' \in [Places -> Refresh]
  <2>1. CASE SpawnThread
    <3>1. ref' = [ref EXCEPT !["thread"] = [NoRefresh EXCEPT !.pc = "lock", !.no = refreshes]]
          /\ ref["thread"].pc # "swap"
        BY <2>1 DEF SpawnThread, CacheInv, Vacant, None
    <3> QED
        BY <1>1, <1>2, <3>1, MovesOn DEF Places
  <2>2. CASE RunSeeds /\ ref' # ref
    <3>1. ref' = [ref EXCEPT !["stage"] = [NoRefresh EXCEPT !.pc = "begin", !.no = refreshes + 1]]
          /\ ref["stage"].pc # "swap"
        BY <2>2 DEF RunSeeds, CacheInv, Vacant, None
    <3> QED
        BY <1>1, <1>2, <3>1, MovesOn DEF Places
  <2>3. CASE ref' = ref
      BY <1>1, <2>3 DEF CacheInv, Types, Swaps, OneRange
  <2> QED
      BY <2>1, <2>2, <2>3
<1>5. Vacant'
    BY DEF CacheInv, Types, Places, Vacant, SpawnThread, RunSeeds, None
<1>6. Still
    BY <1>1 DEF Still
<1> QED
    BY <1>1, <1>4, <1>5, <1>6, StillKeeps DEF CacheInv, Types, Uncounted

\* An exception empties the place, or leaves the thread at its handler.
LEMMA RaisedFacts ==
  ASSUME CacheInv, NEW p \in Places, Raised(p), ref[p].pc # None, UNCHANGED spawn
  PROVE  /\ \E v \in Refresh : v.pc \notin {"fetch", "swap"} /\ ref' = [ref EXCEPT ![p] = v]
         /\ Vacant'
<1>1. CASE p = "thread"
  <2>1. ref' = [ref EXCEPT ![p] = [NoRefresh EXCEPT !.pc = "raised"]] /\ UNCHANGED run
      BY <1>1 DEF Raised
  <2>2. spawn # "checked" /\ ref'["stage"] = ref["stage"]
      BY <1>1, <2>1 DEF CacheInv, Types, Vacant, Places
  <2>3. Vacant'
      BY <2>1, <2>2 DEF CacheInv, Vacant
  <2> QED
      BY <2>1, <2>3, Constants
<1>2. CASE p # "thread"
  <2>1. ref' = [ref EXCEPT ![p] = NoRefresh] /\ p = "stage"
      BY <1>2 DEF Raised, Places
  <2>2. ref'["thread"] = ref["thread"] /\ ref'["stage"].pc = None
      BY <2>1, Constants DEF CacheInv, Types, Places
  <2>3. Vacant'
      BY <2>2 DEF CacheInv, Vacant
  <2> QED
      BY <2>1, <2>3, Constants DEF None
<1> QED
    BY <1>1, <1>2

\* An exception outside a swap.
LEMMA RaisedOutside ==
  ASSUME CacheInv, NEW p \in Places, Raised(p), ref[p].pc \notin {None, "swap"}, UNCHANGED <<tx, spawn>>
  PROVE  Swaps' /\ Vacant' /\ ref' \in [Places -> Refresh]
<1>1. PICK v \in Refresh : v.pc \notin {"fetch", "swap"} /\ ref' = [ref EXCEPT ![p] = v]
    BY RaisedFacts
<1> QED
    BY <1>1, RaisedFacts, MovesOn

\* The handler of the thread, whether or not it can write the status.
LEMMA HandlerStep == ASSUME CacheInv, Handled \/ HandlerFails PROVE CacheInv'
<1>1. /\ UNCHANGED <<table, tx, ops, edits, mixed, refreshes, spawn, run>>
      /\ ref["thread"].pc = "raised" /\ ref' = [ref EXCEPT !["thread"] = NoRefresh]
    BY DEF Handled, HandlerFails, Unlocked, settings
<1>2. "thread" \in Places /\ DOMAIN ref = Places
    BY DEF CacheInv, Types, Places
<1>3. Swaps' /\ ref' \in [Places -> Refresh]
    BY <1>1, <1>2, MovesOn, Constants DEF None
<1>4. Vacant'
  <2>1. ref'["thread"].pc = None /\ ref'["stage"] = ref["stage"]
      BY <1>1, <1>2, Constants DEF Places
  <2> QED
      BY <1>1, <2>1 DEF CacheInv, Vacant
<1>5. Still
    BY <1>1 DEF Still
<1> QED
    BY <1>1, <1>3, <1>4, <1>5, StillKeeps DEF CacheInv, Types, Uncounted

LEMMA TakeLockStep == ASSUME CacheInv, TakeLock PROVE CacheInv'
<1>1. UNCHANGED <<table, tx, ops, edits, mixed, refreshes, spawn, run>> /\ ref["thread"].pc = "lock"
    BY DEF TakeLock, settings, bounds, history
<1>2. "thread" \in Places /\ ref["thread"] \in Refresh /\ DOMAIN ref = Places
    BY DEF CacheInv, Types, Places
<1>3. [ref["thread"] EXCEPT !.pc = "begin"] \in Refresh /\ [ref["thread"] EXCEPT !.pc = "begin"].pc = "begin"
    BY <1>2 DEF Refresh, Pcs
<1>4. \/ ref' = [ref EXCEPT !["thread"] = [ref["thread"] EXCEPT !.pc = "begin"]]
      \/ ref' = [ref EXCEPT !["thread"] = NoRefresh]
    BY <1>2 DEF TakeLock
<1>5. Swaps' /\ ref' \in [Places -> Refresh]
    BY <1>1, <1>2, <1>3, <1>4, MovesOn, Constants DEF None
<1>6. Vacant'
  <2>1. spawn # "checked"
      BY <1>1 DEF CacheInv, Vacant, None
  <2>2. ref'["stage"] = ref["stage"]
      BY <1>2, <1>4 DEF Places
  <2> QED
      BY <1>1, <2>1, <2>2 DEF CacheInv, Vacant
<1>7. Still
    BY <1>1 DEF Still
<1> QED
    BY <1>1, <1>5, <1>6, <1>7, StillKeeps DEF CacheInv, Types, Uncounted

\* A refresh between its operators.
LEMMA BeginStep == ASSUME CacheInv, NEW p \in Places, Begin(p) PROVE CacheInv'
<1>1. UNCHANGED <<table, tx, edits, mixed, refreshes, spawn, run>> /\ ref[p].pc = "begin" /\ ops' = Ensured
    BY DEF Begin, bounds, history
<1> DEFINE todo == {<<i, Ensured[i].id>> : i \in {j \in Inns : Ensured[j].id > 0 /\ Ensured[j].on}}
           v == [ref[p] EXCEPT !.pc = "next", !.todo = todo]
<1>2. Ensured \in [Inns -> Operator] /\ \A i \in Inns : Ensured[i].count = ops[i].count
    BY EnsuredFacts DEF CacheInv
<1>3. Uncounted'
    BY <1>1, EnsuredFacts DEF CacheInv, Uncounted
<1>4. todo \in SUBSET (Inns \X Nat)
    BY <1>2 DEF Operator
<1>5. v \in Refresh /\ v.pc = "next"
  <2>1. ref[p] \in Refresh
      BY DEF CacheInv, Types
  <2> QED
      BY <1>4, <2>1 DEF Refresh, Pcs
<1>6. ref' = [ref EXCEPT ![p] = v]
  <2>1. ref' = [ref EXCEPT ![p].pc = "next", ![p].todo = todo]
      BY DEF Begin
  <2> QED
      BY <2>1 DEF CacheInv, Types
<1>7. Swaps' /\ ref' \in [Places -> Refresh]
    BY <1>1, <1>5, <1>6, MovesOn
<1>8. Vacant'
    BY <1>1, <1>5, <1>6 DEF CacheInv, Types, Vacant, Places, None
<1>9. Still
    BY <1>1, <1>2 DEF Still
<1> QED
    BY <1>1, <1>2, <1>3, <1>7, <1>8, <1>9, StillKeeps DEF CacheInv, Types

LEMMA EndStep == ASSUME CacheInv, NEW p \in Places, End(p) PROVE CacheInv'
<1>1. /\ UNCHANGED <<table, tx, edits, mixed, refreshes, spawn>> /\ ref[p].pc = "next" /\ ops' = Ensured
      /\ ref' = [ref EXCEPT ![p] = NoRefresh]
    BY DEF End, bounds, history
<1>2. Ensured \in [Inns -> Operator] /\ \A i \in Inns : Ensured[i].count = ops[i].count
    BY EnsuredFacts DEF CacheInv
<1>3. Uncounted'
    BY <1>1, EnsuredFacts DEF CacheInv, Uncounted
<1>4. Swaps' /\ ref' \in [Places -> Refresh]
    BY <1>1, MovesOn, Constants DEF None
<1>5. Vacant'
    BY <1>1, Constants DEF End, CacheInv, Types, Vacant, Places, None
<1>6. Still
    BY <1>1, <1>2 DEF Still
<1> QED
    BY <1>1, <1>2, <1>3, <1>4, <1>5, <1>6, StillKeeps DEF CacheInv, Types

LEMMA NoConnectionStep ==
  ASSUME CacheInv, NEW p \in Places, NoConnection(p) \/ DbFails(p) PROVE CacheInv'
<1>1. /\ UNCHANGED <<table, tx, ops, edits, mixed, refreshes, spawn>> /\ Raised(p)
      /\ ref[p].pc \notin {None, "swap"}
    BY DEF NoConnection, DbFails, settings, None
<1>2. Swaps' /\ Vacant' /\ ref' \in [Places -> Refresh]
    BY <1>1, RaisedOutside
<1>3. Still
    BY <1>1 DEF Still
<1> QED
    BY <1>1, <1>2, <1>3, StillKeeps DEF CacheInv, Types, Uncounted

\* A refresh that holds its place while it goes on keeps the rules of places.
LEMMA PlaceKept ==
  ASSUME CacheInv, NEW p \in Places, UNCHANGED <<spawn, run>>, ref[p].pc # None,
         \A q \in Places \ {p} : ref'[q] = ref[q]
  PROVE  Vacant'
BY DEF CacheInv, Vacant, Places

LEMMA NextOperatorStep ==
  ASSUME CacheInv, NEW p \in Places, NEW i \in Inns, NEW id \in 1..(MaxEdits + 1), NextOperator(p, i, id)
  PROVE  CacheInv'
<1>1. /\ UNCHANGED <<table, tx, ops, edits, mixed, refreshes, spawn>> /\ ref[p].pc = "next"
      /\ <<i, id>> \in ref[p].todo
    BY DEF NextOperator, settings, bounds
<1> DEFINE v == [ref[p] EXCEPT !.pc = "fetch", !.inn = i, !.id = id, !.todo = @ \ {<<i, id>>}]
<1>2. ref[p] \in Refresh
    BY DEF CacheInv, Types
<1>3. v \in Refresh /\ v.pc = "fetch" /\ v.inn = i /\ v.id # 0
  <2>1. id \in Nat /\ id # 0
      BY BoundAssumption
  <2> QED
      BY <1>2, <2>1 DEF Refresh, Pcs
<1>4. Swaps' /\ Vacant' /\ ref' \in [Places -> Refresh]
  <2>1. CASE Raised(p)
      BY <1>1, <2>1, RaisedOutside DEF None
  <2>2. CASE ~Gone(i, id)
    <3>1. ref' = [ref EXCEPT ![p] = v] /\ UNCHANGED run
      <4>1. ref' = [ref EXCEPT ![p].pc = "fetch", ![p].inn = i, ![p].id = id, ![p].todo = @ \ {<<i, id>>}]
            /\ UNCHANGED run
          BY <2>2 DEF NextOperator
      <4> QED
          BY <4>1 DEF CacheInv, Types
    <3>2. Swaps' /\ ref' \in [Places -> Refresh]
        BY <1>1, <1>3, <3>1, MovesOn
    <3>3. Vacant'
        BY <1>1, <3>1, PlaceKept DEF CacheInv, Types, None
    <3> QED
        BY <3>2, <3>3
  <2> QED
      BY <2>1, <2>2 DEF NextOperator
<1>5. Still
    BY <1>1 DEF Still
<1> QED
    BY <1>1, <1>4, <1>5, StillKeeps DEF CacheInv, Types, Uncounted

\* An operator that is not refreshed: only its error changes.
LEMMA NotedKeeps ==
  ASSUME CacheInv, NEW p \in Places, ref[p].pc = "fetch", Noted(p),
         UNCHANGED <<table, tx, mixed, spawn, refreshes, edits>>
  PROVE  CacheInv'
<1>1. CASE Raised(p) /\ UNCHANGED ops
  <2>1. Swaps' /\ Vacant' /\ ref' \in [Places -> Refresh]
      BY <1>1, RaisedOutside DEF None
  <2> QED
      BY <1>1, <2>1, StillKeeps DEF Still, CacheInv, Types, Uncounted
<1>2. CASE ops' = [ops EXCEPT ![ref[p].inn].err = TRUE] /\ ref' = [ref EXCEPT ![p].pc = "next"] /\ UNCHANGED run
  <2>1. ref[p] \in Refresh /\ ref[p].inn \in Inns
      BY DEF CacheInv, Types, Swaps
  <2>2. [ref[p] EXCEPT !.pc = "next"] \in Refresh /\ [ref[p] EXCEPT !.pc = "next"].pc = "next"
      BY <2>1 DEF Refresh, Pcs
  <2>3. ref' = [ref EXCEPT ![p] = [ref[p] EXCEPT !.pc = "next"]]
      BY <1>2 DEF CacheInv, Types
  <2>4. Swaps' /\ ref' \in [Places -> Refresh]
      BY <2>2, <2>3, MovesOn
  <2>5. Vacant'
      BY <1>2, <2>3, PlaceKept DEF CacheInv, Types, None
  <2>6. ops' \in [Inns -> Operator] /\ \A i \in Inns : ops'[i].count = ops[i].count /\ ops'[i].id = ops[i].id
      BY <1>2, <2>1 DEF CacheInv, Types, Operator
  <2> QED
      BY <1>2, <2>4, <2>5, <2>6, StillKeeps DEF Still, CacheInv, Types, Uncounted
<1> QED
    BY <1>1, <1>2 DEF Noted

LEMMA FetchFailsStep == ASSUME CacheInv, NEW p \in Places, FetchFails(p) PROVE CacheInv'
BY NotedKeeps DEF FetchFails

-----------------------------------------------------------------------------
(* Transactions.                                                           *)

\* A transaction that begins where none is open sees all there is, or its
\* overlap is recorded.
LEMMA BeginsTx ==
  ASSUME CacheInv, NEW t \in Txs, NEW i \in Inns, Deletes(t, i), tx[t].inn = None,
         t = "delete" => i \notin Required, UNCHANGED <<table, ops>>
  PROVE  /\ tx' \in [Txs -> Transaction] /\ mixed' \in BOOLEAN
         /\ tx'[t].inn = i /\ \A u \in Txs \ {t} : tx'[u] = tx[u]
         /\ Deleted' /\ Apart' /\ CountIsTrue'
<1>1. DOMAIN tx = Txs /\ table \subseteq Ranges /\ mixed \in BOOLEAN
    BY DEF CacheInv, Types
<1> DEFINE v == [inn |-> i, seen |-> Of(i), waits |-> {u \in DOMAIN tx : tx[u].seen \cap Of(i) # {}}]
<1>2. v \in Transaction
    BY <1>1 DEF Transaction, Of
<1>3. tx' = [tx EXCEPT ![t] = v] /\ mixed' = (mixed \/ \E u \in Txs : tx[u].inn = i)
    BY <1>1 DEF Deletes
<1>4. tx' \in [Txs -> Transaction] /\ mixed' \in BOOLEAN
    BY <1>1, <1>2, <1>3 DEF CacheInv, Types
<1>5. tx'[t] = v /\ \A u \in Txs \ {t} : tx'[u] = tx[u]
    BY <1>1, <1>3
<1>6. v.inn = i /\ v.seen = Of(i)
    OBVIOUS
<1>7. Deleted'
  <2>1. \A r \in Of(i) : r.inn = i
      BY DEF Of
  <2> QED
      BY <1>5, <1>6, <2>1 DEF CacheInv, Deleted, Txs
<1>8. Apart'
  <2>1. CASE mixed'
      BY <2>1 DEF Apart
  <2>2. CASE ~mixed'
    <3>1. ~mixed /\ \A u \in Txs : tx[u].inn # i
        BY <1>3, <2>2
    <3>2. Whole /\ Alone
        BY <3>1 DEF CacheInv, Apart
    <3>3. \A j : Of(j)' = Of(j)
        BY DEF Of
    <3>4. Whole'
        BY <1>5, <1>6, <3>2, <3>3 DEF Whole
    <3>5. Alone'
        BY <1>5, <1>6, <3>1, <3>2 DEF Alone
    <3> QED
        BY <3>4, <3>5 DEF Apart
  <2> QED
      BY <2>1, <2>2
<1>9. CountIsTrue'
    BY <1>3 DEF CacheInv, CountIsTrue, Of
<1> QED
    BY <1>4, <1>5, <1>6, <1>7, <1>8, <1>9

LEMMA DeleteBeginStep == ASSUME CacheInv, NEW i \in Inns, DeleteBegin(i) PROVE CacheInv'
<1>1. /\ Deletes("delete", i) /\ tx["delete"].inn = None /\ i \notin Required
      /\ UNCHANGED <<table, ops, ref, spawn, run, refreshes>> /\ edits' \in Nat
    BY DEF DeleteBegin, Edit, threads, CacheInv, Types
<1>2. "delete" \in Txs
    BY DEF Txs
<1>3. /\ tx' \in [Txs -> Transaction] /\ mixed' \in BOOLEAN
      /\ \A u \in Txs \ {"delete"} : tx'[u] = tx[u]
      /\ Deleted' /\ Apart' /\ CountIsTrue'
    BY <1>1, <1>2, BeginsTx
<1>4. Vacant' /\ Swaps'
    BY <1>1, <1>3 DEF CacheInv, Vacant, Swaps, OneRange, Txs, Places
<1> QED
    BY <1>1, <1>3, <1>4 DEF CacheInv, Types, Uncounted

LEMMA FetchDoneStep == ASSUME CacheInv, NEW p \in Places, FetchDone(p) PROVE CacheInv'
<1>1. ref[p].pc = "fetch" /\ UNCHANGED <<table, spawn, refreshes, edits>>
    BY DEF FetchDone, bounds
<1>2. PICK data \in Answers(p) :
        IF ReloadAllowed(data)
        THEN /\ Deletes(p, ref[p].inn)
             /\ ref' = [ref EXCEPT ![p].pc = "swap", ![p].data = data]
             /\ UNCHANGED <<ops, status, lock, run, cut>>
        ELSE Noted(p) /\ UNCHANGED <<tx, mixed>>
    BY DEF FetchDone
<1>3. CASE ~ReloadAllowed(data)
    BY <1>1, <1>2, <1>3, NotedKeeps
<1>4. CASE ReloadAllowed(data)
  <2>1. ref[p] \in Refresh /\ ref[p].inn \in Inns /\ ref[p].id # 0 /\ tx[p].inn = None /\ p \in Txs /\ p # "delete"
      BY <1>1 DEF CacheInv, Types, Swaps, Txs, Places
  <2>2. PICK g \in BOOLEAN : data = {[inn |-> ref[p].inn, no |-> ref[p].no, gar |-> g]}
      BY <1>4 DEF Answers, ReloadAllowed
  <2> DEFINE v == [ref[p] EXCEPT !.pc = "swap", !.data = data]
  <2>3. data \subseteq Ranges
      BY <2>1, <2>2 DEF Ranges, Refresh
  <2>4. v \in Refresh /\ v.pc = "swap" /\ v.inn = ref[p].inn /\ v.id = ref[p].id /\ v.no = ref[p].no /\ v.data = data
      BY <2>1, <2>3 DEF Refresh, Pcs
  <2>5. ref' = [ref EXCEPT ![p] = v] /\ UNCHANGED <<ops, run>>
    <3>1. ref' = [ref EXCEPT ![p].pc = "swap", ![p].data = data] /\ UNCHANGED <<ops, run>>
        BY <1>2, <1>4
    <3> QED
        BY <3>1 DEF CacheInv, Types
  <2>6. /\ tx' \in [Txs -> Transaction] /\ mixed' \in BOOLEAN
        /\ tx'[p].inn = ref[p].inn /\ \A u \in Txs \ {p} : tx'[u] = tx[u]
        /\ Deleted' /\ Apart' /\ CountIsTrue'
      BY <1>1, <1>2, <1>4, <2>1, <2>5, BeginsTx
  <2>7. ref' \in [Places -> Refresh] /\ ref'[p] = v /\ \A q \in Places \ {p} : ref'[q] = ref[q]
      BY <2>4, <2>5 DEF CacheInv, Types
  <2>8. Swaps'
    <3>1. ASSUME NEW q \in Places, q # p
          PROVE  ref'[q] = ref[q] /\ tx'[q] = tx[q]
        BY <2>6, <2>7, <3>1 DEF Txs
    <3>2. \A q \in Places \ {p} :
            /\ ref'[q].pc \in {"fetch", "swap"} => ref'[q].inn \in Inns /\ ref'[q].id # 0
            /\ ref'[q].pc = "swap" => OneRange(q)' /\ tx'[q].inn = ref'[q].inn
            /\ ref'[q].pc # "swap" => tx'[q].inn = None
        BY <3>1 DEF CacheInv, Swaps, OneRange
    <3>3. ref'[p].inn \in Inns /\ ref'[p].id # 0 /\ ref'[p].pc = "swap" /\ OneRange(p)' /\ tx'[p].inn = ref'[p].inn
        BY <2>1, <2>2, <2>4, <2>6, <2>7 DEF OneRange
    <3> QED
        BY <3>2, <3>3 DEF Swaps
  <2>9. Vacant'
      BY <1>1, <2>5, <2>7, PlaceKept DEF None
  <2> QED
      BY <1>1, <2>5, <2>6, <2>7, <2>8, <2>9 DEF CacheInv, Types, Uncounted
<1> QED
    BY <1>3, <1>4

\* A transaction that ends takes the ranges it saw, of one operator.
LEMMA EndsTx ==
  ASSUME CacheInv, NEW t \in Txs, Ends(t)
  PROVE  /\ tx' \in [Txs -> Transaction]
         /\ tx'[t] = NoTx
         /\ \A u \in Txs \ {t} : tx'[u].inn = tx[u].inn /\ tx'[u].seen = tx[u].seen
         /\ Deleted' /\ (Alone => Alone')
<1>1. DOMAIN tx = Txs /\ \A u \in Txs : tx[u] \in Transaction
    BY DEF CacheInv, Types
<1>2. \A u \in Txs : LET v == [tx[u] EXCEPT !.waits = @ \ {t}]
                     IN v \in Transaction /\ v.inn = tx[u].inn /\ v.seen = tx[u].seen
    BY <1>1 DEF Transaction
<1>3. tx' = [u \in Txs |-> IF u = t THEN NoTx ELSE [tx[u] EXCEPT !.waits = @ \ {t}]]
    BY <1>1 DEF Ends
<1>4. /\ tx' \in [Txs -> Transaction] /\ tx'[t] = NoTx
      /\ \A u \in Txs \ {t} : tx'[u].inn = tx[u].inn /\ tx'[u].seen = tx[u].seen
    BY <1>2, <1>3, Constants
<1>5. Deleted'
  <2>1. \A u \in Txs : \A r \in tx'[u].seen : r.inn = tx'[u].inn
      BY <1>4, Constants DEF CacheInv, Deleted
  <2>2. tx'["delete"].inn \notin Required
      BY <1>4, Constants, InnAssumption DEF CacheInv, Deleted, Txs
  <2> QED
      BY <2>1, <2>2 DEF Deleted
<1>6. Alone => Alone'
    BY <1>4, Constants DEF Alone
<1> QED
    BY <1>4, <1>5, <1>6

\* What is left of an operator when a transaction has taken what it saw of
\* operator i and put data of i in its place.
LEMMA Replaced ==
  ASSUME CacheInv, NEW t \in Txs, Ends(t), NEW i \in Inns, tx[t].inn = i,
         NEW data, \A r \in data : r.inn = i, table' = (table \ tx[t].seen) \cup data
  PROVE  /\ \A j \in Inns \ {i} : Of(j)' = Of(j)
         /\ data \subseteq Of(i)'
         /\ tx[t].seen = Of(i) => Of(i)' = data
         /\ ~mixed' /\ mixed' = mixed => Apart' /\ tx[t].seen = Of(i)
<1>1. \A r \in tx[t].seen : r.inn = i
    BY DEF CacheInv, Deleted
<1>2. \A j \in Inns \ {i} : Of(j)' = Of(j)
    BY <1>1 DEF Of
<1>3. data \subseteq Of(i)' /\ (tx[t].seen = Of(i) => Of(i)' = data)
    BY DEF Of
<1>4. ASSUME ~mixed', mixed' = mixed PROVE Apart' /\ tx[t].seen = Of(i)
  <2>1. Whole /\ Alone
      BY <1>4 DEF CacheInv, Apart
  <2>2. i # None
      BY Constants
  <2>3. Alone'
      BY <2>1, EndsTx
  <2>4. \A u \in Txs : tx[u].inn \in Inns \cup {None}
      BY DEF CacheInv, Types, Transaction
  <2>5. Whole'
    <3> SUFFICES ASSUME NEW u \in Txs, NEW j, j = tx'[u].inn, j # None PROVE tx'[u].seen = Of(j)'
        BY DEF Whole, Of
    <3>1. u # t
        BY EndsTx, Constants
    <3>2. tx[u].inn = j /\ tx'[u].seen = tx[u].seen
        BY <3>1, EndsTx
    <3>3. j # i /\ j \in Inns
        BY <2>1, <2>2, <2>4, <3>1, <3>2 DEF Alone
    <3>4. Of(j)' = Of(j)
        BY <1>2, <3>3
    <3> QED
        BY <2>1, <3>2, <3>4 DEF Whole
  <2> QED
      BY <2>1, <2>2, <2>3, <2>5 DEF Apart, Whole
<1> QED
    BY <1>2, <1>3, <1>4

LEMMA DeleteCommitStep == ASSUME CacheInv, DeleteCommit PROVE CacheInv'
<1>0. PICK i \in Inns : i = tx["delete"].inn
    BY DEF DeleteCommit, MayCommit, CacheInv, Types, Transaction, Txs
<1>1. /\ Ends("delete") /\ table' = table \ tx["delete"].seen /\ ops' = [ops EXCEPT ![i] = NoOp]
      /\ UNCHANGED <<ref, spawn, run, refreshes, edits, mixed>>
    BY <1>0 DEF DeleteCommit, threads, bounds, history
<1>2. "delete" \in Txs
    BY DEF Txs
<1>3. table' = (table \ tx["delete"].seen) \cup {} /\ \A r \in {} : r.inn = i
    BY <1>1
<1>4. /\ \A j \in Inns \ {i} : Of(j)' = Of(j)
      /\ tx["delete"].seen = Of(i) => Of(i)' = {}
      /\ ~mixed => Apart' /\ tx["delete"].seen = Of(i)
  <2>1. PICK data : data = {}
      OBVIOUS
  <2>2. table' = (table \ tx["delete"].seen) \cup data /\ \A r \in data : r.inn = i
      BY <1>3, <2>1
  <2>3. /\ \A j \in Inns \ {i} : Of(j)' = Of(j)
        /\ tx["delete"].seen = Of(i) => Of(i)' = data
        /\ ~mixed' /\ mixed' = mixed => Apart' /\ tx["delete"].seen = Of(i)
      BY <1>0, <1>1, <1>2, <2>2, Replaced
  <2> QED
      BY <1>1, <2>1, <2>3
<1>5. /\ tx' \in [Txs -> Transaction] /\ Deleted'
      /\ \A u \in Txs \ {"delete"} : tx'[u].inn = tx[u].inn
    BY <1>1, <1>2, EndsTx
<1>6. Apart'
    BY <1>1, <1>4 DEF Apart
<1>7. /\ ops' \in [Inns -> Operator] /\ Uncounted' /\ ops'[i].count = 0
      /\ \A j \in Inns \ {i} : ops'[j] = ops[j]
    BY <1>1, <1>2, Constants DEF CacheInv, Types, Uncounted
<1>8. CountIsTrue'
  <2> SUFFICES ASSUME ~mixed', NEW j \in Inns
               PROVE  Cardinality(Of(j)') = ops'[j].count /\ \A r, s \in Of(j)' : r.no = s.no
      BY DEF CountIsTrue
  <2>1. CASE j = i
    <3>0. ~mixed
        BY <1>1
    <3>1. Of(i)' = {}
        BY <1>4, <3>0
    <3>2. Of(j)' = Of(i)'
        BY <2>1 DEF Of
    <3>3. ops'[j].count = 0
        BY <1>7, <2>1
    <3> QED
        BY <3>1, <3>2, <3>3, FS_EmptySet
  <2>2. CASE j # i
    <3>1. Cardinality(Of(j)) = ops[j].count /\ \A r, s \in Of(j) : r.no = s.no
        BY <1>1 DEF CacheInv, CountIsTrue
    <3> QED
        BY <1>4, <1>7, <2>2, <3>1
  <2> QED
      BY <2>1, <2>2
<1>9. Vacant' /\ Swaps'
    BY <1>1, <1>5 DEF CacheInv, Vacant, Swaps, OneRange, Txs, Places
<1> QED
    BY <1>1, <1>5, <1>6, <1>7, <1>8, <1>9 DEF CacheInv, Types

\* A refresh that leaves its swap, with its transaction closed.
LEMMA LeavesSwap ==
  ASSUME CacheInv, NEW p \in Places, Ends(p), NEW v \in Refresh, v.pc \notin {"fetch", "swap"},
         ref' = [ref EXCEPT ![p] = v]
  PROVE  Swaps' /\ ref' \in [Places -> Refresh]
<1>1. p \in Txs /\ \A q \in Places : q \in Txs
    BY DEF Txs
<1>2. ref' \in [Places -> Refresh] /\ ref'[p] = v /\ \A q \in Places \ {p} : ref'[q] = ref[q]
    BY DEF CacheInv, Types
<1>3. tx'[p].inn = None /\ \A q \in Places \ {p} : tx'[q].inn = tx[q].inn
    BY <1>1, EndsTx, Constants
<1> QED
    BY <1>2, <1>3 DEF CacheInv, Swaps, OneRange

\* A swap that is given up, its transaction rolled back, or its operator gone.
LEMMA GivesUp ==
  ASSUME CacheInv, NEW p \in Places, ref[p].pc = "swap", Ends(p),
         UNCHANGED <<table, spawn, refreshes, edits, mixed>>,
         ops' \in [Inns -> Operator], \A i \in Inns : ops'[i].id = ops[i].id /\ ops'[i].count = ops[i].count,
         \/ Raised(p)
         \/ ref' = [ref EXCEPT ![p].pc = "next"] /\ UNCHANGED run
  PROVE  CacheInv'
<1>1. p \in Txs /\ ref[p] \in Refresh /\ p \in DOMAIN ref
    BY DEF Txs, CacheInv, Types
<1>2. tx' \in [Txs -> Transaction] /\ Deleted'
    BY <1>1, EndsTx
<1>3. Swaps' /\ Vacant' /\ ref' \in [Places -> Refresh]
  <2>1. CASE Raised(p)
    <3>1. PICK v \in Refresh : v.pc \notin {"fetch", "swap"} /\ ref' = [ref EXCEPT ![p] = v]
        BY <2>1, RaisedFacts DEF None
    <3> QED
        BY <2>1, <3>1, RaisedFacts, LeavesSwap DEF None
  <2>2. CASE ref' = [ref EXCEPT ![p].pc = "next"] /\ UNCHANGED run
    <3> DEFINE v == [ref[p] EXCEPT !.pc = "next"]
    <3>1. v \in Refresh /\ v.pc = "next" /\ ref' = [ref EXCEPT ![p] = v]
        BY <1>1, <2>2 DEF Refresh, Pcs
    <3>2. Swaps' /\ ref' \in [Places -> Refresh]
        BY <3>1, LeavesSwap
    <3>3. Vacant'
        BY <2>2, <3>1, PlaceKept DEF CacheInv, Types, None
    <3> QED
        BY <3>2, <3>3
  <2> QED
      BY <2>1, <2>2
<1>4. Apart'
  <2> SUFFICES ASSUME ~mixed PROVE Whole' /\ Alone'
      BY DEF Apart
  <2>1. Whole /\ Alone
      BY DEF CacheInv, Apart
  <2>2. \A j : Of(j)' = Of(j)
      BY DEF Of
  <2>3. Whole'
    <3> SUFFICES ASSUME NEW u \in Txs, NEW j, j = tx'[u].inn, j # None PROVE tx'[u].seen = Of(j)'
        BY DEF Whole, Of
    <3>1. tx[u].inn = j /\ tx'[u].seen = tx[u].seen
        BY <1>1, EndsTx, Constants
    <3> QED
        BY <2>1, <2>2, <3>1 DEF Whole
  <2> QED
      BY <1>1, <2>1, <2>3, EndsTx
<1>5. CountIsTrue' /\ Uncounted'
    BY DEF CacheInv, CountIsTrue, Uncounted, Of
<1> QED
    BY <1>2, <1>3, <1>4, <1>5 DEF CacheInv, Types

LEMMA SwapFailsStep == ASSUME CacheInv, NEW p \in Places, SwapFails(p) PROVE CacheInv'
<1>1. /\ ref[p].pc = "swap" /\ Ends(p) /\ Noted(p)
      /\ UNCHANGED <<table, spawn, refreshes, edits, mixed>>
    BY DEF SwapFails
<1>2. ref[p].inn \in Inns
    BY <1>1 DEF CacheInv, Swaps
<1>3. CASE Raised(p) /\ UNCHANGED ops
  <2>1. ops' \in [Inns -> Operator] /\ \A i \in Inns : ops'[i].id = ops[i].id /\ ops'[i].count = ops[i].count
      BY <1>3 DEF CacheInv, Types
  <2> QED
      BY <1>1, <1>3, <2>1, GivesUp
<1>4. CASE /\ ops' = [ops EXCEPT ![ref[p].inn].err = TRUE]
           /\ ref' = [ref EXCEPT ![p].pc = "next"] /\ UNCHANGED run
  <2>1. ops' \in [Inns -> Operator] /\ \A i \in Inns : ops'[i].id = ops[i].id /\ ops'[i].count = ops[i].count
      BY <1>2, <1>4 DEF CacheInv, Types, Operator
  <2> QED
      BY <1>1, <1>4, <2>1, GivesUp
<1> QED
    BY <1>1, <1>3, <1>4 DEF Noted

\* The facts of a swap of operator i, whose row is still there.
LEMMA SwapFacts ==
  ASSUME CacheInv, NEW p \in Places, SwapCommit(p), NEW i \in Inns, i = ref[p].inn,
         NEW data, data = ref[p].data, ~Gone(i, ref[p].id)
  PROVE  /\ data \subseteq Ranges
         /\ Cardinality(data) = 1 /\ \A r, s \in data : r.no = s.no
         /\ data \subseteq Of(i)'
         /\ \A j \in Inns \ {i} : Of(j)' = Of(j) /\ ops'[j] = ops[j]
         /\ ops'[i] \in Operator /\ ops'[i].id = ops[i].id /\ ops'[i].on = ops[i].on /\ ops'[i].count = 1
         /\ ~mixed => Apart' /\ Of(i)' = data
<1>1. /\ ref[p].pc = "swap" /\ Ends(p) /\ UNCHANGED mixed
      /\ table' = (table \ tx[p].seen) \cup data
      /\ ops' = [ops EXCEPT ![i].count = Cardinality(data), ![i].err = FALSE]
    BY DEF SwapCommit, Swapped
<1>2. p \in Txs /\ ref[p] \in Refresh /\ tx[p].inn = i /\ OneRange(p)
    BY <1>1 DEF Txs, CacheInv, Types, Swaps
<1>3. PICK g \in BOOLEAN : data = {[inn |-> i, no |-> ref[p].no, gar |-> g]}
    BY <1>2 DEF OneRange
<1>4. Cardinality(data) = 1
    BY <1>3, FS_Singleton
<1>5. \A r \in data : r.inn = i /\ r.no = ref[p].no
    BY <1>3
<1>6. /\ \A j \in Inns \ {i} : Of(j)' = Of(j)
      /\ data \subseteq Of(i)'
      /\ tx[p].seen = Of(i) => Of(i)' = data
      /\ ~mixed => Apart' /\ tx[p].seen = Of(i)
    BY <1>1, <1>2, <1>5, Replaced
<1>7. /\ \A j \in Inns \ {i} : ops'[j] = ops[j]
      /\ ops'[i] = [ops[i] EXCEPT !.count = 1, !.err = FALSE]
    BY <1>1, <1>4 DEF CacheInv, Types
<1>8. /\ ops'[i] \in Operator /\ ops'[i].id = ops[i].id
      /\ ops'[i].on = ops[i].on /\ ops'[i].count = 1
  <2>1. ops[i] \in Operator
      BY DEF CacheInv, Types
  <2> DEFINE v == [ops[i] EXCEPT !.count = 1, !.err = FALSE]
  <2>2. v \in Operator /\ v.id = ops[i].id /\ v.on = ops[i].on /\ v.count = 1
      BY <2>1 DEF Operator
  <2>3. ops'[i] = v
      BY <1>7
  <2> QED
      BY <2>2, <2>3
<1>9. data \subseteq Ranges
    BY <1>2 DEF Refresh
<1> QED
    BY <1>4, <1>5, <1>6, <1>7, <1>8, <1>9

LEMMA SwapCommitStep == ASSUME CacheInv, NEW p \in Places, SwapCommit(p) PROVE CacheInv'
<1>0. PICK i \in Inns, data \in SUBSET Ranges : i = ref[p].inn /\ data = ref[p].data
    BY DEF SwapCommit, CacheInv, Types, Swaps, Refresh
<1>1. /\ ref[p].pc = "swap" /\ Ends(p)
      /\ UNCHANGED <<spawn, refreshes, edits, mixed>>
    BY DEF SwapCommit, bounds
<1>2. p \in Txs /\ ref[p] \in Refresh
    BY DEF Txs, CacheInv, Types, Swaps
<1>3. tx' \in [Txs -> Transaction] /\ Deleted'
    BY <1>1, <1>2, EndsTx
<1>4. CASE Gone(i, ref[p].id)
  <2>1. Raised(p) /\ UNCHANGED <<ops, table>>
      BY <1>0, <1>4 DEF SwapCommit
  <2>2. ops' \in [Inns -> Operator] /\ \A j \in Inns : ops'[j].id = ops[j].id /\ ops'[j].count = ops[j].count
      BY <2>1 DEF CacheInv, Types
  <2> QED
      BY <1>1, <2>1, <2>2, GivesUp
<1>5. CASE ~Gone(i, ref[p].id)
  <2> DEFINE v == [ref[p] EXCEPT !.pc = "next", !.data = {}]
  <2>1. v \in Refresh /\ v.pc = "next"
      BY <1>2 DEF Refresh, Pcs
  <2>2. ref' = [ref EXCEPT ![p] = v] /\ UNCHANGED run
    <3>1. ref' = [ref EXCEPT ![p].pc = "next", ![p].data = {}] /\ UNCHANGED run
          /\ table' = (table \ tx[p].seen) \cup ref[p].data
        BY <1>0, <1>5 DEF SwapCommit, Swapped
    <3> QED
        BY <3>1 DEF CacheInv, Types
  <2>3. Swaps' /\ ref' \in [Places -> Refresh]
      BY <1>1, <2>1, <2>2, LeavesSwap
  <2>4. Vacant'
      BY <1>1, <2>2, PlaceKept DEF CacheInv, Types, None
  <2>5. Apart'
      BY <1>0, <1>1, <1>5, SwapFacts DEF Apart
  <2>6. table' \subseteq Ranges
    <3>1. table' = (table \ tx[p].seen) \cup ref[p].data
        BY <1>0, <1>5 DEF SwapCommit, Swapped
    <3> QED
        BY <1>2, <3>1 DEF CacheInv, Types, Refresh
  <2>7. ops' \in [Inns -> Operator] /\ Uncounted'
    <3>1. ops' = [ops EXCEPT ![i].count = Cardinality(data), ![i].err = FALSE]
        BY <1>0, <1>5 DEF SwapCommit
    <3>2. DOMAIN ops' = Inns /\ ops' = [j \in Inns |-> ops'[j]]
        BY <3>1 DEF CacheInv, Types
    <3>3. ops'[i] \in Operator /\ ops'[i].id # 0
      <4>1. ops'[i] \in Operator /\ ops'[i].id = ops[i].id /\ ops[i].id = ref[p].id
          BY <1>0, <1>5, SwapFacts DEF Gone
      <4>2. ref[p].id # 0
          BY <1>1 DEF CacheInv, Swaps
      <4> QED
          BY <4>1, <4>2
    <3>4. \A j \in Inns \ {i} : ops'[j] = ops[j]
        BY <1>0, <1>5, SwapFacts
    <3> QED
        BY <3>2, <3>3, <3>4 DEF CacheInv, Types, Uncounted
  <2>8. CountIsTrue'
    <3> SUFFICES ASSUME ~mixed', NEW j \in Inns
                 PROVE  Cardinality(Of(j)') = ops'[j].count /\ \A r, s \in Of(j)' : r.no = s.no
        BY DEF CountIsTrue
    <3>1. CASE j = i
      <4>1. Of(j)' = data /\ Cardinality(data) = 1 /\ ops'[i].count = 1 /\ \A r, s \in data : r.no = s.no
          BY <1>0, <1>1, <1>5, <3>1, SwapFacts
      <4> QED
          BY <3>1, <4>1
    <3>2. CASE j # i
      <4>1. Cardinality(Of(j)) = ops[j].count /\ \A r, s \in Of(j) : r.no = s.no
          BY <1>1 DEF CacheInv, CountIsTrue
      <4>2. Of(j)' = Of(j) /\ ops'[j] = ops[j]
          BY <1>0, <1>5, <3>2, SwapFacts
      <4> QED
          BY <4>1, <4>2
    <3> QED
        BY <3>1, <3>2
  <2> QED
      BY <1>1, <1>3, <2>3, <2>4, <2>5, <2>6, <2>7, <2>8 DEF CacheInv, Types
<1> QED
    BY <1>4, <1>5

-----------------------------------------------------------------------------
LEMMA InitCacheInv == Init => CacheInv
<1> SUFFICES ASSUME Init PROVE CacheInv
    OBVIOUS
<1>1. ops \in [Inns -> Operator] /\ \A i \in Inns : ops[i].count = 0
  <2>1. NoOp \in Operator /\ NoOp.count = 0
      BY Constants
  <2>3. [NoOp EXCEPT !.id = 1] \in Operator /\ [NoOp EXCEPT !.id = 1].count = 0
      BY DEF NoOp, Operator
  <2>4. /\ [NoOp EXCEPT !.id = 1, !.on = TRUE] \in Operator
        /\ [NoOp EXCEPT !.id = 1, !.on = TRUE].count = 0
      BY DEF NoOp, Operator
  <2>2. ops \in [Inns -> {NoOp, [NoOp EXCEPT !.id = 1], [NoOp EXCEPT !.id = 1, !.on = TRUE]}]
      BY DEF Init
  <2> QED
      BY <2>1, <2>2, <2>3, <2>4
<1>2. \A i \in Inns : Of(i) = {}
    BY DEF Init, Of
<1>3. tx = [t \in Txs |-> NoTx] /\ ref = [p \in Places |-> NoRefresh]
    BY DEF Init, Txs
<1>4. Types
    BY <1>1, <1>3, Constants DEF Init, Types
<1>5. Vacant /\ Swaps /\ Deleted /\ Apart
  <2>1. /\ \A p \in Places : ref[p].pc = None
        /\ \A t \in Txs : tx[t].inn = None /\ tx[t].seen = {}
      BY <1>3, Constants
  <2>2. Swaps
      BY <2>1 DEF Swaps, Places, Txs, None
  <2> QED
      BY <2>1, <2>2, InnAssumption DEF Vacant, Places, Deleted, Apart, Whole, Alone, Txs
<1>6. CountIsTrue
    BY <1>1, <1>2, FS_EmptySet DEF CountIsTrue
<1> QED
    BY <1>1, <1>4, <1>5, <1>6 DEF CacheInv, Uncounted

LEMMA StepCacheInv == CacheInv /\ [Next]_vars => CacheInv'
<1> SUFFICES ASSUME CacheInv, [Next]_vars PROVE CacheInv'
    OBVIOUS
<1>1. CASE SpawnThread \/ RunSeeds
    BY <1>1, StartStep
<1>2. CASE TakeLock
    BY <1>2, TakeLockStep
<1>3. CASE Refreshing
    BY <1>3, BeginStep, FetchDoneStep, SwapCommitStep, EndStep, NextOperatorStep DEF Refreshing
<1>4. CASE DeleteCommit
    BY <1>4, DeleteCommitStep
<1>5. CASE Boot \/ GhostGone \/ SpawnCheck \/ SpawnFails \/ RunAsks \/ RunGate \/ RunStarts \/ RunReseeds
    BY <1>5, QuietStep
<1>6. CASE Restart
    BY <1>6, RestartStep
<1>7. CASE \E i \in Inns : AddOperator(i) \/ UpdateOperator(i) \/ DeleteBegin(i)
    BY <1>7, EditStep, DeleteBeginStep
<1>8. CASE \E p \in Places : NoConnection(p) \/ DbFails(p) \/ FetchFails(p) \/ SwapFails(p)
    BY <1>8, NoConnectionStep, FetchFailsStep, SwapFailsStep
<1>10. CASE Handled \/ HandlerFails
    BY <1>10, HandlerStep
<1>9. CASE UNCHANGED vars
    BY <1>9 DEF vars, settings, threads, bounds, history, CacheInv, Types, Vacant, Swaps, OneRange,
         Deleted, Apart, Whole, Alone, Uncounted, CountIsTrue, Of
<1> QED
    BY <1>1, <1>2, <1>3, <1>4, <1>5, <1>6, <1>7, <1>8, <1>9, <1>10 DEF Next, Progress

\* What the settings page counts is what the table holds, of one refresh,
\* unless transactions overlapped (pstn_inn_cache/service.py:421-446, :292-309).
THEOREM CountIsTrueHolds == Spec => []CountIsTrue
<1>1. CacheInv => CountIsTrue
    BY DEF CacheInv
<1> QED
    BY <1>1, InitCacheInv, StepCacheInv, PTL DEF Spec

\* The counts and ranges of a required operator, in a step.
Kept(i) == (OperatorReady(i) /\ Of(i) # {}) => (OperatorReady(i)' /\ Of(i)' # {})

LEMMA StepKeeps == ASSUME CacheInv, Next PROVE \A i \in Required : Kept(i)
<1> SUFFICES ASSUME NEW i \in Required, OperatorReady(i), Of(i) # {}
             PROVE  OperatorReady(i)' /\ Of(i)' # {}
    BY DEF Kept
<1>0. i \in Inns /\ ops[i] \in Operator
    BY InnAssumption DEF CacheInv, Types
<1>1. CASE ops'[i] = ops[i] /\ table' = table
    BY <1>1 DEF OperatorReady, Of
<1>2. CASE UNCHANGED table /\ ops' = Ensured
    BY <1>1, <1>2, EnsuredFacts DEF CacheInv
<1>3. ASSUME NEW j \in Inns, AddOperator(j) \/ UpdateOperator(j) \/ DeleteBegin(j)
      PROVE  ops'[i] = ops[i] /\ table' = table
    BY <1>0, <1>3 DEF AddOperator, UpdateOperator, DeleteBegin, OperatorReady, CacheInv, Types
<1>4. CASE DeleteCommit
  <2>1. tx["delete"].inn # i /\ \A r \in tx["delete"].seen : r.inn # i
      BY DEF CacheInv, Deleted, Txs
  <2>2. Of(i)' = Of(i) /\ ops'[i] = ops[i]
      BY <1>0, <1>4, <2>1 DEF DeleteCommit, Of, CacheInv, Types
  <2> QED
      BY <2>2 DEF OperatorReady
<1>5. ASSUME NEW p \in Places, ref[p].pc \in {"fetch", "swap"}, Noted(p), UNCHANGED table
      PROVE  OperatorReady(i)' /\ Of(i)' # {}
  <2>1. Of(i)' = Of(i)
      BY <1>5 DEF Of
  <2>2. ops' = ops \/ ops' = [ops EXCEPT ![ref[p].inn].err = TRUE]
      BY <1>5 DEF Noted
  <2>3. ref[p].inn \in Inns
      BY <1>5 DEF CacheInv, Swaps
  <2> QED
      BY <1>0, <2>1, <2>2, <2>3 DEF OperatorReady, CacheInv, Types, Operator
<1>6. ASSUME NEW p \in Places, FetchDone(p) PROVE OperatorReady(i)' /\ Of(i)' # {}
  <2>1. UNCHANGED table /\ ref[p].pc = "fetch" /\ (ops' = ops \/ Noted(p))
      BY <1>6 DEF FetchDone
  <2> QED
      BY <1>1, <1>5, <2>1
<1>7. ASSUME NEW p \in Places, SwapCommit(p) PROVE OperatorReady(i)' /\ Of(i)' # {}
  <2>0. PICK j \in Inns, data \in SUBSET Ranges : j = ref[p].inn /\ data = ref[p].data
      BY <1>7 DEF SwapCommit, CacheInv, Types, Swaps, Refresh
  <2>1. CASE Gone(j, ref[p].id)
      BY <1>1, <1>7, <2>0, <2>1 DEF SwapCommit
  <2>2. CASE ~Gone(j, ref[p].id) /\ i # j
    <3>1. Of(i)' = Of(i) /\ ops'[i] = ops[i]
        BY <1>0, <1>7, <2>0, <2>2, SwapFacts
    <3> QED
        BY <3>1 DEF OperatorReady
  <2>3. CASE ~Gone(j, ref[p].id) /\ i = j
    <3>1. /\ ops'[j].id = ops[j].id /\ ops'[j].on = ops[j].on /\ ops'[j].count = 1
          /\ Cardinality(data) = 1 /\ data \subseteq Of(j)'
        BY <1>7, <2>0, <2>3, SwapFacts
    <3>2. Of(i)' # {}
        BY <2>3, <3>1, FS_EmptySet
    <3> QED
        BY <1>0, <2>3, <3>1, <3>2 DEF OperatorReady
  <2> QED
      BY <2>1, <2>2, <2>3
<1>8. CASE Boot \/ Restart \/ GhostGone \/ SpawnCheck \/ RunAsks \/ RunGate \/ RunStarts \/ RunReseeds
           \/ SpawnThread \/ TakeLock \/ RunSeeds \/ SpawnFails \/ Handled \/ HandlerFails
  <2>1. UNCHANGED table /\ (ops' = ops \/ ops' = Ensured)
      BY <1>8 DEF Boot, Restart, GhostGone, SpawnCheck, RunAsks, RunGate, RunStarts, RunReseeds,
             SpawnThread, TakeLock, RunSeeds, SpawnFails, Handled, HandlerFails, Unlocked, settings
  <2> QED
      BY <1>1, <1>2, <2>1
<1>9. ASSUME NEW p \in Places,
             NoConnection(p) \/ DbFails(p) \/ FetchFails(p) \/ SwapFails(p) \/ Begin(p) \/ End(p)
      PROVE  OperatorReady(i)' /\ Of(i)' # {}
  <2>1. UNCHANGED table /\ (ops' = ops \/ ops' = Ensured \/ (ref[p].pc \in {"fetch", "swap"} /\ Noted(p)))
      BY <1>9 DEF NoConnection, DbFails, FetchFails, SwapFails, Begin, End, settings
  <2> QED
      BY <1>1, <1>2, <1>5, <2>1
<1>10. ASSUME NEW p \in Places, NEW j \in Inns, NEW id \in 1..(MaxEdits + 1), NextOperator(p, j, id)
       PROVE  OperatorReady(i)' /\ Of(i)' # {}
    BY <1>1, <1>10 DEF NextOperator, settings
<1> QED
    BY <1>1, <1>3, <1>4, <1>6, <1>7, <1>8, <1>9, <1>10 DEF Next, Progress, Refreshing

\* A required operator that is ready stays ready through fetches that are
\* empty or fail, edits, overlapping refreshes and restarts
\* (pstn_inn_cache/service.py:64-94, :261-309, :421-446): a run that has passed
\* the gate has its ranges in its last stage.
THEOREM ReadyStaysHolds == Spec => ReadyStays
<1>1. CacheInv /\ [Next]_vars =>
        [\A i \in Required : (OperatorReady(i) /\ Of(i) # {}) => (OperatorReady(i)' /\ Of(i)' # {})]_vars
    BY StepKeeps DEF Kept
<1> QED
    BY <1>1, InitCacheInv, StepCacheInv, PTL DEF Spec, ReadyStays
===============================================================================
