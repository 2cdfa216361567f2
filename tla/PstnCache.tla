------------------------------ MODULE PstnCache ------------------------------
(***************************************************************************)
(* The local cache of PSTN ranges by operator (INN): the operators of the  *)
(* settings page, the refresh that replaces their ranges one operator at a *)
(* time, and the sync run, which asks whether the cache is ready before it *)
(* starts and reloads it itself when no range that it loads has a GAR      *)
(* territory.                                                              *)
(*                                                                         *)
(* refresh_enabled_caches runs in two places: in the thread of the         *)
(* settings page, under the lock of the cache, and in the enrichment stage *)
(* of a run, without it.  An answer of the registry is one range or none:  *)
(* nothing depends on how many there are.                                  *)
(***************************************************************************)
EXTENDS Naturals, FiniteSets

CONSTANTS
  Inns,          \* the operators, by INN
  Required,      \* those of REQUIRED_OPERATORS
  MaxRefreshes,  \* bound on the refreshes
  MaxEdits,      \* bound on the edits of operators
  MaxFaults      \* bound on failed fetches and statements, missing connections, restarts

None == "none"
ASSUME InnAssumption == Required \subseteq Inns /\ Required # {} /\ None \notin Inns
ASSUME BoundAssumption == MaxRefreshes \in Nat /\ MaxEdits \in Nat /\ MaxFaults \in Nat

VARIABLES
  up,        \* the process has booted
  ops,       \* per INN: its row of pstn_inn_cache_operators (id 0: none)
  table,     \* pstn_inn_ranges_cache: ranges with their INN, refresh and GAR mark
  tx,        \* transactions that have deleted ranges and not committed
  status,    \* the status of the refresh, in system_settings
  lock,      \* holder of CACHE_REFRESH_LOCK_KEY
  spawn,     \* the request in spawn_cache_refresh, which holds _refresh_lock
  ref,       \* refresh_enabled_caches, in each of its places
  run,       \* the sync run
  refreshes, edits, faults,
  mixed,     \* (history) a transaction on the ranges of an INN began inside another
  cut        \* (history) an exception has left the status as it was, in a run or
             \* because the thread could not write it, and no thread began since

settings == <<ops, table, tx>>
threads == <<lock, spawn, ref, run>>
bounds == <<refreshes, edits, faults>>
history == <<mixed, cut>>
vars == <<up, settings, status, threads, bounds, history>>

Places == {"thread", "stage"}
NoOp == [id |-> 0, on |-> FALSE, count |-> 0, err |-> FALSE]
NoRefresh == [pc |-> None, no |-> 0, todo |-> {}, inn |-> None, id |-> 0, data |-> {}]
NoTx == [inn |-> None, seen |-> {}, waits |-> {}]

Of(i) == {r \in table : r.inn = i}
Open == status \in {"pending", "running"}
Fault == faults < MaxFaults /\ faults' = faults + 1

\* is_operator_ready and is_min_cache_ready: the territory may be any range's,
\* one of a disabled operator included.
OperatorReady(i) == ops[i].id > 0 /\ ops[i].on /\ ops[i].count > 0
MinCacheReady == (\A i \in Required : OperatorReady(i)) /\ \E r \in table : r.gar

\* ensure_required_operators
Ensured == [i \in Inns |->
  IF i \notin Required THEN ops[i]
  ELSE IF ops[i].id = 0 THEN [NoOp EXCEPT !.id = 1, !.on = TRUE] ELSE [ops[i] EXCEPT !.on = TRUE]]

\* An operator may be missing or off in the database of an older version.
Init ==
  /\ ops \in [Inns -> {NoOp, [NoOp EXCEPT !.id = 1], [NoOp EXCEPT !.id = 1, !.on = TRUE]}]
  /\ up = FALSE /\ table = {} /\ tx = [t \in Places \cup {"delete"} |-> NoTx]
  /\ status = "idle" /\ lock = None /\ spawn = None
  /\ ref = [p \in Places |-> NoRefresh] /\ run = None
  /\ refreshes = 0 /\ edits = 0 /\ faults = 0 /\ mixed = FALSE /\ cut = FALSE

\* A DELETE sees the ranges that were committed when it began, and waits for
\* the transactions that have deleted some of them.
Deletes(t, i) ==
  /\ tx' = [tx EXCEPT ![t] = [inn |-> i, seen |-> Of(i),
                              waits |-> {u \in DOMAIN tx : tx[u].seen \cap Of(i) # {}}]]
  /\ mixed' = (mixed \/ \E u \in DOMAIN tx : tx[u].inn = i)
Ends(t) == tx' = [u \in DOMAIN tx |-> IF u = t THEN NoTx ELSE [tx[u] EXCEPT !.waits = @ \ {t}]]
MayCommit(t) == tx[t].inn # None /\ tx[t].waits = {}

-----------------------------------------------------------------------------
(* Boot and restart.                                                       *)

\* mutant: a refresh that the restart interrupted stays open
InterruptedNot == status

\* mark_refresh_interrupted
Interrupted == IF Open THEN "failed" ELSE status

Boot ==
  /\ ~up /\ up' = TRUE
  /\ status' = Interrupted /\ ops' = Ensured
  /\ UNCHANGED <<table, tx, threads, bounds, history>>

\* The process dies with its transactions; Postgres may be late to notice.
Restart ==
  /\ up /\ Fault /\ up' = FALSE
  /\ lock' \in IF lock = None THEN {None} ELSE {None, "ghost"}
  /\ spawn' = None /\ ref' = [p \in Places |-> NoRefresh] /\ run' = None
  /\ tx' = [t \in DOMAIN tx |-> NoTx]
  /\ cut' = FALSE
  /\ UNCHANGED <<ops, table, status, refreshes, edits, mixed>>

GhostGone ==
  /\ lock = "ghost" /\ lock' = None
  /\ UNCHANGED <<up, settings, status, spawn, ref, run, bounds, history>>

-----------------------------------------------------------------------------
(* The operators of the settings page.                                     *)

Edit == up /\ edits < MaxEdits /\ edits' = edits + 1

AddOperator(i) ==
  /\ Edit /\ ops[i].id = 0
  /\ ops' = [ops EXCEPT ![i] = [NoOp EXCEPT !.id = edits + 2, !.on = TRUE]]
  /\ UNCHANGED <<up, table, tx, status, threads, refreshes, faults, history>>

\* update_operator: a required one is not switched off.
UpdateOperator(i) ==
  /\ Edit /\ ops[i].id > 0 /\ i \notin Required
  /\ ops' = [ops EXCEPT ![i].on = ~@]
  /\ UNCHANGED <<up, table, tx, status, threads, refreshes, faults, history>>

\* delete_operator: its ranges, then its row, in one transaction.
DeleteBegin(i) ==
  /\ Edit /\ tx["delete"].inn = None /\ ops[i].id > 0 /\ i \notin Required
  /\ Deletes("delete", i)
  /\ UNCHANGED <<up, ops, table, status, threads, refreshes, faults, cut>>

DeleteCommit ==
  /\ MayCommit("delete") /\ Ends("delete")
  /\ table' = table \ tx["delete"].seen
  /\ ops' = [ops EXCEPT ![tx["delete"].inn] = NoOp]
  /\ UNCHANGED <<up, status, threads, bounds, history>>

-----------------------------------------------------------------------------
(* The refresh.                                                            *)

\* spawn_cache_refresh: no thread alive and no active run, then pending.
RunActive == run \in {"active", "reload", "reloaded"}
SpawnCheck ==
  /\ up /\ spawn = None /\ ref["thread"].pc = None /\ ~RunActive
  /\ refreshes < MaxRefreshes /\ refreshes' = refreshes + 1
  /\ spawn' = "checked"
  /\ UNCHANGED <<up, settings, status, lock, ref, run, edits, faults, history>>
SpawnThread ==
  /\ spawn = "checked" /\ spawn' = None
  /\ status' = "pending"
  /\ ref' = [ref EXCEPT !["thread"] = [NoRefresh EXCEPT !.pc = "lock", !.no = refreshes]]
  /\ cut' = FALSE
  /\ UNCHANGED <<up, settings, lock, run, bounds, mixed>>

\* The status cannot be written: no thread starts.
SpawnFails ==
  /\ spawn = "checked" /\ Fault /\ spawn' = None
  /\ UNCHANGED <<up, settings, status, lock, ref, run, refreshes, edits, history>>

TakeLock ==
  /\ ref["thread"].pc = "lock"
  /\ IF lock = None
     THEN lock' = "thread" /\ ref' = [ref EXCEPT !["thread"].pc = "begin"] /\ UNCHANGED status
     ELSE status' = "failed" /\ ref' = [ref EXCEPT !["thread"] = NoRefresh] /\ UNCHANGED lock
  /\ UNCHANGED <<up, settings, spawn, run, bounds, history>>

\* An exception ends a refresh: the thread goes to its handler, the stage of a
\* run fails and leaves the status.
Raised(p) ==
  IF p = "thread"
  THEN ref' = [ref EXCEPT ![p] = [NoRefresh EXCEPT !.pc = "raised"]] /\ UNCHANGED <<status, lock, run, cut>>
  ELSE ref' = [ref EXCEPT ![p] = NoRefresh] /\ run' = None /\ cut' = TRUE /\ UNCHANGED <<status, lock>>

\* The handler of the thread closes the status; that it cannot is swallowed.
\* Either way the thread unlocks and ends.
Unlocked ==
  /\ ref["thread"].pc = "raised" /\ ref' = [ref EXCEPT !["thread"] = NoRefresh]
  /\ lock' = IF lock = "thread" THEN None ELSE lock
  /\ UNCHANGED <<up, settings, spawn, run, refreshes, edits, mixed>>
Handled == Unlocked /\ status' = "failed" /\ UNCHANGED <<faults, cut>>
HandlerFails == Unlocked /\ Fault /\ cut' = TRUE /\ UNCHANGED status

\* A statement fails between two operators, or at the lock.
DbFails(p) ==
  /\ ref[p].pc \in {"lock", "next"} /\ Fault
  /\ Raised(p)
  /\ UNCHANGED <<up, settings, spawn, refreshes, edits, mixed>>

\* The enabled operators, in any order.
Begin(p) ==
  /\ ref[p].pc = "begin"
  /\ ops' = Ensured
  /\ ref' = [ref EXCEPT ![p].pc = "next",
       ![p].todo = {<<i, Ensured[i].id>> : i \in {j \in Inns : Ensured[j].id > 0 /\ Ensured[j].on}}]
  /\ status' = "running"
  /\ UNCHANGED <<up, table, tx, lock, spawn, run, bounds, history>>

\* _finenumbers_connection finds no connection or no key, or a statement fails.
NoConnection(p) ==
  /\ ref[p].pc = "begin" /\ Fault
  /\ Raised(p)
  /\ UNCHANGED <<up, settings, spawn, refreshes, edits, mixed>>

\* The row of the operator is read again after every commit: if it is gone,
\* the exception ends the refresh of all of them.
Gone(i, id) == ops[i].id # id
NextOperator(p, i, id) ==
  /\ ref[p].pc = "next" /\ <<i, id>> \in ref[p].todo
  /\ IF Gone(i, id) THEN Raised(p)
     ELSE /\ ref' = [ref EXCEPT ![p].pc = "fetch", ![p].inn = i, ![p].id = id, ![p].todo = @ \ {<<i, id>>}]
          /\ status' = "running"
          /\ UNCHANGED <<lock, run, cut>>
  /\ UNCHANGED <<up, settings, spawn, bounds, mixed>>

\* An operator that is not refreshed keeps its ranges and shows the error.
Noted(p) ==
  IF Gone(ref[p].inn, ref[p].id) THEN Raised(p) /\ UNCHANGED ops
  ELSE /\ ops' = [ops EXCEPT ![ref[p].inn].err = TRUE]
       /\ ref' = [ref EXCEPT ![p].pc = "next"]
       /\ UNCHANGED <<status, lock, run, cut>>

FetchFails(p) ==
  /\ ref[p].pc = "fetch" /\ Fault /\ Noted(p)
  /\ UNCHANGED <<up, table, tx, spawn, refreshes, edits, mixed>>

\* mutant: an empty answer replaces the ranges too
ReloadAnything(data) == TRUE

\* reload_allowed: an empty answer replaces nothing.
ReloadAllowed(data) == data # {}

Answers(p) == {{}} \cup {{[inn |-> ref[p].inn, no |-> ref[p].no, gar |-> g]} : g \in BOOLEAN}

\* The answer is in; the ranges in the table are deleted, not committed yet.
FetchDone(p) ==
  /\ ref[p].pc = "fetch"
  /\ \E data \in Answers(p) :
       IF ReloadAllowed(data)
       THEN /\ Deletes(p, ref[p].inn)
            /\ ref' = [ref EXCEPT ![p].pc = "swap", ![p].data = data]
            /\ UNCHANGED <<ops, status, lock, run, cut>>
       ELSE Noted(p) /\ UNCHANGED <<tx, mixed>>
  /\ UNCHANGED <<up, table, spawn, bounds>>

\* mutant: the ranges of the last refresh stay
Added(p) == table \cup ref[p].data

Swapped(p) == (table \ tx[p].seen) \cup ref[p].data

\* Ranges and counters of the operator, in one commit.
SwapCommit(p) ==
  /\ ref[p].pc = "swap" /\ MayCommit(p) /\ Ends(p)
  /\ IF Gone(ref[p].inn, ref[p].id) THEN Raised(p) /\ UNCHANGED <<ops, table>>
     ELSE /\ table' = Swapped(p)
          /\ ops' = [ops EXCEPT ![ref[p].inn].count = Cardinality(ref[p].data), ![ref[p].inn].err = FALSE]
          /\ ref' = [ref EXCEPT ![p].pc = "next", ![p].data = {}]
          /\ UNCHANGED <<status, lock, run, cut>>
  /\ UNCHANGED <<up, spawn, bounds, mixed>>

\* The swap fails and is rolled back.
SwapFails(p) ==
  /\ ref[p].pc = "swap" /\ Fault /\ Ends(p) /\ Noted(p)
  /\ UNCHANGED <<up, table, spawn, refreshes, edits, mixed>>

\* All operators done: the status says whether the cache is ready.
End(p) ==
  /\ ref[p].pc = "next" /\ ref[p].todo = {}
  /\ ops' = Ensured
  /\ status' = IF MinCacheReady THEN "success" ELSE "failed"
  /\ ref' = [ref EXCEPT ![p] = NoRefresh]
  /\ IF p = "thread" THEN lock' = None /\ UNCHANGED run
     ELSE run' = "reloaded" /\ UNCHANGED lock
  /\ UNCHANGED <<up, table, tx, spawn, bounds, history>>

-----------------------------------------------------------------------------
(* The sync run.                                                           *)

\* create_run: no refresh open, then the cache ready, then the row.
RunAsks ==
  /\ up /\ run = None /\ ~Open /\ run' = "asked"
  /\ UNCHANGED <<up, settings, status, lock, spawn, ref, bounds, history>>
RunGate ==
  /\ run = "asked"
  /\ ops' = Ensured
  /\ run' = IF MinCacheReady THEN "ready" ELSE None
  /\ UNCHANGED <<up, table, tx, status, lock, spawn, ref, bounds, history>>
RunStarts ==
  /\ run = "ready" /\ run' = "active"
  /\ UNCHANGED <<up, settings, status, lock, spawn, ref, bounds, history>>

\* load_enabled_ranges_for_enrich: ranges without one GAR are reloaded, once.
Seeded == {r \in table : ops[r.inn].id > 0 /\ ops[r.inn].on}
RunSeeds ==
  /\ run = "active"
  /\ IF Seeded # {} /\ ~\E r \in Seeded : r.gar
     THEN /\ refreshes < MaxRefreshes /\ refreshes' = refreshes + 1
          /\ run' = "reload"
          /\ ref' = [ref EXCEPT !["stage"] = [NoRefresh EXCEPT !.pc = "begin", !.no = refreshes + 1]]
     ELSE run' = None /\ UNCHANGED <<ref, refreshes>>
  /\ UNCHANGED <<up, settings, status, lock, spawn, edits, faults, history>>

\* With what is there now the stage goes on, or fails for want of a GAR.
RunReseeds ==
  /\ run = "reloaded" /\ run' = None
  /\ UNCHANGED <<up, settings, status, lock, spawn, ref, bounds, history>>

-----------------------------------------------------------------------------
Refreshing == \E p \in Places :
  \/ Begin(p) \/ FetchDone(p) \/ SwapCommit(p) \/ End(p)
  \/ \E i \in Inns : \E id \in 1..(MaxEdits + 1) : NextOperator(p, i, id)
Progress == SpawnThread \/ TakeLock \/ Refreshing \/ Handled \/ DeleteCommit

Next ==
  \/ Progress
  \/ Boot \/ Restart \/ GhostGone
  \/ \E i \in Inns : AddOperator(i) \/ UpdateOperator(i) \/ DeleteBegin(i)
  \/ SpawnCheck \/ SpawnFails \/ HandlerFails
  \/ \E p \in Places : NoConnection(p) \/ DbFails(p) \/ FetchFails(p) \/ SwapFails(p)
  \/ RunAsks \/ RunGate \/ RunStarts \/ RunSeeds \/ RunReseeds

Spec == Init /\ [][Next]_vars /\ WF_vars(Progress) /\ WF_vars(Boot)

-----------------------------------------------------------------------------
\* Once a required operator is ready it stays ready: no empty or failed fetch,
\* no edit, no second refresh inside the first and no restart takes its
\* ranges, so a run that has passed the gate has them in its last stage.
ReadyStays == [][\A i \in Required :
  (OperatorReady(i) /\ Of(i) # {}) => (OperatorReady(i)' /\ Of(i)' # {})]_vars

\* What the settings page counts is what the table holds, ranges of one
\* refresh, unless two transactions on the same operator overlapped.
CountIsTrue == ~mixed => \A i \in Inns :
  Cardinality(Of(i)) = ops[i].count /\ \A r, s \in Of(i) : r.no = s.no

\* A refresh that is pending or running does not stay so: it ends, or the next
\* boot closes it.  Left open, until the next refresh or boot, are only the
\* reload of a run that an exception ended and a thread that failed and could
\* not write that it did.
StatusCloses == (Open /\ ~cut) ~> (~Open \/ cut)
===============================================================================
