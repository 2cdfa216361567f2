---------------------------- MODULE SyncLifecycle ----------------------------
(***************************************************************************)
(* The life of a unified sync run: the sync_runs row, the worker thread    *)
(* that executes it, the Postgres advisory lock SYNC_LOCK_KEY, the API     *)
(* requests that create and reclaim runs, the daily scheduler and the boot *)
(* of the single backend process.                                          *)
(*                                                                         *)
(* Source: src/backend/app/modules/sync_engine/{unified,locks,scheduler,   *)
(* progress}.py, src/backend/app/core/db.py, src/backend/app/main.py.      *)
(*                                                                         *)
(* What happens inside a run (providers, staging, enrichment) is abstracted*)
(* to a loop of a check (the run is still pending or running) and a write. *)
(***************************************************************************)
EXTENDS Naturals, FiniteSets

CONSTANTS
    Runs,        \* identities of the sync_runs rows that can be inserted
    Browsers,    \* concurrent API requests (POST /sync/start, GET /sync/latest)
    Scheduler,   \* the task running sync_schedule_loop
    NoRun,       \* "no row"
    Free,        \* the advisory lock has no owner
    Ghost,       \* owner: a server session whose client process has died
    FaultKinds,  \* the faults that may happen, a subset of AllFaults
    MaxFaults,   \* bound: number of faults in a behaviour
    MaxDay,      \* bound: Moscow calendar days 1..MaxDay
    ScheduleOn   \* sync_schedule.enabled

Clients == Browsers \cup {Scheduler}
AllFaults == {"request", "db", "lockloss", "crash", "slow"}

ASSUME RunsAssumption    == NoRun \notin Runs
ASSUME OwnersAssumption  == /\ Free \notin Runs \cup Clients \cup {Ghost}
                            /\ Ghost \notin Runs \cup Clients
                            /\ Runs \cap Clients = {}
ASSUME FaultsAssumption  == /\ FaultKinds \subseteq AllFaults
                            /\ MaxFaults \in Nat
ASSUME DayAssumption     == MaxDay \in Nat \ {0}
ASSUME FlagsAssumption   == ScheduleOn \in BOOLEAN

Active   == {"pending", "running"}
Terminal == {"success", "partial", "failed"}
Status   == {"none"} \cup Active \cup Terminal

WorkerPc == {"none", "acquire", "busy", "retry", "refused", "stuck", "claimed",
             "start", "check", "write", "finish", "log", "crashed",
             "aborting", "release", "done"}
ClientPc == {"idle", "select", "try", "refresh", "mark", "unlock", "markAged",
             "answer", "insert", "spawn"}

VARIABLES
    status,     \* [Runs -> Status]: sync_runs.status ("none": no such row yet)
    trigger,    \* [Runs -> {"none", "api", "schedule"}]: sync_runs.triggered_by
    aged,       \* the pending rows older than STALE_PENDING_MINUTES
    worker,     \* [Runs -> WorkerPc]: the thread of spawn_unified_run
    lock,       \* owner of SYNC_LOCK_KEY: a run's lock_conn, a request's Session
    req,        \* [Clients -> ClientPc]: the requests and the scheduler task
    want,       \* [Clients -> {"latest", "create", "tick"}]: what they ask for
    pass,       \* [Clients -> {"reclaim", "stale"}]: reclaim or mark_stale_runs
    seen,       \* [Clients -> Runs or NoRun]: a row read as running, or inserted
    old,        \* [Clients -> Runs or NoRun]: a row read as pending too long
    up,         \* is the backend process running
    today,      \* the Moscow calendar day
    lastFired,  \* the day in sync_schedule_last_fired, 0 when unset
    faults      \* number of faults so far

vars == <<status, trigger, aged, worker, lock, req, want, pass, seen, old, up,
          today, lastFired, faults>>
locals == <<want, pass, seen, old>>
clients == <<req, locals>>
rows == <<status, trigger>>
calendar == <<today, lastFired>>

TypeOK ==
    /\ status \in [Runs -> Status]
    /\ trigger \in [Runs -> {"none", "api", "schedule"}]
    /\ aged \subseteq Runs
    /\ worker \in [Runs -> WorkerPc]
    /\ lock \in Runs \cup Clients \cup {Free, Ghost}
    /\ req \in [Clients -> ClientPc]
    /\ want \in [Clients -> {"latest", "create", "tick"}]
    /\ pass \in [Clients -> {"reclaim", "stale"}]
    /\ seen \in [Clients -> Runs \cup {NoRun}]
    /\ old \in [Clients -> Runs \cup {NoRun}]
    /\ up \in BOOLEAN
    /\ today \in 1..MaxDay
    /\ lastFired \in 0..MaxDay
    /\ faults \in 0..MaxFaults

Init ==
    /\ status = [r \in Runs |-> "none"]
    /\ trigger = [r \in Runs |-> "none"]
    /\ aged = {}
    /\ worker = [r \in Runs |-> "none"]
    /\ lock = Free
    /\ req = [c \in Clients |-> "idle"]
    /\ want = [c \in Clients |-> "latest"]
    /\ pass = [c \in Clients |-> "reclaim"]
    /\ seen = [c \in Clients |-> NoRun]
    /\ old = [c \in Clients |-> NoRun]
    /\ up = TRUE
    /\ today = 1
    /\ lastFired = 0
    /\ faults = 0

-----------------------------------------------------------------------------
(* Helpers *)

\* uq_sync_runs_one_active: the rows that block another pending/running row.
OtherActive(r) == {q \in Runs \ {r} : status[q] \in Active}

SetStatus(r, s) == status' = [status EXCEPT ![r] = s]
GoTo(r, pc) == worker' = [worker EXCEPT ![r] = pc]
At(c, pc) == req' = [req EXCEPT ![c] = pc]
ClientAt(c, pc) == up /\ req[c] = pc
WorkerAt(r, pc) == up /\ worker[r] = pc

Fault(kind) == /\ kind \in FaultKinds
               /\ faults < MaxFaults
               /\ faults' = faults + 1

\* pg_advisory_unlock by an owner: a no-op for who does not hold the lock.
Unlocked(owner) == IF lock = owner THEN Free ELSE lock

-----------------------------------------------------------------------------
(* API requests and the scheduler: reclaim_orphaned_running_runs, then       *)
(* mark_stale_runs, then the answer; create_run inserts and spawns.          *)

\* get_active_run (or get_latest_run) begins, on behalf of w.
Enter(c, w) ==
    /\ At(c, "select")
    /\ want' = [want EXCEPT ![c] = w]
    /\ pass' = [pass EXCEPT ![c] = "reclaim"]
    /\ UNCHANGED <<seen, old>>

\* The handler returns; its locals are gone.
Leave(c) ==
    /\ At(c, "idle")
    /\ want' = [want EXCEPT ![c] = "latest"]
    /\ pass' = [pass EXCEPT ![c] = "reclaim"]
    /\ seen' = [seen EXCEPT ![c] = NoRun]
    /\ old'  = [old EXCEPT ![c] = NoRun]

\* After the pass over orphans comes the pass over stale rows, then the answer.
NextPass(c) ==
    /\ \/ pass[c] = "reclaim" /\ At(c, "select") /\ pass' = [pass EXCEPT ![c] = "stale"]
       \/ pass[c] = "stale" /\ At(c, "answer") /\ pass' = pass
    /\ UNCHANGED want

\* A handler enters get_latest_run or create_run (the cache gate passed).
Request(c) ==
    /\ c \in Browsers
    /\ ClientAt(c, "idle")
    /\ \E w \in {"latest", "create"} : Enter(c, w)
    /\ UNCHANGED <<rows, aged, worker, lock, up, calendar, faults>>

\* _tick_once: past the scheduled time of a day that has not fired yet.
Tick ==
    /\ ScheduleOn
    /\ ClientAt(Scheduler, "idle")
    /\ lastFired # today
    /\ Enter(Scheduler, "tick")
    /\ UNCHANGED <<rows, aged, worker, lock, up, calendar, faults>>

\* The SELECTs. Pass "reclaim" takes the running row, pass "stale" the pending
\* row older than 30 minutes and the running row older than 180. The unique
\* index leaves at most one row in each list.
SelectOrphan(c) ==
    /\ ClientAt(c, "select")
    /\ pass[c] = "reclaim"
    /\ \/ \E r \in Runs : /\ status[r] = "running"
                          /\ seen' = [seen EXCEPT ![c] = r]
                          /\ At(c, "try")
                          /\ UNCHANGED <<want, pass>>
       \/ /\ \A r \in Runs : status[r] # "running"
          /\ NextPass(c)
          /\ seen' = [seen EXCEPT ![c] = NoRun]
    /\ UNCHANGED <<old, rows, aged, worker, lock, up, calendar, faults>>

\* Mutated form of SelectStale: pending rows are never aged out.
SelectStaleRunningOnly(c) ==
    /\ ClientAt(c, "select")
    /\ pass[c] = "stale"
    /\ NextPass(c)
    /\ UNCHANGED <<seen, old, rows, aged, worker, lock, up, calendar, faults>>

SelectStale(c) ==
    /\ ClientAt(c, "select")
    /\ pass[c] = "stale"
    /\ \E s \in {r \in Runs : status[r] = "running"} \cup {NoRun} :
          /\ seen' = [seen EXCEPT ![c] = s]
          /\ \/ \E r \in aged : /\ status[r] = "pending"
                                /\ old' = [old EXCEPT ![c] = r]
                                /\ At(c, "markAged")
                                /\ UNCHANGED <<want, pass>>
             \/ /\ \A r \in aged : status[r] # "pending"
                /\ IF s = NoRun THEN NextPass(c) ELSE At(c, "try") /\ UNCHANGED <<want, pass>>
                /\ UNCHANGED old
    /\ UNCHANGED <<rows, aged, worker, lock, up, calendar, faults>>

\* Age out a pending row: written by its id, whatever its status is by now.
MarkAged(c) ==
    /\ ClientAt(c, "markAged")
    /\ SetStatus(old[c], "failed")
    /\ IF seen[c] = NoRun THEN NextPass(c) ELSE At(c, "try") /\ UNCHANGED <<want, pass>>
    /\ UNCHANGED <<seen, old, trigger, aged, worker, lock, up, calendar, faults>>

\* Mutated form of TryProbe: the answer of pg_try_advisory_lock is ignored.
TryProbeIgnored(c) ==
    /\ ClientAt(c, "try")
    /\ lock' = (IF lock = Free THEN c ELSE lock) /\ At(c, "refresh")
    /\ UNCHANGED <<locals, rows, aged, worker, up, calendar, faults>>

\* try_advisory_lock on the request's Session.
TryProbe(c) ==
    /\ ClientAt(c, "try")
    /\ \/ lock = Free /\ lock' = c /\ At(c, "refresh") /\ UNCHANGED <<want, pass>>
       \/ lock # Free /\ lock' = lock /\ NextPass(c)
    /\ UNCHANGED <<seen, old, rows, aged, worker, up, calendar, faults>>

\* Mutated form of Refresh: the row is believed to be as it was selected.
RefreshSkipped(c) ==
    /\ ClientAt(c, "refresh")
    /\ At(c, "mark")
    /\ UNCHANGED <<locals, rows, aged, worker, lock, up, calendar, faults>>

\* db.refresh(run): still running?
Refresh(c) ==
    /\ ClientAt(c, "refresh")
    /\ At(c, IF status[seen[c]] = "running" THEN "mark" ELSE "unlock")
    /\ UNCHANGED <<locals, rows, aged, worker, lock, up, calendar, faults>>

\* The row is failed and log_run commits; the commit returns the Session's
\* connection to the main pool, whose checkin listener unlocks everything.
MarkOrphan(c) ==
    /\ ClientAt(c, "mark")
    /\ SetStatus(seen[c], "failed")
    /\ lock' = Unlocked(c)
    /\ At(c, "unlock")
    /\ UNCHANGED <<locals, trigger, aged, worker, up, calendar, faults>>

\* advisory_unlock in the finally block.
UnlockProbe(c) ==
    /\ ClientAt(c, "unlock")
    /\ lock' = Unlocked(c)
    /\ NextPass(c)
    /\ UNCHANGED <<seen, old, rows, aged, worker, up, calendar, faults>>

\* get_latest_run and get_active_run return. A tick that finds no active run
\* goes on to create_run, which runs get_active_run again, or defers because
\* the operator cache is not ready.
Answer(c) ==
    /\ ClientAt(c, "answer")
    /\ LET noneActive == \A r \in Runs : status[r] \notin Active
       IN \/ want[c] = "create" /\ noneActive /\ At(c, "insert") /\ UNCHANGED locals
          \/ want[c] = "tick" /\ noneActive /\ Enter(c, "create")
          \/ (want[c] # "create" \/ ~noneActive) /\ Leave(c)
    /\ UNCHANGED <<rows, aged, worker, lock, up, calendar, faults>>

\* Mutated form of Insert: without the unique index of migration 0012.
InsertUnindexed(c) ==
    /\ ClientAt(c, "insert")
    /\ \E r \in Runs : /\ status[r] = "none"
                      /\ SetStatus(r, "pending")
                      /\ seen' = [seen EXCEPT ![c] = r]
    /\ At(c, "spawn")
    /\ UNCHANGED <<want, pass, old, trigger, aged, worker, lock, up, calendar, faults>>

\* INSERT ... 'pending'.
Insert(c) ==
    /\ ClientAt(c, "insert")
    /\ \E r \in Runs :
          /\ status[r] = "none"
          /\ OtherActive(r) = {}
          /\ SetStatus(r, "pending")
          /\ trigger' = [trigger EXCEPT ![r] =
                            IF c = Scheduler THEN "schedule" ELSE "api"]
          /\ seen' = [seen EXCEPT ![c] = r]
    /\ At(c, "spawn")
    /\ UNCHANGED <<want, pass, old, aged, worker, lock, up, calendar, faults>>

\* IntegrityError: the unique index finds another active row.
InsertRefused(c) ==
    /\ ClientAt(c, "insert")
    /\ \/ \E r \in Runs : status[r] \in Active
       \/ \A r \in Runs : status[r] # "none"       \* the bound on Runs
    /\ Leave(c)
    /\ UNCHANGED <<rows, aged, worker, lock, up, calendar, faults>>

\* spawn_unified_run starts the daemon thread.
Spawn(c) ==
    /\ ClientAt(c, "spawn")
    /\ GoTo(seen[c], "acquire")
    /\ Leave(c)
    /\ UNCHANGED <<rows, aged, lock, up, calendar, faults>>

\* The handler raises (database error, no thread): its Session closes and the
\* connection's checkin unlocks everything it held.
RequestFails(c) ==
    /\ up /\ req[c] # "idle"
    /\ Fault("request")
    /\ lock' = Unlocked(c)
    /\ Leave(c)
    /\ UNCHANGED <<rows, aged, worker, up, calendar>>

-----------------------------------------------------------------------------
(* The worker thread: execute_unified_run                                    *)

\* acquire_sync_lock, first try on a fresh lock_engine connection.
AcquireLock(r) ==
    /\ WorkerAt(r, "acquire")
    /\ IF lock = Free THEN lock' = r /\ GoTo(r, "claimed")
                      ELSE lock' = lock /\ GoTo(r, "busy")
    /\ UNCHANGED <<rows, aged, clients, up, calendar, faults>>

\* other_active_run(): if none, dispose the main pool and try once more.
BusyCheck(r) ==
    /\ WorkerAt(r, "busy")
    /\ GoTo(r, IF OtherActive(r) # {} THEN "refused" ELSE "retry")
    /\ UNCHANGED <<rows, aged, lock, clients, up, calendar, faults>>

\* dispose_main_pool closes idle pooled connections; one that a request has
\* checked out keeps its lock.
RetryLock(r) ==
    /\ WorkerAt(r, "retry")
    /\ IF lock = Free THEN lock' = r /\ GoTo(r, "claimed")
                      ELSE lock' = lock /\ GoTo(r, "stuck")
    /\ UNCHANGED <<rows, aged, clients, up, calendar, faults>>

\* Not acquired: SYNC_LOCK_BUSY_MSG or SYNC_LOCK_STUCK_MSG.
GiveUp(r) ==
    /\ up /\ worker[r] \in {"refused", "stuck"}
    /\ IF status[r] \in Active THEN SetStatus(r, "failed") ELSE UNCHANGED status
    /\ GoTo(r, "done")
    /\ UNCHANGED <<trigger, aged, lock, clients, up, calendar, faults>>

\* With the lock held a scheduled run burns the day, or fails closed.
MarkFired(r) ==
    /\ WorkerAt(r, "claimed")
    /\ \/ /\ trigger[r] # "schedule"
          /\ GoTo(r, "start")
          /\ UNCHANGED <<status, lastFired, faults>>
       \/ /\ trigger[r] = "schedule"
          /\ lastFired' = today
          /\ GoTo(r, "start")
          /\ UNCHANGED <<status, faults>>
       \/ /\ trigger[r] = "schedule"
          /\ Fault("db")
          /\ SetStatus(r, "failed")
          /\ GoTo(r, "release")
          /\ UNCHANGED lastFired
    /\ UNCHANGED <<trigger, aged, lock, clients, up, today>>

\* Mutated form of Start: the lock is taken on the run's Session, whose commit
\* returns the connection to the pool.
StartOnSession(r) ==
    /\ WorkerAt(r, "start")
    /\ IF OtherActive(r) = {} THEN SetStatus(r, "running") /\ GoTo(r, "check")
                              ELSE UNCHANGED status /\ GoTo(r, "crashed")
    /\ lock' = Unlocked(r)
    /\ UNCHANGED <<trigger, aged, clients, up, calendar, faults>>

\* run.status = running, without a look at the present status; the unique
\* index turns it into an IntegrityError when another row is active.
Start(r) ==
    /\ WorkerAt(r, "start")
    /\ IF OtherActive(r) = {} THEN SetStatus(r, "running") /\ GoTo(r, "check")
                              ELSE UNCHANGED status /\ GoTo(r, "crashed")
    /\ UNCHANGED <<trigger, aged, lock, clients, up, calendar, faults>>

\* db.refresh(run) before each provider, tracker._ensure_active.
Check(r) ==
    /\ WorkerAt(r, "check")
    /\ GoTo(r, IF status[r] \in Active THEN "write" ELSE "aborting")
    /\ UNCHANGED <<rows, aged, lock, clients, up, calendar, faults>>

\* A write of the run (progress, staging, cutover, enrichment); the run goes
\* on, comes to its end, or an exception escapes.
Write(r) ==
    /\ WorkerAt(r, "write")
    /\ \E pc \in {"check", "finish", "crashed"} : GoTo(r, pc)
    /\ UNCHANGED <<rows, aged, lock, clients, up, calendar, faults>>

\* _finish_run: the outcome is written whatever the status is by now.
Finish(r) ==
    /\ WorkerAt(r, "finish")
    /\ \E s \in Terminal : SetStatus(r, s)
    /\ GoTo(r, "log")
    /\ UNCHANGED <<trigger, aged, lock, clients, up, calendar, faults>>

\* log_run after _finish_run, dropped XLSX, debug log.
LogOutcome(r) ==
    /\ WorkerAt(r, "log")
    /\ GoTo(r, "release")
    /\ UNCHANGED <<rows, aged, lock, clients, up, calendar, faults>>

\* except Exception: "Unexpected sync failure", unless that write fails too.
Crashed(r) ==
    /\ WorkerAt(r, "crashed")
    /\ \/ SetStatus(r, "failed") /\ UNCHANGED faults
       \/ Fault("db") /\ UNCHANGED status
    /\ GoTo(r, "release")
    /\ UNCHANGED <<trigger, aged, lock, clients, up, calendar>>

\* except SyncAborted: fail the row unless something else closed it.
Aborting(r) ==
    /\ WorkerAt(r, "aborting")
    /\ \/ /\ IF status[r] \in Active THEN SetStatus(r, "failed")
                                   ELSE UNCHANGED status
          /\ UNCHANGED faults
       \/ Fault("db") /\ UNCHANGED status
    /\ GoTo(r, "release")
    /\ UNCHANGED <<trigger, aged, lock, clients, up, calendar>>

\* Mutated form of Release: lock_conn goes back to its pool still locked.
ReleaseLeaks(r) ==
    /\ WorkerAt(r, "release")
    /\ GoTo(r, "done")
    /\ UNCHANGED <<rows, aged, lock, clients, up, calendar, faults>>

\* finally: unlock (false when the session was lost), close lock_conn.
Release(r) ==
    /\ WorkerAt(r, "release")
    /\ lock' = Unlocked(r)
    /\ GoTo(r, "done")
    /\ UNCHANGED <<rows, aged, clients, up, calendar, faults>>

\* A database error in the worker outside the loop: the generic handler. At
\* "log" it strikes a run whose outcome is already committed.
WorkerDbError(r) ==
    /\ up /\ worker[r] \in {"acquire", "busy", "retry", "refused", "stuck",
                            "claimed", "start", "finish", "log"}
    /\ Fault("db")
    /\ GoTo(r, "crashed")
    /\ UNCHANGED <<rows, aged, lock, clients, up, calendar>>

\* The server drops the session of lock_conn. _lock_conn_keepalive logs the
\* failed ping and returns; the worker goes on.
LoseLock(r) ==
    /\ up /\ lock = r
    /\ Fault("lockloss")
    /\ lock' = Free
    /\ UNCHANGED <<rows, aged, worker, clients, up, calendar>>

-----------------------------------------------------------------------------
(* Time, process crash and boot                                              *)

\* Nobody is going to start the run.
Unstarted(r) ==
    /\ worker[r] \in {"none", "done"}
    /\ \A c \in Clients : ~(req[c] = "spawn" /\ seen[c] = r)

\* The pending row of an unstarted run becomes older than STALE_PENDING_MINUTES.
Age(r) ==
    /\ status[r] = "pending" /\ r \notin aged
    /\ Unstarted(r)
    /\ aged' = aged \cup {r}
    /\ UNCHANGED <<rows, worker, lock, clients, up, calendar, faults>>

\* So does one whose worker has been or is being spawned and has not passed Start.
Linger(r) ==
    /\ status[r] = "pending" /\ r \notin aged
    /\ ~Unstarted(r)
    /\ Fault("slow")
    /\ aged' = aged \cup {r}
    /\ UNCHANGED <<rows, worker, lock, clients, up, calendar>>

Midnight ==
    /\ today < MaxDay
    /\ today' = today + 1
    /\ UNCHANGED <<rows, aged, worker, lock, clients, up, lastFired, faults>>

\* Daemon threads and requests die; the server notices the dead peer later.
Crash ==
    /\ up
    /\ Fault("crash")
    /\ up' = FALSE
    /\ worker' = [r \in Runs |-> IF worker[r] = "none" THEN "none" ELSE "done"]
    /\ req' = [c \in Clients |-> "idle"]
    /\ want' = [c \in Clients |-> "latest"]
    /\ pass' = [c \in Clients |-> "reclaim"]
    /\ seen' = [c \in Clients |-> NoRun]
    /\ old' = [c \in Clients |-> NoRun]
    /\ lock' = IF lock = Free THEN Free ELSE Ghost
    /\ UNCHANGED <<rows, aged, calendar>>

GhostGone ==
    /\ lock = Ghost
    /\ lock' = Free
    /\ UNCHANGED <<rows, aged, worker, clients, up, calendar, faults>>

\* mark_interrupted_runs, before the API and the scheduler are served.
Boot ==
    /\ ~up
    /\ up' = TRUE
    /\ status' = [r \in Runs |-> IF status[r] \in Active THEN "failed" ELSE status[r]]
    /\ UNCHANGED <<trigger, aged, worker, lock, clients, calendar, faults>>

-----------------------------------------------------------------------------
ClientStep(c) ==
    \/ SelectOrphan(c) \/ SelectStale(c) \/ MarkAged(c) \/ TryProbe(c)
    \/ Refresh(c) \/ MarkOrphan(c) \/ UnlockProbe(c) \/ Answer(c)
    \/ Insert(c) \/ InsertRefused(c) \/ Spawn(c)

WorkerStep(r) ==
    \/ AcquireLock(r) \/ BusyCheck(r) \/ RetryLock(r) \/ GiveUp(r)
    \/ MarkFired(r) \/ Start(r) \/ Check(r) \/ Write(r) \/ Finish(r)
    \/ LogOutcome(r) \/ Crashed(r) \/ Aborting(r) \/ Release(r)

Next ==
    \/ \E c \in Clients : Request(c) \/ ClientStep(c) \/ RequestFails(c)
    \/ Tick
    \/ \E r \in Runs : WorkerStep(r) \/ WorkerDbError(r) \/ LoseLock(r)
    \/ \E r \in Runs : Age(r) \/ Linger(r)
    \/ Midnight \/ Crash \/ GhostGone \/ Boot

Spec == Init /\ [][Next]_vars

\* The sync-logs page polls GET /sync/latest; threads, requests, the clock and
\* the restarted process go on; a run has finitely many stages, so a worker
\* that keeps writing comes to the end of its run.
PollLatest(b) == Request(b) /\ want'[b] = "latest"
LastWrite(r)  == Write(r) /\ worker'[r] # "check"

Fairness ==
    /\ \A r \in Runs : WF_vars(WorkerStep(r)) /\ SF_vars(LastWrite(r)) /\ WF_vars(Age(r))
    /\ \A c \in Clients : WF_vars(ClientStep(c))
    /\ \A b \in Browsers : SF_vars(PollLatest(b))
    /\ WF_vars(Boot) /\ WF_vars(GhostGone)

FairSpec == Spec /\ Fairness

-----------------------------------------------------------------------------
(* Properties *)

\* The pcs at which a worker may touch the shared staging and live tables.
Writing == {"check", "write", "finish"}

\* At most one worker is between Start and the end of its run: the staging
\* tables, shared by all runs, have one writer (staging.py).
OneWriter ==
    \A r, q \in Runs : worker[r] \in Writing /\ worker[q] \in Writing => r = q

\* No request, tick or boot closes the row of a run whose worker is still
\* writing: reclaim and age-out hit dead workers only.
NoLiveRunClosed ==
    \A r \in Runs : worker[r] \in Writing => status[r] = "running"

\* A closed row is never reopened and its outcome never rewritten.
OutcomeIsFinal ==
    [][\A r \in Runs : status[r] \in Terminal => status'[r] = status[r]]_vars

\* The engine implements the board of accepted runs.
Board == INSTANCE SyncRunBoard WITH
             writers <- {r \in Runs : worker[r] \in Writing}
ImplementsBoard == Board!BSpec

\* Every run that was accepted is closed, whatever happened to its worker.
EveryRunCloses ==
    \A r \in Runs : status[r] \in Active ~> status[r] \in Terminal

\* The advisory lock is never lost to the system: whoever holds it, it is free
\* again some time later.
LockComesFree == lock # Free ~> lock = Free
=============================================================================
