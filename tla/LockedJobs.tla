------------------------------ MODULE LockedJobs ------------------------------
(***************************************************************************)
(* The background jobs of the two providers that stand outside the unified *)
(* sync: modules/twilio/runner.py and numbers_runner.py (countries and     *)
(* numbers jobs under one advisory lock) and modules/didww/runner.py.  All *)
(* share one skeleton: a request creates a pending row and starts a        *)
(* thread; the thread takes the lock on a session of its own or fails the  *)
(* row, works, pings the session before it replaces the catalogue, and     *)
(* writes its outcome before it unlocks.                                   *)
(*                                                                         *)
(* The Twilio family adds heartbeats, a reclaim of orphaned rows on every  *)
(* poll, a wipe, the reacquisition of a lost lock and a respawn at boot;   *)
(* DIDWW has none of these.  `env` picks the family, the request threads   *)
(* and the faults of a behaviour, and never changes.                       *)
(***************************************************************************)
EXTENDS Naturals, FiniteSets

CONSTANTS
  MaxJobs,       \* bound on the sync_jobs rows
  Workers,       \* job threads; a thread is used once
  Environments,  \* [family, clients, asks, workers, budget: a bound per kind of fault]
  Free, Ghost    \* the lock when nobody, or a dead process, holds it

FaultKinds == {"loss", "late", "crash", "dberr"}
AllClients == UNION {e.clients : e \in Environments}
Jobs == 1..MaxJobs

ASSUME BoundAssumption == MaxJobs \in Nat \ {0} /\ Free # Ghost /\ {Free, Ghost} \cap Workers = {}
ASSUME EnvironmentAssumption == \A e \in Environments :
  /\ e.family \in {"twilio", "didww"}
  /\ e.asks \subseteq IF e.family = "twilio" THEN {"countries", "numbers", "poll", "wipe"} ELSE {"groups"}
  /\ e.workers \subseteq Workers
  /\ e.clients \cap (Workers \cup {Free, Ghost}) = {}
  /\ e.budget \in [FaultKinds -> Nat]

VARIABLES
  env,      \* the family, its request threads, its faults
  jobs,     \* sync_jobs: kind, status, heartbeat, age of a pending row
  row,      \* a catalogue row: absent, idle, interrupted or loaded
  lock,     \* the advisory lock: free, a worker, a client, or a dead process
  workers,  \* threads of _execute and _execute_numbers
  clients,  \* request threads
  budget    \* faults still to come

vars == <<env, jobs, row, lock, workers, clients, budget>>

Twilio == env.family = "twilio"
Kinds == IF Twilio THEN {"countries", "numbers"} ELSE {"groups"}
Active == {"pending", "running"}
NoJob == [kind |-> "none", status |-> "none", beat |-> "none", aged |-> FALSE]
IdleWorker == [pc |-> "idle", job |-> 0, dead |-> FALSE, gaveUp |-> FALSE]
DoneWorker == [IdleWorker EXCEPT !.pc = "done"]
IdleClient == [pc |-> "idle", asks |-> "none", seen |-> {}]

Init ==
  /\ env \in Environments
  /\ jobs = [j \in Jobs |-> NoJob]
  /\ row \in IF env.family = "twilio" THEN {"absent", "idle"} ELSE {"idle"}
  /\ lock = Free
  /\ workers = [w \in Workers |-> IdleWorker]
  /\ clients = [c \in AllClients |-> IdleClient]
  /\ budget = env.budget

ActiveJobs == {j \in Jobs : jobs[j].status \in Active}
At(w, pc) == workers[w].pc = pc
Goto(w, pc) == workers' = [workers EXCEPT ![w].pc = pc]
Asks(c, pc) == clients[c].pc = pc
Move(c, pc) == clients' = [clients EXCEPT ![c].pc = pc]
Fault(k) == budget[k] > 0 /\ budget' = [budget EXCEPT ![k] = @ - 1]

-----------------------------------------------------------------------------
(* Requests.                                                               *)

\* _should_reclaim_job, of a row as it was read.
ShouldReclaim(job) ==
  /\ job.beat # "fresh"
  /\ job.status = "running" \/ job.aged

\* create_didww_job refuses while a row is active, and asks nothing else.
DidwwBusy == ActiveJobs # {}

\* A request enters the handler.  A Twilio one first lists the active jobs,
\* with their heartbeats, to reclaim orphans; a wipe first takes the lock.
Enter(c, asks) ==
  /\ c \in env.clients /\ Asks(c, "idle")
  /\ asks \in env.asks
  /\ clients' = [clients EXCEPT ![c] =
       [pc   |-> IF ~Twilio THEN "insert"
                 ELSE IF asks = "wipe" THEN "wipe"
                 ELSE IF ActiveJobs = {} THEN "listed" ELSE "probe",
        asks |-> asks,
        seen |-> IF Twilio THEN {j \in ActiveJobs : ShouldReclaim(jobs[j])} ELSE {}]]
  /\ Twilio \/ ~DidwwBusy
  /\ UNCHANGED <<env, jobs, row, lock, workers, budget>>

\* twilio_lock_is_free tries the lock on a session of its own and gives it
\* back: for the moment the probe holds it, and a worker that tries fails.
Probe(c) ==
  /\ Asks(c, "probe")
  /\ \/ lock = Free /\ lock' = c /\ Move(c, "probed")
     \/ lock # Free /\ UNCHANGED lock /\ Move(c, "listed")
  /\ UNCHANGED <<env, jobs, row, workers, budget>>

Unprobe(c) ==
  /\ Asks(c, "probed")
  /\ lock' = Free /\ Move(c, "mark")
  /\ UNCHANGED <<env, jobs, row, workers, budget>>

\* The heartbeat and the age of a closed row are not read again.
Ended(job, s) == [NoJob EXCEPT !.kind = job.kind, !.status = s]
Closed(J) == [j \in Jobs |-> IF j \in J THEN Ended(jobs[j], "failed") ELSE jobs[j]]

\* The rows are failed as they were listed, whatever they have become.
Mark(c) ==
  /\ Asks(c, "mark")
  /\ jobs' = Closed(clients[c].seen)
  /\ Move(c, "listed")
  /\ UNCHANGED <<env, row, lock, workers, budget>>

\* A poll answers; a countries job is refused while a row's ingest is open, a
\* numbers job when there is no catalogue.
Answer(c) ==
  /\ Asks(c, "listed")
  /\ LET refused == \/ clients[c].asks = "poll"
                    \/ clients[c].asks = "countries" /\ row = "interrupted"
                    \/ clients[c].asks = "numbers" /\ row = "absent"
     IN clients' = [clients EXCEPT ![c] = IF refused THEN IdleClient ELSE [@ EXCEPT !.pc = "busy"]]
  /\ UNCHANGED <<env, jobs, row, lock, workers, budget>>

\* Any active job, or a lock that pg_locks shows as granted, means 409.
BusyCheck(c) ==
  /\ Asks(c, "busy")
  /\ clients' = [clients EXCEPT ![c] =
       IF ActiveJobs # {} \/ lock # Free THEN IdleClient ELSE [@ EXCEPT !.pc = "insert"]]
  /\ UNCHANGED <<env, jobs, row, lock, workers, budget>>

Numbers == {j \in Jobs : jobs[j].kind = "numbers"}
Newest(J) == CHOOSE j \in J : \A k \in J : k <= j

\* find_resumable_numbers_job: the newest job of the row, if it has failed.
Resumable == {j \in Numbers : j = Newest(Numbers) /\ jobs[j].status = "failed"}
NewRows == {j \in Jobs : jobs[j].kind = "none" /\ \A k \in 1..(j - 1) : jobs[k].kind # "none"}
Idle == LET unused == {w \in env.workers : At(w, "idle")}
        IN IF unused = {} THEN {} ELSE {CHOOSE w \in unused : TRUE}

Reopened(j) == [jobs EXCEPT ![j].status = "pending", ![j].beat = "fresh"]
Created(j, kind) == [jobs EXCEPT ![j] = [NoJob EXCEPT !.kind = kind, !.status = "pending"]]
Started(w, j) == [workers EXCEPT ![w] = [IdleWorker EXCEPT !.pc = "start", !.job = j]]

\* create_*_job inserts (no index keeps the rows apart) or reopens the job
\* the row was interrupted in; the handler starts its thread.
Insert(c) ==
  /\ Asks(c, "insert")
  /\ \E w \in Idle :
       \/ /\ clients[c].asks = "numbers" /\ row # "loaded"
          /\ \E j \in Resumable : jobs' = Reopened(j) /\ workers' = Started(w, j)
       \/ /\ ~(clients[c].asks = "numbers" /\ row # "loaded" /\ Resumable # {})
          /\ \E j \in NewRows : jobs' = Created(j, clients[c].asks) /\ workers' = Started(w, j)
  /\ clients' = [clients EXCEPT ![c] = IdleClient]
  /\ UNCHANGED <<env, row, lock, budget>>

\* Between the checks and the insert another request created a job for the
\* row: the second look refuses it (numbers only).
InsertRefused(c) ==
  /\ Asks(c, "insert") /\ clients[c].asks = "numbers" /\ row # "loaded"
  /\ Numbers # {} /\ jobs[Newest(Numbers)].status \in Active
  /\ clients' = [clients EXCEPT ![c] = IdleClient]
  /\ UNCHANGED <<env, jobs, row, lock, workers, budget>>

\* wipe_twilio_locked, under the lock: reclaim whatever is active, delete.
WipeLock(c) ==
  /\ Asks(c, "wipe")
  /\ \/ lock = Free /\ lock' = c /\ Move(c, "wiping")
     \/ lock # Free /\ UNCHANGED lock /\ clients' = [clients EXCEPT ![c] = IdleClient]
  /\ UNCHANGED <<env, jobs, row, workers, budget>>

WipeReclaim(c) ==
  /\ Asks(c, "wiping")
  /\ jobs' = Closed({j \in ActiveJobs : ShouldReclaim(jobs[j])})
  /\ Move(c, "deleting")
  /\ UNCHANGED <<env, row, lock, workers, budget>>

WipeData(c) ==
  /\ Asks(c, "deleting")
  /\ row' = "absent" /\ Move(c, "unlock")
  /\ UNCHANGED <<env, jobs, lock, workers, budget>>

WipeUnlock(c) ==
  /\ Asks(c, "unlock")
  /\ lock' = IF lock = c THEN Free ELSE lock
  /\ clients' = [clients EXCEPT ![c] = IdleClient]
  /\ UNCHANGED <<env, jobs, row, workers, budget>>

-----------------------------------------------------------------------------
(* Worker threads.                                                         *)

Job(w) == jobs[workers[w].job]
Close(w, s) == jobs' = [jobs EXCEPT ![workers[w].job] = Ended(@, s)]
Alive(w) == lock = w

\* mutant: the answer of the try-lock is not looked at
TryLockIgnored(w) ==
  /\ At(w, "start") /\ Goto(w, "check")
  /\ lock' = IF lock = Free THEN w ELSE lock
  /\ UNCHANGED <<env, jobs, row, clients, budget>>

\* try_advisory_lock_conn on the worker's own session.
TryLock(w) ==
  /\ At(w, "start")
  /\ \/ lock = Free /\ lock' = w /\ Goto(w, "check")
     \/ lock # Free /\ UNCHANGED lock /\ Goto(w, "refused")
  /\ UNCHANGED <<env, jobs, row, clients, budget>>

\* "уже выполняется (lock)": Twilio fails a row that is still pending, DIDWW
\* whatever the row is.
Refuse(w) ==
  /\ At(w, "refused")
  /\ IF ~Twilio \/ Job(w).status = "pending" THEN Close(w, "failed") ELSE UNCHANGED jobs
  /\ workers' = [workers EXCEPT ![w] = DoneWorker]
  /\ UNCHANGED <<env, row, lock, clients, budget>>

\* Under the lock: a Twilio job that is no longer pending is left alone, a
\* numbers job whose row is gone fails; otherwise the row is running.
Begin(w) ==
  /\ At(w, "check")
  /\ \/ Twilio /\ Job(w).status # "pending" /\ UNCHANGED jobs /\ Goto(w, "release")
     \/ /\ Twilio => Job(w).status = "pending"
        /\ Job(w).kind = "numbers" /\ row = "absent"
        /\ Close(w, "failed") /\ Goto(w, "release")
     \/ /\ Twilio => Job(w).status = "pending"
        /\ ~(Job(w).kind = "numbers" /\ row = "absent")
        /\ jobs' = [jobs EXCEPT ![workers[w].job].status = "running"] /\ Goto(w, "working")
  /\ UNCHANGED <<env, row, lock, clients, budget>>

\* A batch: rows written live (samples, numbers), the heartbeat with them.
\* The first commit of a numbers row opens its ingest.
Work(w) ==
  /\ At(w, "working")
  /\ jobs' = IF Twilio /\ Job(w).status \in Active
             THEN [jobs EXCEPT ![workers[w].job].beat = "fresh"] ELSE jobs
  /\ row' = IF Job(w).kind = "numbers" /\ row = "idle" THEN "interrupted" ELSE row
  /\ jobs' # jobs \/ row' # row
  /\ UNCHANGED <<env, lock, workers, clients, budget>>

\* A countries or groups job reaches the cutover: the session must answer.
Ping(w) ==
  /\ At(w, "working") /\ Job(w).kind # "numbers"
  /\ Twilio /\ Job(w).status \in Active => Job(w).beat # "none"
  /\ IF workers[w].dead THEN Goto(w, "failing") ELSE Goto(w, "cutover")
  /\ UNCHANGED <<env, jobs, row, lock, clients, budget>>

\* The catalogue and every row's numbers_* fields are replaced in one commit.
Cutover(w) ==
  /\ At(w, "cutover")
  /\ row' = "idle"
  /\ IF Twilio THEN UNCHANGED jobs /\ Goto(w, "finish")
               ELSE Close(w, "success") /\ Goto(w, "release")
  /\ UNCHANGED <<env, lock, clients, budget>>

\* Twilio's outcome is a commit of its own, after that of the data.
Finish(w) ==
  /\ At(w, "finish")
  /\ Close(w, "success") /\ Goto(w, "release")
  /\ UNCHANGED <<env, row, lock, clients, budget>>

\* A numbers job ends its row (nothing asks whether the session is alive).
EndRow(w) ==
  /\ At(w, "working") /\ Job(w).kind = "numbers" /\ row # "idle"
  /\ row' = IF row = "absent" THEN "absent" ELSE "loaded"
  /\ Goto(w, "finish")
  /\ UNCHANGED <<env, jobs, lock, clients, budget>>

\* mutant: the handler forgets the row
FailForgotten(w) ==
  /\ workers[w].pc \in {"working", "failing", "cutover"}
  /\ Goto(w, "release")
  /\ UNCHANGED <<env, jobs, row, lock, clients, budget>>

\* Any exception: rollback, and the row fails whatever it is.  Once the data
\* is committed only the database can still raise one.
Fail(w) ==
  /\ workers[w].pc \in {"working", "failing", "cutover", "finish"}
  /\ IF At(w, "finish") THEN Fault("dberr") ELSE UNCHANGED budget
  /\ Close(w, "failed") /\ Goto(w, "release")
  /\ UNCHANGED <<env, row, lock, clients>>

\* The handler meets a database error of its own: the row stays as it is.
HandlerFails(w) ==
  /\ workers[w].pc \in {"working", "failing", "cutover", "finish", "refused"}
  /\ Fault("dberr") /\ Goto(w, "release")
  /\ UNCHANGED <<env, jobs, row, lock, clients>>

\* mutant: the thread ends without its finally
ReleaseLeaks(w) ==
  /\ At(w, "release")
  /\ workers' = [workers EXCEPT ![w] = DoneWorker]
  /\ UNCHANGED <<env, jobs, row, lock, clients, budget>>

\* finally: unlock, close.
Release(w) ==
  /\ At(w, "release")
  /\ lock' = IF Alive(w) THEN Free ELSE lock
  /\ workers' = [workers EXCEPT ![w] = DoneWorker]
  /\ UNCHANGED <<env, jobs, row, clients, budget>>

\* The session dies under its worker; Postgres frees the lock.
LoseSession(w) ==
  /\ Alive(w) /\ Fault("loss")
  /\ lock' = Free
  /\ workers' = [workers EXCEPT ![w].dead = TRUE]
  /\ UNCHANGED <<env, jobs, row, clients>>

\* _lock_keepalive: Twilio tries once to reacquire, DIDWW gives up; either
\* way the job goes on.
Keepalive(w) ==
  /\ At(w, "working") /\ workers[w].dead /\ ~workers[w].gaveUp
  /\ IF Twilio /\ lock = Free
       THEN lock' = w /\ workers' = [workers EXCEPT ![w].dead = FALSE]
       ELSE UNCHANGED lock /\ workers' = [workers EXCEPT ![w].gaveUp = TRUE]
  /\ UNCHANGED <<env, jobs, row, clients, budget>>

-----------------------------------------------------------------------------
(* Time and restarts.                                                      *)

Attended(j) == \E w \in Workers : workers[w].job = j

\* Five minutes without a heartbeat, or a minute in pending.  A job with a
\* thread gets that old only if the thread is held up.
Old(j) == [jobs EXCEPT ![j].beat = IF @ = "fresh" THEN "old" ELSE @,
                       ![j].aged = jobs[j].status = "pending"]
Unattended(j) ==
  /\ jobs[j].status \in Active /\ ~Attended(j) /\ Old(j) # jobs
  /\ jobs' = Old(j)
  /\ UNCHANGED <<env, row, lock, workers, clients, budget>>
Late(j) ==
  /\ jobs[j].status \in Active /\ Attended(j) /\ Old(j) # jobs
  /\ Fault("late") /\ jobs' = Old(j)
  /\ UNCHANGED <<env, row, lock, workers, clients>>

\* respawn_interrupted_twilio_on_boot: every active job gets a heartbeat; if
\* the lock is free one of them, or the failed job of an interrupted row
\* (unless it failed on authentication), is reopened and started.
Beaten == [j \in Jobs |-> IF j \in ActiveJobs THEN [jobs[j] EXCEPT !.beat = "fresh"] ELSE jobs[j]]
ToRespawn ==
  IF ActiveJobs # {} THEN ActiveJobs ELSE IF row = "interrupted" THEN Resumable ELSE {}

Dead == [w \in Workers |-> IF At(w, "idle") THEN IdleWorker ELSE DoneWorker]

\* The process dies; Postgres may notice its session at once or later; the
\* next process boots before it takes requests.
Restart ==
  /\ Fault("crash")
  /\ clients' = [c \in AllClients |-> IdleClient]
  /\ lock' \in IF lock = Free THEN {Free} ELSE {Free, Ghost}
  /\ \/ /\ Twilio /\ lock' = Free
        /\ \E j \in ToRespawn, w \in Idle :
             /\ jobs' = [Beaten EXCEPT ![j].status = "pending", ![j].beat = "fresh"]
             /\ workers' = [Dead EXCEPT ![w] = [IdleWorker EXCEPT !.pc = "start", !.job = j]]
     \/ /\ ~(Twilio /\ lock' = Free /\ ActiveJobs # {} /\ Idle # {})
        /\ jobs' = IF Twilio THEN Beaten ELSE jobs
        /\ workers' = Dead
  /\ UNCHANGED <<env, row>>

GhostGone ==
  /\ lock = Ghost /\ lock' = Free
  /\ UNCHANGED <<env, jobs, row, workers, clients, budget>>

-----------------------------------------------------------------------------
ClientStep(c) ==
  \/ Probe(c) \/ Unprobe(c) \/ Mark(c) \/ Answer(c) \/ BusyCheck(c)
  \/ Insert(c) \/ InsertRefused(c)
  \/ WipeLock(c) \/ WipeReclaim(c) \/ WipeData(c) \/ WipeUnlock(c)

WorkerStep(w) ==
  \/ TryLock(w) \/ Refuse(w) \/ Begin(w) \/ Work(w) \/ Ping(w) \/ Cutover(w)
  \/ Finish(w) \/ EndRow(w) \/ Fail(w) \/ Release(w)

Next ==
  \/ \E c \in AllClients : ClientStep(c) \/ \E a \in env.asks : Enter(c, a)
  \/ \E w \in Workers :
       WorkerStep(w) \/ HandlerFails(w) \/ LoseSession(w) \/ Keepalive(w)
  \/ \E j \in Jobs : Unattended(j) \/ Late(j)
  \/ Restart \/ GhostGone

\* Threads run; an open page polls every two seconds; time passes; Postgres
\* notices a dead session.
Fairness ==
  /\ \A w \in Workers : WF_vars(WorkerStep(w))
  /\ \A c \in AllClients : WF_vars(ClientStep(c)) /\ WF_vars(Enter(c, "poll"))
  /\ \A j \in Jobs : WF_vars(Unattended(j))
  /\ WF_vars(GhostGone)

Spec == Init /\ [][Next]_vars /\ Fairness

-----------------------------------------------------------------------------
TypeOK ==
  /\ env \in Environments
  /\ jobs \in [Jobs -> [kind : {"none", "countries", "numbers", "groups"},
                        status : {"none", "pending", "running", "success", "failed"},
                        beat : {"none", "fresh", "old"}, aged : BOOLEAN]]
  /\ row \in {"absent", "idle", "interrupted", "loaded"}
  /\ lock \in {Free, Ghost} \cup Workers \cup env.clients
  /\ workers \in [Workers -> [job : 0..MaxJobs, dead : BOOLEAN, gaveUp : BOOLEAN,
       pc : {"idle", "start", "refused", "check", "working", "failing", "cutover",
             "finish", "release", "done"}]]
  /\ clients \in [AllClients -> [asks : {"none", "poll", "wipe", "countries", "numbers", "groups"},
       seen : SUBSET Jobs, pc : {"idle", "listed", "probe", "probed", "mark", "busy",
             "insert", "wipe", "wiping", "deleting", "unlock"}]]
  /\ budget \in [FaultKinds -> Nat]

Writing == {w \in Workers : workers[w].pc \in {"working", "cutover", "finish"}}
Wiping == {c \in AllClients : clients[c].pc \in {"wiping", "deleting"}}
NothingLost == budget["loss"] = env.budget["loss"]

\* As long as no lock session has died, at most one job or wipe writes the
\* provider's tables, whatever two requests, a poll's reclaim, a restart or a
\* late heartbeat do: nothing but the lock keeps two rows of sync_jobs apart.
OneWriter == NothingLost => Cardinality(Writing \cup Wiping) <= 1

\* Every job leaves pending and running in the end: by its thread, by the
\* respawn at boot, or by the reclaim of a poll - except a DIDWW row that was
\* open when the process died or whose outcome the database refused: nothing
\* looks at it again, and it blocks every later DIDWW job.
Orphaned == ~Twilio /\ \E f \in {"crash", "dberr"} : budget[f] < env.budget[f]
EveryJobCloses == \A j \in Jobs :
  (jobs[j].status \in Active) ~> (jobs[j].status \notin Active \/ Orphaned)

\* The lock comes free again, whoever holds it and however it dies.
LockComesFree == (lock # Free) ~> (lock = Free)
===============================================================================
