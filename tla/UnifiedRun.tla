----------------------------- MODULE UnifiedRun ------------------------------
(***************************************************************************)
(* One execution of _execute_unified_run: the stages of a run, the two-step*)
(* progress tracker that records them, and the outcome that is computed    *)
(* from them.  The run may be aborted from outside at any moment: a reclaim*)
(* fails its row and closes its stages while the worker goes on.           *)
(*                                                                         *)
(* Source: src/backend/app/modules/sync_engine/{unified,progress}.py       *)
(*                                                                         *)
(* What precedes (lock, pending row) is SyncLifecycle's; what a provider   *)
(* job does between its stage calls is ProviderSync's.                     *)
(***************************************************************************)
EXTENDS Naturals, Sequences, FiniteSets

CONSTANTS
    Order,         \* PROVIDER_ORDER, a sequence of providers
    Enabled,       \* the providers that are enabled and have their key
    WithDict,      \* the providers with dictionaries
    WithPurchased, \* the providers with purchased numbers
    FreeOnly,      \* the providers synchronised in mode free_only
    FaultKinds,    \* the faults that may happen
    MaxFaults      \* bound: number of faults in a behaviour

N == Len(Order)
Providers == {Order[i] : i \in 1..N}
Phases == {"dictionaries", "free", "purchased"}
TailStages == <<"operator_enrichment", "rtu_flags", "geographic_from_regions", "mask_types">>
AllFaults == {"adapter", "tail", "db", "abort"}

ASSUME OrderAssumption  == /\ N \in Nat /\ \A i, j \in 1..N : Order[i] = Order[j] => i = j
                           /\ WithPurchased \cap FreeOnly = {}
                           /\ WithDict \cap FreeOnly = {}
                           /\ "run" \notin Providers
ASSUME FaultsAssumption == FaultKinds \subseteq AllFaults /\ MaxFaults \in Nat

\* STAGE_DEFS: the stages of the providers and those of the run itself.
RunStage(x) == <<"run", x>>
Stages == (Providers \X Phases)
          \cup {RunStage(x) : x \in {"prepare", "finalize", "catalog_snapshot"}}
          \cup {RunStage(TailStages[t]) : t \in 1..Len(TailStages)}
Open   == {"pending", "running"}
Closed == {"done", "skipped", "failed"}
Active == {"pending", "running"}

VARIABLES
    status,  \* sync_runs.status
    stages,  \* sync_runs.progress: [Stages -> status]
    pos,     \* where the worker is: [at, i, ph]
    call,    \* where it goes after the tracker call under way, or NoCall
    seen,    \* the progress the call read, with its change applied
    fatal,   \* the present provider's job has failed
    oks,     \* provider_ok: the providers that succeeded
    fails,   \* provider_failures
    silent,  \* history: the providers whose job failed with no stage to show it
    muted,   \* history: the providers whose job's verdict "failed" was lost
    outcome, \* the status computed for the run
    late,    \* history: adapter fetches begun after the run was closed
    faults

locals == <<fatal, oks, fails, silent, muted, outcome>>
vars == <<status, stages, pos, call, seen, locals, late, faults>>

Ats == {"prepare", "connections", "provider", "disabled", "job", "phase", "work",
        "commit", "remaining", "pendings", "finalize", "report", "tail", "tailwork", "outcome",
        "snapshot", "scheduling", "finish", "log", "aborting", "crashed", "exited"}
Outcomes == {"success", "partial", "failed"}
Places == [at : Ats, i : 1..(N + Len(TailStages) + 1), ph : Phases]
At(l) == [at |-> l, i |-> 1, ph |-> "dictionaries"]
NoCall == At("exited")

TypeOK ==
    /\ status \in Active \cup Outcomes
    /\ stages \in [Stages -> Open \cup Closed]
    /\ pos \in Places /\ call \in Places
    /\ seen \in [Stages -> Open \cup Closed]
    /\ fatal \in BOOLEAN
    /\ oks \subseteq Providers /\ fails \subseteq Providers
    /\ silent \subseteq Providers /\ muted \subseteq Providers
    /\ outcome \in Outcomes
    /\ late \in Nat
    /\ faults \in 0..MaxFaults

\* The worker has the lock and has set the row to running.
Init ==
    /\ status = "running"
    /\ stages = [s \in Stages |-> "pending"]
    /\ pos = At("prepare")
    /\ call = NoCall
    /\ seen = stages
    /\ fatal = FALSE /\ oks = {} /\ fails = {} /\ silent = {} /\ muted = {}
    /\ outcome = "failed"
    /\ late = 0 /\ faults = 0

-----------------------------------------------------------------------------
(* Helpers *)

Is(l) == pos.at = l /\ call = NoCall
Goto(p) == pos' = p
To(l) == Goto([pos EXCEPT !.at = l])
Fault(k) == k \in FaultKinds /\ faults < MaxFaults /\ faults' = faults + 1
Prov == Order[pos.i]
Mine(ph) == <<Prov, ph>>

\* Mutated form of Track: the status is not looked at.
TrackUnchecked(s, to, next) ==
    /\ seen' = [stages EXCEPT ![s] = to]
    /\ call' = next
    /\ UNCHANGED <<status, stages, pos, late>>

\* A tracker call reads the row, finds it active and changes its copy ...
Track(s, to, next) ==
    /\ status \in Active
    /\ seen' = [stages EXCEPT ![s] = to]
    /\ call' = next
    /\ UNCHANGED <<status, stages, pos, late>>

\* ... and then writes the whole progress back. What was begun is now done:
\* an adapter is asked, or a tail step runs.
Save ==
    /\ call # NoCall
    /\ stages' = seen
    /\ Goto(call)
    /\ call' = NoCall
    /\ late' = IF call.at \in {"work", "tailwork"} /\ status \notin Active
               THEN late + 1 ELSE late
    /\ UNCHANGED <<status, seen, locals, faults>>

\* Local steps between tracker calls.
Quiet == UNCHANGED <<status, stages, call, seen, late>>

\* _ensure_active raises SyncAborted. Inside a provider job it is swallowed
\* by run_job_async and fails the job; elsewhere it ends the worker.
TrackerRaises ==
    /\ pos.at \in {"prepare", "connections", "disabled", "job", "phase", "work", "finalize",
                   "report", "tail", "tailwork", "snapshot", "scheduling"}
    /\ call = NoCall /\ status \notin Active
    /\ IF pos.at \in {"phase", "work"}
       THEN fatal' = TRUE /\ To("remaining")
       ELSE To("aborting") /\ UNCHANGED fatal
    /\ Quiet
    /\ UNCHANGED <<oks, fails, silent, muted, outcome, faults>>

-----------------------------------------------------------------------------
(* prepare *)

Prepare ==
    /\ Is("prepare")
    /\ Track(RunStage("prepare"), "running", At("connections"))
    /\ UNCHANGED <<locals, faults>>

\* All the providers of PROVIDER_ORDER are in the database.
Prepared ==
    /\ Is("connections")
    /\ Track(RunStage("prepare"), "done", At("provider"))
    /\ UNCHANGED <<locals, faults>>

-----------------------------------------------------------------------------
(* The loop over PROVIDER_ORDER *)

NextProvider == [at |-> "provider", i |-> pos.i + 1, ph |-> "dictionaries"]

\* db.refresh(run): a closed run is not continued.
CheckActive ==
    /\ Is("provider")
    /\ To(IF status \notin Active THEN "aborting"
          ELSE IF pos.i > N THEN "finalize"
          ELSE IF Prov \in Enabled THEN "job" ELSE "disabled")
    /\ Quiet /\ UNCHANGED <<locals, faults>>

\* A provider that is disabled or has no key: its stages are skipped.
SkipDisabled ==
    /\ Is("disabled")
    /\ LET rest == {x \in Phases : stages[Mine(x)] = "pending"} IN
       \/ \E ph \in rest : Track(Mine(ph), "skipped", pos)
       \/ rest = {} /\ Goto(NextProvider) /\ Quiet
    /\ UNCHANGED <<locals, faults>>

\* Mutated form of StartJob: the verdict on the provider before is kept.
StartJobStale ==
    /\ Is("job")
    /\ LET first == [pos EXCEPT !.at = "phase",
                                !.ph = IF Prov \in FreeOnly THEN "free" ELSE "dictionaries"] IN
       IF Prov \in WithPurchased
       THEN Goto(first) /\ Quiet
       ELSE Track(Mine("purchased"), "skipped", first)
    /\ UNCHANGED <<locals, faults>>

\* _sync_provider: the purchased stage of a provider without it is skipped
\* before the job is created.
StartJob ==
    /\ Is("job")
    /\ LET first == [pos EXCEPT !.at = "phase",
                                !.ph = IF Prov \in FreeOnly THEN "free" ELSE "dictionaries"] IN
       IF Prov \in WithPurchased
       THEN Goto(first) /\ Quiet
       ELSE Track(Mine("purchased"), "skipped", first)
    /\ fatal' = FALSE
    /\ UNCHANGED <<oks, fails, silent, muted, outcome, faults>>

-----------------------------------------------------------------------------
(* The phases of a provider job, as its phase_hook reports them *)

Supported(ph) == CASE ph = "dictionaries" -> Prov \in WithDict
                   [] ph = "purchased"    -> Prov \in WithPurchased
                   [] OTHER               -> TRUE

\* Where the job goes after a phase.
AfterPhase ==
    CASE pos.ph = "dictionaries" -> [pos EXCEPT !.at = "phase", !.ph = "free"]
      [] pos.ph = "free" /\ Prov \notin FreeOnly
                                 -> [pos EXCEPT !.at = "phase", !.ph = "purchased"]
      [] OTHER                   -> [pos EXCEPT !.at = "commit"]

BeginPhase ==
    /\ Is("phase") /\ Supported(pos.ph)
    /\ Track(Mine(pos.ph), "running", [pos EXCEPT !.at = "work"])
    /\ UNCHANGED <<locals, faults>>

SkipPhase ==
    /\ Is("phase") /\ ~Supported(pos.ph)
    /\ Track(Mine(pos.ph), "skipped", AfterPhase)
    /\ UNCHANGED <<locals, faults>>

\* The adapter is asked: the numbers come and the slice is replaced.
EndPhase ==
    /\ Is("work")
    /\ Track(Mine(pos.ph), "done", AfterPhase)
    /\ UNCHANGED <<locals, faults>>

\* Dictionaries that cannot be fetched end the job, a refused free inventory
\* does not keep the purchased one from being tried.
FailPhase ==
    /\ Is("work") /\ Fault("adapter")
    /\ fatal' = TRUE
    /\ Track(Mine(pos.ph), "failed",
             IF pos.ph = "dictionaries" THEN [pos EXCEPT !.at = "commit"] ELSE AfterPhase)
    /\ UNCHANGED <<oks, fails, silent, muted, outcome>>

\* run_job_async sets the verdict and its finally commits it; _sync_provider
\* looks whether it is "failed".
CommitJob ==
    /\ Is("commit")
    /\ To(IF fatal THEN "remaining" ELSE "pendings")
    /\ Quiet /\ UNCHANGED <<locals, faults>>

\* The commit in that finally fails and is swallowed: the rollback takes the
\* verdict with it, the job comes back as running, and only "failed" is
\* looked for. The provider is taken for one that succeeded.
CommitLost ==
    /\ Is("commit") /\ Fault("db")
    /\ To("pendings")
    /\ muted' = IF fatal THEN muted \cup {Prov} ELSE muted
    /\ Quiet /\ UNCHANGED <<fatal, oks, fails, silent, outcome>>

\* Every stage of the provider has ended well: none is left to show a failure.
NothingToShow == \A ph \in Phases : stages[Mine(ph)] \in {"done", "skipped"}

\* An exception in the job, also while a tracker call is saved: run_job_async
\* or _sync_provider fails it.
RaisePhase ==
    /\ pos.at \in {"phase", "work", "commit"}
    /\ Fault("db") \/ (pos.at # "commit" /\ Fault("adapter"))
    /\ fatal' = TRUE /\ To("remaining")
    /\ silent' = IF NothingToShow THEN silent \cup {Prov} ELSE silent
    /\ call' = NoCall
    /\ UNCHANGED <<status, stages, seen, late, oks, fails, muted, outcome>>

\* Mutated form of Remaining: only the stages that were never begun.
RemainingPending == {ph \in Phases : stages[Mine(ph)] = "pending"}

\* _fail_remaining_provider_stages: one tracker call per open stage.
Remaining == {ph \in Phases : stages[Mine(ph)] \in Open}

JobFailed ==
    /\ Is("remaining")
    /\ \/ \E ph \in Remaining : Track(Mine(ph), "failed", pos) /\ UNCHANGED fails
       \/ /\ Remaining = {}
          /\ fails' = fails \cup {Prov} /\ Goto(NextProvider) /\ Quiet
    /\ UNCHANGED <<fatal, oks, silent, muted, outcome, faults>>

\* An open stage is found and the tracker refuses to close it.
JobFailedAborted ==
    /\ Is("remaining")
    /\ Remaining # {} /\ status \notin Active
    /\ To("aborting")
    /\ Quiet /\ UNCHANGED <<locals, faults>>

\* _skip_pending_dict_purchased: the mode never opened them.
Pendings == {ph \in Phases \ {"free"} : stages[Mine(ph)] = "pending"}

JobSucceeded ==
    /\ Is("pendings")
    /\ \/ \E ph \in Pendings : Track(Mine(ph), "skipped", pos) /\ UNCHANGED oks
       \/ /\ Pendings = {}
          /\ oks' = oks \cup {Prov} /\ Goto(NextProvider) /\ Quiet
    /\ UNCHANGED <<fatal, fails, silent, muted, outcome, faults>>

JobSucceededAborted ==
    /\ Is("pendings")
    /\ Pendings # {} /\ status \notin Active
    /\ To("aborting")
    /\ Quiet /\ UNCHANGED <<locals, faults>>

-----------------------------------------------------------------------------
(* finalize and the tail stages *)

BeginFinalize ==
    /\ Is("finalize")
    /\ Track(RunStage("finalize"), "running", At("report"))
    /\ UNCHANGED <<locals, faults>>

\* run.stats is written, then the stage ends.
EndFinalize ==
    /\ Is("report")
    /\ Track(RunStage("finalize"), "done", At("tail"))
    /\ UNCHANGED <<locals, faults>>

TailStage == RunStage(TailStages[pos.i])
NextTail == IF pos.i = Len(TailStages) THEN At("outcome") ELSE [At("tail") EXCEPT !.i = pos.i + 1]

BeginTail ==
    /\ Is("tail")
    /\ Track(TailStage, "running", [pos EXCEPT !.at = "tailwork"])
    /\ UNCHANGED <<locals, faults>>

\* The RTU flags are not applied again when REG left no keys.
SkipTail ==
    /\ Is("tail") /\ TailStages[pos.i] = "rtu_flags"
    /\ Track(TailStage, "skipped", NextTail)
    /\ UNCHANGED <<locals, faults>>

EndTail ==
    /\ Is("tailwork")
    /\ Track(TailStage, "done", NextTail)
    /\ UNCHANGED <<locals, faults>>

\* A tail step fails; the run goes on.
FailTail ==
    /\ Is("tailwork") /\ Fault("tail")
    /\ Track(TailStage, "failed", NextTail)
    /\ UNCHANGED locals

-----------------------------------------------------------------------------
(* The outcome *)

TailFailed == \E t \in 1..Len(TailStages) : stages[RunStage(TailStages[t])] = "failed"

\* Mutated form: the tail stages are not looked at.
ComputedOfProviders ==
    IF fails # {} THEN IF oks = {} THEN "failed" ELSE "partial"
    ELSE "success"

Computed ==
    IF fails # {} THEN IF oks = {} THEN "failed" ELSE "partial"
    ELSE IF TailFailed THEN "partial" ELSE "success"

ComputeOutcome ==
    /\ Is("outcome")
    /\ outcome' = Computed
    /\ To("snapshot")
    /\ Quiet /\ UNCHANGED <<fatal, oks, fails, silent, muted, faults>>

\* Is the snapshot of the catalog to be rebuilt?
Schedule == outcome \in {"success", "partial"} /\ oks # {}

SkipSnapshot ==
    /\ Is("snapshot") /\ ~Schedule
    /\ Track(RunStage("catalog_snapshot"), "skipped", At("finish"))
    /\ UNCHANGED <<locals, faults>>

BeginSnapshot ==
    /\ Is("snapshot") /\ Schedule
    /\ Track(RunStage("catalog_snapshot"), "running", At("scheduling"))
    /\ UNCHANGED <<locals, faults>>

EndSnapshot ==
    /\ Is("scheduling")
    /\ Track(RunStage("catalog_snapshot"), "done", At("finish"))
    /\ UNCHANGED <<locals, faults>>

FailSnapshot ==
    /\ Is("scheduling") /\ Fault("tail")
    /\ Track(RunStage("catalog_snapshot"), "failed", At("finish"))
    /\ UNCHANGED locals

\* _finish_run writes the outcome over whatever the row says.
Finish ==
    /\ Is("finish")
    /\ status' = IF outcome = "success" /\ stages[RunStage("catalog_snapshot")] = "failed"
                 THEN "partial" ELSE outcome
    /\ To("log")
    /\ UNCHANGED <<stages, call, seen, locals, late, faults>>

\* The last log line.
LogOutcome ==
    /\ Is("log")
    /\ To("exited")
    /\ Quiet /\ UNCHANGED <<locals, faults>>

-----------------------------------------------------------------------------
(* Exceptions, and the outside *)

\* finalize_progress_on_abort
Aborted(st) == [s \in Stages |-> CASE st[s] = "running" -> "failed"
                                   [] st[s] = "pending" -> "skipped"
                                   [] OTHER -> st[s]]

\* except SyncAborted: a row that is still active is failed.
HandleAbort ==
    /\ Is("aborting")
    /\ IF status \in Active THEN status' = "failed" /\ stages' = Aborted(stages)
                            ELSE UNCHANGED <<status, stages>>
    /\ To("exited")
    /\ UNCHANGED <<call, seen, locals, late, faults>>

\* A database error outside a provider job, also while a tracker call is
\* saved; in a job it is RaisePhase.
DbError ==
    /\ pos.at \notin {"phase", "work", "commit", "aborting", "crashed", "exited"}
    /\ Fault("db")
    /\ To("crashed")
    /\ call' = NoCall
    /\ UNCHANGED <<status, stages, seen, locals, late>>

\* except Exception: the row is failed, its stages stay as they are.
HandleCrash ==
    /\ Is("crashed")
    /\ status' = "failed"
    /\ To("exited")
    /\ UNCHANGED <<stages, call, seen, locals, late, faults>>

\* reclaim_orphaned_running_runs or mark_stale_runs of a request, in one
\* transaction: the worker is not stopped.
Abort ==
    /\ pos.at # "exited" /\ status \in Active
    /\ Fault("abort")
    /\ status' = "failed" /\ stages' = Aborted(stages)
    /\ UNCHANGED <<pos, call, seen, locals, late>>

Next ==
    \/ Save \/ TrackerRaises
    \/ Prepare \/ Prepared \/ CheckActive \/ SkipDisabled \/ StartJob
    \/ BeginPhase \/ SkipPhase \/ EndPhase \/ FailPhase \/ CommitJob \/ CommitLost
    \/ RaisePhase
    \/ JobFailed \/ JobFailedAborted \/ JobSucceeded \/ JobSucceededAborted
    \/ BeginFinalize \/ EndFinalize \/ BeginTail \/ SkipTail \/ EndTail \/ FailTail
    \/ ComputeOutcome \/ SkipSnapshot \/ BeginSnapshot \/ EndSnapshot \/ FailSnapshot
    \/ Finish \/ LogOutcome \/ HandleAbort \/ DbError \/ HandleCrash \/ Abort

Spec == Init /\ [][Next]_vars

-----------------------------------------------------------------------------
(* Properties *)

\* The order of STAGE_DEFS.
Rank(s) ==
    IF s[1] \in Providers
    THEN 4 * (CHOOSE i \in 1..N : Order[i] = s[1])
         + (CASE s[2] = "dictionaries" -> 1 [] s[2] = "free" -> 2 [] OTHER -> 3)
    ELSE CASE s[2] = "prepare" -> 0
           [] s[2] = "finalize" -> 4 * N + 4
           [] s[2] = "catalog_snapshot" -> 4 * N + 9
           [] OTHER -> 4 * N + 4 + (CHOOSE t \in 1..Len(TailStages) : TailStages[t] = s[2])

\* The free stage of a provider whose dictionaries failed and whose verdict
\* was lost: nothing closes it.
Gap(s) == s[2] = "free" /\ s[1] \in muted /\ stages[s] = "pending"

\* What the progress shows is where the run is: when a stage is running, every
\* stage before it is closed - also after a provider has failed in any way,
\* but for the free stage of a job that ended at its dictionaries and whose
\* verdict was lost.
ProgressInOrder ==
    \A s \in Stages : stages[s] = "running" =>
        \A r \in Stages : Rank(r) < Rank(s) =>
            stages[r] \in Closed \/ (r[1] = s[1] /\ r[1] \in FreeOnly) \/ Gap(r)

\* The outcome of a run is what its stages show: nothing is left open but such
\* a gap, and success means that no stage failed and no provider failed
\* without one to show - save the providers whose verdict was lost, whose
\* failure the outcome does not count.
OutcomeMatchesStages ==
    status \in {"success", "partial"} =>
        /\ \A s \in Stages : stages[s] \in Closed \/ Gap(s)
        /\ status = "success" <=>
               silent = {} /\ \A s \in Stages : stages[s] = "failed" => s[1] \in muted

\* Every enabled provider is accounted for when the outcome is computed, as
\* succeeded or as failed, and the stages say which: one that succeeded has
\* none that failed, one that failed has one, unless its job raised when all
\* its stages had ended well.  A failed job is taken for a success only when
\* its verdict was lost, and then a stage still shows it.
ProvidersAccounted ==
    pos.at \in {"outcome", "snapshot", "scheduling", "finish"} =>
        /\ oks \cup fails = Providers \cap Enabled
        /\ oks \cap fails = {} /\ muted \subseteq oks
        /\ \A p \in oks \ muted, ph \in Phases : stages[<<p, ph>>] \in {"done", "skipped"}
        /\ \A p \in (fails \ silent) \cup muted : \E ph \in Phases : stages[<<p, ph>>] = "failed"

\* Cooperative cancellation: after the row was closed under the worker, at
\* most the one fetch or tail step whose stage was being opened is begun.
OneLateStep == late <= 1
=============================================================================
