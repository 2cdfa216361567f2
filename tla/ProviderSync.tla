---------------------------- MODULE ProviderSync -----------------------------
(***************************************************************************)
(* One provider's job inside a unified run: _sync_provider creates it,     *)
(* SyncService.run_job_async fetches dictionaries, free and purchased      *)
(* numbers, decides slice by slice whether to replace the catalog, persists*)
(* through staging (StagingCutover), reports every phase as a stage of the *)
(* run, and the outcome comes back as "ok" or "failed".  Jobs follow each  *)
(* other; each stands for one provider of one run.                         *)
(*                                                                         *)
(* Source: src/backend/app/modules/sync_engine/{service,unified,safety}.py *)
(*                                                                         *)
(* A tracker call is one step here (UnifiedRun splits it). No adapter in  *)
(* the repository returns limitations for a capability it supports, so the *)
(* "limited" branches of _execute are left out.                            *)
(***************************************************************************)
EXTENDS StagingCutover

CONSTANTS
    Providers,   \* the providers of PROVIDER_ORDER
    Shape,       \* [Providers -> Shapes]: what capabilities() and the code say
    FaultKinds,  \* the faults that may happen, a subset of AllFaults
    MaxFaults,   \* bound: number of faults in a behaviour
    MaxJobs      \* bound: number of jobs in a behaviour

\* full: sipout, runexis; nodict: uis, novofon; freedict: exolve, voximplant,
\* mcn; freeonly: aurora (mode free_only); reg: finenumbers, whose purchased
\* slice comes from REG and has no raw table.
Shapes == {"full", "nodict", "freedict", "freeonly", "reg"}
Two    == {"full", "nodict", "reg"}    \* with purchased numbers
Kinds  == {"free", "purchased"}
Phases == Kinds \cup {"dictionaries"}
AllFaults == {"adapter", "db", "abort", "crash"}

ASSUME ShapeAssumption  == /\ Providers # {}
                           /\ Shape \in [Providers -> Shapes]
                           /\ Slices = {s \in Providers \X Kinds :
                                          s[2] = "free" \/ Shape[s[1]] \in Two}
                           /\ RawSlices = {s \in Slices : Shape[s[1]] # "reg"}
ASSUME FaultsAssumption == FaultKinds \subseteq AllFaults /\ MaxFaults \in Nat
ASSUME JobsAssumption   == MaxJobs \in Nat

FreeOnly(p)      == Shape[p] = "freeonly"
HasDict(p)       == Shape[p] \in {"full", "freedict"}
HasPurchased(p)  == Shape[p] \in Two

VARIABLES
    pc,        \* where the job is
    prov,      \* its provider
    kind,      \* the inventory kind being synchronised
    stage,     \* [Phases -> status]: the provider's stages in run.progress
    aborted,   \* the run was failed from outside, its open stages closed
    fatal,     \* stats["_fatal_error"]
    freeFlag,  \* stats["_free_cutover_committed"]
    split,     \* stats["inventory_split"]
    status,    \* job.status as committed; "raised" is "failed" by an exception
    reported,  \* is the provider in inventory_split_providers
    ok,        \* what _sync_provider returned or raised
    asked,     \* history: the kinds whose adapter method was called
    fetched,   \* history: [Kinds -> rows]: the deduplicated rows fetched
    cut,       \* history: the kinds whose cutover was committed
    jobs, faults

stats == <<fatal, freeFlag, split>>
result == <<status, reported, ok>>
history == <<asked, fetched, cut>>
control == <<pc, prov, kind, stage, aborted, stats, result, history, jobs, faults>>
vars == <<svars, control>>

Pcs == {"idle", "begin", "dict", "dictfetch", "free", "fetch", "persist", "cutover",
        "recorded", "purchased", "finish", "except", "escape", "return", "returned"}
Statuses == {"running", "success", "failed", "raised"}
Oks == {"none", "ok", "failed", "aborted", "crashed"}
Open == {"pending", "running"}
Closed == {"done", "skipped", "failed"}

TypeOK ==
    /\ StagingTypeOK
    /\ pc \in Pcs /\ prov \in Providers /\ kind \in Kinds
    /\ stage \in [Phases -> Open \cup Closed]
    /\ {aborted, fatal, freeFlag, split, reported} \subseteq BOOLEAN
    /\ status \in Statuses /\ ok \in Oks
    /\ asked \subseteq Kinds /\ cut \subseteq Kinds
    /\ fetched \in [Kinds -> SUBSET AllRows]
    /\ jobs \in 0..MaxJobs /\ faults \in 0..MaxFaults

Fresh ==
    /\ stage = [ph \in Phases |-> "pending"]
    /\ kind = "free"
    /\ aborted = FALSE /\ fatal = FALSE /\ freeFlag = FALSE /\ split = FALSE
    /\ status = "running" /\ reported = FALSE /\ ok = "none"
    /\ asked = {} /\ cut = {} /\ fetched = [k \in Kinds |-> {}]

Init ==
    /\ StagingInit
    /\ pc = "idle"
    /\ prov = (CHOOSE p \in Providers : TRUE)
    /\ Fresh
    /\ jobs = 0 /\ faults = 0

-----------------------------------------------------------------------------
(* Helpers *)
At(l) == pc = l
To(l) == pc' = l
Fault(k) == k \in FaultKinds /\ faults < MaxFaults /\ faults' = faults + 1

\* A call of the progress tracker: _ensure_active lets it through.
Mark(ph, s) == ~aborted /\ stage' = [stage EXCEPT ![ph] = s]

\* Where _execute goes after a kind is settled.
After(k) == IF k = "free" THEN "purchased" ELSE "finish"

-----------------------------------------------------------------------------
(* _sync_provider starts a job *)
Start ==
    /\ pc \in {"idle", "returned"}
    /\ jobs < MaxJobs /\ jobs' = jobs + 1
    /\ \E p \in Providers :
          /\ prov' = p
          /\ stage' = [ph \in Phases |-> IF ph = "purchased" /\ ~HasPurchased(p)
                                         THEN "skipped" ELSE "pending"]
    /\ To("begin") /\ kind' = "free"
    /\ aborted' = FALSE /\ fatal' = FALSE /\ freeFlag' = FALSE /\ split' = FALSE
    /\ status' = "running" /\ reported' = FALSE /\ ok' = "none"
    /\ asked' = {} /\ cut' = {} /\ fetched' = [k \in Kinds |-> {}]
    /\ UNCHANGED <<svars, faults>>

\* run_job_async enters _execute; mode free_only goes straight to free.
Enter ==
    /\ At("begin")
    /\ To(IF FreeOnly(prov) THEN "free" ELSE "dict")
    /\ UNCHANGED <<svars, prov, kind, stage, aborted, stats, result, history, jobs, faults>>

-----------------------------------------------------------------------------
(* _execute: dictionaries *)
SkipDictionaries ==
    /\ At("dict") /\ ~HasDict(prov)
    /\ Mark("dictionaries", "skipped")
    /\ To("free")
    /\ UNCHANGED <<svars, prov, kind, aborted, stats, result, history, jobs, faults>>

BeginDictionaries ==
    /\ At("dict") /\ HasDict(prov)
    /\ Mark("dictionaries", "running")
    /\ To("dictfetch")
    /\ UNCHANGED <<svars, prov, kind, aborted, stats, result, history, jobs, faults>>

EndDictionaries ==
    /\ At("dictfetch")
    /\ Mark("dictionaries", "done")
    /\ To("free")
    /\ UNCHANGED <<svars, prov, kind, aborted, stats, result, history, jobs, faults>>

\* The adapter raises: _execute returns with a fatal error, the inventories
\* are not asked for.
DictionariesFail ==
    /\ At("dictfetch") /\ Fault("adapter")
    /\ Mark("dictionaries", "failed")
    /\ fatal' = TRUE
    /\ To("finish")
    /\ UNCHANGED <<svars, prov, kind, aborted, freeFlag, split, result, history, jobs>>

-----------------------------------------------------------------------------
(* _execute: the free and the purchased inventory *)
BeginFree ==
    /\ At("free")
    /\ Mark("free", "running")
    /\ kind' = "free" /\ asked' = asked \cup {"free"}
    /\ To("fetch")
    /\ UNCHANGED <<svars, prov, aborted, stats, result, fetched, cut, jobs, faults>>

BeginPurchased ==
    /\ At("purchased") /\ HasPurchased(prov)
    /\ Mark("purchased", "running")
    /\ kind' = "purchased" /\ asked' = asked \cup {"purchased"}
    /\ To("fetch")
    /\ UNCHANGED <<svars, prov, aborted, stats, result, fetched, cut, jobs, faults>>

SkipPurchased ==
    /\ At("purchased") /\ ~HasPurchased(prov)
    /\ IF FreeOnly(prov) THEN UNCHANGED stage ELSE Mark("purchased", "skipped")
    /\ To("finish")
    /\ UNCHANGED <<svars, prov, kind, aborted, stats, result, history, jobs, faults>>

\* count_present_numbers of the slice that is being synchronised.
Previous == LiveRows(<<prov, kind>>)

\* Mutated form: reload_allowed accepts an empty fetch.
ReloadAllowedAlways(f) == TRUE

\* reload_allowed; the REG slice does not ask.
ReloadAllowed(f) ==
    \/ Keys(f) # {}
    \/ Shape[prov] = "reg" /\ kind = "purchased"

\* confirmed_empty_slice: nothing fetched, no warning, a total of zero, and
\* an empty slice before. Finenumbers always warns.
ConfirmedEmpty(f) == Previous = {} /\ f = <<>> /\ Shape[prov] # "reg"

\* snapshot_purchased_match_keys: the numbers the others have purchased.
EarlyKeys == {r[1] : r \in UNION {LiveRows(s) : s \in {x \in Slices :
                                     x[1] # prov /\ x[2] = "purchased"}}}

\* Mutated form of LeftOut: the provider's own slice is not excluded.
LeftOutOwn ==
    IF Shape[prov] = "reg" /\ kind = "purchased"
    THEN {r[1] : r \in UNION {LiveRows(s) : s \in {x \in Slices : x[2] = "purchased"}}}
    ELSE {}

\* persist_finenumbers_reg_purchased inserts what nobody else has purchased.
LeftOut == IF Shape[prov] = "reg" /\ kind = "purchased" THEN EarlyKeys ELSE {}

\* The fetch came back and may replace the slice: persist_*_numbers is called.
Reload ==
    /\ At("fetch") /\ ~aborted
    /\ \E f \in Fetches :
          /\ ReloadAllowed(f)
          /\ BeginPersist(<<prov, kind>>, f, LeftOut)
          /\ fetched' = [fetched EXCEPT ![kind] = LastWins(f)]
    /\ To("persist")
    /\ UNCHANGED <<prov, kind, stage, aborted, stats, result, asked, cut, jobs, faults>>

AcceptEmpty ==
    /\ At("fetch")
    /\ \E f \in Fetches : ~ReloadAllowed(f) /\ ConfirmedEmpty(f)
    /\ Mark(kind, "done")
    /\ To(After(kind))
    /\ UNCHANGED <<svars, prov, kind, aborted, stats, result, history, jobs, faults>>

\* The wipe is refused: a fatal error, but the sibling kind is still tried.
Refuse ==
    /\ At("fetch")
    /\ \E f \in Fetches : ~ReloadAllowed(f)   \* unmapped rows, a warning, no total
    /\ Mark(kind, "failed")
    /\ fatal' = TRUE
    /\ split' = (split \/ (kind = "purchased" /\ freeFlag))
    /\ To(After(kind))
    /\ UNCHANGED <<svars, prov, kind, aborted, freeFlag, result, history, jobs, faults>>

\* A step of persist_*_numbers before its cutover.
Persist ==
    /\ At("persist")
    /\ EnsureRaw \/ EnsureCat \/ InsertRaw \/ InsertCat
    /\ UNCHANGED control

\* The cutover; what its "cutover done" callback raises is swallowed.
Cutover ==
    /\ At("persist")
    /\ CommitCutover
    /\ cut' = cut \cup {kind}
    /\ To("cutover")
    /\ UNCHANGED <<prov, kind, stage, aborted, stats, result, asked, fetched, jobs, faults>>

\* The tracker call after the cutover, then the flag for the free slice.
Record ==
    /\ At("cutover") /\ ~aborted
    /\ freeFlag' = (freeFlag \/ kind = "free")
    /\ To("recorded")
    /\ UNCHANGED <<svars, prov, kind, stage, aborted, fatal, split, result, history, jobs, faults>>

EndSlice ==
    /\ At("recorded")
    /\ Mark(kind, "done")
    /\ To(After(kind))
    /\ UNCHANGED <<svars, prov, kind, aborted, stats, result, history, jobs, faults>>

-----------------------------------------------------------------------------
(* run_job_async and _sync_provider: the end of a job *)
InJob == {"dict", "dictfetch", "free", "fetch", "persist", "cutover", "recorded",
          "purchased"}

\* An exception in the job, with whatever persist call it interrupts.
Raise ==
    /\ To("except")
    /\ IF step # "idle" THEN PersistFails ELSE UNCHANGED svars
    /\ UNCHANGED <<prov, kind, stage, aborted, stats, result, history, jobs>>

\* The fetch of an inventory raises.
AdapterFails == At("fetch") /\ Fault("adapter") /\ Raise

\* A statement or a commit of the job's Session fails.
DbError == pc \in InJob /\ Fault("db") /\ Raise

\* A tracker call raises SyncAborted. The callback of the staging batches is
\* throttled, so an aborted worker may also run on up to the cutover.
Stopped ==
    /\ aborted
    /\ pc \in InJob
    /\ Raise
    /\ UNCHANGED faults

\* Mutated form of JobFailed: the flag of the free cutover is not looked at.
JobFailedOnly ==
    /\ At("except")
    /\ status' = "raised"
    /\ To("return")
    /\ UNCHANGED <<svars, prov, kind, stage, aborted, stats, reported, ok, history, jobs, faults>>

\* except Exception: the job is failed; a committed free slice is a split.
JobFailed ==
    /\ At("except")
    /\ status' = "raised"
    /\ split' = (split \/ freeFlag)
    /\ To("return")
    /\ UNCHANGED <<svars, prov, kind, stage, aborted, fatal, freeFlag, reported, ok,
                   history, jobs, faults>>

\* The exception escapes run_job_async: an error before its try, in its
\* handler, or in the last commit, of the stats.
Escape ==
    /\ pc \in {"begin", "except", "finish"}
    /\ Fault("db")
    /\ To("escape")
    /\ UNCHANGED <<svars, prov, kind, stage, aborted, stats, result, history, jobs>>

\* The finally block commits job.status with the auth settings, and the last
\* commit the stats.
Finish ==
    /\ At("finish")
    /\ status' = IF fatal THEN "failed" ELSE "success"
    /\ To("return")
    /\ UNCHANGED <<svars, prov, kind, stage, aborted, stats, reported, ok, history, jobs, faults>>

\* The commit in the finally block fails and is swallowed: the rollback takes
\* the status back, the stats are committed, and the job returns "running".
FinishUnjudged ==
    /\ At("finish") /\ Fault("db")
    /\ To("return")
    /\ UNCHANGED <<svars, prov, kind, stage, aborted, stats, result, history, jobs>>

\* _fail_remaining_provider_stages: fail what is still open.
CloseRemaining == stage' = [ph \in Phases |->
                               IF stage[ph] \in Open THEN "failed" ELSE stage[ph]]

\* job.status = failed.
ReturnFailed ==
    /\ At("return") /\ status \in {"failed", "raised"}
    /\ reported' = split
    /\ CloseRemaining
    /\ ok' = "failed"
    /\ To("returned")
    /\ UNCHANGED <<svars, prov, kind, aborted, stats, status, history, jobs, faults>>

\* except Exception in _sync_provider: the job's stats are not read.
ReturnEscaped ==
    /\ At("escape")
    /\ CloseRemaining
    /\ ok' = "failed"
    /\ To("returned")
    /\ UNCHANGED <<svars, prov, kind, aborted, stats, status, reported, history, jobs, faults>>

\* _skip_pending_dict_purchased: close the stages the mode never opened.
SkipPending == stage' = [ph \in Phases |->
                            IF ph # "free" /\ stage[ph] = "pending"
                            THEN "skipped" ELSE stage[ph]]

\* Mutated form of ReturnOk: the status of the job is not looked at.
ReturnOkAlways ==
    /\ At("return")
    /\ reported' = split
    /\ SkipPending
    /\ ok' = "ok"
    /\ To("returned")
    /\ UNCHANGED <<svars, prov, kind, aborted, stats, status, history, jobs, faults>>

\* job.status is not failed, be it success or still running.
ReturnOk ==
    /\ At("return") /\ status \in {"success", "running"}
    /\ reported' = split
    /\ SkipPending
    /\ ok' = "ok"
    /\ To("returned")
    /\ UNCHANGED <<svars, prov, kind, aborted, stats, status, history, jobs, faults>>

\* _sync_provider itself raises: SyncAborted between the look at the stages
\* and a tracker call, or a database error; the run ends.
ReturnRaises ==
    /\ pc \in {"return", "escape"}
    /\ \/ aborted /\ ok' = "aborted" /\ UNCHANGED faults
       \/ Fault("db") /\ ok' = "crashed"
    /\ To("returned")
    /\ UNCHANGED <<svars, prov, kind, stage, aborted, stats, status, reported, history, jobs>>

\* A request reclaims the run under the worker: apply_progress_abort.
Abort ==
    /\ pc \notin {"idle", "returned"} /\ ~aborted
    /\ Fault("abort")
    /\ aborted' = TRUE
    /\ stage' = [ph \in Phases |-> CASE stage[ph] = "running" -> "failed"
                                     [] stage[ph] = "pending" -> "skipped"
                                     [] OTHER -> stage[ph]]
    /\ UNCHANGED <<svars, pc, prov, kind, stats, result, history, jobs>>

\* The process dies; the boot closes the run and its stages.
Crash ==
    /\ pc \notin {"idle", "returned"}
    /\ Fault("crash")
    /\ IF step # "idle" THEN PersistFails ELSE UNCHANGED svars
    /\ To("idle")
    /\ UNCHANGED <<prov, kind, stage, aborted, stats, result, history, jobs>>

Next ==
    \/ Start \/ Enter
    \/ SkipDictionaries \/ BeginDictionaries \/ EndDictionaries \/ DictionariesFail
    \/ BeginFree \/ BeginPurchased \/ SkipPurchased
    \/ Reload \/ AcceptEmpty \/ Refuse \/ Persist \/ Cutover \/ Record \/ EndSlice
    \/ AdapterFails \/ DbError \/ Stopped
    \/ JobFailed \/ Escape \/ Finish \/ FinishUnjudged
    \/ ReturnFailed \/ ReturnEscaped \/ ReturnOk \/ ReturnRaises
    \/ Abort \/ Crash

Spec == Init /\ [][Next]_vars

-----------------------------------------------------------------------------
(* Properties *)

\* A slice that has numbers never becomes empty, whatever the provider
\* returns and whatever fails; only the REG slice may be emptied.
NeverEmptied ==
    [][\A s \in Slices :
          /\ LiveRows(s) # {}
          /\ ~(Shape[s[1]] = "reg" /\ s[2] = "purchased")
          => LiveRows(s)' # {}]_vars

\* The keys of the other providers' purchased numbers.
TakenKeys == {x[2][1] : x \in {y \in catalog : y[1][2] = "purchased" /\ y[1][1] # prov}}

Supported == {k \in Kinds : k = "free" \/ HasPurchased(prov)}

\* The catalog shows exactly what the job fetched of a kind - of REG, exactly
\* the numbers that no other provider has purchased.
Shown(k) ==
    /\ k \in asked
    /\ LiveRows(<<prov, k>>) = IF Shape[prov] = "reg" /\ k = "purchased"
                              THEN {r \in fetched[k] : r[1] \notin TakenKeys}
                              ELSE fetched[k]

\* A fatal job whose status was lost in the swallowed commit.
Unjudged == fatal /\ status = "running"

\* However a job ends, a stage that says "done" means that the catalog shows
\* the fetch. "ok" is said only when no stage failed and every kind the provider
\* supports is shown, except of a fatal job whose status was lost. A job that
\* came to its end, even a fatal one, has asked for every kind, unless its
\* dictionaries failed: then for none.
OkMeansFresh ==
    pc = "returned" =>
        /\ \A k \in Kinds : stage[k] = "done" => Shown(k)
        /\ ok = "ok" /\ ~Unjudged =>
              /\ \A ph \in Phases : stage[ph] # "failed" \/ aborted
              /\ \A k \in Supported : Shown(k)
        /\ ok = "ok" \/ status \in {"success", "failed"} =>
              \/ asked = Supported
              \/ asked = {} /\ stage["dictionaries"] = "failed"

\* A job that did not succeed after the flag of its free cutover and before its
\* purchased cutover is reported as split when its outcome reaches the run,
\* even one that is counted ok because its status was lost.
SplitFlagReported ==
    [][/\ pc = "return" /\ (ok' = "failed" \/ (ok' = "ok" /\ Unjudged))
       /\ freeFlag /\ HasPurchased(prov) /\ "purchased" \notin cut
       => reported']_vars
=============================================================================
