# A verification project for the DID catalogue

The backend under `src/` (FastAPI, SQLAlchemy on PostgreSQL, worker threads)
copies phone-number inventories of nine providers into one catalogue, enriches
it, and hands it out as XLSX exports.  These modules specify the part of it that
decides whether the catalogue can be trusted: the life of a sync run, the
replacement of a provider's rows and how the adapters read them, the record a
run keeps of itself, the last stages that derive operators, places and types,
the range cache these rest on, the export jobs that read the catalogue while all
this goes on, and the jobs of the two providers that stand outside the run.  TLC
checks them on small instances, TLAPS proves safety properties for any size.

Paths below are relative to `src/backend/app/`.

## 1. Inventory

| Component | State | Operations | Talks to |
|---|---|---|---|
| Unified sync run and scheduler (`modules/sync_engine/unified.py`, `advisory_lock.py`, `sync_scheduler.py`, `main.py`) | `sync_runs` rows, a PostgreSQL session advisory lock, the worker thread and its keepalive, `last_fired` | start, reclaim of an orphan, age-out of a pending row, poll of the latest run, tick, boot, the worker from claim to unlock | browsers (HTTP), scheduler thread, the provider jobs it runs |
| Provider job (`sync_engine/service.py`, `staging.py`, `persist.py`, `safety.py`) | `sync_jobs`, UNLOGGED staging tables shared by all providers, catalogue slices and raw tables | fetch, safety decision, staging in batches, cutover, stage reports | adapters, the run's tracker |
| Progress tracker and outcome (`sync_engine/progress.py`, `unified.py`) | `sync_runs.progress` (JSON stages) and status | start, finish, fail, skip of a stage, tail stages, outcome, abort from outside | worker, reclaim and cancel of other requests |
| Export jobs (`services/numbers_export_jobs.py`, `numbers_export.py`) | job table, slot counter, snapshot writers, files and their meta | create, poll, download, expiry, snapshot write, rebuild after a run | catalogue (fingerprint, cursor), sync run |
| PSTN INN range cache (`modules/pstn_inn_cache`) | cached ranges, readiness per INN, refresh thread | refresh, gate against a run, its own schedule | sync run, PSTN service |
| PSTN operator enrichment (`providers/finenumbers/enrich.py`) | operators of catalogue rows | query rounds, bulk update | range cache, tail of the run |
| Twilio countries and numbers, DIDWW (`modules/twilio`, `modules/didww`) | jobs with a heartbeat, advisory locks of their own | create, run, reclaim, keepalive, wipe | browsers, provider APIs |
| Catalogue post-processing (`modules/catalog`) | masks, categories, geography of rows | pure rules and set-based updates | directories, tail of the run |
| Directories and settings (`services/mask_types_service.py`, `regions_service.py`, `providers_service.py`) | mask and region tables, enabled providers | CRUD, import | post-processing |
| Adapters and HTTP retry (`providers/*`) | rate-limit clocks | fetch pages, retry | provider APIs |
| Run log files, dropped-number export | files | append | none read them |
| Browsing, authentication, frontend | none, tokens, pages | read-only SQL; poll every 2 s | all of the above |

What makes the system hard:

* **Several actors on one row.**  A worker thread, HTTP requests, the scheduler
  and the boot code read `sync_runs`, think, and write.  Nearly every write is
  unconditional; safety hangs on one advisory lock, one partial unique index,
  and the order of the statements.
* **The lock is a session's, not a thread's.**  A restart leaves a ghost session
  that holds it for a while; a dropped session frees it under a live worker.
* **Shared staging tables.**  A job that died in the middle of a batch leaves
  its rows for the next provider.
* **Read-then-write of a JSON document** by the tracker, while an abort commits.
* **Fingerprints.**  Export snapshots are believed when a fingerprint read
  *before* the rows equals one read *later*; writers, joiners, rebuilds and
  expiry interleave freely, under one in-process lock released for every
  long operation.
* **Partial failure** on every path: an adapter that raises, a commit that
  fails between two slices, a directory that is not there.

What makes each component correct:

* *run*: one writer; no reclaim closes the row of a worker that lives; a closed
  row stays closed; every accepted run is eventually closed and the lock comes
  free; one active row at a time.
* *provider job*: a slice is replaced as a whole by one fetch, or not at all; an
  empty answer empties nothing; raw rows and catalogue rows agree; the unique
  constraint of the catalogue never refuses a cutover; a job that says `ok` left
  what it fetched, unless the database swallowed its verdict; every stage it opened is closed; a half-replaced inventory is
  reported.
* *tracker*: stages follow the order of the run; the outcome is what the stages
  say; each provider is counted once; an aborted run begins at most one more
  step.
* *exports*: a snapshot that passes for fresh is the catalogue; no slot leaks;
  every ready job has a file and every file a job; no accepted job is forgotten.
* *adapters*: a slice that is accepted lacks no more than what moved while it was
  read, or says so; free and purchased do not overlap; both
  slices are asked of one account; a false end of the list leaves no hole; the reading ends.
* *last stages*: "not in the registry" is written on the registry's word (in fact also
  on an answer that cannot be read, section 5); the first range that covers a number decides; after a run whose stages ended
  well every row, an old one too, agrees with the directories as they were read.
* *cache*: a required operator that is ready stays so; the counters are true; a
  refresh does not stay open.  That a refresh and a run exclude each other is
  intended and not true: both look before they start.
* *Twilio, DIDWW*: one writer; every job closes; the lock comes free; an ingest
  that was interrupted neither repeats a loss nor skips a search.

## 2. Modules

```
SyncRunBoard  <---implemented by---  SyncLifecycle  <-- SyncLifecycleProofs, MCSyncLifecycle
SliceStore    <---implemented by---  StagingCutover
                                        ^ extended by
                                     ProviderSync   <-- ProviderSyncProofs, MCProviderSync
                                     ProviderFetch  <-- ProviderFetchProofs, MCProviderFetch
                                     NumberingPager <-- ProviderFetchProofs, MCNumberingPager
                                     UnifiedRun     <-- UnifiedRunProofs, MCUnifiedRun
                      CatalogRows <--  CatalogTail    <-- TailAndJobsProofs, MCCatalogTail
                                     PstnCache      <-- PstnCacheProofs, MCPstnCache
                                     ExportJobs     <-- ExportJobsProofs, MCExportJobs
                                     LockedJobs     <-- TailAndJobsProofs, MCLockedJobs
                                     TwilioNumbers  <-- TwilioNumbersProofs, MCTwilioNumbers
```

How they fit together: SyncLifecycle decides which worker runs; UnifiedRun is what
that worker does; ProviderSync is one turn of its loop, ProviderFetch and
NumberingPager what "the adapter is asked" stands for there, CatalogTail its
tail stages, PstnCache what they read and the gate before the run; ExportJobs
reads what all of them commit.  LockedJobs gives the one writer that
TwilioNumbers assumes.

**SyncRunBoard** (abstract): runs are accepted when no other is open, executed by
one writer at a time, and closed by their writer or when they have none; a
closed run is not reopened.

**SyncLifecycle**: `status`, `trigger` and `aged` are the `sync_runs` rows,
`lock` is the advisory lock (free, a run's `lock_conn`, a request's session while
it probes, or the ghost of a dead process), `worker` the program counter of each
run's thread, `req`, `want`, `pass`, `seen` and `old` the requests and the
scheduler task with the rows they have read, `up`, `today` and `lastFired` the
process, the Moscow day and the setting that remembers the last scheduled run.
One action is one statement that commits or one call on the lock, so every
window between a read and the write based on it is there: `SelectOrphan`,
`TryProbe`, `Refresh`, `MarkOrphan`, `UnlockProbe` for the reclaim,
`SelectStale` and `MarkAged` for pending rows that never started, `Insert` (or
`InsertRefused` by the partial unique index) and `Spawn` for a new run,
`AcquireLock`, `BusyCheck`, `RetryLock`, `GiveUp`, `MarkFired`, `Start`,
`Check`/`Write`, `Finish`, `Crashed`, `Aborting` and `Release` for the worker.
`Age` lets the pending row of a run that nobody starts grow old, the fault `Linger` that
of a worker which is only slow: a request then fails it, and the worker reopens it.

**StagingCutover**: `stgCat` (one staging table shared by all slices) and
`stgRaw`, the live `catalog` and `raw` tables, and the persist call under way.
`EnsureRaw`/`EnsureCat` re-create a staging table, `InsertRaw`/`InsertCat` commit
one batch, `CommitCutover` is the transaction that wipes and copies a slice,
`PersistFails` an exception or a crash between any two.  `Without` is what the
callers hand over: rows without a key and keys of other slices left out, the
last of two rows with one key kept.  **SliceStore** (abstract): a slice changes
in one step, to rows of one fetch.

**ProviderSync**: one provider job after another for every *shape* the code
has: `full` (dictionaries, free and purchased: SIPOUT, Runexis), `nodict` (UIS,
Novofon), `freedict` (Exolve, Voximplant, MCN), `freeonly` (Aurora), `reg`
(FINENUMBERS, the path that bypasses the wipe guard).  It extends StagingCutover
and adds the phases of the job (`pc`, `kind`), the safety decision
(`ReloadAllowed`, `AcceptEmpty`, `Refuse`), the stages of the provider in the
run's progress, the flags of a split inventory, an abort from outside, faults and
restarts.  `status` is `job.status` as the database has it when the job returns, and the
end of `run_job_async` has its three ways: `Finish`, where both last commits succeed;
`Escape`, where the commit of the stats (`service.py:312`) fails and the error reaches
`_sync_provider`; and `FinishUnjudged`, where the commit in the `finally` (298-305) fails
and is swallowed, so that the job returns "running" and `ReturnOk`, which looks for
"failed" only, counts it as ok (`unified.py:777-808`).

**UnifiedRun**: one run from its first provider to its outcome.  `stages` is the
progress document, `call`/`seen` the tracker call under way and the copy it read:
each call is a read (`Track`) and a write (`Save`), so that an abort may fall
between them.  Providers that are off, each provider's phases, the commit of its job,
the tail stages, the outcome, the snapshot stage, the abort and the crash handlers are
actions.  `CommitJob` has the verdict committed, `CommitLost` has it swallowed
(`service.py:304`), after which a failed job goes the way of a successful one, and
`RaisePhase` is an exception that reaches the run.  Two history variables: `silent` names
the providers whose job failed when no stage of theirs was open (on the commit of the
stats, or on the skip that closes the purchased stage once more), `muted` those whose job
failed and lost its verdict.

**ExportJobs**: a catalogue is a pair of versions, `rows` (moved by every
commit) and `fp` (what `catalog_fingerprint` sees: it moves only when a commit
stamps rows, which operator enrichment does not do).  `disk` holds the version
in `<kind>_latest.xlsx` and the fingerprint in its meta file, `writers` is
`_snapshot_writers`, `rebuild` the threads of `schedule_snapshot_rebuild`,
`jobs` the job table with its requests, `thread` and `active` the filtered jobs'
threads and the slot counter.  Each section under `_lock` is one action; what
runs between the sections is split at every file or database access.

**ProviderFetch**: how an adapter reads its two slices: it opens (Exolve's canary,
Novofon's principal), plans the scopes to read (regions, cities, categories,
files or the whole list), walks them page by page, a few side by side, merges
and accepts, warns or refuses.  `Rule` is the table in which the page loops of
the nine adapters differ (what counts as the end, which total counts, what lies
beyond the window, what a shortfall means), `Repeats` the calls each client makes
again, `Pending` and `Running` which places of the plan are still open and which are read
side by side, `kept` what an instance carries from the free slice to the
purchased one (REG numbers, Novofon's principal), `scoped` for whom each slice is asked, `call`, `remaining` and
`reset` the rate-limited User API.  The vendor may cut an answer, fail a call,
sell a number or list a new one between any two calls.  Novofon's principal is classified as
the client does it (`UsersAnswers`, `AccountAnswers`, `Principal`): the list of users may be
refused for the method (-32008) or come back empty, and an account then makes a client of
whoever holds the token.  An answer that is no error and no JSON object ends the list of
FINENUMBERS' client, is an empty page to Exolve's, and fails the others (`EndsList`,
`FailsFetch`).  The loops of Runexis
and MCN stop at a last page, the two of FINENUMBERS at none, the other pagers at an offset.

**NumberingPager**: the free list of Runexis, which ProviderFetch leaves to it:
waves of parallel pages, a short page that ends the list, its verification (a
tiny page is read again, behind a large one the next is peeked at), the fall
back to one page at a time, the second filter after a refusal.  The list is
1..size, so that a hole in what is returned is visible.

**CatalogRows** and **CatalogTail**: the pure functions of a number (category,
split, GAR territory, the first covering range, the place by the longest ABC
code, the mask and its type) and the stages that apply them to the rows of the
catalogue: `Match` against the local ranges, `Wave` and `Reply` for the lookups in
any order (of which one below 400 without a JSON object is "blank"), `Write` for one batch and its commit, `ApplyRegions`, `SeedMasks`,
`ApplyMasks`, with imports of both directories and restarts between any two.  Rows
are of several runs: those whose slice was not replaced keep what earlier runs
made of them.

**PstnCache**: the operators of the settings page, their ranges, and
`refresh_enabled_caches` in its two places (the thread of the settings page and
the last stage of a run; each may raise, and the handler of the thread may fail to write that
it has), with `tx` for what a transaction has deleted and not
committed, the gate of `create_run` and `spawn_cache_refresh` in separate steps, and
boot and restart.  The switch of the daily schedule, which is kept in the same
module of the code, is the scheduler's: SyncLifecycle lets a tick come or not.

**LockedJobs**: the jobs of Twilio (countries and numbers) and DIDWW under their
advisory locks.  `jobs` has status, heartbeat and age of the rows, `workers` and
`clients` the threads and requests with what they have read, `lock` who holds the
lock.  Twilio's reclaim, wipe, keepalive and respawn are there; DIDWW, which has
none of them, takes the same steps without.  **TwilioNumbers** looks into a numbers
job: cells, patterns, checkpoints, the session (`ses`) against what is committed
(`db`), adoption of an older job's numbers, resume, crash and boot.

In every module the mutated forms of actions (the definitions whose comment
begins with "mutant" or "Mutated form") are not part of the specification: each
is a plausible mistake that makes the property named with it in `PROJECT.json`
fail.

### What the models leave out

* Contents of rows beyond a key and an identity (CatalogTail and ProviderFetch say
  what they keep of them); wording of messages; XLSX layout; SQL text.  A batch, a
  fetch, a stage are values of small sets.
* A crash of PostgreSQL itself, which empties UNLOGGED staging tables.  A worker
  that survived it on a reconnected session would cut over only its last
  batches; the code has no check for this and the project lists it as a hazard.
* Adapters: dictionaries, the fields that the mappers fill, rate-limit clocks,
  `is_free` filters, which row is kept of a number that comes twice, and the tasks
  that `asyncio.gather` leaves running when one of them fails.
* Last stages: the stage of the RTU flags; how an INN's ranges are ordered among
  those of another (the query has no ORDER BY, so the order is any).
* Twilio: the probes that classify a country; what a number costs.  DIDWW: how its
  groups are fetched and stored.
* Directories: edits of a single row, parsing of spreadsheets; provider settings.
* In ExportJobs, ages: any job may become an hour old, in any order.  The
  application's and the database's clocks are taken to agree, so that a stamped
  commit always moves the fingerprint.
* `emit_progress` and `run_job_async` swallow `SyncAborted`; both are modelled as
  they are (the abort looks like a failed provider, or is noticed one call later).

## 3. Runs

| Run | Asks |
|---|---|
| `sync_safe` | with failing requests, a restart, the scheduler over midnight: one writer, no live run closed, outcomes final, board implemented |
| `sync_live` | under any two faults of five kinds, a worker that starts too late among them: every run closes, the lock comes free |
| `sync_two_writers` | *violation*: the server drops the lock's session, the worker goes on, a second one starts |
| `provider_jobs` | two jobs of three shapes on shared staging tables with any one fault at any point: all of the provider properties |
| `unified_run` | five providers (free-only, switched off, without dictionaries, full, without purchased numbers), any four faults, an abort at any moment: order, outcome, accounting, lateness |
| `export_jobs` | two requests of any sort, a run with its rebuild, expiry at any moment, one fault: all of the export properties |
| `locked_jobs` | jobs of Twilio and DIDWW with overlapping requests, a lost session, a late heartbeat, a restart, database errors: one writer, every job closes, the lock comes free |
| `twilio_numbers` | two rows, two cells, a crash or another failure, a countries job: nothing skipped on resume, loaded means complete, the dump survives, jobs end |
| `pstn_cache` | refreshes by the page and by a run, edits, one failure of a thread, of the database or of the operator service: counters, readiness, and that a refresh does not stay open |
| `catalog_tail` | two runs over four rows, waves of lookups, an import and a fault anywhere: sentinel, first range, agreement with the directories, required masks |
| `numbering_pager` | lists of seven lengths, three truncated pages, two refusals: no hole, at most the last page lost to one truncation, the fetch ends |
| `provider_fetch` | both slices of nine adapters with a cut answer, a failed call and a number sold or added: what is accepted, what is disjoint, that one principal is asked, and that it ends |

The *violation* run refutes a sentence of the repository's own comments;
`PROJECT.json` quotes it beside the code that contradicts it.  Other places where
the code and its documents differ are in section 5.

**Bounds and why they are enough.**  Two runs, one browser and the scheduler make
a predecessor and a successor, the only pair the lock and the index arbitrate;
`MaxDay` lets a tick fall on either side of midnight.  Three providers of
different shapes in every order, `BatchSize` 1 with up to two rows, give first,
middle and last batches, leftovers of another provider, duplicate and unmapped
rows.  In UnifiedRun the order is fixed, since the loop is; each kind of
provider appears once (free-only, off, without dictionaries, full, without purchased
numbers).  In ExportJobs two requests are an owner and a joiner, or
two rivals for one slot; two commits separate what was read before from what is
read after; three commits (4.9 million states) were checked as well and add
nothing.  Two faults in `sync_live` and four in `unified_run`, where they make every
enabled provider fail, let one failure hit the recovery from another; the other
models have one.

* SyncLifecycle: a worker that is slow to start is one of the faults (`slow`).  Of the
  four properties of `sync_safe` only `OneWriter` holds with it: the code reopens the row
  of such a run, so it closes twice.  `sync_live` has it, and every row still closes.
* ProviderSync: one fault.  Two were run once (3.5 minutes) and showed nothing else.  With
  one, a refused slice whose verdict is lost is reached; that dictionaries fail and
  the verdict is lost takes two and rests on the proof, and on `unified_run`.

* LockedJobs: five environments instead of one large one: two requests race
  (`c1`, `c2`), or one request thread meets the faults (a lost session with a late
  heartbeat; a restart with a database error), each for both families.  Two rows and
  two or three threads give a job, its successor and the thread of the respawn.
* TwilioNumbers: a row with two regions, whose checkpoint has a key, and one that is
  searched as a whole country, whose empty key a checkpoint loses; a number that
  both rows offer; two patterns, so that a cell can be left in its middle; two jobs
  and one countries job between them.
* PstnCache: a required operator and one that may be deleted and added again; three
  refreshes, so that two overlap and one follows; two edits; one fault, because the
  deletion of an operator raises without one, so that the handler can fail after it.
* CatalogTail: two mobile numbers of one range, of which the answer for one settles
  the other; answers of six kinds, one of them below 400 and not readable; a geographic
  number with an ABC inside another; a number that cannot be
  looked up; ranges that overlap, with and without a territory, one without a bound;
  two runs, for rows that the second does not replace; batches of three of four rows.
* NumberingPager: pages of 4, three at a time; lists that are empty, end in the
  first page, in a tiny and in a large short page, at a page's border and inside the
  second wave; three truncations allow a false end, a false verification and one more.
* ProviderFetch: pages of 2 and a window of 3, so that the longest lists lie beyond
  the window; three scopes that the dictionaries name and one that they do not; two
  walks side by side with a third waiting; one of each fault; every answer that Novofon's
  User API may give about a token, for tokens of a client, of an agent, and of an agent
  without a user.

**Deadlock** is checked in the life-cycle runs.  It is off where the system
really comes to rest: no more jobs (ProviderSync, LockedJobs, TwilioNumbers), the
run or the fetch is over (UnifiedRun, NumberingPager, ProviderFetch), all requests
served and files kept (ExportJobs), no more runs, edits or refreshes (CatalogTail,
PstnCache).

**Fairness.**  In `sync_live`, weak fairness of every worker and client step:
threads are scheduled and each step ends, by its own work or by an error.  Weak
fairness of boot (the container restarts), of `GhostGone` (the server notices a
dead client) and of `Age` (time passes).  Strong fairness of the last write of a
worker, because it has finitely many stages to write, and of the poll of the
latest run: the sync-logs page asks `GET /sync/latest` every two seconds
(`src/frontend/src/app/sync-logs/page.tsx:309-317`), and it is this poll, not
any timer of the backend, that reclaims orphans.  `EveryRunCloses` would fail
without it: a crash followed by silence leaves the row active.  LockedJobs assumes
the same of its threads, of time, of the server and of the polls of an open Twilio
page; faults, a late heartbeat and the keepalive are never forced.  TwilioNumbers and
PstnCache need the thread and the boot; ProviderFetch and NumberingPager that a
coroutine goes on when its call returns or times out (each client sets a timeout).

## 4. Proofs

All of them hold for any sets of runs, requests, providers, fetches, jobs and
kinds, under the named `ASSUME`s: identifiers are distinct from the special values,
sets that are counted are finite, bounds are naturals, and `Shape` and `Fetches`
have the types the code gives them.  Of TwilioNumbers it is assumed that a database null is
neither a row nor a region (`NoneAssumption`); of CatalogTail, that numbers and codes are
sequences of digits, and that the registry's codes have three, its operators are not named as
the sentinel is, and a number it has comes with an operator; of ProviderFetch, that a vendor
lists a number once where the client compares what it has read with a total
(`StockAssumption`: UIS, Novofon, MCN, Voximplant, Runexis).  The code assumes the last of
these where it counts items and not numbers (`uis/client.py:169-170`); what moves between two
pages may still be read twice or not at all.

**SyncLifecycleProofs.**  `TypeCorrect`; `OneWriterHolds` (without a lost lock
session), `NoLiveRunClosedHolds` (and no slow start), `OutcomeIsFinalHolds` and
`BoardImplemented` (and no database error in a worker, whose handler rewrites
its row).  Each condition is a hypothesis on the constant `FaultKinds`, and for each
there is a run that shows what happens without it, or a hazard that says so.  The argument: `LockInv` ties the lock to the program counters
(whoever writes or probes owns it, so a probe that succeeds means that nobody
writes), `RowInv` ties rows to workers and requests (`WorkerRow`, `RequestRow`;
a run is spawned once, a dead process has no worker), and `OutcomeInv` says whose
row may still be written and that one row at most is active.  `OneWriter` alone
is not inductive: a worker about to write could coexist with another unless both
are known to hold the lock.

**ProviderSyncProofs**, staging.  `StagingTypeCorrect`, `RawBacksCatalogHolds`,
`CutoverAdmissibleHolds`, `StagingImplementsStore`.  `StagedInv` says that what a
staging table holds and what is still to be inserted make up the incoming rows
at every batch; `LastWinsUnique` that deduplication leaves each key once;
`ReplacedFacts` what the catalogue is after a cutover.  Nothing is claimed of a
staging table between two loads: leftovers of a failed one are really there, and
the proof needs that each load re-creates its tables.

**ProviderSyncProofs**, jobs.  `JobsUseStaging`: every step of a job is a step of
StagingCutover or leaves its tables alone; hence `JobsKeepRawBacksCatalog`,
`JobsKeepCutoverAdmissible` and `JobsImplementStore`.  `NeverEmptiedHolds`: only
the REG slice can be emptied.  `SliceInv` says that the job's slice is one of the
slices, `WipeInv` that what is being persisted into any other slice is not empty.
`OkMeansFreshHolds` and `SplitFlagReportedHolds` rest on `JobInv`, and cover a job whose
verdict the `finally` lost (`Unjudged`): of it `OkMeansFresh` still says that its stages are
honest and that every kind was asked for, and `SplitFlagReported` that a split is reported
although the job is counted ok.  A kind is *settled*
when the catalogue shows its `Target`: the fetch, or of REG the fetch without what the
others have purchased.  `PersistInv` says that the rows on their way are the target of the
kind in turn, `CutoverFacts` that a cutover disturbs neither the job's other slice nor the
keys the others have taken, `FetchedInv` that an accepted empty fetch follows none of its
kind, and `SettledInv` that what was settled stays so unless the job fails.  `FlagsInv` is
the argument for the split: while the job goes on, a fatal error and the flag of the free
cutover exclude each other, so that both at its end mean that the purchased slice failed,
and every way to fail there sets the split.

**ExportJobsProofs.**  `ExportTypeCorrect`, `FreshIsTrueHolds`,
`SlotCountHolds`, `ReadyHasFileHolds`, `NoOrphanFilesHolds`,
`NoJobForgottenHolds`, all without conditions on the faults.  Two invariants:
`SnapshotInv` orders versions (what a meta file claims <= what the file holds <=
the catalogue; the fingerprint a writer carries <= the rows it reads), from
which equality at the ends gives equality throughout; `JobsInv` says for each
job what its thread, its file and its writer must be (`ThreadInv`, `FileInv`,
`SharedInv`) and for each writer that its jobs wait for it or have expired
(`WriterInv`).  `NoJobForgotten` needs all four: a writer may only settle jobs
that have no thread, or a settled job could be published a second time.

`Accounted` joins the three counts of slots, files and jobs (`AccountedHolds`).

**TailAndJobsProofs**, last stages.  `SentinelConfirmedHolds`, `FirstRangeWinsHolds`,
`TailConsistentHolds`, `RequiredMasksHolds`, for any rows, ranges, files and masks, any number of
waves, runs, imports and restarts.  `TailInv` has four parts.  `RowsInv`: a row and what is to be
written over it are of one number, cut somewhere (`IsSplit`), and a sentinel, also one that an inserted row kept, belongs to a number that
the registry denied or answered without a word to read.
`LookupInv`: rows of one number are decided together, and what is still asked belongs to rows
that are not.  `OrderInv`: of every row that is decided, the operator it will have once all
updates are written (`Due`) is the one that its number should have (`Rightly`).  `LastStagesInv`:
a directory that a stage has applied is the one the rows agree with.  Ranges are only ever
appended (`AddFacts`), so those of a later wave cannot overtake (`CoverStays`); an answer to a
number itself is overwritten only while the number is asked, hence not once it is decided: this is
why `LookupInv` is needed.  `FirstMatchFacts` shows that the match by a row's own split, which a
directory may have moved, finds what the digits of the number find: it needs the registry's codes
to have three digits, an assumption that the code makes (`mapper.py:32`) and does not check.
`RequiredMasks` is inductive as it stands, by `SeedingFacts` and `ImportFacts`.

**TailAndJobsProofs**, jobs.  `LockedOneWriterHolds`, while no session is lost: `Held` says
that whoever is between a successful try-lock and its unlock is the lock's holder,
so that two of them would be one.  The rows of the jobs play no part in it, which
is the point: no index and no check of a request keeps two jobs apart.

**PstnCacheProofs.**  `ReadyStaysHolds` and `CountIsTrueHolds` from one invariant.
`Swaps` says that a refresh at its swap carries one range of the operator whose
ranges its transaction has deleted, `Deleted` that a transaction's ranges are of one
operator and the page's never of a required one; hence readiness.  The counters
need `Apart` as well: while no two transactions on one operator overlapped, each has
deleted all there was of it, and so the swap leaves exactly its own ranges.  A refresh that
raises leaves the table as it was (`GivesUp`), and its handler touches the status only.

**TwilioNumbersProofs.**  `IngestTypeCorrect`, `CheckpointCoveredHolds`,
`LoadedIsCompleteHolds`, `DumpSurvivesHolds`, for any rows, regions, patterns and stock and
any number of faults, crashes and resumes.  `IngestInv` compares three holders of a
checkpoint: what is committed (`db`), what the session would commit (`ses`) and what the
thread carries (`RowInv`, up to the empty key, which a checkpoint loses).  A cell counts as
done only when all of its patterns were searched into the session (`SearchInv`), and every
commit saves the checkpoint and its numbers together; hence what is committed is `Sound`.
The checkpoint alone is not enough for a thread that resumes: what the row was
taken up *from* must be covered in its own right, because the thread's checkpoint already
points elsewhere when it comes to the interrupted cell.  `Keeps` says that a session never
loses a number that is committed, which is what `DumpSurvives` needs of a commit.

**ProviderFetchProofs**, adapters.  `DisjointSlicesHolds` and `OnePrincipalHolds`.  `RegInv`
measures both slices by the one set of REG keys that the instance keeps (nothing is
accepted before it is there), `PrincipalInv` says that a slice which has been asked for
somebody was asked for whom the instance keeps, whichever slice classified the token,
`StageInv` says which adapter can be in which stage.
That the lists may change under the reader, and any call may fail, is no hypothesis.

**ProviderFetchProofs**, pages.  `NoGapHolds` for every page limit, concurrency and list, any
number of truncated and refused calls and any order in which pages come; and
`LastPageOnlyHolds`, for which `PagerBounds` is needed: at least two pages at once (with one,
the client never verifies an end: its `sequential_resume_used` is set from the start) and a
list that ends before the largest offset.  `GapInv` says that the pages of the waves that have
ended are full and in *line*, each a page limit behind the one before; that every offset of a
wave is on its way, has come or has been seen, only one of these, or lies above a short page that
was seen; hence the line goes on to the first short page, and its items are the list up to there
(`ShortItems`).  `LastInv` adds what is known of the end: while nothing has been truncated, every
page is the list's, and an end that is read again is the end of the list unless a page has been
truncated already, after which the other pages are the list's (`EndKnown`).  A second truncation
breaks exactly this.

**ProviderFetchProofs**, lists.  `ShortIsKnownHolds`: what an adapter accepts without a word
lacks no more than what moved, for any lists and dictionaries, page sizes, windows, number of
walks side by side, attempts, moves and faults.  That a number is missing only for a number
that moved is a statement about sums, and the property knows only the last of them.  `ShortInv`
is the chain of accounts behind it:

* `BudgetInv` splits `moves` into a budget `m` for each scope, so that walks of different
  lists are charged for the moves of their own list only (`Spread` adds them up again), and a
  walk of the whole list for all.
* `WalkInv` charges each walk (`Held`) with four things: the numbers it has and the list has
  no longer (`Gone`); by how much its length and what is still ahead of it exceed the numbers of
  the list that it has or will see (`Excess`), which is the error of a comparison with a
  total; the numbers behind it that it has not seen (`Skipped`), the error of one that ends
  on an empty or short page; and at its end what it has lost (`Lost`).  None follows from the
  others: a sale behind the reader moves the list under it (a number is skipped), one
  ahead only makes a total wrong, and a new number may do either.  `HeldShifts` says that a move
  costs each of them one, `HeldRead` that a page costs none, `EndsWhy` which of them the end of
  which adapter's loop turns into a bound on what is lost.
* `KeysInv` is the same account for the REG numbers that FINENUMBERS' instance keeps: its free
  list is measured by a list read earlier, and each of the two has a budget.  This is why
  the bound is two for a move there.
* `ExpectInv` ties Novofon's total, asked once before the categories, to the list, `ShopInv` what
  the calls of its order shop have brought so far to what the slices promise, `PlanInv` says
  which scopes each stage walks, `ApartInv` that no number is on two lists, without which the
  lengths of the walks could not be added up, and `RoomInv` that Runexis' list ends before its
  last page.  `OverInv` is what is left of all this when a slice is over, `FetchInv` (above)
  says in which stage that can be.

The proof found that the property needs a hypothesis, `PagesSuffice`: the loop of Runexis stops
at page 10 000 without a look at the total that it has read (`runexis/client.py:243`), so that
a list longer than its pages would pass for the whole.  TLC evaluates the hypothesis for the
instance (`PagesAssumption` in MCProviderFetch).  It also found a last page in the model of
FINENUMBERS' loops, which have none in the code.

**UnifiedRunProofs.**  `ProgressInOrderHolds`, `ProvidersAccountedHolds`,
`OutcomeMatchesStagesHolds`, `OneLateStepHolds`, for any order of providers, whatever
each supports and any number of faults.  A *place* is where the worker is, or where it will
be once the tracker call under way is saved; `RunInv` says of both places that the
progress found there is good, so that an abort between the read and the write, which
leaves the copy alone and closes the row, needs no case of its own.  Good means: `Shape`
(every stage ranked below the place is closed or a gap, only the stage of the place runs),
`Books` (the two lists are the enabled providers before the place, what succeeded shows
no failure unless it is muted, what failed or is muted shows one unless it is silent) and, while the row is active, `Coming`
(the stages still to come are untouched, a job that failed has left something open or
failed).  The four properties alone are far from inductive: that a job's failure shows
rests on `Judged` (its flag is up exactly when one of its stages failed), and that the
stages are in order on `Low`, the rank below which everything is closed.  The attempt
found two mistakes of the model: the commit of a job, which may fail after its last stage
closed, was missing, and no instance had a provider without purchased numbers.  Both let a
provider fail without a failed stage, and the properties now say so.  The opposite case, a
failed stage of a provider that counts as ok, comes with `CommitLost`.

**Checked by TLC only**: liveness everywhere, since fairness and `ENABLED` are out of the
prover's reach.  Every safety invariant and action property of a passing run is proved.
Induction over data is out of reach as a rule; where a proof needs it, the model states the
recursion as a function over 0..n, and the proof follows it by the least n for which it would
fail (`SeededFacts` for the load of the local ranges, the lemmas on `SumUp` for the sums over
scopes), or describes the result of a fold without it (`Flat` and the lemmas after it, for
the lists of the scopes put together).

## 5. How to read a property

A property says what the code does, and its exemptions say where the code stops.
Each of these is reachable in the model; most of them differ from a document of the
repository.

*Run.*
* `OneWriter` in `sync_safe` holds while the session that took the lock lives.
  `sync_two_writers` shows what happens otherwise.
* A run that starts while its predecessor unlocks, or while a request probes the
  lock, is failed as blocked by a stale lock (`locks.py:150`; `locks.py:24-26` and
  `sync_engine/README.md:23` describe that verdict for a stuck lock only: the
  outcome is written at `unified.py:685`, the unlock comes after it).
* A second scheduled run of the day is possible (`scheduler.py:67`, against
  `deploy/PORTAINER.md:62`): the worker, not the tick, records that the day was served.
* `OneLateStep`, not zero: a tracker call writes back the progress that it read before
  an abort (`progress.py:234`, against `sync_engine/README.md:24`).

* A provider may fail and show no failed stage: the commit of its job is lost after the
  last stage ended (`service.py:308`), or the skip that closes the purchased stage again
  is (`service.py:954`).  `OutcomeMatchesStages` and `ProvidersAccounted` exempt it
  (`silent`); the run is partial or failed and its progress shows only successes.
* A provider may succeed and show a failed stage: the commit in the `finally` of
  `run_job_async` fails, is swallowed, and takes the verdict with it (`service.py:298-305`);
  the job returns "running" and counts as ok (`unified.py:777-808`).  The run may then be a
  success with a failed stage, and when the dictionaries failed the free stage stays pending
  for good, because only the other two are skipped and `_fail_remaining_provider_stages` is
  not called.  The properties name exactly these providers (`muted`, `Gap`).  Against
  `docs/providers/novofon-implementation-notes.md:30`, where a configured token that fails
  "still marks the run partial".
* A worker that starts later than `STALE_PENDING_MINUTES` after its row sets a row to running
  that a request has failed (`unified.py:393`).  `NoLiveRunClosed`, `OutcomeIsFinal` and
  `ImplementsBoard` are of runs without such a start.

*Provider job.*
* `SplitFlagReported` speaks of the flag, which is set only after the log calls that
  follow the committed cutover (`service.py:704`, against `sync_engine/README.md:29`).
* `OkMeansFresh` says less of a fatal job whose verdict was lost (`Unjudged`): it is counted
  ok and its slice may be the old one.
* `NeverEmptied` exempts the REG slice (`service.py:752`), which bypasses the guard.

*Exports.*
* `Accounted` counts a thread that died before its `try` as holding its slot: that is
  what the code does (`numbers_export_jobs.py:493`), and the slot is then lost until a
  restart.  It exempts files of earlier processes; nothing removes them.
* `NoJobForgotten` accepts a waiter of a writer that died (line 301).
* `FreshIsTrue` exempts a catalogue whose last commit moved no time stamp
  (operator enrichment, `enrich.py:364`).  The geography stage normally stamps
  the rows later; if it fails or finds nothing to write, a stale snapshot passes.
* A request made after a run may join a writer that began before it, and is handed the
  older file (`numbers_export_jobs.py:419`, against `deploy/PORTAINER.md:127`).

*Twilio and DIDWW.*
* `OneWriter` of LockedJobs holds while no lock session was lost.
* `EveryJobCloses` exempts a DIDWW row that was open when the process died or whose
  outcome the database refused (`didww/runner.py:140`, against `main.py:34`): nothing
  closes it, and it blocks every later job.
* The probe of a reclaim holds the lock for a moment: a worker that starts then fails.
* `LoadedIsComplete` counts what a resumed thread repeats: a whole-country row has no
  key, loses its checkpoint and is searched again from the start.  A job for all rows
  that is reopened loads only the row it had come to.
* `DumpSurvives` is of the jobs: `POST /twilio/wipe` deletes the numbers too, as it should, and
  is modelled in LockedJobs only.  It exempts countries jobs: one that passed its look for open ingests
  before an ingest opened (`twilio/runner.py:395`, against
  `docs/providers/twilio-implementation-notes.md:83`) deletes what that ingest wrote.

*Range cache.*
* `mixed` exempts overlapping transactions on one operator: a second refresh, or the
  deletion of an operator, within a swap leaves rows of two fetches or of an operator
  that is gone, since the table has no unique constraint (`service.py:440`).
* `cut` exempts two refreshes that no status closes: a reload inside a run that an
  exception ended, and a thread that failed and whose handler could not write that it had
  (`pstn_inn_cache/service.py:548-560` swallows this).  The status stays "running" or
  "pending", and refuses runs until a manual refresh or a restart.
* An operator deleted during a refresh ends the refresh of all the others.
* A refresh and a run that both looked before either started go on together
  (`service.py:505`); `ReadyStays` says what a run may rely on all the same.

*Last stages.*
* `SentinelConfirmed` names a second source of the sentinel (`blank`): an answer below 400
  whose body is not a JSON object, a redirect among them, is classified as absent
  (`enrich.py:71-75`, `finenumbers/client.py:96-99`), against the docstring of the classifier
  (`enrich.py:61`: "confirmed not in registry").  What it forbids is any third one.
* `TailConsistent` speaks of runs whose stages all ended well.  A mobile row kept from
  an earlier run whose range has no territory keeps its old city; geographic rows are
  without a city from the enrichment until the regions stage.
* A database error in a batch of operators ends the run: the row-by-row fallback and the
  log meet the aborted transaction.

*Adapters.*
* `blind` exempts what no reader can know: an answer that was cut, or a window that
  ended, where the vendor names no total or the adapter does not compare it (Runexis names one).
  It also exempts two errors that pass for the end of a list: an error body of Runexis
  (`runexis/client.py:223`), and an answer of FINENUMBERS' ranges that is no JSON object
  (`finenumbers/client.py:180`), of which the purchased slice inherits the numbers.  Duplicates count towards totals, so a list
  that moves can hide one number for each move; hence the bound in `ShortIsKnown`.
* `ShortIsKnown` speaks of Runexis' list as long as its pages reach: after page 10 000 the
  loop ends without a warning, even when the answers named a larger total
  (`runexis/client.py:243`).
* `OnePrincipal` says that both slices are asked of one principal
  (`docs/providers/novofon-implementation-notes.md:40`), not that it is the right one: an agent's
  token is read as a client's when the list of users is refused for the method or empty
  and the account answers (`novofon/client.py:163-177`, 242-249).
* Voximplant accepts a shortfall with a warning.  In MCN's client the break of the
  fallback is unreachable behind `except (ProviderAuthError, ProviderError): raise`.
* `LastPageOnly` exempts the first page: a short one is accepted without the
  verification that the client's docstring promises; after one verification later short
  pages are accepted, and the list ends silently at offset 5,000,000.  A refusal of the
  peek starts the list again with the other filter after pages have come
  (`numbering_client.py:545`, against the comment at line 665).

## 6. Plan

1. An abstract job queue that both SyncLifecycle and LockedJobs implement.
2. The stage of the RTU flags; edits of a single directory row; provider settings.
3. Twilio's classification of countries; DIDWW's groups.
4. Dictionaries and mappers of the adapters; rate-limit clocks.
