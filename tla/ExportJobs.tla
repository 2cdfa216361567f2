------------------------------ MODULE ExportJobs ------------------------------
(***************************************************************************)
(* XLSX export jobs and the shared full-catalogue snapshots of             *)
(* services/numbers_export_jobs.py, beside the sync run that changes the   *)
(* catalogue and orders their rebuild.                                     *)
(*                                                                         *)
(* A catalogue is a pair of versions: `rows` grows with every commit, `fp` *)
(* is what catalog_fingerprint sees of it (count and the newest time       *)
(* stamps): the `rows` of the last commit that moved a time stamp.  The    *)
(* operator enrichment writes rows without touching updated_at.            *)
(*                                                                         *)
(* Threads: one per filtered job, one writer per inventory kind (started   *)
(* by a request or by a rebuild), one rebuild thread per finished run.     *)
(* _lock makes each section under it one action; files and the database    *)
(* are read and written between the sections.                              *)
(***************************************************************************)
EXTENDS Naturals, FiniteSets, Sequences

CONSTANTS
  Jobs,          \* export requests; a job keeps the name of its request
  Rebuilds,      \* rebuild threads, one for each run that ends well
  KindOrder,     \* the order in which rebuild_catalog_snapshots takes the kinds
  MaxConcurrent, \* _MAX_CONCURRENT
  MaxRows,       \* bound on the commits to a catalogue
  MaxFaults,     \* bound on failing writes, lost directories and crashes
  None

Kinds == {KindOrder[i] : i \in DOMAIN KindOrder}
Threads == Jobs \cup Rebuilds

ASSUME ThreadAssumption == Jobs \cap Rebuilds = {} /\ None \notin Threads \cup Nat
ASSUME BoundAssumption ==
  /\ MaxConcurrent \in Nat \ {0} /\ MaxRows \in Nat /\ MaxFaults \in Nat
  /\ IsFiniteSet(Jobs)
  /\ KindOrder \in Seq(STRING) /\ KindOrder # <<>>

VARIABLES
  catalog,   \* per kind: [rows, fp]
  sync,      \* where the sync run is in its changes to the catalogue
  disk,      \* per kind: versions in <kind>_latest.xlsx and its meta.json
  writers,   \* _snapshot_writers, with the step of the writing thread
  rebuild,   \* the rebuild threads: [at, step, fp]
  jobs,      \* the requests and, once they are in _jobs, the jobs
  thread,    \* the threads running _run_job
  active,    \* _active_builds
  files,     \* job_<id>.xlsx files on disk
  leftover,  \* those of an earlier process (history)
  faults

vars == <<catalog, sync, disk, writers, rebuild, jobs, thread, active, files, leftover, faults>>

NoWriter == [step |-> "none"]
Stored == {"queued", "running", "ready", "failed"}       \* in _jobs
NewJob == [st |-> "new", kind |-> None, how |-> None, fp |-> 0, aged |-> FALSE]
Gone == [NewJob EXCEPT !.st = "gone"]

Init ==
  /\ catalog = [k \in Kinds |-> [rows |-> 0, fp |-> 0]]
  /\ sync = "idle"
  /\ disk \in [Kinds -> {[xlsx |-> None, meta |-> None], [xlsx |-> 0, meta |-> 0]}]
  /\ writers = [k \in Kinds |-> NoWriter]
  /\ rebuild = [r \in Rebuilds |-> [at |-> 0, step |-> "idle", fp |-> 0]]
  /\ jobs = [j \in Jobs |-> NewJob]
  /\ thread = [j \in Jobs |-> "none"]
  /\ active = 0
  /\ files = {} /\ leftover = {} /\ faults = 0

Fault == faults < MaxFaults /\ faults' = faults + 1

-----------------------------------------------------------------------------
(* The sync run, as far as the catalogue is concerned.                     *)

Stamped(c) == [rows |-> c.rows + 1, fp |-> c.rows + 1]
Unstamped(c) == [c EXCEPT !.rows = @ + 1]

\* A slice is cut over: rows with new time stamps.
Cutover(k) ==
  /\ sync \in {"idle", "slices"} /\ catalog[k].rows < MaxRows
  /\ sync' = "slices"
  /\ catalog' = [catalog EXCEPT ![k] = Stamped(@)]
  /\ UNCHANGED <<disk, writers, rebuild, jobs, thread, active, files, leftover, faults>>

\* Operators, and the territory of a range, are written without a time stamp.
Enrich(K) ==
  /\ sync = "slices" /\ \A k \in K : catalog[k].rows < MaxRows
  /\ sync' = "tail"
  /\ catalog' = [k \in Kinds |-> IF k \in K THEN Unstamped(catalog[k]) ELSE catalog[k]]
  /\ UNCHANGED <<disk, writers, rebuild, jobs, thread, active, files, leftover, faults>>

\* RTU flags, geography and masks stamp the rows they write; when the stages
\* fail, or find nothing of a kind to write, its stamps stay as they are.
Restamp(K) ==
  /\ sync = "tail" /\ \A k \in K : catalog[k].rows < MaxRows
  /\ sync' = "schedule"
  /\ catalog' = [k \in Kinds |-> IF k \in K THEN Stamped(catalog[k]) ELSE catalog[k]]
  /\ UNCHANGED <<disk, writers, rebuild, jobs, thread, active, files, leftover, faults>>

\* A run that succeeded, wholly or in part, starts a rebuild thread.
ScheduleRebuild(r) ==
  /\ sync = "schedule" /\ rebuild[r].step = "idle"
  /\ sync' = "idle"
  /\ rebuild' = [rebuild EXCEPT ![r] = [at |-> 1, step |-> "fingerprint", fp |-> 0]]
  /\ UNCHANGED <<catalog, disk, writers, jobs, thread, active, files, leftover, faults>>

\* A failed or aborted run does not.
EndWithoutRebuild ==
  /\ sync # "idle"
  /\ sync' = "idle"
  /\ UNCHANGED <<catalog, disk, writers, rebuild, jobs, thread, active, files, leftover, faults>>

-----------------------------------------------------------------------------
(* The job table.                                                          *)

Expired(js) == {j \in Jobs : js[j].st \in Stored /\ js[j].aged}

\* _cleanup_expired_jobs_locked: jobs past _JOB_TTL_SEC leave the table
\* whatever their status; only the file of a finished filtered job is removed.
Cleaned == [j \in Jobs |-> IF j \in Expired(jobs) THEN Gone ELSE jobs[j]]
KeptFiles == files \ {j \in Expired(jobs) : jobs[j].st = "ready" /\ jobs[j].how = "filtered"}

Fresh(k, fp) == disk[k].xlsx # None /\ disk[k].meta = fp

\* An hour passes for a job in the table.
Age(j) ==
  /\ jobs[j].st \in Stored /\ ~jobs[j].aged
  /\ jobs' = [jobs EXCEPT ![j].aged = TRUE]
  /\ UNCHANGED <<catalog, sync, disk, writers, rebuild, thread, active, files, leftover, faults>>

\* get_job, for a status poll or a download.
Poll ==
  /\ Expired(jobs) # {}
  /\ jobs' = Cleaned /\ files' = KeptFiles
  /\ UNCHANGED <<catalog, sync, disk, writers, rebuild, thread, active, leftover, faults>>

\* create_export_job without filters: the fingerprint is read first.
Ask(j, k) ==
  /\ jobs[j].st = "new"
  /\ jobs' = [jobs EXCEPT ![j] = [NewJob EXCEPT !.st = "asked", !.kind = k, !.fp = catalog[k].fp]]
  /\ UNCHANGED <<catalog, sync, disk, writers, rebuild, thread, active, files, leftover, faults>>

\* The first look at the snapshot, outside the lock.
Look(j) ==
  /\ jobs[j].st = "asked"
  /\ jobs' = [jobs EXCEPT ![j].st = IF Fresh(jobs[j].kind, jobs[j].fp) THEN "hit" ELSE "stale"]
  /\ UNCHANGED <<catalog, sync, disk, writers, rebuild, thread, active, files, leftover, faults>>

\* _store_ready_snapshot_job
StoreReady(j) ==
  /\ jobs[j].st = "hit"
  /\ jobs' = [Cleaned EXCEPT ![j].st = "ready", ![j].how = "hit", ![j].fp = 0]
  /\ files' = KeptFiles
  /\ UNCHANGED <<catalog, sync, disk, writers, rebuild, thread, active, leftover, faults>>

NewWriter(t, fp) ==
  [step |-> "export", by |-> t, fp |-> fp, rows |-> 0, waiters |-> {}, joined |-> {}]

\* The section under the lock: the snapshot may have become fresh, a writer of
\* the kind may be running, or the request becomes the owner of a new one.
DecideFresh(j) ==
  /\ jobs[j].st = "stale" /\ Fresh(jobs[j].kind, jobs[j].fp)
  /\ jobs' = [Cleaned EXCEPT ![j].st = "hit"]
  /\ files' = KeptFiles
  /\ UNCHANGED <<catalog, sync, disk, writers, rebuild, thread, active, leftover, faults>>

DecideJoin(j) ==
  LET k == jobs[j].kind IN
  /\ jobs[j].st = "stale" /\ ~Fresh(k, jobs[j].fp) /\ writers[k] # NoWriter
  /\ jobs' = [Cleaned EXCEPT ![j].st = "running", ![j].how = "joined", ![j].fp = 0]
  /\ writers' = [writers EXCEPT ![k].waiters = @ \cup {j}]
  /\ files' = KeptFiles
  /\ UNCHANGED <<catalog, sync, disk, rebuild, thread, active, leftover, faults>>

DecideStart(j) ==
  LET k == jobs[j].kind IN
  /\ jobs[j].st = "stale" /\ ~Fresh(k, jobs[j].fp) /\ writers[k] = NoWriter
  /\ jobs' = [Cleaned EXCEPT ![j].st = "running", ![j].how = "owner", ![j].fp = 0]
  /\ writers' = [writers EXCEPT ![k] = NewWriter(j, jobs[j].fp)]
  /\ files' = KeptFiles
  /\ UNCHANGED <<catalog, sync, disk, rebuild, thread, active, leftover, faults>>

-----------------------------------------------------------------------------
(* The writer of a kind: _run_snapshot_write.                              *)

\* A rebuild thread that is done with a kind takes the next one.
NextKind(rb) ==
  IF rb.at < Len(KindOrder) THEN [at |-> rb.at + 1, step |-> "fingerprint", fp |-> 0]
  ELSE [at |-> 0, step |-> "done", fp |-> 0]

Step(k, step) == writers' = [writers EXCEPT ![k].step = step]

\* One SELECT under a server-side cursor: the file will hold the rows that were
\* committed when the query began, however long the writing takes.
ExportRows(k) ==
  /\ writers[k].step = "export"
  /\ writers' = [writers EXCEPT ![k].step = "replace", ![k].rows = catalog[k].rows]
  /\ UNCHANGED <<catalog, sync, disk, rebuild, jobs, thread, active, files, leftover, faults>>

ReplaceFile(k) ==
  /\ writers[k].step = "replace"
  /\ disk' = [disk EXCEPT ![k].xlsx = writers[k].rows]
  /\ Step(k, "truncate")
  /\ UNCHANGED <<catalog, sync, rebuild, jobs, thread, active, files, leftover, faults>>

\* write_text opens the meta file, which empties it, and then fills it; a
\* reader in between sees no JSON and takes the snapshot for stale.
TruncateMeta(k) ==
  /\ writers[k].step = "truncate"
  /\ disk' = [disk EXCEPT ![k].meta = None]
  /\ Step(k, "fill")
  /\ UNCHANGED <<catalog, sync, rebuild, jobs, thread, active, files, leftover, faults>>

\* mutant: the meta file gets a fingerprint taken after the export
FillMetaLate(k) ==
  /\ writers[k].step = "fill"
  /\ disk' = [disk EXCEPT ![k].meta = catalog[k].fp]
  /\ Step(k, "ok")
  /\ UNCHANGED <<catalog, sync, rebuild, jobs, thread, active, files, leftover, faults>>

FillMeta(k) ==
  /\ writers[k].step = "fill"
  /\ disk' = [disk EXCEPT ![k].meta = writers[k].fp]
  /\ Step(k, "ok")
  /\ UNCHANGED <<catalog, sync, rebuild, jobs, thread, active, files, leftover, faults>>

WriteFails(k) ==
  /\ writers[k].step \in {"export", "replace", "truncate", "fill"}
  /\ Fault
  /\ Step(k, "error")
  /\ UNCHANGED <<catalog, sync, disk, rebuild, jobs, thread, active, files, leftover>>

\* exports_dir() raises outside the try: the thread ends, a rebuild thread with
\* it, and the entry in _snapshot_writers stays.
WriterDies(k) ==
  /\ writers[k].step = "export"
  /\ Fault
  /\ Step(k, "dead")
  /\ rebuild' = [r \in Rebuilds |-> IF r = writers[k].by THEN [rebuild[r] EXCEPT !.step = "done"]
                                    ELSE rebuild[r]]
  /\ UNCHANGED <<catalog, sync, disk, jobs, thread, active, files, leftover>>

\* mutant: only the owner is settled
SettledOwner(w) == {j \in {w.by} : j \in Jobs /\ jobs[j].st \in Stored}

\* The jobs a writer settles: those still in the table.
Settled(w) == {j \in {w.by} \cup w.waiters : j \in Jobs /\ jobs[j].st \in Stored}

\* _finish_snapshot_writer, after which the rebuild thread that wrote and those
\* that waited go on.
FinishWriter(k) ==
  LET w == writers[k] IN
  /\ w.step \in {"ok", "error"}
  /\ jobs' = [j \in Jobs |-> IF j \in Settled(w)
                             THEN [jobs[j] EXCEPT !.st = IF w.step = "ok" THEN "ready" ELSE "failed"]
                             ELSE jobs[j]]
  /\ writers' = [writers EXCEPT ![k] = NoWriter]
  /\ rebuild' = [r \in Rebuilds |-> IF r \in {w.by} \cup w.joined THEN NextKind(rebuild[r])
                                    ELSE rebuild[r]]
  /\ UNCHANGED <<catalog, sync, disk, thread, active, files, leftover, faults>>

-----------------------------------------------------------------------------
(* A rebuild thread: rebuild_catalog_snapshots, _ensure_snapshot_written.  *)

RebuildFingerprint(r) ==
  LET k == KindOrder[rebuild[r].at] IN
  /\ rebuild[r].step = "fingerprint"
  /\ rebuild' = [rebuild EXCEPT ![r].step = "ensure", ![r].fp = catalog[k].fp]
  /\ UNCHANGED <<catalog, sync, disk, writers, jobs, thread, active, files, leftover, faults>>

\* The database fails: _safe_rebuild_snapshots logs it and the thread ends.
RebuildFails(r) ==
  /\ rebuild[r].step = "fingerprint"
  /\ Fault
  /\ rebuild' = [rebuild EXCEPT ![r].step = "done"]
  /\ UNCHANGED <<catalog, sync, disk, writers, jobs, thread, active, files, leftover>>

\* Whatever the snapshot, it is written again, unless a writer of the kind is
\* running: then the thread waits for that one.
RebuildEnsure(r) ==
  LET k == KindOrder[rebuild[r].at] IN
  /\ rebuild[r].step = "ensure"
  /\ rebuild' = [rebuild EXCEPT ![r].step = "busy"]
  /\ writers' = [writers EXCEPT ![k] = IF writers[k] = NoWriter THEN NewWriter(r, rebuild[r].fp)
                                       ELSE [writers[k] EXCEPT !.joined = @ \cup {r}]]
  /\ UNCHANGED <<catalog, sync, disk, jobs, thread, active, files, leftover, faults>>

\* wait(timeout=3600)
RebuildTimeout(r) ==
  LET k == KindOrder[rebuild[r].at] IN
  /\ rebuild[r].step = "busy" /\ r \in writers[k].joined
  /\ writers' = [writers EXCEPT ![k].joined = @ \ {r}]
  /\ rebuild' = [rebuild EXCEPT ![r] = NextKind(@)]
  /\ UNCHANGED <<catalog, sync, disk, jobs, thread, active, files, leftover, faults>>

-----------------------------------------------------------------------------
(* Filtered exports: create_export_job with filters, and _run_job.         *)

\* Accepted while fewer than _MAX_CONCURRENT threads hold a slot.
AskFiltered(j, k) ==
  /\ jobs[j].st = "new" /\ active < MaxConcurrent
  /\ jobs' = [Cleaned EXCEPT ![j] = [NewJob EXCEPT !.st = "queued", !.kind = k, !.how = "filtered"]]
  /\ files' = KeptFiles
  /\ active' = active + 1
  /\ thread' = [thread EXCEPT ![j] = "start"]
  /\ UNCHANGED <<catalog, sync, disk, writers, rebuild, leftover, faults>>

AskRefused(j) ==
  /\ jobs[j].st = "new" /\ active >= MaxConcurrent
  /\ jobs' = [Cleaned EXCEPT ![j].st = "refused"]
  /\ files' = KeptFiles
  /\ UNCHANGED <<catalog, sync, disk, writers, rebuild, thread, active, leftover, faults>>

Freed == IF active > 0 THEN active - 1 ELSE 0

RunJob(j) ==
  /\ thread[j] = "start" /\ jobs[j].st \in Stored
  /\ thread' = [thread EXCEPT ![j] = "export"]
  /\ jobs' = [jobs EXCEPT ![j].st = "running"]
  /\ UNCHANGED <<catalog, sync, disk, writers, rebuild, active, files, leftover, faults>>

\* The job expired before its thread ran.
RunNothing(j) ==
  /\ thread[j] = "start" /\ jobs[j].st \notin Stored
  /\ thread' = [thread EXCEPT ![j] = "none"]
  /\ active' = Freed
  /\ UNCHANGED <<catalog, sync, disk, writers, rebuild, jobs, files, leftover, faults>>

\* exports_dir() raises before the try: the slot is never given back.
RunDies(j) ==
  /\ thread[j] = "start" /\ jobs[j].st \in Stored
  /\ Fault
  /\ thread' = [thread EXCEPT ![j] = "dead"]
  /\ UNCHANGED <<catalog, sync, disk, writers, rebuild, jobs, active, files, leftover>>

WriteFiltered(j) ==
  /\ thread[j] = "export"
  /\ thread' = [thread EXCEPT ![j] = "publish"]
  /\ files' = files \cup {j}
  /\ UNCHANGED <<catalog, sync, disk, writers, rebuild, jobs, active, leftover, faults>>

\* The export raises: the job fails if it is still known, the file is removed.
WriteFilteredFails(j) ==
  /\ thread[j] = "export"
  /\ Fault
  /\ thread' = [thread EXCEPT ![j] = "release"]
  /\ jobs' = IF jobs[j].st \in Stored THEN [jobs EXCEPT ![j].st = "failed"] ELSE jobs
  /\ UNCHANGED <<catalog, sync, disk, writers, rebuild, active, files, leftover>>

\* mutant: the file of a job that expired meanwhile is left behind
PublishKeepsFile(j) ==
  /\ thread[j] = "publish"
  /\ thread' = [thread EXCEPT ![j] = "release"]
  /\ jobs' = IF jobs[j].st \in Stored THEN [jobs EXCEPT ![j].st = "ready"] ELSE jobs
  /\ UNCHANGED <<catalog, sync, disk, writers, rebuild, active, files, leftover, faults>>

\* Published, unless the job expired meanwhile: then its file goes.
PublishFiltered(j) ==
  /\ thread[j] = "publish"
  /\ thread' = [thread EXCEPT ![j] = "release"]
  /\ IF jobs[j].st \in Stored
     THEN jobs' = [jobs EXCEPT ![j].st = "ready"] /\ UNCHANGED files
     ELSE files' = files \ {j} /\ UNCHANGED jobs
  /\ UNCHANGED <<catalog, sync, disk, writers, rebuild, active, leftover, faults>>

ReleaseSlot(j) ==
  /\ thread[j] = "release"
  /\ thread' = [thread EXCEPT ![j] = "none"]
  /\ active' = Freed
  /\ UNCHANGED <<catalog, sync, disk, writers, rebuild, jobs, files, leftover, faults>>

-----------------------------------------------------------------------------
\* The process dies and starts again: the tables are module variables, the
\* files stay, and nothing looks for them at start-up.
Crash ==
  /\ Fault
  /\ sync' = "idle"
  /\ writers' = [k \in Kinds |-> NoWriter]
  /\ rebuild' = [r \in Rebuilds |-> IF rebuild[r].step = "idle" THEN rebuild[r]
                                    ELSE [at |-> 0, step |-> "done", fp |-> 0]]
  /\ jobs' = [j \in Jobs |-> IF jobs[j].st = "new" THEN jobs[j] ELSE Gone]
  /\ thread' = [j \in Jobs |-> "none"]
  /\ active' = 0
  /\ leftover' = files
  /\ UNCHANGED <<catalog, disk, files>>

WriterStep(k) ==
  \/ ExportRows(k) \/ ReplaceFile(k) \/ TruncateMeta(k) \/ FillMeta(k) \/ FinishWriter(k)
  \/ WriteFails(k) \/ WriterDies(k)

RebuildStep(r) ==
  \/ RebuildFingerprint(r) \/ RebuildFails(r) \/ RebuildEnsure(r) \/ RebuildTimeout(r)

JobStep(j) ==
  \/ RunJob(j) \/ RunNothing(j) \/ RunDies(j)
  \/ WriteFiltered(j) \/ WriteFilteredFails(j) \/ PublishFiltered(j) \/ ReleaseSlot(j)

RequestStep(j) ==
  \/ \E k \in Kinds : Ask(j, k) \/ AskFiltered(j, k)
  \/ Look(j) \/ StoreReady(j) \/ DecideFresh(j) \/ DecideJoin(j) \/ DecideStart(j)
  \/ AskRefused(j) \/ Age(j)

Next ==
  \/ \E k \in Kinds : Cutover(k) \/ WriterStep(k)
  \/ \E K \in SUBSET Kinds : Enrich(K) \/ Restamp(K)
  \/ \E r \in Rebuilds : ScheduleRebuild(r) \/ RebuildStep(r)
  \/ \E j \in Jobs : RequestStep(j) \/ JobStep(j)
  \/ EndWithoutRebuild \/ Poll \/ Crash

Spec == Init /\ [][Next]_vars

-----------------------------------------------------------------------------
Steps == {"export", "replace", "truncate", "fill", "ok", "error", "dead"}
Version == 0..MaxRows

\* The tables and files hold what the code puts there.
TypeOK ==
  /\ catalog \in [Kinds -> [rows : Version, fp : Version]]
  /\ sync \in {"idle", "slices", "tail", "schedule"}
  /\ disk \in [Kinds -> [xlsx : Version \cup {None}, meta : Version \cup {None}]]
  /\ writers \in [Kinds -> {NoWriter} \cup [step : Steps, by : Threads, fp : Version, rows : Version,
                                           waiters : SUBSET Jobs, joined : SUBSET Rebuilds]]
  /\ rebuild \in [Rebuilds -> [at : 0..Len(KindOrder), fp : Version,
                               step : {"idle", "fingerprint", "ensure", "busy", "done"}]]
  /\ jobs \in [Jobs -> [st : Stored \cup {"new", "asked", "stale", "hit", "refused", "gone"},
                        kind : Kinds \cup {None}, fp : Version, aged : BOOLEAN,
                        how : {"hit", "joined", "owner", "filtered", None}]]
  /\ thread \in [Jobs -> {"none", "start", "export", "publish", "release", "dead"}]
  /\ active \in Nat
  /\ files \subseteq Jobs /\ leftover \subseteq files /\ faults \in 0..MaxFaults

\* A snapshot that passes for fresh is the catalogue, row for row, whatever
\* commits, writers, failures and restarts came in between; the exception is
\* the time between an operator enrichment and the next stamped commit.
FreshIsTrue ==
  \A k \in Kinds :
    catalog[k].fp = catalog[k].rows /\ Fresh(k, catalog[k].fp) => disk[k].xlsx = catalog[k].rows

Holding == {j \in Jobs : thread[j] # "none"}

\* The slots taken are exactly those of the filtered threads that have not given
\* theirs back: expiry and failure leak none, and none is given back twice.
SlotCount ==
  /\ active = Cardinality(Holding)
  /\ active <= MaxConcurrent

\* A job that says it is ready can be downloaded: its file, or the snapshot it
\* shares with others, is there however many jobs expired meanwhile.
ReadyHasFile ==
  \A j \in Jobs : jobs[j].st = "ready" =>
    IF jobs[j].how = "filtered" THEN j \in files ELSE disk[jobs[j].kind].xlsx # None

\* A filtered file on disk belongs to a job that offers it or to the thread
\* that is about to offer it; only a restart leaves others behind.
NoOrphanFiles ==
  \A j \in files \ leftover :
    thread[j] = "publish" \/ (jobs[j].st = "ready" /\ jobs[j].how = "filtered")

\* Whatever expires, fails or dies, slots and files are accounted for: each
\* slot by a thread, each ready job by its file, each file by its job.
Accounted == SlotCount /\ ReadyHasFile /\ NoOrphanFiles

\* No accepted job is forgotten: while it is queued or running, a thread of its
\* own has yet to settle it, or it is the owner or a waiter of a writer that
\* settles all of them at its end.
NoJobForgotten ==
  \A j \in Jobs :
    /\ jobs[j].st = "queued" => thread[j] \in {"start", "dead"}
    /\ jobs[j].st = "running" =>
         \/ thread[j] \in {"export", "publish"}
         \/ LET w == writers[jobs[j].kind] IN w # NoWriter /\ j \in {w.by} \cup w.waiters
===============================================================================
