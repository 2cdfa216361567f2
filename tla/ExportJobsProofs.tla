-------------------------- MODULE ExportJobsProofs --------------------------
(***************************************************************************)
(* Proofs about ExportJobs for any number of requests, runs, inventory     *)
(* kinds, slots, commits and faults.                                       *)
(***************************************************************************)
EXTENDS ExportJobs, FiniteSetTheorems, TLAPS

-----------------------------------------------------------------------------
(* Types                                                                   *)

Writer == [step : Steps, by : Threads, fp : Version, rows : Version,
           waiters : SUBSET Jobs, joined : SUBSET Rebuilds]
JobState == Stored \cup {"new", "asked", "stale", "hit", "refused", "gone"}
Placed == Stored \cup {"asked", "stale", "hit"}     \* the jobs with a kind
How == {"hit", "joined", "owner", "filtered", None}
Job == {w \in [st : JobState, kind : Kinds \cup {None}, fp : Version, aged : BOOLEAN, how : How] : w.st \in Placed => w.kind \in Kinds}
Rebuild == {rb \in [at : 0..Len(KindOrder), fp : Version,
                    step : {"idle", "fingerprint", "ensure", "busy", "done"}] :
              rb.step \in {"fingerprint", "ensure", "busy"} => rb.at \in 1..Len(KindOrder)}
Catalog == [rows : Version, fp : Version]
Disk == [xlsx : Version \cup {None}, meta : Version \cup {None}]

\* The parts of TypeOK that do not depend on where the threads are.
Types ==
  /\ catalog \in [Kinds -> Catalog]
  /\ sync \in {"idle", "slices", "tail", "schedule"}
  /\ disk \in [Kinds -> Disk]
  /\ writers \in [Kinds -> {NoWriter} \cup Writer]
  /\ rebuild \in [Rebuilds -> Rebuild]
  /\ jobs \in [Jobs -> Job]
  /\ thread \in [Jobs -> {"none", "start", "export", "publish", "release", "dead"}]
  /\ active \in Nat
  /\ files \subseteq Jobs /\ leftover \subseteq Jobs /\ faults \in 0..MaxFaults

LEMMA NewAndGone == NewJob \in Job /\ Gone \in Job /\ 0 \in Version
<1>1. 0 \in Version
    BY BoundAssumption DEF Version
<1> QED
    BY <1>1 DEF NewJob, Gone, Job, JobState, How, Placed, Stored

LEMMA CleanedFacts ==
  ASSUME Types
  PROVE  /\ Cleaned \in [Jobs -> Job]
         /\ \A j \in Jobs : Cleaned[j] = IF jobs[j].st \in Stored /\ jobs[j].aged THEN Gone ELSE jobs[j]
         /\ KeptFiles \subseteq files
<1>1. \A j \in Jobs : j \in Expired(jobs) <=> jobs[j].st \in Stored /\ jobs[j].aged
    BY DEF Expired
<1>2. jobs \in [Jobs -> Job]
    BY DEF Types
<1> QED
    BY <1>1, <1>2, NewAndGone DEF Cleaned, KeptFiles

LEMMA KindFacts ==
  /\ Len(KindOrder) \in Nat \ {0}
  /\ \A i \in 1..Len(KindOrder) : KindOrder[i] \in Kinds
<1>1. KindOrder \in Seq(STRING) /\ KindOrder # <<>>
    BY BoundAssumption
<1>2. DOMAIN KindOrder = 1..Len(KindOrder)
    BY <1>1
<1>3. Len(KindOrder) \in Nat \ {0}
    BY <1>1
<1> QED
    BY <1>2, <1>3 DEF Kinds

-----------------------------------------------------------------------------
(* Records with a field or two replaced.                                   *)

LEMMA JobMoves ==
  ASSUME NEW w \in Job, NEW s \in JobState, w.st \in Placed \/ s \notin Placed
  PROVE  LET v == [w EXCEPT !.st = s] IN
           v \in Job /\ v.st = s /\ v.kind = w.kind /\ v.how = w.how /\ v.fp = w.fp /\ v.aged = w.aged
BY DEF Job

LEMMA JobDecided ==
  ASSUME NEW w \in Job, NEW s \in JobState, NEW h \in How, w.st \in Placed
  PROVE  LET v == [w EXCEPT !.st = s, !.how = h, !.fp = 0] IN
           v \in Job /\ v.st = s /\ v.kind = w.kind /\ v.how = h /\ v.fp = 0
BY NewAndGone DEF Job

LEMMA JobAged ==
  ASSUME NEW w \in Job
  PROVE  LET v == [w EXCEPT !.aged = TRUE] IN
           v \in Job /\ v.st = w.st /\ v.kind = w.kind /\ v.how = w.how /\ v.fp = w.fp
BY DEF Job

LEMMA JobAsked ==
  ASSUME NEW k \in Kinds, NEW f \in Version
  PROVE  LET v == [NewJob EXCEPT !.st = "asked", !.kind = k, !.fp = f] IN
           v \in Job /\ v.st = "asked" /\ v.kind = k /\ v.how = None /\ v.fp = f
BY NewAndGone DEF Job, JobState, How, NewJob

LEMMA JobQueued ==
  ASSUME NEW k \in Kinds
  PROVE  LET v == [NewJob EXCEPT !.st = "queued", !.kind = k, !.how = "filtered"] IN
           v \in Job /\ v.st = "queued" /\ v.kind = k /\ v.how = "filtered" /\ v.fp = 0
BY NewAndGone DEF Job, JobState, Stored, How, NewJob

LEMMA WriterStepType ==
  ASSUME NEW w \in Writer, NEW s \in Steps
  PROVE  LET v == [w EXCEPT !.step = s] IN
           v \in Writer /\ v.step = s /\ v.by = w.by /\ v.fp = w.fp /\ v.rows = w.rows
             /\ v.waiters = w.waiters /\ v.joined = w.joined
BY DEF Writer

LEMMA WriterIs ==
  ASSUME Types, NEW k \in Kinds, writers[k] # NoWriter
  PROVE  writers[k] \in Writer /\ writers[k].step \in Steps
BY DEF Types, Writer

\* What a request makes of its own entry, the table being cleaned first.
LEMMA CleanedEntry ==
  ASSUME Types, NEW j \in Jobs, jobs[j].st \notin Stored, jobs[j].st \in Placed,
         NEW s \in JobState
  PROVE  /\ Cleaned[j] = jobs[j]
         /\ [Cleaned EXCEPT ![j].st = s] \in [Jobs -> Job]
         /\ \A h \in How : [Cleaned EXCEPT ![j].st = s, ![j].how = h, ![j].fp = 0] \in [Jobs -> Job]
<1>1. Cleaned[j] = jobs[j] /\ Cleaned \in [Jobs -> Job] /\ jobs[j] \in Job
    BY CleanedFacts DEF Types
<1>2. [Cleaned EXCEPT ![j].st = s] = [Cleaned EXCEPT ![j] = [jobs[j] EXCEPT !.st = s]]
    BY <1>1
<1>3. ASSUME NEW h \in How
      PROVE  [Cleaned EXCEPT ![j].st = s, ![j].how = h, ![j].fp = 0]
               = [Cleaned EXCEPT ![j] = [jobs[j] EXCEPT !.st = s, !.how = h, !.fp = 0]]
    BY <1>1
<1> QED
    BY <1>1, <1>2, <1>3, JobMoves, JobDecided

\* A writer that takes a step.
LEMMA WriterSteps ==
  ASSUME Types, NEW k \in Kinds, writers[k] # NoWriter, NEW s \in Steps, Step(k, s)
  PROVE  writers' \in [Kinds -> {NoWriter} \cup Writer]
<1>1. writers[k] \in Writer
    BY WriterIs
<1>2. writers' = [writers EXCEPT ![k] = [writers[k] EXCEPT !.step = s]]
    BY DEF Step
<1> QED
    BY <1>1, <1>2, WriterStepType DEF Types

LEMMA NewWriterType ==
  ASSUME NEW t \in Threads, NEW f \in Version
  PROVE  /\ NewWriter(t, f) \in Writer /\ NewWriter(t, f).step = "export"
         /\ NewWriter(t, f).by = t /\ NewWriter(t, f).waiters = {} /\ NewWriter(t, f).fp = f
BY NewAndGone DEF NewWriter, Writer, Steps

LEMMA WriterJoined ==
  ASSUME NEW w \in Writer, NEW W \in SUBSET Jobs, NEW R \in SUBSET Rebuilds
  PROVE  /\ [w EXCEPT !.waiters = W] \in Writer /\ [w EXCEPT !.joined = R] \in Writer
         /\ [w EXCEPT !.waiters = W].by = w.by /\ [w EXCEPT !.joined = R].by = w.by
         /\ [w EXCEPT !.waiters = W].waiters = W /\ [w EXCEPT !.joined = R].waiters = w.waiters
         /\ [w EXCEPT !.waiters = W].step = w.step /\ [w EXCEPT !.joined = R].step = w.step
         /\ [w EXCEPT !.waiters = W].fp = w.fp /\ [w EXCEPT !.joined = R].fp = w.fp
         /\ [w EXCEPT !.waiters = W].rows = w.rows /\ [w EXCEPT !.joined = R].rows = w.rows
BY DEF Writer

LEMMA RebuildFacts ==
  /\ \A rb \in Rebuild : NextKind(rb) \in Rebuild /\ [rb EXCEPT !.step = "done"] \in Rebuild
  /\ [at |-> 0, step |-> "done", fp |-> 0] \in Rebuild
  /\ [at |-> 1, step |-> "fingerprint", fp |-> 0] \in Rebuild
BY NewAndGone, KindFacts DEF Rebuild, NextKind

LEMMA RebuildWorks ==
  ASSUME NEW rb \in Rebuild, NEW f \in Version, rb.step \in {"fingerprint", "ensure", "busy"}
  PROVE  /\ [rb EXCEPT !.step = "ensure", !.fp = f] \in Rebuild
         /\ [rb EXCEPT !.step = "busy"] \in Rebuild
         /\ KindOrder[rb.at] \in Kinds
BY KindFacts DEF Rebuild

LEMMA ActiveWriter ==
  ASSUME Types, NEW k \in Kinds, writers[k].step # "none"
  PROVE  writers[k] # NoWriter /\ writers[k] \in Writer
BY DEF Types, NoWriter

LEMMA InitTypes == Init => Types
<1> SUFFICES ASSUME Init PROVE Types
    OBVIOUS
<1>1. catalog \in [Kinds -> Catalog] /\ disk \in [Kinds -> Disk]
    BY NewAndGone DEF Init, Catalog, Disk
<1>2. rebuild \in [Rebuilds -> Rebuild]
    BY NewAndGone DEF Init, Rebuild
<1>3. jobs \in [Jobs -> Job]
    BY NewAndGone DEF Init
<1>4. faults \in 0..MaxFaults
    BY BoundAssumption DEF Init
<1> QED
    BY <1>1, <1>2, <1>3, <1>4 DEF Init, Types

\* The sync run.
LEMMA SyncTypes ==
  ASSUME Types,
         \/ \E k \in Kinds : Cutover(k)
         \/ \E K \in SUBSET Kinds : Enrich(K) \/ Restamp(K)
         \/ \E r \in Rebuilds : ScheduleRebuild(r)
         \/ EndWithoutRebuild
  PROVE  Types'
<1>0. MaxRows \in Nat
    BY BoundAssumption
<1>1. \A c \in Catalog : c.rows < MaxRows => Stamped(c) \in Catalog /\ Unstamped(c) \in Catalog
    BY <1>0 DEF Catalog, Stamped, Unstamped, Version
<1>2. CASE \E k \in Kinds : Cutover(k)
    BY <1>1, <1>2 DEF Cutover, Types
<1>3. ASSUME NEW K \in SUBSET Kinds, Enrich(K) PROVE Types'
    BY <1>1, <1>3 DEF Enrich, Types
<1>4. ASSUME NEW K \in SUBSET Kinds, Restamp(K) PROVE Types'
    BY <1>1, <1>4 DEF Restamp, Types
<1>5. CASE \E r \in Rebuilds : ScheduleRebuild(r)
    BY <1>5, RebuildFacts DEF ScheduleRebuild, Types
<1>6. CASE EndWithoutRebuild
    BY <1>6 DEF EndWithoutRebuild, Types
<1> QED
    BY <1>2, <1>3, <1>4, <1>5, <1>6

\* The writer of a kind.
LEMMA WriterTypes ==
  ASSUME Types, NEW k \in Kinds, WriterStep(k)
  PROVE  Types'
<1>1. ASSUME ExportRows(k) PROVE Types'
  <2>1. writers[k] \in Writer /\ catalog[k].rows \in Version
      BY <1>1, ActiveWriter DEF ExportRows, Types, Catalog
  <2>2. [writers[k] EXCEPT !.step = "replace", !.rows = catalog[k].rows] \in Writer
      BY <2>1 DEF Writer, Steps
  <2>3. writers' = [writers EXCEPT ![k] = [writers[k] EXCEPT !.step = "replace", !.rows = catalog[k].rows]]
      BY <1>1 DEF ExportRows
  <2> QED
      BY <1>1, <2>2, <2>3 DEF ExportRows, Types
<1>2. ASSUME ReplaceFile(k) PROVE Types'
  <2>1. writers[k] \in Writer /\ writers[k] # NoWriter
      BY <1>2, ActiveWriter DEF ReplaceFile
  <2>2. writers' \in [Kinds -> {NoWriter} \cup Writer]
      BY <1>2, <2>1, WriterSteps DEF ReplaceFile, Steps
  <2>3. disk' \in [Kinds -> Disk]
      BY <1>2, <2>1 DEF ReplaceFile, Types, Disk, Writer
  <2> QED
      BY <1>2, <2>2, <2>3 DEF ReplaceFile, Types
<1>3. ASSUME TruncateMeta(k) PROVE Types'
  <2>1. writers[k] \in Writer /\ writers[k] # NoWriter
      BY <1>3, ActiveWriter DEF TruncateMeta
  <2>2. writers' \in [Kinds -> {NoWriter} \cup Writer]
      BY <1>3, <2>1, WriterSteps DEF TruncateMeta, Steps
  <2>3. disk' \in [Kinds -> Disk]
      BY <1>3, <2>1 DEF TruncateMeta, Types, Disk
  <2> QED
      BY <1>3, <2>2, <2>3 DEF TruncateMeta, Types
<1>4. ASSUME FillMeta(k) PROVE Types'
  <2>1. writers[k] \in Writer /\ writers[k] # NoWriter
      BY <1>4, ActiveWriter DEF FillMeta
  <2>2. writers' \in [Kinds -> {NoWriter} \cup Writer]
      BY <1>4, <2>1, WriterSteps DEF FillMeta, Steps
  <2>3. disk' \in [Kinds -> Disk]
      BY <1>4, <2>1 DEF FillMeta, Types, Disk, Writer
  <2> QED
      BY <1>4, <2>2, <2>3 DEF FillMeta, Types
<1>5. ASSUME WriteFails(k) PROVE Types'
  <2>1. writers[k] \in Writer /\ writers[k] # NoWriter
      BY <1>5, ActiveWriter DEF WriteFails
  <2>2. writers' \in [Kinds -> {NoWriter} \cup Writer]
      BY <1>5, <2>1, WriterSteps DEF WriteFails, Steps
  <2>3. faults' \in 0..MaxFaults
      BY <1>5, BoundAssumption DEF WriteFails, Fault, Types
  <2> QED
      BY <1>5, <2>2, <2>3 DEF WriteFails, Types
<1>6. ASSUME WriterDies(k) PROVE Types'
  <2>1. writers[k] \in Writer /\ writers[k] # NoWriter
      BY <1>6, ActiveWriter DEF WriterDies
  <2>2. writers' \in [Kinds -> {NoWriter} \cup Writer]
      BY <1>6, <2>1, WriterSteps DEF WriterDies, Steps
  <2>3. faults' \in 0..MaxFaults
      BY <1>6, BoundAssumption DEF WriterDies, Fault, Types
  <2>4. rebuild' \in [Rebuilds -> Rebuild]
      BY <1>6, RebuildFacts DEF WriterDies, Types
  <2> QED
      BY <1>6, <2>2, <2>3, <2>4 DEF WriterDies, Types
<1>7. ASSUME FinishWriter(k) PROVE Types'
  <2>1. jobs' \in [Jobs -> Job]
    <3>1. \A j \in Settled(writers[k]) : jobs[j] \in Job /\ jobs[j].st \in Placed
        BY DEF Settled, Types, Placed
    <3>2. \A j \in Settled(writers[k]), s \in {"ready", "failed"} : [jobs[j] EXCEPT !.st = s] \in Job
        BY <3>1, JobMoves DEF JobState, Stored
    <3> QED
        BY <1>7, <3>2 DEF FinishWriter, Types
  <2>2. rebuild' \in [Rebuilds -> Rebuild]
      BY <1>7, RebuildFacts DEF FinishWriter, Types
  <2> QED
      BY <1>7, <2>1, <2>2 DEF FinishWriter, Types
<1> QED
    BY <1>1, <1>2, <1>3, <1>4, <1>5, <1>6, <1>7 DEF WriterStep

\* A rebuild thread.
LEMMA RebuildTypes ==
  ASSUME Types, NEW r \in Rebuilds, RebuildStep(r)
  PROVE  Types'
<1>0. rebuild[r] \in Rebuild
    BY DEF Types
<1>1. ASSUME RebuildFingerprint(r) PROVE Types'
  <2>1. KindOrder[rebuild[r].at] \in Kinds
      BY <1>0, <1>1, RebuildWorks, NewAndGone DEF RebuildFingerprint
  <2>2. catalog[KindOrder[rebuild[r].at]].fp \in Version
      BY <2>1 DEF Types, Catalog
  <2>3. rebuild' = [rebuild EXCEPT ![r] = [rebuild[r] EXCEPT !.step = "ensure",
                                             !.fp = catalog[KindOrder[rebuild[r].at]].fp]]
      BY <1>1 DEF RebuildFingerprint
  <2>4. [rebuild[r] EXCEPT !.step = "ensure", !.fp = catalog[KindOrder[rebuild[r].at]].fp] \in Rebuild
      BY <1>0, <1>1, <2>2, RebuildWorks DEF RebuildFingerprint
  <2> QED
      BY <1>1, <2>3, <2>4 DEF RebuildFingerprint, Types
<1>2. ASSUME RebuildFails(r) PROVE Types'
  <2>1. rebuild' = [rebuild EXCEPT ![r] = [rebuild[r] EXCEPT !.step = "done"]]
      BY <1>2 DEF RebuildFails
  <2>2. faults' \in 0..MaxFaults
      BY <1>2, BoundAssumption DEF RebuildFails, Fault, Types
  <2> QED
      BY <1>0, <1>2, <2>1, <2>2, RebuildFacts DEF RebuildFails, Types
<1>3. ASSUME RebuildEnsure(r) PROVE Types'
  <2> DEFINE k == KindOrder[rebuild[r].at]
  <2>1. k \in Kinds /\ [rebuild[r] EXCEPT !.step = "busy"] \in Rebuild /\ rebuild[r].fp \in Version
      BY <1>0, <1>3, RebuildWorks, NewAndGone DEF RebuildEnsure, Rebuild
  <2>2. rebuild' = [rebuild EXCEPT ![r] = [rebuild[r] EXCEPT !.step = "busy"]]
      BY <1>3 DEF RebuildEnsure
  <2>3. CASE writers[k] = NoWriter
    <3>1. NewWriter(r, rebuild[r].fp) \in Writer
        BY <2>1, NewWriterType DEF Threads
    <3>2. writers' = [writers EXCEPT ![k] = NewWriter(r, rebuild[r].fp)]
        BY <1>3, <2>3 DEF RebuildEnsure
    <3> QED
        BY <1>3, <2>1, <2>2, <3>1, <3>2 DEF RebuildEnsure, Types
  <2>4. CASE writers[k] # NoWriter
    <3>1. writers[k] \in Writer /\ writers[k].joined \in SUBSET Rebuilds
        BY <2>1, <2>4, WriterIs DEF Writer
    <3>2. [writers[k] EXCEPT !.joined = writers[k].joined \cup {r}] \in Writer
        BY <3>1, WriterJoined
    <3>3. writers' = [writers EXCEPT ![k] = [writers[k] EXCEPT !.joined = writers[k].joined \cup {r}]]
        BY <1>3, <2>4 DEF RebuildEnsure
    <3>4. writers' \in [Kinds -> {NoWriter} \cup Writer]
        BY <3>2, <3>3 DEF Types
    <3>5. rebuild' \in [Rebuilds -> Rebuild]
        BY <2>1, <2>2 DEF Types
    <3> QED
        BY <1>3, <3>4, <3>5 DEF RebuildEnsure, Types
  <2> QED
      BY <2>3, <2>4
<1>4. ASSUME RebuildTimeout(r) PROVE Types'
  <2> DEFINE k == KindOrder[rebuild[r].at]
  <2>1. k \in Kinds
      BY <1>0, <1>4, RebuildWorks, NewAndGone DEF RebuildTimeout
  <2>2. rebuild' \in [Rebuilds -> Rebuild]
      BY <1>0, <1>4, RebuildFacts DEF RebuildTimeout, Types
  <2>3. writers' = [writers EXCEPT ![k] = [writers[k] EXCEPT !.joined = writers[k].joined \ {r}]]
      BY <1>4 DEF RebuildTimeout
  <2>4. [writers[k] EXCEPT !.joined = writers[k].joined \ {r}] \in {NoWriter} \cup Writer
    <3>1. CASE writers[k] = NoWriter
        BY <3>1 DEF NoWriter
    <3>2. CASE writers[k] # NoWriter
      <4>1. writers[k] \in Writer /\ writers[k].joined \ {r} \in SUBSET Rebuilds
          BY <2>1, <3>2, WriterIs DEF Writer
      <4> QED
          BY <4>1, WriterJoined
    <3> QED
        BY <3>1, <3>2
  <2>5. writers' \in [Kinds -> {NoWriter} \cup Writer]
      BY <2>3, <2>4 DEF Types
  <2> QED
      BY <1>4, <2>2, <2>5 DEF RebuildTimeout, Types
<1> QED
    BY <1>1, <1>2, <1>3, <1>4 DEF RebuildStep

\* The slots: they only grow by an accepted request.
LEMMA FreedType == ASSUME active \in Nat PROVE Freed \in Nat
BY DEF Freed

\* The thread of a filtered job.
LEMMA JobTypes ==
  ASSUME Types, NEW j \in Jobs, JobStep(j)
  PROVE  Types'
<1>1. jobs[j] \in Job /\ Freed \in Nat
    BY FreedType DEF Types
<1>2. ASSUME NEW s \in {"running", "ready", "failed"}, jobs[j].st \in Stored,
             jobs' = [jobs EXCEPT ![j].st = s]
      PROVE  jobs' \in [Jobs -> Job]
  <2>1. [jobs[j] EXCEPT !.st = s] \in Job
      BY <1>1, <1>2, JobMoves DEF JobState, Stored, Placed
  <2>2. jobs' = [jobs EXCEPT ![j] = [jobs[j] EXCEPT !.st = s]]
      BY <1>2
  <2> QED
      BY <2>1, <2>2 DEF Types
<1>3. Fault => faults' \in 0..MaxFaults
    BY BoundAssumption DEF Fault, Types
<1>4. CASE RunJob(j)
    BY <1>2, <1>4 DEF RunJob, Types
<1>5. CASE RunNothing(j)
    BY <1>1, <1>5 DEF RunNothing, Types
<1>6. CASE RunDies(j)
    BY <1>3, <1>6 DEF RunDies, Types
<1>7. CASE WriteFiltered(j)
    BY <1>7 DEF WriteFiltered, Types
<1>8. CASE WriteFilteredFails(j)
  <2>1. jobs' \in [Jobs -> Job]
      BY <1>2, <1>8 DEF WriteFilteredFails, Types
  <2> QED
      BY <1>3, <1>8, <2>1 DEF WriteFilteredFails, Types
<1>9. CASE PublishFiltered(j)
  <2>1. jobs' \in [Jobs -> Job]
      BY <1>2, <1>9 DEF PublishFiltered, Types
  <2>2. files' \subseteq Jobs
      BY <1>9 DEF PublishFiltered, Types
  <2> QED
      BY <1>9, <2>1, <2>2 DEF PublishFiltered, Types
<1>10. CASE ReleaseSlot(j)
    BY <1>1, <1>10 DEF ReleaseSlot, Types
<1> QED
    BY <1>4, <1>5, <1>6, <1>7, <1>8, <1>9, <1>10 DEF JobStep

\* The handling of a request.
LEMMA RequestTypes ==
  ASSUME Types, NEW j \in Jobs, RequestStep(j)
  PROVE  Types'
<1>0. /\ jobs[j] \in Job /\ Cleaned \in [Jobs -> Job] /\ KeptFiles \subseteq Jobs
      /\ {"hit", "ready", "running"} \subseteq JobState /\ {"hit", "joined", "owner"} \subseteq How
    BY CleanedFacts DEF Types, JobState, Stored, How
<1>1. ASSUME NEW k \in Kinds, Ask(j, k) PROVE Types'
  <2>1. catalog[k].fp \in Version
      BY NewAndGone DEF Types, Catalog
  <2>2. jobs' = [jobs EXCEPT ![j] = [NewJob EXCEPT !.st = "asked", !.kind = k, !.fp = catalog[k].fp]]
      BY <1>1 DEF Ask
  <2>3. [NewJob EXCEPT !.st = "asked", !.kind = k, !.fp = catalog[k].fp] \in Job
      BY <2>1, JobAsked
  <2> QED
      BY <1>1, <2>2, <2>3 DEF Ask, Types
<1>2. ASSUME NEW k \in Kinds, AskFiltered(j, k) PROVE Types'
  <2>1. [NewJob EXCEPT !.st = "queued", !.kind = k, !.how = "filtered"] \in Job
      BY JobQueued
  <2>2. jobs' \in [Jobs -> Job]
      BY <1>0, <1>2, <2>1 DEF AskFiltered
  <2> QED
      BY <1>0, <1>2, <2>2 DEF AskFiltered, Types
<1>3. ASSUME Look(j) PROVE Types'
  <2> DEFINE s == IF Fresh(jobs[j].kind, jobs[j].fp) THEN "hit" ELSE "stale"
  <2>1. [jobs[j] EXCEPT !.st = s] \in Job
      BY <1>0, <1>3, JobMoves DEF Look, JobState, Placed
  <2>2. jobs' = [jobs EXCEPT ![j] = [jobs[j] EXCEPT !.st = s]]
      BY <1>3 DEF Look
  <2> HIDE DEF s
  <2> QED
      BY <1>3, <2>1, <2>2 DEF Look, Types
<1>4. ASSUME StoreReady(j) PROVE Types'
  <2>1. jobs[j].st \notin Stored /\ jobs[j].st \in Placed
      BY <1>4 DEF StoreReady, Stored, Placed
  <2>2. [Cleaned EXCEPT ![j].st = "ready", ![j].how = "hit", ![j].fp = 0] \in [Jobs -> Job]
      BY <1>0, <2>1, CleanedEntry
  <2> QED
      BY <1>0, <1>4, <2>2 DEF StoreReady, Types
<1>5. ASSUME DecideFresh(j) PROVE Types'
  <2>1. jobs[j].st \notin Stored /\ jobs[j].st \in Placed
      BY <1>5 DEF DecideFresh, Stored, Placed
  <2>2. [Cleaned EXCEPT ![j].st = "hit"] \in [Jobs -> Job]
      BY <1>0, <2>1, CleanedEntry
  <2> QED
      BY <1>0, <1>5, <2>2 DEF DecideFresh, Types
<1>6. ASSUME DecideJoin(j) PROVE Types'
  <2> DEFINE k == jobs[j].kind
  <2>1. jobs[j].st \notin Stored /\ jobs[j].st \in Placed
      BY <1>6 DEF DecideJoin, Stored, Placed
  <2>2. [Cleaned EXCEPT ![j].st = "running", ![j].how = "joined", ![j].fp = 0] \in [Jobs -> Job]
      BY <1>0, <2>1, CleanedEntry
  <2>3. k \in Kinds /\ writers[k] # NoWriter
      BY <1>0, <1>6, <2>1 DEF DecideJoin, Job
  <2>4. writers[k] \in Writer /\ writers[k].waiters \cup {j} \in SUBSET Jobs
      BY <2>3, WriterIs DEF Writer
  <2>5. writers' = [writers EXCEPT ![k] = [writers[k] EXCEPT !.waiters = writers[k].waiters \cup {j}]]
      BY <1>6 DEF DecideJoin
  <2>6. writers' \in [Kinds -> {NoWriter} \cup Writer]
      BY <2>4, <2>5, WriterJoined DEF Types
  <2> QED
      BY <1>0, <1>6, <2>2, <2>6 DEF DecideJoin, Types
<1>7. ASSUME DecideStart(j) PROVE Types'
  <2> DEFINE k == jobs[j].kind
  <2>1. jobs[j].st \notin Stored /\ jobs[j].st \in Placed
      BY <1>7 DEF DecideStart, Stored, Placed
  <2>2. [Cleaned EXCEPT ![j].st = "running", ![j].how = "owner", ![j].fp = 0] \in [Jobs -> Job]
      BY <1>0, <2>1, CleanedEntry
  <2>3. jobs[j].fp \in Version /\ j \in Threads
      BY <1>0 DEF Job, Threads
  <2>4. NewWriter(j, jobs[j].fp) \in Writer
      BY <2>3, NewWriterType
  <2>5. writers' \in [Kinds -> {NoWriter} \cup Writer]
      BY <1>7, <2>4 DEF DecideStart, Types
  <2> QED
      BY <1>0, <1>7, <2>2, <2>5 DEF DecideStart, Types
<1>8. ASSUME AskRefused(j) PROVE Types'
  <2>1. Cleaned[j] = jobs[j]
      BY <1>8, CleanedFacts DEF AskRefused, Stored
  <2>2. jobs' = [Cleaned EXCEPT ![j] = [jobs[j] EXCEPT !.st = "refused"]]
      BY <1>0, <1>8, <2>1 DEF AskRefused
  <2>3. [jobs[j] EXCEPT !.st = "refused"] \in Job
      BY <1>0, JobMoves DEF JobState, Placed, Stored
  <2> QED
      BY <1>0, <1>8, <2>2, <2>3 DEF AskRefused, Types
<1>9. ASSUME Age(j) PROVE Types'
  <2>1. jobs' = [jobs EXCEPT ![j] = [jobs[j] EXCEPT !.aged = TRUE]]
      BY <1>9 DEF Age
  <2> QED
      BY <1>0, <1>9, <2>1, JobAged DEF Age, Types
<1> QED
    BY <1>1, <1>2, <1>3, <1>4, <1>5, <1>6, <1>7, <1>8, <1>9 DEF RequestStep

LEMMA RestTypes ==
  ASSUME Types, Poll \/ Crash
  PROVE  Types'
<1>1. CASE Poll
    BY <1>1, CleanedFacts DEF Poll, Types
<1>2. CASE Crash
  <2>1. faults' \in 0..MaxFaults
      BY <1>2, BoundAssumption DEF Crash, Fault, Types
  <2>2. jobs' \in [Jobs -> Job]
      BY <1>2, NewAndGone DEF Crash, Types
  <2>3. rebuild' \in [Rebuilds -> Rebuild]
      BY <1>2, RebuildFacts DEF Crash, Types
  <2> QED
      BY <1>2, <2>1, <2>2, <2>3 DEF Crash, Types
<1> QED
    BY <1>1, <1>2

LEMMA TypesStep == Types /\ [Next]_vars => Types'
<1> SUFFICES ASSUME Types, [Next]_vars PROVE Types'
    OBVIOUS
<1>1. CASE UNCHANGED vars
    BY <1>1 DEF vars, Types
<1>2. CASE Next
    BY <1>2, SyncTypes, WriterTypes, RebuildTypes, JobTypes, RequestTypes, RestTypes DEF Next
<1> QED
    BY <1>1, <1>2

-----------------------------------------------------------------------------
(* What a request does to the job table.                                   *)

\* A job a request or a poll has nothing to do with may expire, no more.
Aside(i) ==
  /\ thread'[i] = thread[i] /\ leftover' = leftover
  /\ \/ jobs'[i] = jobs[i] /\ (i \in files' <=> i \in files)
     \/ /\ jobs[i].st \in Stored /\ jobs'[i] = Gone
        /\ i \in files' <=> i \in files /\ ~(jobs[i].st = "ready" /\ jobs[i].how = "filtered")

LEMMA CleanedAside ==
  ASSUME Types, NEW i \in Jobs, thread'[i] = thread[i], leftover' = leftover,
         jobs'[i] = Cleaned[i], files' = KeptFiles
  PROVE  Aside(i)
<1>1. Cleaned[i] = IF jobs[i].st \in Stored /\ jobs[i].aged THEN Gone ELSE jobs[i]
    BY CleanedFacts
<1>2. i \in Expired(jobs) <=> jobs[i].st \in Stored /\ jobs[i].aged
    BY DEF Expired
<1>3. i \in KeptFiles <=> i \in files /\ ~(i \in Expired(jobs) /\ jobs[i].st = "ready" /\ jobs[i].how = "filtered")
    BY DEF KeptFiles
<1> QED
    BY <1>1, <1>2, <1>3 DEF Aside

LEMMA OthersAside ==
  ASSUME Types, NEW j \in Jobs, RequestStep(j), NEW i \in Jobs, i # j
  PROVE  Aside(i)
<1>1. Cleaned \in [Jobs -> Job] /\ jobs \in [Jobs -> Job] /\ thread \in [Jobs -> {"none", "start", "export", "publish", "release", "dead"}]
    BY CleanedFacts DEF Types
<1>2. CASE jobs'[i] = jobs[i] /\ UNCHANGED <<thread, files, leftover>>
    BY <1>2 DEF Aside
<1>3. CASE Look(j) \/ Age(j) \/ \E k \in Kinds : Ask(j, k)
    BY <1>1, <1>2, <1>3 DEF Look, Age, Ask
<1>4. CASE \E k \in Kinds : AskFiltered(j, k)
  <2>1. jobs'[i] = Cleaned[i] /\ thread'[i] = thread[i] /\ leftover' = leftover /\ files' = KeptFiles
      BY <1>1, <1>4 DEF AskFiltered
  <2> QED
      BY <2>1, CleanedAside
<1>5. CASE StoreReady(j) \/ DecideFresh(j) \/ DecideJoin(j) \/ DecideStart(j) \/ AskRefused(j)
  <2>1. jobs'[i] = Cleaned[i] /\ thread'[i] = thread[i] /\ leftover' = leftover /\ files' = KeptFiles
      BY <1>1, <1>5 DEF StoreReady, DecideFresh, DecideJoin, DecideStart, AskRefused
  <2> QED
      BY <2>1, CleanedAside
<1> QED
    BY <1>3, <1>4, <1>5 DEF RequestStep

\* What happens to the entry of the request itself.
Same(v, w) == v.kind = w.kind /\ v.how = w.how /\ v.fp = w.fp

LEMMA OwnEntry ==
  ASSUME Types, NEW j \in Jobs
  PROVE  /\ \A k \in Kinds : Ask(j, k) =>
              jobs'[j].st = "asked" /\ jobs'[j].kind = k /\ jobs'[j].fp = catalog[k].fp
         /\ \A k \in Kinds : AskFiltered(j, k) =>
              jobs'[j].st = "queued" /\ jobs'[j].kind = k /\ jobs'[j].how = "filtered"
         /\ Look(j) => /\ Same(jobs'[j], jobs[j])
                       /\ jobs'[j].st = IF Fresh(jobs[j].kind, jobs[j].fp) THEN "hit" ELSE "stale"
         /\ StoreReady(j) => jobs'[j].st = "ready" /\ jobs'[j].kind = jobs[j].kind /\ jobs'[j].how = "hit"
         /\ DecideFresh(j) => jobs'[j].st = "hit" /\ Same(jobs'[j], jobs[j])
         /\ DecideJoin(j) => jobs'[j].st = "running" /\ jobs'[j].kind = jobs[j].kind /\ jobs'[j].how = "joined"
         /\ DecideStart(j) => jobs'[j].st = "running" /\ jobs'[j].kind = jobs[j].kind /\ jobs'[j].how = "owner"
         /\ AskRefused(j) => jobs'[j].st = "refused"
         /\ Age(j) => jobs'[j].st = jobs[j].st /\ Same(jobs'[j], jobs[j])
<1>1. jobs \in [Jobs -> Job] /\ Cleaned \in [Jobs -> Job]
    BY CleanedFacts DEF Types
<1>2. jobs[j].st \notin Stored => Cleaned[j] = jobs[j]
    BY CleanedFacts
<1>3. ASSUME NEW k \in Kinds, Ask(j, k)
      PROVE  jobs'[j].st = "asked" /\ jobs'[j].kind = k /\ jobs'[j].fp = catalog[k].fp
    BY <1>1, <1>3 DEF Ask, NewJob
<1>4. ASSUME NEW k \in Kinds, AskFiltered(j, k)
      PROVE  jobs'[j].st = "queued" /\ jobs'[j].kind = k /\ jobs'[j].how = "filtered"
    BY <1>1, <1>4 DEF AskFiltered, NewJob
<1>5. ASSUME Look(j)
      PROVE  /\ Same(jobs'[j], jobs[j])
             /\ jobs'[j].st = IF Fresh(jobs[j].kind, jobs[j].fp) THEN "hit" ELSE "stale"
    BY <1>1, <1>5 DEF Look, Same, Job
<1>6. ASSUME StoreReady(j)
      PROVE  jobs'[j].st = "ready" /\ jobs'[j].kind = jobs[j].kind /\ jobs'[j].how = "hit"
    BY <1>1, <1>2, <1>6 DEF StoreReady, Stored, Job
<1>7. ASSUME DecideFresh(j) PROVE jobs'[j].st = "hit" /\ Same(jobs'[j], jobs[j])
    BY <1>1, <1>2, <1>7 DEF DecideFresh, Stored, Same, Job
<1>8. ASSUME DecideJoin(j)
      PROVE  jobs'[j].st = "running" /\ jobs'[j].kind = jobs[j].kind /\ jobs'[j].how = "joined"
    BY <1>1, <1>2, <1>8 DEF DecideJoin, Stored, Job
<1>9. ASSUME DecideStart(j)
      PROVE  jobs'[j].st = "running" /\ jobs'[j].kind = jobs[j].kind /\ jobs'[j].how = "owner"
    BY <1>1, <1>2, <1>9 DEF DecideStart, Stored, Job
<1>10. ASSUME AskRefused(j) PROVE jobs'[j].st = "refused"
    BY <1>1, <1>2, <1>10 DEF AskRefused, Stored, Job
<1>11. ASSUME Age(j) PROVE jobs'[j].st = jobs[j].st /\ Same(jobs'[j], jobs[j])
    BY <1>1, <1>11 DEF Age, Same, Job
<1> QED
    BY <1>3, <1>4, <1>5, <1>6, <1>7, <1>8, <1>9, <1>10, <1>11

-----------------------------------------------------------------------------
(* Slots, files and forgotten jobs: the inductive invariant.               *)

\* What the thread of a filtered job says of the job, unless the job has left
\* the table.
ThreadInv(j) ==
  /\ thread[j] \in {"start", "dead"} => jobs[j].st \in {"queued", "gone"}
  /\ thread[j] \in {"export", "publish"} => jobs[j].st \in {"running", "gone"}
  /\ thread[j] = "release" => jobs[j].st \in {"ready", "failed", "gone"}
  /\ thread[j] # "none" /\ jobs[j].st # "gone" => jobs[j].how = "filtered"
  /\ jobs[j].st = "queued" => thread[j] \in {"start", "dead"}
  /\ jobs[j].st = "running" /\ jobs[j].how = "filtered" => thread[j] \in {"export", "publish"}

FileInv(j) ==
  /\ thread[j] = "publish" => j \in files
  /\ jobs[j].st = "ready" /\ jobs[j].how = "filtered" => j \in files
  /\ j \in leftover => j \in files /\ jobs[j].st = "gone" /\ thread[j] = "none"
  /\ j \in files \ leftover =>
       thread[j] = "publish" \/ (jobs[j].st = "ready" /\ jobs[j].how = "filtered")

\* What an unfiltered job relies on: a file to hand out, or a writer.
SharedInv(j) ==
  /\ jobs[j].st = "hit" => disk[jobs[j].kind].xlsx # None
  /\ jobs[j].st = "ready" /\ jobs[j].how # "filtered" => disk[jobs[j].kind].xlsx # None
  /\ jobs[j].st = "running" /\ jobs[j].how # "filtered" =>
       LET w == writers[jobs[j].kind] IN w # NoWriter /\ j \in {w.by} \cup w.waiters

\* A writer's jobs are its own, and its file is there before it says so.
WriterInv(k) ==
  LET w == writers[k] IN w # NoWriter =>
    /\ \A j \in Jobs : j \in {w.by} \cup w.waiters =>
         \/ jobs[j].st = "gone"
         \/ jobs[j].st = "running" /\ jobs[j].kind = k /\ jobs[j].how \in {"owner", "joined"}
    /\ w.step \in {"truncate", "fill", "ok"} => disk[k].xlsx # None

JobsInv ==
  /\ \A j \in Jobs : ThreadInv(j) /\ FileInv(j) /\ SharedInv(j)
  /\ \A k \in Kinds : WriterInv(k)
  /\ SlotCount

-----------------------------------------------------------------------------
(* The versions of a catalogue and of its snapshot.                        *)

\* Fingerprints in use are old or current, never ahead of the catalogue; the
\* meta file never claims more than the file beside it holds.
VersionInv(k) ==
  LET c == catalog[k]  d == disk[k]  w == writers[k] IN
  /\ c.fp <= c.rows
  /\ d.xlsx # None => d.xlsx <= c.rows
  /\ d.meta # None => d.xlsx # None /\ d.meta <= d.xlsx /\ d.meta <= c.fp
  /\ w # NoWriter =>
       /\ w.fp <= c.fp /\ w.rows <= c.rows
       /\ w.step \in {"replace", "truncate", "fill"} =>
            w.fp <= w.rows /\ (d.meta # None => d.meta <= w.rows)
       /\ w.step \in {"truncate", "fill"} => d.xlsx = w.rows

\* So are those a request or a rebuild thread carries.
CarriedInv ==
  /\ \A j \in Jobs : jobs[j].st \in {"asked", "stale"} => jobs[j].fp <= catalog[jobs[j].kind].fp
  /\ \A r \in Rebuilds : rebuild[r].step = "ensure" =>
                           rebuild[r].fp <= catalog[KindOrder[rebuild[r].at]].fp

SnapshotInv == (\A k \in Kinds : VersionInv(k)) /\ CarriedInv

LEMMA InitSnapshot == Init => SnapshotInv
<1> SUFFICES ASSUME Init PROVE SnapshotInv
    OBVIOUS
<1>1. ASSUME NEW k \in Kinds PROVE VersionInv(k)
    BY <1>1, ThreadAssumption DEF Init, VersionInv
<1>2. CarriedInv
    BY DEF Init, CarriedInv, NewJob
<1> QED
    BY <1>1, <1>2 DEF SnapshotInv

\* Catalogues only grow, and no fingerprint is ahead of its catalogue.
Grows(k) ==
  /\ catalog[k].rows <= catalog'[k].rows /\ catalog[k].fp <= catalog'[k].fp
  /\ catalog'[k].fp <= catalog'[k].rows

LEMMA CatalogGrows ==
  ASSUME Types, SnapshotInv, Next, NEW k \in Kinds
  PROVE  Grows(k)
<1>1. catalog \in [Kinds -> Catalog] /\ catalog[k] \in Catalog /\ catalog[k].fp <= catalog[k].rows
    BY DEF Types, SnapshotInv, VersionInv
<1>2. /\ catalog[k].rows \in Nat /\ catalog[k].fp \in Nat
      /\ Stamped(catalog[k]).rows = catalog[k].rows + 1 /\ Stamped(catalog[k]).fp = catalog[k].rows + 1
      /\ Unstamped(catalog[k]).rows = catalog[k].rows + 1 /\ Unstamped(catalog[k]).fp = catalog[k].fp
    BY <1>1, BoundAssumption DEF Catalog, Version, Stamped, Unstamped
<1>3. catalog'[k] \in {catalog[k], Stamped(catalog[k]), Unstamped(catalog[k])} => Grows(k)
    BY <1>1, <1>2 DEF Grows
<1>4. CASE UNCHANGED catalog
    BY <1>3, <1>4
<1>5. CASE \E l \in Kinds : Cutover(l)
    BY <1>1, <1>3, <1>5 DEF Cutover
<1>6. CASE \E K \in SUBSET Kinds : Enrich(K) \/ Restamp(K)
    BY <1>3, <1>6 DEF Enrich, Restamp
<1>7. ASSUME NEW r \in Rebuilds, ScheduleRebuild(r) \/ RebuildStep(r) PROVE UNCHANGED catalog
    BY <1>7 DEF ScheduleRebuild, RebuildStep, RebuildFingerprint, RebuildFails, RebuildEnsure, RebuildTimeout
<1>8. ASSUME NEW j \in Jobs, RequestStep(j) PROVE UNCHANGED catalog
    BY <1>8 DEF RequestStep, Ask, AskFiltered, Look, StoreReady, DecideFresh, DecideJoin, DecideStart, AskRefused, Age
<1>9. ASSUME NEW j \in Jobs, JobStep(j) PROVE UNCHANGED catalog
    BY <1>9 DEF JobStep, RunJob, RunNothing, RunDies, WriteFiltered, WriteFilteredFails, PublishFiltered, ReleaseSlot
<1>10. ASSUME NEW l \in Kinds, WriterStep(l) PROVE UNCHANGED catalog
    BY <1>10 DEF WriterStep, ExportRows, ReplaceFile, TruncateMeta, FillMeta, FinishWriter, WriteFails, WriterDies
<1>11. EndWithoutRebuild \/ Poll \/ Crash => UNCHANGED catalog
    BY DEF EndWithoutRebuild, Poll, Crash
<1> QED
    BY <1>4, <1>5, <1>6, <1>7, <1>8, <1>9, <1>10, <1>11 DEF Next

\* A fingerprint that is carried was carried before, or has just been read.
LEMMA JobCarries ==
  ASSUME Types, Next, NEW i \in Jobs, jobs'[i].st \in {"asked", "stale"}
  PROVE  \/ jobs[i].st \in {"asked", "stale"} /\ Same(jobs'[i], jobs[i])
         \/ jobs'[i].kind \in Kinds /\ jobs'[i].fp = catalog[jobs'[i].kind].fp /\ UNCHANGED catalog
<1>0. jobs \in [Jobs -> Job] /\ (jobs'[i] = jobs[i] => Same(jobs'[i], jobs[i]))
    BY DEF Types, Same
<1>1. CASE jobs'[i] = jobs[i]
    BY <1>0, <1>1
<1>2. ASSUME NEW j \in Jobs, RequestStep(j), i # j PROVE jobs'[i] = jobs[i]
    BY <1>2, OthersAside DEF Aside, Gone, NewJob
<1>3. CASE RequestStep(i)
  <2>1. ASSUME NEW k \in Kinds, Ask(i, k)
        PROVE  jobs'[i].kind \in Kinds /\ jobs'[i].fp = catalog[jobs'[i].kind].fp /\ UNCHANGED catalog
    <3>1. jobs'[i].kind = k /\ jobs'[i].fp = catalog[k].fp
        BY <2>1, OwnEntry
    <3>2. UNCHANGED catalog
        BY <2>1 DEF Ask
    <3> QED
        BY <3>1, <3>2
  <2>2. Look(i) \/ Age(i) => jobs[i].st \in {"asked", "stale"} /\ Same(jobs'[i], jobs[i])
      BY OwnEntry DEF Look
  <2>3. ASSUME \/ \E k \in Kinds : AskFiltered(i, k)
               \/ StoreReady(i) \/ DecideFresh(i) \/ DecideJoin(i) \/ DecideStart(i) \/ AskRefused(i)
        PROVE  FALSE
      BY <2>3, OwnEntry
  <2> QED
      BY <1>3, <2>1, <2>2, <2>3 DEF RequestStep
<1>4. ASSUME NEW j \in Jobs, JobStep(j) PROVE jobs'[i] = jobs[i]
    BY <1>0, <1>4 DEF JobStep, RunJob, RunNothing, RunDies, WriteFiltered, WriteFilteredFails, PublishFiltered,
       ReleaseSlot, Job
<1>5. ASSUME NEW k \in Kinds, WriterStep(k) PROVE jobs'[i] = jobs[i]
    BY <1>0, <1>5 DEF WriterStep, ExportRows, ReplaceFile, TruncateMeta, FillMeta, FinishWriter, WriteFails, WriterDies, Job
<1>6. Poll \/ Crash => jobs'[i] = jobs[i]
    BY <1>0, CleanedFacts DEF Poll, Crash, Gone, NewJob
<1>7. ASSUME NEW r \in Rebuilds, ScheduleRebuild(r) \/ RebuildStep(r) PROVE jobs'[i] = jobs[i]
    BY <1>7 DEF ScheduleRebuild, RebuildStep, RebuildFingerprint, RebuildFails, RebuildEnsure, RebuildTimeout
<1>8. ASSUME \/ \E k \in Kinds : Cutover(k)
             \/ \E K \in SUBSET Kinds : Enrich(K) \/ Restamp(K)
             \/ EndWithoutRebuild
      PROVE  jobs'[i] = jobs[i]
    BY <1>8 DEF Cutover, Enrich, Restamp, EndWithoutRebuild
<1> QED
    BY <1>1, <1>2, <1>3, <1>4, <1>5, <1>6, <1>7, <1>8 DEF Next

LEMMA RebuildCarries ==
  ASSUME Types, Next, NEW s \in Rebuilds, rebuild'[s].step = "ensure"
  PROVE  \/ rebuild'[s] = rebuild[s]
         \/ rebuild'[s].at = rebuild[s].at /\ rebuild'[s].fp = catalog[KindOrder[rebuild[s].at]].fp
              /\ rebuild[s].step = "fingerprint" /\ UNCHANGED catalog
<1>0. rebuild \in [Rebuilds -> Rebuild] /\ \A rb : NextKind(rb).step # "ensure"
    BY DEF Types, NextKind
<1>1. ASSUME NEW r \in Rebuilds, RebuildFingerprint(r)
      PROVE  \/ rebuild'[s] = rebuild[s]
             \/ rebuild'[s].at = rebuild[s].at /\ rebuild'[s].fp = catalog[KindOrder[rebuild[s].at]].fp
                  /\ rebuild[s].step = "fingerprint" /\ UNCHANGED catalog
    BY <1>0, <1>1 DEF RebuildFingerprint, Rebuild
<1>2. ASSUME NEW r \in Rebuilds, ScheduleRebuild(r) \/ RebuildFails(r) \/ RebuildEnsure(r) \/ RebuildTimeout(r)
      PROVE  rebuild'[s] = rebuild[s]
    BY <1>0, <1>2 DEF ScheduleRebuild, RebuildFails, RebuildEnsure, RebuildTimeout, Rebuild
<1>3. ASSUME NEW k \in Kinds, WriterStep(k) PROVE rebuild'[s] = rebuild[s]
    BY <1>0, <1>3 DEF WriterStep, ExportRows, ReplaceFile, TruncateMeta, FillMeta, FinishWriter, WriteFails, WriterDies, Rebuild
<1>4. ASSUME NEW j \in Jobs, RequestStep(j) PROVE rebuild'[s] = rebuild[s]
    BY <1>4 DEF RequestStep, Ask, AskFiltered, Look, StoreReady, DecideFresh, DecideJoin, DecideStart, AskRefused, Age
<1>5. ASSUME NEW j \in Jobs, JobStep(j) PROVE rebuild'[s] = rebuild[s]
    BY <1>5 DEF JobStep, RunJob, RunNothing, RunDies, WriteFiltered, WriteFilteredFails, PublishFiltered, ReleaseSlot
<1>6. ASSUME \/ \E k \in Kinds : Cutover(k)
             \/ \E K \in SUBSET Kinds : Enrich(K) \/ Restamp(K)
             \/ EndWithoutRebuild \/ Poll \/ Crash
      PROVE  rebuild'[s] = rebuild[s]
    BY <1>0, <1>6 DEF Cutover, Enrich, Restamp, EndWithoutRebuild, Poll, Crash
<1> QED
    BY <1>1, <1>2, <1>3, <1>4, <1>5, <1>6 DEF Next, RebuildStep

LEMMA CarriedStep ==
  ASSUME Types, Types', SnapshotInv, Next
  PROVE  CarriedInv'
<1>0. \A k \in Kinds : /\ catalog[k].fp \in Nat /\ catalog'[k].fp \in Nat
                       /\ catalog[k].fp <= catalog'[k].fp
    BY CatalogGrows, BoundAssumption DEF Types, Catalog, Version, Grows
<1>1. ASSUME NEW j \in Jobs, jobs'[j].st \in {"asked", "stale"}
      PROVE  jobs'[j].fp <= catalog'[jobs'[j].kind].fp
  <2>1. jobs[j] \in Job /\ jobs[j].fp \in Nat
      BY BoundAssumption DEF Types, Job, Version
  <2>2. CASE jobs[j].st \in {"asked", "stale"} /\ Same(jobs'[j], jobs[j])
    <3>1. jobs[j].kind \in Kinds /\ jobs[j].fp <= catalog[jobs[j].kind].fp
        BY <2>1, <2>2 DEF Job, Placed, SnapshotInv, CarriedInv
    <3> QED
        BY <1>0, <2>1, <2>2, <3>1 DEF Same
  <2>3. CASE jobs'[j].kind \in Kinds /\ jobs'[j].fp = catalog[jobs'[j].kind].fp /\ UNCHANGED catalog
      BY <1>0, <2>3
  <2> QED
      BY <1>1, <2>2, <2>3, JobCarries
<1>2. ASSUME NEW r \in Rebuilds, rebuild'[r].step = "ensure"
      PROVE  rebuild'[r].fp <= catalog'[KindOrder[rebuild'[r].at]].fp
  <2>1. rebuild[r] \in Rebuild /\ rebuild[r].fp \in Nat
      BY BoundAssumption DEF Types, Rebuild, Version
  <2>2. CASE rebuild'[r] = rebuild[r]
    <3>1. KindOrder[rebuild[r].at] \in Kinds /\ rebuild[r].fp <= catalog[KindOrder[rebuild[r].at]].fp
        BY <1>2, <2>1, <2>2, RebuildWorks, NewAndGone DEF SnapshotInv, CarriedInv
    <3> QED
        BY <1>0, <2>1, <2>2, <3>1
  <2>3. CASE rebuild'[r] # rebuild[r]
    <3>1. KindOrder[rebuild[r].at] \in Kinds
        BY <1>2, <2>1, <2>3, RebuildCarries, RebuildWorks, NewAndGone
    <3> QED
        BY <1>0, <1>2, <2>3, <3>1, RebuildCarries
  <2> QED
      BY <2>2, <2>3
<1> QED
    BY <1>1, <1>2 DEF CarriedInv

LEMMA Numbers ==
  ASSUME Types, NEW k \in Kinds
  PROVE  /\ catalog[k].rows \in Nat /\ catalog[k].fp \in Nat
         /\ disk[k].xlsx \in Nat \cup {None} /\ disk[k].meta \in Nat \cup {None}
         /\ writers[k] # NoWriter => writers[k].fp \in Nat /\ writers[k].rows \in Nat
         /\ None \notin Nat
<1>1. Version \subseteq Nat
    BY BoundAssumption DEF Version
<1>2. catalog[k] \in Catalog /\ disk[k] \in Disk
    BY DEF Types
<1>3. writers[k] # NoWriter => writers[k] \in Writer
    BY DEF Types
<1> QED
    BY <1>1, <1>2, <1>3, ThreadAssumption DEF Catalog, Disk, Writer

\* Whatever else happens, a kind whose files stay, and whose writer stays, stops
\* or begins, keeps its versions.
WriterKept(k) ==
  \/ writers'[k] = NoWriter
  \/ /\ writers[k] # NoWriter /\ writers'[k].step \in {writers[k].step, "error", "dead"}
     /\ writers'[k].fp = writers[k].fp /\ writers'[k].rows = writers[k].rows
  \/ writers'[k].step = "export" /\ writers'[k].rows = 0 /\ writers'[k].fp <= catalog[k].fp

LEMMA VersionKept ==
  ASSUME Types, Types', NEW k \in Kinds, VersionInv(k), Grows(k), disk'[k] = disk[k], WriterKept(k)
  PROVE  VersionInv(k)'
<1>1. /\ catalog[k].rows \in Nat /\ catalog[k].fp \in Nat /\ catalog'[k].rows \in Nat /\ catalog'[k].fp \in Nat
      /\ disk[k].xlsx \in Nat \cup {None} /\ disk[k].meta \in Nat \cup {None}
      /\ writers[k] # NoWriter => writers[k].fp \in Nat /\ writers[k].rows \in Nat
      /\ writers'[k] # NoWriter => writers'[k].fp \in Nat /\ writers'[k].rows \in Nat
      /\ None \notin Nat
  <2>1. Version \subseteq Nat
      BY BoundAssumption DEF Version
  <2>2. catalog'[k] \in Catalog /\ writers'[k] \in {NoWriter} \cup Writer
      BY DEF Types
  <2> QED
      BY <2>1, <2>2, Numbers DEF Catalog, Writer
<1> DEFINE c == catalog[k]  cc == catalog'[k]  d == disk[k]  w == writers[k]  ww == writers'[k]
<1>2. /\ cc.fp <= cc.rows
      /\ d.xlsx # None => d.xlsx <= cc.rows
      /\ d.meta # None => d.xlsx # None /\ d.meta <= d.xlsx /\ d.meta <= cc.fp
    BY <1>1 DEF VersionInv, Grows
<1>3. ASSUME ww # NoWriter
      PROVE  /\ ww.fp <= cc.fp /\ ww.rows <= cc.rows
             /\ ww.step \in {"replace", "truncate", "fill"} =>
                  ww.fp <= ww.rows /\ (d.meta # None => d.meta <= ww.rows)
             /\ ww.step \in {"truncate", "fill"} => d.xlsx = ww.rows
    BY <1>1, <1>3 DEF VersionInv, Grows, WriterKept
<1> QED
    BY <1>2, <1>3 DEF VersionInv

\* The writer of the kind itself.
LEMMA VersionWritten ==
  ASSUME Types, Types', NEW k \in Kinds, VersionInv(k), Grows(k), WriterStep(k)
  PROVE  VersionInv(k)'
<1>1. /\ catalog[k].rows \in Nat /\ catalog[k].fp \in Nat
      /\ disk[k].xlsx \in Nat \cup {None} /\ disk[k].meta \in Nat \cup {None}
      /\ writers[k] # NoWriter => writers[k].fp \in Nat /\ writers[k].rows \in Nat
      /\ None \notin Nat
    BY Numbers
<1>2. disk[k] \in Disk /\ disk \in [Kinds -> Disk] /\ writers \in [Kinds -> {NoWriter} \cup Writer]
    BY DEF Types
<1>3. ASSUME NEW s, Step(k, s), writers[k] # NoWriter
      PROVE  /\ writers'[k] # NoWriter => writers'[k].step = s
             /\ writers'[k].fp = writers[k].fp /\ writers'[k].rows = writers[k].rows
    BY <1>2, <1>3, WriterIs DEF Step, Writer
<1>4. CASE ExportRows(k)
  <2>1. writers[k] # NoWriter
      BY <1>4, ActiveWriter DEF ExportRows
  <2>2. /\ writers'[k].step = "replace" /\ writers'[k].rows = catalog[k].rows /\ writers'[k].fp = writers[k].fp
        /\ UNCHANGED <<catalog, disk>>
      BY <1>2, <1>4, <2>1, WriterIs DEF ExportRows, Writer
  <2> QED
      BY <1>1, <2>1, <2>2 DEF VersionInv
<1>5. CASE ReplaceFile(k)
  <2>1. writers[k] # NoWriter
      BY <1>5, ActiveWriter DEF ReplaceFile
  <2>2. disk'[k].xlsx = writers[k].rows /\ disk'[k].meta = disk[k].meta /\ UNCHANGED catalog
      BY <1>2, <1>5 DEF ReplaceFile, Disk
  <2>3. /\ writers'[k] # NoWriter => writers'[k].step = "truncate"
        /\ writers'[k].fp = writers[k].fp /\ writers'[k].rows = writers[k].rows
      BY <1>3, <1>5, <2>1 DEF ReplaceFile
  <2> QED
      BY <1>1, <1>5, <2>1, <2>2, <2>3 DEF VersionInv, ReplaceFile
<1>6. CASE TruncateMeta(k)
  <2>1. writers[k] # NoWriter
      BY <1>6, ActiveWriter DEF TruncateMeta
  <2>2. disk'[k].xlsx = disk[k].xlsx /\ disk'[k].meta = None /\ UNCHANGED catalog
      BY <1>2, <1>6 DEF TruncateMeta, Disk
  <2>3. /\ writers'[k] # NoWriter => writers'[k].step = "fill"
        /\ writers'[k].fp = writers[k].fp /\ writers'[k].rows = writers[k].rows
      BY <1>3, <1>6, <2>1 DEF TruncateMeta
  <2> QED
      BY <1>1, <1>6, <2>1, <2>2, <2>3 DEF VersionInv, TruncateMeta
<1>7. CASE FillMeta(k)
  <2>1. writers[k] # NoWriter
      BY <1>7, ActiveWriter DEF FillMeta
  <2>2. disk'[k].xlsx = disk[k].xlsx /\ disk'[k].meta = writers[k].fp /\ UNCHANGED catalog
      BY <1>2, <1>7 DEF FillMeta, Disk
  <2>3. /\ writers'[k] # NoWriter => writers'[k].step = "ok"
        /\ writers'[k].fp = writers[k].fp /\ writers'[k].rows = writers[k].rows
      BY <1>3, <1>7, <2>1 DEF FillMeta
  <2> QED
      BY <1>1, <1>7, <2>1, <2>2, <2>3 DEF VersionInv, FillMeta
<1>8. CASE WriteFails(k) \/ WriterDies(k)
  <2>1. writers[k] # NoWriter /\ disk'[k] = disk[k]
      BY <1>8, ActiveWriter DEF WriteFails, WriterDies
  <2>2. WriterKept(k)
      BY <1>3, <1>8, <2>1 DEF WriteFails, WriterDies, WriterKept
  <2> QED
      BY <2>1, <2>2, VersionKept
<1>9. CASE FinishWriter(k)
  <2>1. writers'[k] = NoWriter /\ disk'[k] = disk[k]
      BY <1>2, <1>9 DEF FinishWriter
  <2> QED
      BY <2>1, VersionKept DEF WriterKept
<1> QED
    BY <1>4, <1>5, <1>6, <1>7, <1>8, <1>9 DEF WriterStep

\* What the other actions do to the writer and the files of a kind.
LEMMA OtherSteps ==
  ASSUME Types, SnapshotInv, Next, NEW k \in Kinds, ~WriterStep(k)
  PROVE  WriterKept(k) /\ disk'[k] = disk[k]
<1>1. writers \in [Kinds -> {NoWriter} \cup Writer] /\ disk \in [Kinds -> Disk]
    BY DEF Types
<1>2. writers'[k] = writers[k] => WriterKept(k)
    BY DEF WriterKept
<1>3. ASSUME NEW l \in Kinds, WriterStep(l) PROVE writers'[k] = writers[k] /\ disk'[k] = disk[k]
    BY <1>1, <1>3 DEF WriterStep, Step, ExportRows, ReplaceFile, TruncateMeta, FillMeta, FinishWriter, WriteFails, WriterDies
<1>4. ASSUME \/ \E l \in Kinds : Cutover(l)
             \/ \E K \in SUBSET Kinds : Enrich(K) \/ Restamp(K)
             \/ \E r \in Rebuilds : ScheduleRebuild(r)
             \/ EndWithoutRebuild \/ Poll
      PROVE  writers'[k] = writers[k] /\ disk'[k] = disk[k]
    BY <1>4 DEF Cutover, Enrich, Restamp, ScheduleRebuild, EndWithoutRebuild, Poll
<1>5. Crash => writers'[k] = NoWriter /\ disk'[k] = disk[k]
    BY DEF Crash
<1>6. ASSUME NEW j \in Jobs, JobStep(j) PROVE writers'[k] = writers[k] /\ disk'[k] = disk[k]
    BY <1>6 DEF JobStep, RunJob, RunNothing, RunDies, WriteFiltered, WriteFilteredFails, PublishFiltered, ReleaseSlot
<1>7. ASSUME NEW r \in Rebuilds, RebuildStep(r) PROVE WriterKept(k) /\ disk'[k] = disk[k]
  <2> DEFINE l == KindOrder[rebuild[r].at]
  <2>1. rebuild[r] \in Rebuild
      BY DEF Types
  <2>2. CASE RebuildFingerprint(r) \/ RebuildFails(r)
      BY <1>2, <2>2 DEF RebuildFingerprint, RebuildFails
  <2>3. CASE RebuildEnsure(r)
    <3>1. l \in Kinds /\ rebuild[r].fp \in Version /\ rebuild[r].fp <= catalog[l].fp
        BY <2>1, <2>3, RebuildWorks, NewAndGone DEF RebuildEnsure, Rebuild, SnapshotInv, CarriedInv
    <3>2. CASE k # l
        BY <1>1, <1>2, <2>3, <3>2 DEF RebuildEnsure
    <3>3. CASE k = l /\ writers[k] = NoWriter
        BY <1>1, <2>3, <3>1, <3>3 DEF RebuildEnsure, WriterKept, NewWriter
    <3>4. CASE k = l /\ writers[k] # NoWriter
      <4>1. writers'[k] = [writers[k] EXCEPT !.joined = writers[k].joined \cup {r}]
          BY <1>1, <2>3, <3>4 DEF RebuildEnsure
      <4> QED
          BY <2>3, <3>4, <4>1, WriterIs DEF RebuildEnsure, WriterKept, Writer
    <3> QED
        BY <3>2, <3>3, <3>4
  <2>4. CASE RebuildTimeout(r)
    <3>1. CASE k # l \/ writers[k] = NoWriter
        BY <1>1, <1>2, <2>4, <3>1 DEF RebuildTimeout, NoWriter, WriterKept
    <3>2. CASE k = l /\ writers[k] # NoWriter
      <4>1. writers'[k] = [writers[k] EXCEPT !.joined = writers[k].joined \ {r}]
          BY <1>1, <2>4, <3>2 DEF RebuildTimeout
      <4> QED
          BY <2>4, <3>2, <4>1, WriterIs DEF RebuildTimeout, WriterKept, Writer
    <3> QED
        BY <3>1, <3>2
  <2> QED
      BY <1>7, <2>2, <2>3, <2>4 DEF RebuildStep
<1>8. ASSUME NEW j \in Jobs, RequestStep(j) PROVE WriterKept(k) /\ disk'[k] = disk[k]
  <2>1. CASE UNCHANGED <<writers, disk>>
      BY <1>2, <2>1
  <2>2. CASE DecideJoin(j)
    <3>1. CASE k # jobs[j].kind
        BY <1>1, <1>2, <2>2, <3>1 DEF DecideJoin
    <3>2. CASE k = jobs[j].kind
      <4>1. writers[k] # NoWriter /\ writers'[k] = [writers[k] EXCEPT !.waiters = writers[k].waiters \cup {j}]
          BY <1>1, <2>2, <3>2 DEF DecideJoin
      <4> QED
          BY <2>2, <4>1, WriterIs DEF DecideJoin, WriterKept, Writer
    <3> QED
        BY <3>1, <3>2
  <2>3. CASE DecideStart(j)
    <3>1. CASE k # jobs[j].kind
        BY <1>1, <1>2, <2>3, <3>1 DEF DecideStart
    <3>2. CASE k = jobs[j].kind
        BY <1>1, <2>3, <3>2 DEF DecideStart, WriterKept, NewWriter, SnapshotInv, CarriedInv
    <3> QED
        BY <3>1, <3>2
  <2> QED
      BY <1>8, <2>1, <2>2, <2>3 DEF RequestStep, Ask, AskFiltered, Look, StoreReady, DecideFresh, AskRefused, Age
<1> QED
    BY <1>2, <1>3, <1>4, <1>5, <1>6, <1>7, <1>8 DEF Next, WriterKept

LEMMA SnapshotStep == Types /\ Types' /\ SnapshotInv /\ [Next]_vars => SnapshotInv'
<1> SUFFICES ASSUME Types, Types', SnapshotInv, [Next]_vars PROVE SnapshotInv'
    OBVIOUS
<1>1. CASE UNCHANGED vars
    BY <1>1 DEF vars, SnapshotInv, VersionInv, CarriedInv
<1>2. CASE Next
  <2>1. ASSUME NEW k \in Kinds PROVE VersionInv(k)'
    <3>1. VersionInv(k) /\ Grows(k)
        BY <1>2, CatalogGrows DEF SnapshotInv
    <3> QED
        BY <1>2, <3>1, VersionWritten, VersionKept, OtherSteps
  <2>2. CarriedInv'
      BY <1>2, CarriedStep
  <2> QED
      BY <2>1, <2>2 DEF SnapshotInv
<1> QED
    BY <1>1, <1>2

LEMMA TypesHold == Spec => []Types
<1>1. Init => Types
    BY InitTypes
<1>2. Types /\ [Next]_vars => Types'
    BY TypesStep
<1> QED
    BY <1>1, <1>2, PTL DEF Spec

LEMMA SnapshotHolds == Spec => []SnapshotInv
<1>1. Init => SnapshotInv
    BY InitSnapshot
<1>2. Types /\ Types' /\ SnapshotInv /\ [Next]_vars => SnapshotInv'
    BY SnapshotStep
<1> QED
    BY <1>1, <1>2, TypesHold, PTL DEF Spec

\* A snapshot that passes for fresh holds the catalogue's rows, whatever was
\* written, joined, timed out, failed or restarted in between.
THEOREM FreshIsTrueHolds == Spec => []FreshIsTrue
<1>1. ASSUME Types, SnapshotInv PROVE FreshIsTrue
  <2> SUFFICES ASSUME NEW k \in Kinds, catalog[k].fp = catalog[k].rows, Fresh(k, catalog[k].fp)
               PROVE  disk[k].xlsx = catalog[k].rows
      BY DEF FreshIsTrue
  <2> QED
      BY <1>1, Numbers DEF SnapshotInv, VersionInv, Fresh
<1> QED
    BY <1>1, TypesHold, SnapshotHolds, PTL

-----------------------------------------------------------------------------
(* The invariant of jobs, threads, files and writers is inductive.         *)

ThreadStates == {"none", "start", "export", "publish", "release", "dead"}

LEMMA InitJobs == Init => JobsInv
<1> SUFFICES ASSUME Init PROVE JobsInv
    OBVIOUS
<1>1. \A j \in Jobs : ThreadInv(j) /\ FileInv(j) /\ SharedInv(j)
    BY DEF Init, ThreadInv, FileInv, SharedInv, NewJob
<1>2. \A k \in Kinds : WriterInv(k)
    BY DEF Init, WriterInv
<1>3. SlotCount
  <2>1. Holding = {}
      BY DEF Init, Holding
  <2> QED
      BY <2>1, FS_EmptySet, BoundAssumption DEF Init, SlotCount
<1> QED
    BY <1>1, <1>2, <1>3 DEF JobsInv

LEMMA AsideKeeps ==
  ASSUME NEW i \in Jobs, ThreadInv(i), FileInv(i), Aside(i)
  PROVE  ThreadInv(i)' /\ FileInv(i)'
<1>1. Gone.st = "gone"
    BY DEF Gone, NewJob
<1>2. CASE jobs'[i] = jobs[i] /\ (i \in files' <=> i \in files)
    BY <1>2 DEF Aside, ThreadInv, FileInv
<1>3. CASE /\ jobs[i].st \in Stored /\ jobs'[i] = Gone
           /\ i \in files' <=> i \in files /\ ~(jobs[i].st = "ready" /\ jobs[i].how = "filtered")
    BY <1>1, <1>3 DEF Aside, ThreadInv, FileInv, Stored
<1> QED
    BY <1>2, <1>3 DEF Aside

\* A snapshot file, once there, stays.
LEMMA XlsxKept ==
  ASSUME Types, SnapshotInv, Next, NEW k \in Kinds, disk[k].xlsx # None
  PROVE  disk'[k].xlsx # None
<1>1. CASE ~WriterStep(k)
    BY <1>1, OtherSteps
<1>2. CASE ReplaceFile(k)
  <2>1. writers[k] # NoWriter /\ disk'[k].xlsx = writers[k].rows
      BY <1>2, ActiveWriter DEF ReplaceFile, Types, Disk
  <2> QED
      BY <2>1, Numbers
<1>3. CASE WriterStep(k) /\ ~ReplaceFile(k)
    BY <1>3 DEF WriterStep, ExportRows, TruncateMeta, FillMeta, FinishWriter, WriteFails, WriterDies, Types, Disk
<1> QED
    BY <1>1, <1>2, <1>3

\* A writer keeps its jobs until it settles them.
Members(w) == {w.by} \cup w.waiters

LEMMA MembersStay ==
  ASSUME Types, Next, NEW k \in Kinds, writers[k] # NoWriter, ~FinishWriter(k), ~Crash
  PROVE  writers'[k] # NoWriter /\ Members(writers[k]) \subseteq Members(writers'[k])
<1>0. writers[k] \in Writer /\ writers \in [Kinds -> {NoWriter} \cup Writer] /\ NoWriter.step = "none"
    BY WriterIs DEF Types, NoWriter
<1>1. CASE writers'[k] = writers[k]
    BY <1>1
<1>2. ASSUME NEW v \in Writer, writers'[k] = v, v.by = writers[k].by, writers[k].waiters \subseteq v.waiters
      PROVE  writers'[k] # NoWriter /\ Members(writers[k]) \subseteq Members(writers'[k])
    BY <1>0, <1>2 DEF Members, Writer, Steps
<1>3. ASSUME NEW s \in Steps, Step(k, s)
      PROVE  writers'[k] # NoWriter /\ Members(writers[k]) \subseteq Members(writers'[k])
  <2>1. writers'[k] = [writers[k] EXCEPT !.step = s]
      BY <1>0, <1>3 DEF Step
  <2> QED
      BY <1>0, <1>2, <2>1, WriterStepType
<1>4. CASE ReplaceFile(k) \/ TruncateMeta(k) \/ FillMeta(k) \/ WriteFails(k) \/ WriterDies(k)
    BY <1>3, <1>4 DEF ReplaceFile, TruncateMeta, FillMeta, WriteFails, WriterDies, Steps
<1>5. CASE ExportRows(k)
    BY <1>0, <1>5 DEF ExportRows, Members, Writer
<1>6. ASSUME NEW l \in Kinds, WriterStep(l), l # k PROVE writers'[k] = writers[k]
    BY <1>0, <1>6 DEF WriterStep, Step, ExportRows, ReplaceFile, TruncateMeta, FillMeta, FinishWriter, WriteFails, WriterDies
<1>7. ASSUME NEW r \in Rebuilds, RebuildStep(r)
      PROVE  writers'[k] # NoWriter /\ Members(writers[k]) \subseteq Members(writers'[k])
  <2>1. CASE UNCHANGED writers
      BY <2>1
  <2>2. CASE RebuildEnsure(r) /\ k = KindOrder[rebuild[r].at]
    <3>1. writers'[k] = [writers[k] EXCEPT !.joined = writers[k].joined \cup {r}]
        BY <1>0, <2>2 DEF RebuildEnsure
    <3>2. writers[k].joined \cup {r} \in SUBSET Rebuilds
        BY <1>0 DEF Writer
    <3>3. /\ [writers[k] EXCEPT !.joined = writers[k].joined \cup {r}] \in Writer
          /\ [writers[k] EXCEPT !.joined = writers[k].joined \cup {r}].by = writers[k].by
          /\ writers[k].waiters \subseteq [writers[k] EXCEPT !.joined = writers[k].joined \cup {r}].waiters
        BY <1>0, <3>2, WriterJoined
    <3> QED
        BY <1>2, <3>1, <3>3
  <2>3. CASE RebuildTimeout(r) /\ k = KindOrder[rebuild[r].at]
    <3>1. writers'[k] = [writers[k] EXCEPT !.joined = writers[k].joined \ {r}]
        BY <1>0, <2>3 DEF RebuildTimeout
    <3>2. writers[k].joined \ {r} \in SUBSET Rebuilds
        BY <1>0 DEF Writer
    <3>3. /\ [writers[k] EXCEPT !.joined = writers[k].joined \ {r}] \in Writer
          /\ [writers[k] EXCEPT !.joined = writers[k].joined \ {r}].by = writers[k].by
          /\ writers[k].waiters \subseteq [writers[k] EXCEPT !.joined = writers[k].joined \ {r}].waiters
        BY <1>0, <3>2, WriterJoined
    <3> QED
        BY <1>2, <3>1, <3>3
  <2>4. CASE (RebuildEnsure(r) \/ RebuildTimeout(r)) /\ k # KindOrder[rebuild[r].at]
      BY <1>0, <2>4 DEF RebuildEnsure, RebuildTimeout
  <2> QED
      BY <1>7, <2>1, <2>2, <2>3, <2>4 DEF RebuildStep, RebuildFingerprint, RebuildFails
<1>8. ASSUME NEW j \in Jobs, RequestStep(j)
      PROVE  writers'[k] # NoWriter /\ Members(writers[k]) \subseteq Members(writers'[k])
  <2>1. CASE UNCHANGED writers
      BY <2>1
  <2>2. CASE DecideJoin(j) /\ k = jobs[j].kind
    <3>1. writers'[k] = [writers[k] EXCEPT !.waiters = writers[k].waiters \cup {j}]
        BY <1>0, <2>2 DEF DecideJoin
    <3>2. writers[k].waiters \cup {j} \in SUBSET Jobs
        BY <1>0 DEF Writer
    <3>3. /\ [writers[k] EXCEPT !.waiters = writers[k].waiters \cup {j}] \in Writer
          /\ [writers[k] EXCEPT !.waiters = writers[k].waiters \cup {j}].by = writers[k].by
          /\ [writers[k] EXCEPT !.waiters = writers[k].waiters \cup {j}].waiters = writers[k].waiters \cup {j}
        BY <1>0, <3>2, WriterJoined
    <3> QED
        BY <1>2, <3>1, <3>3
  <2>3. CASE (DecideJoin(j) \/ DecideStart(j)) /\ k # jobs[j].kind
      BY <1>0, <2>3 DEF DecideJoin, DecideStart
  <2>4. CASE DecideStart(j) /\ k = jobs[j].kind
      BY <2>4 DEF DecideStart
  <2> QED
      BY <1>8, <2>1, <2>2, <2>3, <2>4 DEF RequestStep, Ask, AskFiltered, Look, StoreReady, DecideFresh, AskRefused, Age
<1>9. ASSUME NEW j \in Jobs, JobStep(j) PROVE writers'[k] = writers[k]
    BY <1>9 DEF JobStep, RunJob, RunNothing, RunDies, WriteFiltered, WriteFilteredFails, PublishFiltered, ReleaseSlot
<1>10. ASSUME \/ \E l \in Kinds : Cutover(l)
              \/ \E K \in SUBSET Kinds : Enrich(K) \/ Restamp(K)
              \/ \E r \in Rebuilds : ScheduleRebuild(r)
              \/ EndWithoutRebuild \/ Poll
      PROVE  writers'[k] = writers[k]
    BY <1>10 DEF Cutover, Enrich, Restamp, ScheduleRebuild, EndWithoutRebuild, Poll
<1> QED
    BY <1>1, <1>4, <1>5, <1>6, <1>7, <1>8, <1>9, <1>10 DEF Next, WriterStep

\* The jobs of a writer were its jobs before, or have just come to it.
LEMMA MembersCome ==
  ASSUME Types, Next, NEW k \in Kinds, writers'[k] # NoWriter, NEW j \in Jobs, j \in Members(writers'[k])
  PROVE  \/ writers[k] # NoWriter /\ j \in Members(writers[k])
         \/ (DecideJoin(j) \/ DecideStart(j)) /\ jobs[j].kind = k
<1>0. writers \in [Kinds -> {NoWriter} \cup Writer] /\ j \notin Rebuilds
    BY ThreadAssumption DEF Types
<1>1. CASE writers'[k] = writers[k]
    BY <1>1
<1>2. ASSUME NEW l \in Kinds, WriterStep(l) PROVE writers[k] # NoWriter /\ j \in Members(writers[k])
  <2>1. writers[l] # NoWriter
      BY <1>2, ActiveWriter DEF WriterStep, ExportRows, ReplaceFile, TruncateMeta, FillMeta, FinishWriter, WriteFails, WriterDies
  <2>2. CASE k # l
      BY <1>0, <1>2, <2>2 DEF WriterStep, Step, ExportRows, ReplaceFile, TruncateMeta, FillMeta, FinishWriter, WriteFails, WriterDies
  <2>3. CASE k = l
    <3>1. writers[k] \in Writer
        BY <2>1, <2>3, WriterIs
    <3>2. writers'[k].by = writers[k].by /\ writers'[k].waiters = writers[k].waiters
        BY <1>0, <1>2, <2>3, <3>1 DEF WriterStep, Step, ExportRows, ReplaceFile, TruncateMeta, FillMeta, FinishWriter,
           WriteFails, WriterDies, Writer
    <3> QED
        BY <2>1, <2>3, <3>2 DEF Members
  <2> QED
      BY <2>2, <2>3
<1>3. ASSUME NEW r \in Rebuilds, RebuildStep(r) PROVE writers[k] # NoWriter /\ j \in Members(writers[k])
  <2>1. CASE writers[k] = NoWriter
    <3>1. CASE RebuildEnsure(r) /\ k = KindOrder[rebuild[r].at]
      <4>1. writers'[k].by = r /\ writers'[k].waiters = {}
          BY <1>0, <2>1, <3>1 DEF RebuildEnsure, NewWriter
      <4> QED
          BY <1>0, <4>1 DEF Members
    <3>2. CASE RebuildTimeout(r) /\ k = KindOrder[rebuild[r].at]
      <4>1. writers'[k] = [NoWriter EXCEPT !.joined = writers[k].joined \ {r}]
          BY <1>0, <2>1, <3>2 DEF RebuildTimeout
      <4> QED
          BY <4>1 DEF NoWriter
    <3>3. CASE writers'[k] = writers[k]
        BY <2>1, <3>3
    <3> QED
        BY <1>0, <1>3, <3>1, <3>2, <3>3 DEF RebuildStep, RebuildFingerprint, RebuildFails, RebuildEnsure, RebuildTimeout
  <2>2. CASE writers[k] # NoWriter
    <3>1. writers[k] \in Writer
        BY <2>2, WriterIs
    <3>2. writers'[k].by = writers[k].by /\ writers'[k].waiters = writers[k].waiters
        BY <1>0, <1>3, <2>2, <3>1 DEF RebuildStep, RebuildFingerprint, RebuildFails, RebuildEnsure, RebuildTimeout, Writer
    <3> QED
        BY <2>2, <3>2 DEF Members
  <2> QED
      BY <2>1, <2>2
<1>4. ASSUME NEW i \in Jobs, RequestStep(i), writers'[k] # writers[k]
      PROVE  \/ writers[k] # NoWriter /\ j \in Members(writers[k])
             \/ (DecideJoin(j) \/ DecideStart(j)) /\ jobs[j].kind = k
  <2>1. CASE DecideJoin(i)
    <3>1. k = jobs[i].kind /\ writers[k] # NoWriter
        BY <1>0, <1>4, <2>1 DEF DecideJoin
    <3>2. writers'[k].by = writers[k].by /\ writers'[k].waiters = writers[k].waiters \cup {i}
        BY <1>0, <2>1, <3>1, WriterIs DEF DecideJoin, Writer
    <3> QED
        BY <2>1, <3>1, <3>2 DEF Members
  <2>2. CASE DecideStart(i)
    <3>1. k = jobs[i].kind
        BY <1>0, <1>4, <2>2 DEF DecideStart
    <3>2. writers'[k].by = i /\ writers'[k].waiters = {}
        BY <1>0, <2>2, <3>1 DEF DecideStart, NewWriter
    <3> QED
        BY <2>2, <3>1, <3>2 DEF Members
  <2> QED
      BY <1>4, <2>1, <2>2 DEF RequestStep, Ask, AskFiltered, Look, StoreReady, DecideFresh, AskRefused, Age
<1>5. ASSUME NEW i \in Jobs, JobStep(i) PROVE writers'[k] = writers[k]
    BY <1>5 DEF JobStep, RunJob, RunNothing, RunDies, WriteFiltered, WriteFilteredFails, PublishFiltered, ReleaseSlot
<1>6. ASSUME \/ \E l \in Kinds : Cutover(l)
             \/ \E K \in SUBSET Kinds : Enrich(K) \/ Restamp(K)
             \/ \E r \in Rebuilds : ScheduleRebuild(r)
             \/ EndWithoutRebuild \/ Poll
      PROVE  writers'[k] = writers[k]
    BY <1>6 DEF Cutover, Enrich, Restamp, ScheduleRebuild, EndWithoutRebuild, Poll
<1>7. ~Crash
    BY DEF Crash
<1> QED
    BY <1>1, <1>2, <1>3, <1>4, <1>5, <1>6, <1>7 DEF Next

\* A writer that says its file is there has put it there.
LEMMA FileWritten ==
  ASSUME Types, SnapshotInv, Next, NEW k \in Kinds, WriterInv(k), writers'[k].step \in {"truncate", "fill", "ok"}
  PROVE  disk'[k].xlsx # None
<1>0. NoWriter.step = "none" /\ writers \in [Kinds -> {NoWriter} \cup Writer] /\ disk \in [Kinds -> Disk]
    BY DEF Types, NoWriter
<1>1. CASE ~WriterStep(k)
    BY <1>0, <1>1, OtherSteps DEF WriterKept, WriterInv
<1>2. CASE WriterStep(k)
  <2>1. writers[k] # NoWriter
      BY <1>2, ActiveWriter DEF WriterStep, ExportRows, ReplaceFile, TruncateMeta, FillMeta, FinishWriter, WriteFails, WriterDies
  <2>2. writers[k] \in Writer
      BY <2>1, WriterIs
  <2>3. CASE ReplaceFile(k)
      BY <1>0, <2>1, <2>3, Numbers DEF ReplaceFile, Disk
  <2>4. CASE TruncateMeta(k) \/ FillMeta(k)
      BY <1>0, <1>2, <2>1, <2>4, XlsxKept DEF TruncateMeta, FillMeta, WriterInv
  <2>5. CASE ExportRows(k) \/ FinishWriter(k) \/ WriteFails(k) \/ WriterDies(k)
      BY <1>0, <2>2, <2>5 DEF ExportRows, FinishWriter, WriteFails, WriterDies, Step, Writer
  <2> QED
      BY <1>2, <2>3, <2>4, <2>5 DEF WriterStep
<1> QED
    BY <1>1, <1>2

\* Every job but the one that acts, and those that are settled, is left aside.
LEMMA Otherwise ==
  ASSUME Types, Next, ~Crash, NEW i \in Jobs, ~RequestStep(i), ~JobStep(i),
         \A k \in Kinds : FinishWriter(k) => i \notin Settled(writers[k])
  PROVE  Aside(i)
<1>1. CASE jobs'[i] = jobs[i] /\ thread'[i] = thread[i] /\ leftover' = leftover /\ (i \in files' <=> i \in files)
    BY <1>1 DEF Aside
<1>2. ASSUME NEW j \in Jobs, RequestStep(j) PROVE Aside(i)
    BY <1>2, OthersAside
<1>3. ASSUME NEW j \in Jobs, JobStep(j) PROVE Aside(i)
  <2>1. i # j /\ jobs \in [Jobs -> Job] /\ thread \in [Jobs -> ThreadStates]
      BY <1>3 DEF Types, ThreadStates
  <2> QED
      BY <1>1, <1>3, <2>1 DEF JobStep, RunJob, RunNothing, RunDies, WriteFiltered, WriteFilteredFails, PublishFiltered, ReleaseSlot
<1>4. ASSUME NEW k \in Kinds, WriterStep(k) PROVE Aside(i)
    BY <1>1, <1>4 DEF WriterStep, ExportRows, ReplaceFile, TruncateMeta, FillMeta, FinishWriter, WriteFails, WriterDies
<1>5. ASSUME NEW r \in Rebuilds, RebuildStep(r) \/ ScheduleRebuild(r) PROVE Aside(i)
    BY <1>1, <1>5 DEF RebuildStep, RebuildFingerprint, RebuildFails, RebuildEnsure, RebuildTimeout, ScheduleRebuild
<1>6. ASSUME \/ \E l \in Kinds : Cutover(l)
             \/ \E K \in SUBSET Kinds : Enrich(K) \/ Restamp(K)
             \/ EndWithoutRebuild
      PROVE  Aside(i)
    BY <1>1, <1>6 DEF Cutover, Enrich, Restamp, EndWithoutRebuild
<1>7. CASE Poll
    BY <1>7, CleanedAside DEF Poll
<1> QED
    BY <1>2, <1>3, <1>4, <1>5, <1>6, <1>7 DEF Next

\* The thread of a job only touches a job of its own.
LEMMA ThreadActs ==
  ASSUME Types, NEW i \in Jobs, ThreadInv(i), FileInv(i), JobStep(i)
  PROVE  /\ ThreadInv(i)' /\ FileInv(i)'
         /\ jobs[i].st = "gone" => jobs'[i].st = "gone"
         /\ jobs[i].st # "gone" => jobs[i].how = "filtered"
         /\ Same(jobs'[i], jobs[i])
<1>0. jobs[i] \in Job /\ jobs \in [Jobs -> Job] /\ thread \in [Jobs -> ThreadStates] /\ i \notin leftover
    BY DEF Types, ThreadStates, FileInv, JobStep, RunJob, RunNothing, RunDies, WriteFiltered, WriteFilteredFails,
       PublishFiltered, ReleaseSlot
<1>1. jobs[i].st # "gone" => jobs[i].how = "filtered"
    BY DEF ThreadInv, JobStep, RunJob, RunNothing, RunDies, WriteFiltered, WriteFilteredFails,
       PublishFiltered, ReleaseSlot
<1>2. ASSUME NEW s, jobs' = [jobs EXCEPT ![i].st = s]
      PROVE  Same(jobs'[i], jobs[i]) /\ jobs'[i].st = s
    BY <1>0, <1>2 DEF Same, Job
<1>3. UNCHANGED jobs => Same(jobs'[i], jobs[i]) /\ jobs'[i].st = jobs[i].st
    BY DEF Same
<1>4. CASE RunJob(i)
  <2>1. Same(jobs'[i], jobs[i]) /\ jobs'[i].st = "running" /\ thread'[i] = "export" /\ jobs[i].st = "queued"
      BY <1>0, <1>2, <1>4 DEF RunJob, ThreadInv, Stored
  <2> QED
      BY <1>0, <1>1, <1>4, <2>1 DEF RunJob, ThreadInv, FileInv, Same
<1>5. CASE RunNothing(i)
  <2>1. jobs[i].st = "gone" /\ thread'[i] = "none"
      BY <1>0, <1>5 DEF RunNothing, ThreadInv, Stored
  <2> QED
      BY <1>0, <1>1, <1>3, <1>5, <2>1 DEF RunNothing, ThreadInv, FileInv
<1>6. CASE RunDies(i)
    BY <1>0, <1>1, <1>3, <1>6 DEF RunDies, ThreadInv, FileInv
<1>7. CASE WriteFiltered(i)
    BY <1>0, <1>1, <1>3, <1>7 DEF WriteFiltered, ThreadInv, FileInv
<1>8. CASE WriteFilteredFails(i)
  <2>1. thread'[i] = "release" /\ jobs[i].st \in {"running", "gone"} /\ Same(jobs'[i], jobs[i])
        /\ jobs'[i].st = IF jobs[i].st = "running" THEN "failed" ELSE "gone"
      BY <1>0, <1>2, <1>3, <1>8 DEF WriteFilteredFails, ThreadInv, Stored
  <2> QED
      BY <1>0, <1>1, <1>8, <2>1 DEF WriteFilteredFails, ThreadInv, FileInv, Same
<1>9. CASE PublishFiltered(i)
  <2>1. thread'[i] = "release" /\ i \in files /\ UNCHANGED leftover /\ jobs[i].st \in {"running", "gone"}
      BY <1>0, <1>9 DEF PublishFiltered, ThreadInv, FileInv
  <2>2. CASE jobs[i].st = "running"
    <3>1. jobs' = [jobs EXCEPT ![i].st = "ready"] /\ files' = files
        BY <1>9, <2>2 DEF PublishFiltered, Stored
    <3>2. Same(jobs'[i], jobs[i]) /\ jobs'[i].st = "ready"
        BY <1>2, <3>1
    <3> QED
        BY <1>0, <1>1, <2>1, <2>2, <3>1, <3>2 DEF ThreadInv, FileInv, Same
  <2>3. CASE jobs[i].st = "gone"
    <3>1. jobs' = jobs /\ files' = files \ {i}
        BY <1>9, <2>3 DEF PublishFiltered, Stored
    <3> QED
        BY <1>0, <1>3, <2>1, <2>3, <3>1 DEF ThreadInv, FileInv
  <2> QED
      BY <2>1, <2>2, <2>3
<1>10. CASE ReleaseSlot(i)
    BY <1>0, <1>1, <1>3, <1>10 DEF ReleaseSlot, ThreadInv, FileInv
<1> QED
    BY <1>1, <1>4, <1>5, <1>6, <1>7, <1>8, <1>9, <1>10 DEF JobStep

\* A request, and the ageing of a job.
LEMMA RequestActs ==
  ASSUME Types, NEW i \in Jobs, ThreadInv(i), FileInv(i), RequestStep(i)
  PROVE  ThreadInv(i)' /\ FileInv(i)'
<1>0. thread \in [Jobs -> ThreadStates] /\ leftover' = leftover /\ files' \in {files, KeptFiles}
    BY DEF Types, ThreadStates, RequestStep, Ask, AskFiltered, Look, StoreReady, DecideFresh, DecideJoin, DecideStart,
       AskRefused, Age
<1>1. ASSUME jobs[i].st \in {"new", "asked", "stale", "hit"}
      PROVE  thread[i] = "none" /\ i \notin files' /\ i \notin leftover'
  <2>1. thread[i] \in ThreadStates
      BY <1>0
  <2>2. thread[i] = "none" /\ i \notin files /\ i \notin leftover
      BY <1>1, <2>1 DEF ThreadInv, FileInv, ThreadStates
  <2> QED
      BY <1>0, <2>2 DEF KeptFiles
<1>2. ASSUME jobs[i].st \in {"new", "asked", "stale", "hit"}, UNCHANGED thread,
             jobs'[i].st # "queued", jobs'[i].st \in {"running", "ready"} => jobs'[i].how # "filtered"
      PROVE  ThreadInv(i)' /\ FileInv(i)'
  <2>1. thread'[i] = "none" /\ i \notin files' /\ i \notin leftover'
      BY <1>1, <1>2
  <2> QED
      BY <1>2, <2>1 DEF ThreadInv, FileInv
<1>3. ASSUME NEW k \in Kinds, AskFiltered(i, k) PROVE ThreadInv(i)' /\ FileInv(i)'
  <2>1. jobs'[i].st = "queued" /\ jobs'[i].how = "filtered" /\ thread'[i] = "start"
      BY <1>0, <1>3, OwnEntry DEF AskFiltered
  <2>2. i \notin files' /\ i \notin leftover'
      BY <1>1, <1>3 DEF AskFiltered
  <2> QED
      BY <2>1, <2>2 DEF ThreadInv, FileInv
<1>4. ASSUME NEW k \in Kinds, Ask(i, k) PROVE ThreadInv(i)' /\ FileInv(i)'
    BY <1>2, <1>4, OwnEntry DEF Ask
<1>5. CASE Look(i)
    BY <1>2, <1>5, OwnEntry DEF Look
<1>6. CASE StoreReady(i)
    BY <1>2, <1>6, OwnEntry DEF StoreReady
<1>7. CASE DecideFresh(i)
    BY <1>2, <1>7, OwnEntry DEF DecideFresh
<1>8. CASE DecideJoin(i)
    BY <1>2, <1>8, OwnEntry DEF DecideJoin
<1>9. CASE DecideStart(i)
    BY <1>2, <1>9, OwnEntry DEF DecideStart
<1>10. CASE AskRefused(i)
    BY <1>2, <1>10, OwnEntry DEF AskRefused
<1>11. CASE Age(i)
  <2>1. jobs'[i].st = jobs[i].st /\ jobs'[i].how = jobs[i].how
      BY <1>11, OwnEntry DEF Same
  <2> QED
      BY <1>11, <2>1 DEF Age, ThreadInv, FileInv
<1> QED
    BY <1>3, <1>4, <1>5, <1>6, <1>7, <1>8, <1>9, <1>10, <1>11 DEF RequestStep

\* A writer's end touches jobs without a thread.
LEMMA SettledActs ==
  ASSUME Types, NEW k \in Kinds, WriterInv(k), FinishWriter(k), NEW i \in Jobs, i \in Settled(writers[k]),
         ThreadInv(i), FileInv(i)
  PROVE  /\ ThreadInv(i)' /\ FileInv(i)'
         /\ jobs[i].kind = k /\ jobs'[i].kind = k /\ jobs'[i].how = jobs[i].how
         /\ jobs'[i].st = IF writers[k].step = "ok" THEN "ready" ELSE "failed"
         /\ jobs[i].st = "running" /\ jobs[i].how # "filtered"
<1>1. writers[k] # NoWriter /\ jobs[i].st \in Stored /\ i \in {writers[k].by} \cup writers[k].waiters
    BY ActiveWriter DEF FinishWriter, Settled
<1>2. jobs[i].st = "running" /\ jobs[i].kind = k /\ jobs[i].how \in {"owner", "joined"}
    BY <1>1 DEF WriterInv, Stored
<1>3. /\ jobs'[i].kind = k /\ jobs'[i].how = jobs[i].how
      /\ jobs'[i].st = IF writers[k].step = "ok" THEN "ready" ELSE "failed"
    BY <1>2 DEF FinishWriter, Types, Job
<1>4. thread[i] = "none" /\ UNCHANGED <<thread, files, leftover>> /\ i \notin files
    BY <1>2 DEF ThreadInv, FileInv, FinishWriter
<1> QED
    BY <1>2, <1>3, <1>4 DEF ThreadInv, FileInv

LEMMA CrashActs ==
  ASSUME Types, NEW i \in Jobs, ThreadInv(i), FileInv(i), Crash
  PROVE  ThreadInv(i)' /\ FileInv(i)' /\ jobs'[i].st \in {"new", "gone"}
<1>1. thread'[i] = "none" /\ files' = files /\ leftover' = files
      /\ jobs'[i] = IF jobs[i].st = "new" THEN jobs[i] ELSE Gone
    BY DEF Crash
<1>2. Gone.st = "gone"
    BY DEF Gone, NewJob
<1>3. jobs[i].st = "new" => i \notin files
    BY DEF ThreadInv, FileInv
<1> QED
    BY <1>1, <1>2, <1>3 DEF ThreadInv, FileInv

\* Every step keeps what is known of a job, its thread and its file.
LEMMA ThreadsKept ==
  ASSUME Types, JobsInv, Next, NEW i \in Jobs
  PROVE  ThreadInv(i)' /\ FileInv(i)'
<1>1. ThreadInv(i) /\ FileInv(i) /\ \A k \in Kinds : WriterInv(k)
    BY DEF JobsInv
<1>2. CASE Crash
    BY <1>1, <1>2, CrashActs
<1>3. CASE RequestStep(i)
    BY <1>1, <1>3, RequestActs
<1>4. CASE JobStep(i)
    BY <1>1, <1>4, ThreadActs
<1>5. ASSUME NEW k \in Kinds, FinishWriter(k), i \in Settled(writers[k]) PROVE ThreadInv(i)' /\ FileInv(i)'
    BY <1>1, <1>5, SettledActs
<1> QED
    BY <1>1, <1>2, <1>3, <1>4, <1>5, Otherwise, AsideKeeps

\* A job of a writer stays as it is until the writer ends, or leaves the table.
LEMMA MemberKept ==
  ASSUME Types, JobsInv, Next, NEW k \in Kinds, writers[k] # NoWriter, writers'[k] # NoWriter,
         NEW i \in Jobs, i \in Members(writers[k])
  PROVE  \/ jobs'[i].st = "gone"
         \/ jobs'[i].st = "running" /\ jobs'[i].kind = k /\ jobs'[i].how \in {"owner", "joined"}
<1>1. /\ ThreadInv(i) /\ FileInv(i) /\ \A l \in Kinds : WriterInv(l)
      /\ \/ jobs[i].st = "gone"
         \/ jobs[i].st = "running" /\ jobs[i].kind = k /\ jobs[i].how \in {"owner", "joined"}
    BY DEF JobsInv, WriterInv, Members
<1>2. ~Crash
    BY DEF Crash
<1>3. CASE RequestStep(i)
  <2>1. Age(i)
      BY <1>1, <1>3 DEF RequestStep, Ask, AskFiltered, Look, StoreReady, DecideFresh, DecideJoin, DecideStart, AskRefused
  <2> QED
      BY <1>1, <2>1, OwnEntry DEF Same
<1>4. CASE JobStep(i)
    BY <1>1, <1>4, ThreadActs
<1>5. ASSUME NEW l \in Kinds, FinishWriter(l), i \in Settled(writers[l]) PROVE FALSE
  <2>1. jobs[i].kind = l /\ jobs[i].st = "running"
      BY <1>1, <1>5, SettledActs
  <2>2. l = k
      BY <1>1, <2>1
  <2> QED
      BY <1>5, <2>2 DEF FinishWriter, Types
<1>6. CASE Aside(i)
    BY <1>1, <1>6 DEF Aside, Gone, NewJob
<1> QED
    BY <1>2, <1>3, <1>4, <1>5, <1>6, Otherwise

LEMMA WritersKept ==
  ASSUME Types, SnapshotInv, JobsInv, Next, NEW k \in Kinds
  PROVE  WriterInv(k)'
<1> SUFFICES ASSUME writers'[k] # NoWriter
             PROVE  /\ \A j \in Jobs : j \in Members(writers'[k]) =>
                          \/ jobs'[j].st = "gone"
                          \/ /\ jobs'[j].st = "running" /\ jobs'[j].kind = k
                             /\ jobs'[j].how \in {"owner", "joined"}
                    /\ writers'[k].step \in {"truncate", "fill", "ok"} => disk'[k].xlsx # None
    BY DEF WriterInv, Members
<1>1. ASSUME NEW j \in Jobs, j \in Members(writers'[k])
      PROVE  \/ jobs'[j].st = "gone"
             \/ jobs'[j].st = "running" /\ jobs'[j].kind = k /\ jobs'[j].how \in {"owner", "joined"}
  <2>1. CASE (DecideJoin(j) \/ DecideStart(j)) /\ jobs[j].kind = k
      BY <2>1, OwnEntry
  <2>2. CASE writers[k] # NoWriter /\ j \in Members(writers[k])
      BY <2>2, MemberKept
  <2> QED
      BY <1>1, <2>1, <2>2, MembersCome
<1>2. writers'[k].step \in {"truncate", "fill", "ok"} => disk'[k].xlsx # None
    BY FileWritten DEF JobsInv
<1> QED
    BY <1>1, <1>2

\* What an unfiltered job relies on stays.
LEMMA SharedKept ==
  ASSUME Types, Types', SnapshotInv, JobsInv, Next, NEW i \in Jobs
  PROVE  SharedInv(i)'
<1>1. /\ ThreadInv(i) /\ FileInv(i) /\ SharedInv(i) /\ \A k \in Kinds : WriterInv(k)
      /\ jobs[i] \in Job
    BY DEF JobsInv, Types
<1>2. jobs[i].st \in Placed => jobs[i].kind \in Kinds
    BY <1>1 DEF Job
<1>3. \A k \in Kinds : disk[k].xlsx # None => disk'[k].xlsx # None
    BY XlsxKept
<1>4. ASSUME jobs'[i].st \notin {"hit", "ready", "running"} PROVE SharedInv(i)'
    BY <1>4 DEF SharedInv
<1>5. ASSUME jobs'[i].st = jobs[i].st, Same(jobs'[i], jobs[i]), ~Crash,
             \A k \in Kinds : FinishWriter(k) => i \notin Settled(writers[k])
      PROVE  SharedInv(i)'
  <2>1. CASE jobs[i].st \in {"hit", "ready"}
      BY <1>1, <1>2, <1>3, <1>5, <2>1 DEF SharedInv, Same, Placed, Stored
  <2>2. CASE jobs[i].st = "running" /\ jobs[i].how # "filtered"
    <3> DEFINE k == jobs[i].kind
    <3>1. k \in Kinds /\ writers[k] # NoWriter /\ i \in Members(writers[k])
        BY <1>1, <1>2, <2>2 DEF SharedInv, Members, Placed, Stored
    <3>2. ~FinishWriter(k)
        BY <1>5, <2>2, <3>1 DEF Settled, Members, Stored
    <3>3. writers'[k] # NoWriter /\ i \in Members(writers'[k])
        BY <1>5, <3>1, <3>2, MembersStay
    <3> QED
        BY <1>5, <2>2, <3>3 DEF SharedInv, Same, Members
  <2>3. CASE \/ jobs[i].st \notin {"hit", "ready", "running"}
             \/ jobs[i].st = "running" /\ jobs[i].how = "filtered"
      BY <1>5, <2>3 DEF SharedInv, Same
  <2> QED
      BY <2>1, <2>2, <2>3
<1>6. CASE Crash
    BY <1>1, <1>4, <1>6, CrashActs
<1>7. CASE JobStep(i)
  <2>1. jobs[i].st = "gone" => jobs'[i].st = "gone"
      BY <1>1, <1>7, ThreadActs
  <2>2. jobs[i].st # "gone" => jobs'[i].how = "filtered"
      BY <1>1, <1>7, ThreadActs DEF Same
  <2>3. jobs'[i].st # "hit"
    <3>1. jobs'[i].st \in {jobs[i].st, "running", "ready", "failed"}
        BY <1>1, <1>7 DEF JobStep, RunJob, RunNothing, RunDies, WriteFiltered, WriteFilteredFails, PublishFiltered,
           ReleaseSlot, Types, Job
    <3>2. jobs[i].st # "hit"
        BY <1>1, <1>7 DEF ThreadInv, JobStep, RunJob, RunNothing, RunDies, WriteFiltered, WriteFilteredFails,
           PublishFiltered, ReleaseSlot
    <3> QED
        BY <3>1, <3>2
  <2> QED
      BY <2>1, <2>2, <2>3 DEF SharedInv
<1>8. ASSUME NEW k \in Kinds, FinishWriter(k), i \in Settled(writers[k]) PROVE SharedInv(i)'
  <2>1. /\ jobs'[i].kind = k
        /\ jobs'[i].st = IF writers[k].step = "ok" THEN "ready" ELSE "failed"
      BY <1>1, <1>8, SettledActs
  <2>2. writers[k].step = "ok" => disk'[k].xlsx # None
      BY <1>1, <1>3, <1>8, ActiveWriter DEF WriterInv, FinishWriter
  <2> QED
      BY <2>1, <2>2 DEF SharedInv
<1>9. CASE RequestStep(i)
  <2>1. CASE Age(i)
    <3>1. ~Crash
        BY <2>1 DEF Age, Crash, Fault, Types
    <3>2. \A k \in Kinds : ~FinishWriter(k)
        BY <2>1, ActiveWriter DEF Age, FinishWriter, Types
    <3>3. jobs'[i].st = jobs[i].st /\ Same(jobs'[i], jobs[i])
        BY <2>1, OwnEntry
    <3> QED
        BY <1>5, <3>1, <3>2, <3>3
  <2>2. CASE \/ \E k \in Kinds : Ask(i, k) \/ AskFiltered(i, k)
             \/ AskRefused(i)
      BY <1>4, <2>2, OwnEntry
  <2>3. CASE Look(i)
    <3>1. jobs'[i].st = "hit" => Fresh(jobs[i].kind, jobs[i].fp)
        BY <2>3, OwnEntry
    <3>2. jobs'[i].st \in {"hit", "stale"} /\ jobs'[i].kind = jobs[i].kind /\ UNCHANGED disk
        BY <2>3, OwnEntry DEF Look, Same
    <3> QED
        BY <3>1, <3>2 DEF SharedInv, Fresh
  <2>4. CASE StoreReady(i)
      BY <1>1, <2>4, OwnEntry DEF SharedInv, StoreReady
  <2>5. CASE DecideFresh(i)
    <3>1. Fresh(jobs[i].kind, jobs[i].fp) /\ UNCHANGED disk
        BY <2>5 DEF DecideFresh
    <3> QED
        BY <2>5, <3>1, OwnEntry DEF SharedInv, Fresh, Same
  <2>6. CASE DecideJoin(i) \/ DecideStart(i)
    <3> DEFINE k == jobs[i].kind
    <3>1. jobs'[i].st = "running" /\ jobs'[i].kind = k /\ k \in Kinds
        BY <1>2, <2>6, OwnEntry DEF DecideJoin, DecideStart, Placed
    <3>2. writers'[k] # NoWriter /\ i \in Members(writers'[k])
      <4>1. CASE DecideStart(i)
        <5>1. writers'[k] = NewWriter(i, jobs[i].fp)
            BY <3>1, <4>1 DEF DecideStart, Types
        <5> QED
            BY <5>1 DEF NewWriter, NoWriter, Members
      <4>2. CASE DecideJoin(i)
        <5>1. writers[k] # NoWriter /\ writers'[k] = [writers[k] EXCEPT !.waiters = writers[k].waiters \cup {i}]
            BY <3>1, <4>2 DEF DecideJoin, Types
        <5>2. writers[k] \in Writer /\ writers[k].waiters \cup {i} \in SUBSET Jobs
            BY <3>1, <5>1, WriterIs DEF Writer
        <5>3. /\ [writers[k] EXCEPT !.waiters = writers[k].waiters \cup {i}] \in Writer
              /\ [writers[k] EXCEPT !.waiters = writers[k].waiters \cup {i}].waiters = writers[k].waiters \cup {i}
            BY <5>2, WriterJoined
        <5> QED
          <6>1. writers'[k].step \in Steps /\ writers'[k].waiters = writers[k].waiters \cup {i}
              BY <5>1, <5>3 DEF Writer
          <6> QED
              BY <6>1 DEF Steps, NoWriter, Members
      <4> QED
          BY <2>6, <4>1, <4>2
    <3> QED
        BY <3>1, <3>2 DEF SharedInv, Members
  <2> QED
      BY <1>9, <2>1, <2>2, <2>3, <2>4, <2>5, <2>6 DEF RequestStep
<1>10. CASE Aside(i) /\ ~Crash /\ \A k \in Kinds : FinishWriter(k) => i \notin Settled(writers[k])
    BY <1>4, <1>5, <1>10 DEF Aside, Same, Gone, NewJob
<1> QED
    BY <1>6, <1>7, <1>8, <1>9, <1>10, Otherwise

-----------------------------------------------------------------------------
(* The slots.                                                              *)

LEMMA HoldingCounts ==
  ASSUME IsFiniteSet(Jobs)
  PROVE  /\ IsFiniteSet(Holding) /\ Cardinality(Holding) \in Nat
         /\ \A j \in Jobs : /\ Cardinality(Holding \cup {j}) = IF j \in Holding THEN Cardinality(Holding)
                                                                 ELSE Cardinality(Holding) + 1
                            /\ Cardinality(Holding \ {j}) = IF j \in Holding THEN Cardinality(Holding) - 1
                                                              ELSE Cardinality(Holding)
                            /\ j \in Holding => Cardinality(Holding) # 0
<1>1. IsFiniteSet(Holding)
    BY FS_Subset DEF Holding
<1> QED
    BY <1>1, FS_CardinalityType, FS_AddElement, FS_RemoveElement, FS_EmptySet

LEMMA SlotsKept ==
  ASSUME Types, JobsInv, Next
  PROVE  SlotCount'
<1>0. /\ active = Cardinality(Holding) /\ active <= MaxConcurrent /\ IsFiniteSet(Jobs)
      /\ MaxConcurrent \in Nat /\ active \in Nat /\ thread \in [Jobs -> ThreadStates]
      /\ \A j \in Jobs : ThreadInv(j)
    BY BoundAssumption DEF JobsInv, SlotCount, Types, ThreadStates
<1>1. CASE UNCHANGED active /\ Holding' = Holding
    BY <1>0, <1>1 DEF SlotCount
<1>2. UNCHANGED thread => Holding' = Holding
    BY DEF Holding
<1>3. ASSUME NEW j \in Jobs, NEW k \in Kinds, AskFiltered(j, k) PROVE SlotCount'
  <2>1. Holding' = Holding \cup {j} /\ j \notin Holding
      BY <1>0, <1>3 DEF AskFiltered, Holding, ThreadInv, ThreadStates
  <2> QED
      BY <1>0, <1>3, <2>1, HoldingCounts DEF AskFiltered, SlotCount
<1>4. ASSUME NEW j \in Jobs, RunNothing(j) \/ ReleaseSlot(j) PROVE SlotCount'
  <2>1. Holding' = Holding \ {j} /\ j \in Holding /\ active' = Freed
      BY <1>0, <1>4 DEF RunNothing, ReleaseSlot, Holding
  <2> QED
      BY <1>0, <2>1, HoldingCounts DEF Freed, SlotCount
<1>5. CASE Crash
  <2>1. Holding' = {} /\ active' = 0
      BY <1>5 DEF Crash, Holding
  <2> QED
      BY <1>0, <2>1, FS_EmptySet DEF SlotCount
<1>6. ASSUME NEW j \in Jobs, JobStep(j), ~RunNothing(j), ~ReleaseSlot(j) PROVE UNCHANGED active /\ Holding' = Holding
    BY <1>0, <1>6 DEF JobStep, RunJob, RunDies, WriteFiltered, WriteFilteredFails, PublishFiltered, Holding
<1>7. ASSUME NEW j \in Jobs, RequestStep(j), \A k \in Kinds : ~AskFiltered(j, k) PROVE UNCHANGED <<active, thread>>
    BY <1>7 DEF RequestStep, Ask, Look, StoreReady, DecideFresh, DecideJoin, DecideStart, AskRefused, Age
<1>8. ASSUME NEW k \in Kinds, WriterStep(k) PROVE UNCHANGED <<active, thread>>
    BY <1>8 DEF WriterStep, ExportRows, ReplaceFile, TruncateMeta, FillMeta, FinishWriter, WriteFails, WriterDies
<1>9. ASSUME NEW r \in Rebuilds, ScheduleRebuild(r) \/ RebuildStep(r) PROVE UNCHANGED <<active, thread>>
    BY <1>9 DEF ScheduleRebuild, RebuildStep, RebuildFingerprint, RebuildFails, RebuildEnsure, RebuildTimeout
<1>10. ASSUME \/ \E l \in Kinds : Cutover(l)
              \/ \E K \in SUBSET Kinds : Enrich(K) \/ Restamp(K)
              \/ EndWithoutRebuild \/ Poll
       PROVE  UNCHANGED <<active, thread>>
    BY <1>10 DEF Cutover, Enrich, Restamp, EndWithoutRebuild, Poll
<1> QED
    BY <1>1, <1>2, <1>3, <1>4, <1>5, <1>6, <1>7, <1>8, <1>9, <1>10 DEF Next

LEMMA JobsStep == Types /\ Types' /\ SnapshotInv /\ JobsInv /\ [Next]_vars => JobsInv'
<1> SUFFICES ASSUME Types, Types', SnapshotInv, JobsInv, [Next]_vars PROVE JobsInv'
    OBVIOUS
<1>1. CASE UNCHANGED vars
    BY <1>1 DEF vars, JobsInv, ThreadInv, FileInv, SharedInv, WriterInv, SlotCount, Holding
<1>2. CASE Next
    BY <1>2, ThreadsKept, SharedKept, WritersKept, SlotsKept DEF JobsInv
<1> QED
    BY <1>1, <1>2

LEMMA JobsHold == Spec => []JobsInv
<1>1. Init => JobsInv
    BY InitJobs
<1>2. Types /\ Types' /\ SnapshotInv /\ JobsInv /\ [Next]_vars => JobsInv'
    BY JobsStep
<1> QED
    BY <1>1, <1>2, TypesHold, SnapshotHolds, PTL DEF Spec

\* The tables and files hold what the code puts there.
THEOREM ExportTypeCorrect == Spec => []TypeOK
<1>1. ASSUME Types, JobsInv PROVE TypeOK
  <2>1. leftover \subseteq files
      BY <1>1 DEF JobsInv, FileInv, Types
  <2>2. Job \subseteq [st : JobState, kind : Kinds \cup {None}, fp : Version, aged : BOOLEAN, how : How]
      BY DEF Job
  <2>3. Rebuild \subseteq [at : 0..Len(KindOrder), fp : Version, step : {"idle", "fingerprint", "ensure", "busy", "done"}]
      BY DEF Rebuild
  <2>4. jobs \in [Jobs -> [st : JobState, kind : Kinds \cup {None}, fp : Version,
                           aged : BOOLEAN, how : How]]
      BY <1>1, <2>2 DEF Types
  <2>5. rebuild \in [Rebuilds -> [at : 0..Len(KindOrder), fp : Version,
                                 step : {"idle", "fingerprint", "ensure", "busy", "done"}]]
      BY <1>1, <2>3 DEF Types
  <2> QED
      BY <1>1, <2>1, <2>4, <2>5 DEF Types, TypeOK, Catalog, Disk, Writer, JobState, How
<1> QED
    BY <1>1, TypesHold, JobsHold, PTL

\* Slots are neither leaked nor given back twice, whatever expires or fails.
THEOREM SlotCountHolds == Spec => []SlotCount
<1>1. JobsInv => SlotCount
    BY DEF JobsInv
<1> QED
    BY <1>1, JobsHold, PTL

\* A job that is offered for download has its file.
THEOREM ReadyHasFileHolds == Spec => []ReadyHasFile
<1>1. JobsInv => ReadyHasFile
    BY DEF JobsInv, FileInv, SharedInv, ReadyHasFile
<1> QED
    BY <1>1, JobsHold, PTL

\* No filtered file of this process is left to itself.
THEOREM NoOrphanFilesHolds == Spec => []NoOrphanFiles
<1>1. Types /\ JobsInv => NoOrphanFiles
    BY DEF Types, JobsInv, FileInv, NoOrphanFiles
<1> QED
    BY <1>1, TypesHold, JobsHold, PTL

\* Slots and files are accounted for, together.
THEOREM AccountedHolds == Spec => []Accounted
BY SlotCountHolds, ReadyHasFileHolds, NoOrphanFilesHolds, PTL DEF Accounted

\* Every job that is queued or running has a thread or a writer to settle it.
THEOREM NoJobForgottenHolds == Spec => []NoJobForgotten
<1>1. JobsInv => NoJobForgotten
    BY DEF JobsInv, ThreadInv, SharedInv, NoJobForgotten
<1> QED
    BY <1>1, JobsHold, PTL
===============================================================================
