------------------------ MODULE TwilioNumbersProofs -------------------------
(***************************************************************************)
(* Proofs about TwilioNumbers, for any rows, cells, patterns and numbers   *)
(* and any faults: a checkpoint never claims a search whose numbers are    *)
(* not committed with it or before it, a row is marked loaded only when    *)
(* all of its cells were searched, by whatever number of threads, and the  *)
(* numbers of an ingest survive it.                                        *)
(***************************************************************************)
EXTENDS TwilioNumbers, TLAPS

-----------------------------------------------------------------------------
(* Types *)

Places == {"none", "row", "cell", "search", "end"}
NumberType == [owner : Rows \cup {None}, job : Nat, sync : BOOLEAN]
CheckpointType ==
  [done : SUBSET Keys, cur : Keys \cup {None}, last : Nat, kept : BOOLEAN]
DbType ==
  [numbers : [Numbers -> NumberType], ck : [Rows -> CheckpointType],
   err : [Rows -> BOOLEAN], loaded : [Rows -> BOOLEAN],
   asked : [Rows -> SUBSET (Keys \X Nat)]]
Targets == Rows \cup {"all", None}
JobType == [status : {"pending", "running", "success", "failed", None},
            target : Targets, auth : BOOLEAN]
ThreadType ==
  [pc : Places, job : Nat, rows : SUBSET Targets, todo : SUBSET Targets,
   row : Rows \cup {None}, cell : Nat, pat : Nat, streak : Nat,
   known : SUBSET Numbers, ck : CheckpointType, from : Keys \cup {None}, at : Nat,
   errors : SUBSET Rows]

TypeOK ==
  /\ db \in DbType /\ ses \in DbType
  /\ jobs \in [Jobs -> JobType]
  /\ thread \in ThreadType
  /\ faults \in Nat /\ countries \in Nat

-----------------------------------------------------------------------------
(* The inductive invariant *)

\* CheckpointCovered of any value of the tables, and that there is nothing in
\* a checkpoint that is not kept.
Sound(d) == \A r \in Rows :
  /\ Covered(Normal(d.ck[r])) \subseteq d.asked[r]
  /\ ~d.ck[r].kept => d.ck[r] = NoCheckpoint

\* The session has every number that is committed, and of the same row.
Keeps(d, s) == \A n \in Numbers :
  d.numbers[n].owner # None => s.numbers[n].owner = d.numbers[n].owner

InRow == {"cell", "search", "end"}

\* What the thread holds of its row's checkpoint is what the session has, but
\* for the empty key, which a checkpoint loses.
SameCheckpoint(t, ck) ==
  /\ t.done \ {""} = Normal(ck).done
  /\ Normal(t).cur = Normal(ck).cur
  /\ t.last = ck.last

\* A thread in a row.
RowInv(t, s) == t.pc \in InRow =>
  /\ t.row \in Rows
  /\ t.cell \in Nat \ {0}
  /\ SameCheckpoint(t.ck, s.ck[t.row])
  /\ \A k \in t.ck.done : {k} \X (1..Patterns) \subseteq s.asked[t.row]
  /\ t.from # None => {t.from} \X (1..t.at) \subseteq s.asked[t.row]
  /\ \A i \in 1..Len(Cells[t.row]) : i < t.cell => Cells[t.row][i] \in t.ck.done
  /\ t.pc = "end" => t.cell > Len(Cells[t.row])
  /\ \A n \in Numbers : s.numbers[n].owner = t.row => s.numbers[n].job = t.job

\* Between two cells, the checkpoint is the one that the row began with, or
\* has no current cell.
CellInv(t) == t.pc \in {"cell", "end"} \/ (t.pc = "search" /\ t.pat = 0) =>
  \/ t.ck.cur = None
  \/ t.ck.cur = t.from /\ t.ck.last = t.at

\* In a cell: it is not done, and the patterns before the present one were
\* searched for; only a cell that is not taken up again has a probe.
SearchInv(t, s) == t.pc = "search" =>
  /\ t.cell <= Len(Cells[t.row])
  /\ Cells[t.row][t.cell] \notin t.ck.done
  /\ t.pat > 0 => {Cells[t.row][t.cell]} \X (1..(t.pat - 1)) \subseteq s.asked[t.row]
  /\ t.pat = 0 => t.from # Cells[t.row][t.cell] \/ t.at = 0

IngestInv ==
  /\ TypeOK
  /\ Sound(db) /\ Sound(ses) /\ Keeps(db, ses)
  /\ RowInv(thread, ses) /\ CellInv(thread) /\ SearchInv(thread, ses)

-----------------------------------------------------------------------------
(* Operators *)

LEMMA KeyFacts ==
  /\ None \notin Rows /\ None \notin Keys
  /\ \A r \in Rows : /\ Len(Cells[r]) \in Nat
                     /\ \A i \in 1..Len(Cells[r]) : Cells[r][i] \in Keys
                     /\ DOMAIN Cells[r] = 1..Len(Cells[r])
                     /\ Stock[r] \subseteq Numbers
<1>1. \A r \in Rows : Cells[r] \in Seq(STRING)
    BY CellAssumption
<1>2. \A r \in Rows : Len(Cells[r]) \in Nat /\ DOMAIN Cells[r] = 1..Len(Cells[r])
    BY <1>1
<1>3. \A r \in Rows : \A i \in 1..Len(Cells[r]) : Cells[r][i] \in Keys
    BY <1>2 DEF Keys
<1>4. \A r \in Rows : Stock[r] \subseteq Numbers
    BY DEF Numbers
<1> QED
    BY <1>2, <1>3, <1>4, NoneAssumption

LEMMA NoCheckpointFacts ==
  /\ NoCheckpoint \in CheckpointType
  /\ ~NoCheckpoint.kept
  /\ Covered(Normal(NoCheckpoint)) = {}
BY NoneAssumption DEF NoCheckpoint, CheckpointType, Covered, Normal

LEMMA NormalFacts ==
  ASSUME NEW ck \in CheckpointType
  PROVE  /\ Normal(ck) \in CheckpointType
         /\ Normal(ck).done = ck.done \ {""}
         /\ Normal(ck).cur = IF ck.cur = "" THEN None ELSE ck.cur
         /\ Normal(ck).last = ck.last
         /\ Normal(ck).kept = ck.kept
BY DEF Normal, CheckpointType

\* What a checkpoint covers: its cells, and of its current one the patterns up
\* to the last.
LEMMA CoveredFacts ==
  ASSUME NEW ck \in CheckpointType, NEW S
  PROVE  Covered(Normal(ck)) \subseteq S
         <=> /\ \A k \in ck.done \ {""} : {k} \X (1..Patterns) \subseteq S
             /\ ck.cur \notin {"", None} => {ck.cur} \X (1..ck.last) \subseteq S
<1>1. Covered(Normal(ck)) = ((ck.done \ {""}) \X (1..Patterns))
        \cup (({IF ck.cur = "" THEN None ELSE ck.cur} \ {None}) \X (1..ck.last))
    BY NormalFacts DEF Covered
<1>2. (ck.done \ {""}) \X (1..Patterns) \subseteq S
      <=> \A k \in ck.done \ {""} : {k} \X (1..Patterns) \subseteq S
    OBVIOUS
<1>3. ({IF ck.cur = "" THEN None ELSE ck.cur} \ {None}) \X (1..ck.last) \subseteq S
      <=> (ck.cur \notin {"", None} => {ck.cur} \X (1..ck.last) \subseteq S)
    OBVIOUS
<1> QED
    BY <1>1, <1>2, <1>3

LEMMA SaveFacts ==
  ASSUME NEW d \in DbType, NEW ck \in CheckpointType, R \in Rows
  PROVE  /\ Save(d, ck) \in DbType
         /\ Save(d, ck).ck[R] = [ck EXCEPT !.kept = TRUE]
         /\ \A r \in Rows \ {R} : Save(d, ck).ck[r] = d.ck[r]
         /\ Save(d, ck).asked = d.asked /\ Save(d, ck).numbers = d.numbers
BY DEF Save, DbType, CheckpointType

\* A batch in the session: no number changes its row, those of the row are of
\* the job, and no checkpoint changes.
LEMMA IngestedFacts ==
  ASSUME IngestInv, thread.pc = "search", NEW page \in SUBSET Stock[R], NEW over \in BOOLEAN
  PROVE  /\ Ingested(page, over) \in DbType
         /\ Ingested(page, over).ck = ses.ck
         /\ Keeps(ses, Ingested(page, over))
         /\ \A n \in Numbers : Ingested(page, over).numbers[n].owner = R =>
                Ingested(page, over).numbers[n].job = thread.job
         /\ \A r \in Rows \ {R} : Ingested(page, over).asked[r] = ses.asked[r]
         /\ Ingested(page, over).asked[R] = IF over THEN Asked(ses.asked[R], page)
                                            ELSE ses.asked[R]
<1>1. /\ thread \in ThreadType /\ ses \in DbType /\ R \in Rows /\ R # None
      /\ page \subseteq Numbers /\ Key \in Keys /\ thread.job \in Nat
      /\ \A n \in Numbers : ses.numbers[n].owner = R => ses.numbers[n].job = thread.job
    BY KeyFacts DEF IngestInv, TypeOK, RowInv, SearchInv, InRow, R, Key, ThreadType
<1> DEFINE numbers == [n \in Numbers |->
             IF n \in page /\ ses.numbers[n].owner \in {None, R}
             THEN [owner |-> R, job |-> thread.job, sync |-> TRUE] ELSE ses.numbers[n]]
           asked == [ses.asked EXCEPT ![R] = IF over THEN Asked(@, page) ELSE @]
<1>2. Ingested(page, over) = [ses EXCEPT !.numbers = numbers, !.asked = asked]
    BY <1>1 DEF Ingested, DbType
<1>3. numbers \in [Numbers -> NumberType]
    BY <1>1 DEF NumberType, DbType
<1>4. asked \in [Rows -> SUBSET (Keys \X Nat)]
    <2>1. Asked(ses.asked[R], page) \subseteq Keys \X Nat
        <3>1. ses.asked[R] \subseteq Keys \X Nat /\ thread.pat \in Nat
            BY <1>1 DEF DbType, ThreadType
        <3>2. Patterns \in Nat /\ 0..Patterns \subseteq Nat
            BY BoundAssumption
        <3> QED
            BY <1>1, <3>1, <3>2 DEF Asked
    <2> QED
        BY <1>1, <2>1 DEF DbType
<1>5. /\ Ingested(page, over) \in DbType
      /\ Ingested(page, over).numbers = numbers
      /\ Ingested(page, over).asked = asked
      /\ Ingested(page, over).ck = ses.ck
    <2> HIDE DEF numbers, asked
    <2> QED
        BY <1>1, <1>2, <1>3, <1>4 DEF DbType
<1>6. \A n \in Numbers : numbers[n].owner = R => numbers[n].job = thread.job
    BY <1>1
<1>7. Keeps(ses, Ingested(page, over))
    <2>1. \A n \in Numbers : ses.numbers[n].owner # None =>
              numbers[n].owner = ses.numbers[n].owner
        BY <1>1
    <2> QED
        BY <1>5, <2>1 DEF Keeps
<1>8. asked[R] = (IF over THEN Asked(ses.asked[R], page) ELSE ses.asked[R])
      /\ \A r \in Rows \ {R} : asked[r] = ses.asked[r]
    BY <1>1 DEF DbType
<1> QED
    BY <1>5, <1>6, <1>7, <1>8


\* A batch keeps the checkpoints sound: what it takes away of the searches of a
\* row is of a cell that no checkpoint of the row counts, and only a probe does.
LEMMA BatchSound ==
  ASSUME IngestInv, thread.pc = "search", NEW page \in SUBSET Stock[R], NEW over \in BOOLEAN
  PROVE  /\ Sound(Ingested(page, over))
         /\ \A k \in thread.ck.done : {k} \X (1..Patterns) \subseteq Ingested(page, over).asked[R]
         /\ thread.from # None => {thread.from} \X (1..thread.at) \subseteq Ingested(page, over).asked[R]
<1> DEFINE d == Ingested(page, over)
<1>0. /\ thread \in ThreadType /\ ses \in DbType /\ R \in Rows /\ thread.pat \in Nat
      /\ thread.ck \in CheckpointType /\ ses.ck[R] \in CheckpointType
      /\ Key \notin thread.ck.done
      /\ thread.pat = 0 => thread.from # Key \/ thread.at = 0
      /\ SameCheckpoint(thread.ck, ses.ck[R])
      /\ \A k \in thread.ck.done : {k} \X (1..Patterns) \subseteq ses.asked[R]
      /\ thread.from # None => {thread.from} \X (1..thread.at) \subseteq ses.asked[R]
      /\ thread.at \in Nat /\ Key \in Keys /\ Key # None
    BY KeyFacts DEF IngestInv, TypeOK, RowInv, SearchInv, InRow, R, Key, ThreadType, DbType
<1>1. thread.pat = 0 /\ thread.ck.cur = Key => thread.ck.last = 0
    BY <1>0 DEF IngestInv, CellInv
<1>2. /\ d.ck = ses.ck
      /\ \A r \in Rows \ {R} : d.asked[r] = ses.asked[r]
      /\ d.asked[R] = IF over THEN Asked(ses.asked[R], page) ELSE ses.asked[R]
    BY IngestedFacts
<1>3. \A x \in ses.asked[R] : x[1] # Key \/ thread.pat > 0 => x \in d.asked[R]
    BY <1>2 DEF Asked
<1>4. ASSUME NEW k, k # Key \/ thread.pat > 0, NEW n \in Nat, {k} \X (1..n) \subseteq ses.asked[R]
      PROVE  {k} \X (1..n) \subseteq d.asked[R]
    BY <1>3, <1>4
<1>5. thread.from # None => {thread.from} \X (1..thread.at) \subseteq d.asked[R]
  <2>1. CASE thread.from # Key \/ thread.pat > 0
      BY <1>0, <1>4, <2>1
  <2>2. CASE thread.from = Key /\ thread.pat = 0
      BY <1>0, <2>2
  <2> QED
      BY <1>0, <2>1, <2>2
<1>6. \A k \in thread.ck.done : {k} \X (1..Patterns) \subseteq d.asked[R]
    BY <1>0, <1>4, BoundAssumption
<1>7. Covered(Normal(ses.ck[R])) \subseteq d.asked[R]
  <2>1. ASSUME NEW S
        PROVE  Covered(Normal(ses.ck[R])) \subseteq S
               <=> /\ \A k \in ses.ck[R].done \ {""} : {k} \X (1..Patterns) \subseteq S
                   /\ ses.ck[R].cur \notin {"", None} =>
                        {ses.ck[R].cur} \X (1..ses.ck[R].last) \subseteq S
    <3> DEFINE ck == ses.ck[R]
    <3> HIDE DEF ck
    <3>1. ck \in CheckpointType
        BY <1>0 DEF ck
    <3>2. Covered(Normal(ck)) \subseteq S
          <=> /\ \A k \in ck.done \ {""} : {k} \X (1..Patterns) \subseteq S
              /\ ck.cur \notin {"", None} => {ck.cur} \X (1..ck.last) \subseteq S
        BY <3>1, CoveredFacts
    <3> QED
        BY <3>2 DEF ck
  <2>2. Covered(Normal(ses.ck[R])) \subseteq ses.asked[R]
      BY <1>0 DEF IngestInv, Sound
  <2>3. \A k \in ses.ck[R].done \ {""} : {k} \X (1..Patterns) \subseteq d.asked[R]
      BY <1>0, <1>6, NormalFacts DEF SameCheckpoint
  <2>4. ASSUME ses.ck[R].cur \notin {"", None}
        PROVE  {ses.ck[R].cur} \X (1..ses.ck[R].last) \subseteq d.asked[R]
    <3>1. thread.ck.cur = ses.ck[R].cur /\ thread.ck.last = ses.ck[R].last
      <4>1. /\ Normal(thread.ck).cur = Normal(ses.ck[R]).cur
            /\ thread.ck.last = ses.ck[R].last
          BY <1>0 DEF SameCheckpoint
      <4>2. Normal(thread.ck).cur = IF thread.ck.cur = "" THEN None ELSE thread.ck.cur
          BY <1>0, NormalFacts
      <4>3. Normal(ses.ck[R]).cur = ses.ck[R].cur
          BY <1>0, <2>4, NormalFacts
      <4> QED
          BY <2>4, <4>1, <4>2, <4>3
    <3>2. {ses.ck[R].cur} \X (1..ses.ck[R].last) \subseteq ses.asked[R]
        BY <2>1, <2>2, <2>4
    <3>3. CASE ses.ck[R].cur # Key \/ thread.pat > 0
        BY <1>0, <1>4, <3>2, <3>3 DEF CheckpointType
    <3>4. CASE ses.ck[R].cur = Key /\ thread.pat = 0
        BY <1>0, <1>1, <3>1, <3>4
    <3> QED
        BY <1>0, <3>3, <3>4
  <2> QED
      BY <2>1, <2>3, <2>4
<1>8. Sound(d)
    BY <1>0, <1>2, <1>7 DEF IngestInv, Sound
<1> HIDE DEF d
<1> QED
    BY <1>6, <1>8, <1>5 DEF d

\* What is said of the thread's row is vacuous outside of it.
LEMMA OutOfRow ==
  ASSUME NEW t, NEW s, t.pc \in {"none", "row"}
  PROVE  RowInv(t, s) /\ CellInv(t) /\ SearchInv(t, s)
BY DEF RowInv, CellInv, SearchInv, InRow

LEMMA NoThreadFacts == NoThread \in ThreadType /\ NoThread.pc = "none"
<1>1. NoCheckpoint \in CheckpointType
    BY NoCheckpointFacts
<1> QED
    BY <1>1 DEF NoThread, ThreadType, Places, Targets

\* Steps that leave the tables.
LEMMA StaysKeeps ==
  ASSUME IngestInv, UNCHANGED <<db, ses>>, jobs' \in [Jobs -> JobType],
         faults' \in Nat, countries' \in Nat, thread' \in ThreadType,
         thread'.pc \in {"none", "row"} \/ thread' = thread
  PROVE  IngestInv'
<1>1. TypeOK' /\ Sound(db)' /\ Sound(ses)' /\ Keeps(db, ses)'
    BY DEF IngestInv, TypeOK
<1>2. RowInv(thread', ses) /\ CellInv(thread') /\ SearchInv(thread', ses)
    BY OutOfRow DEF IngestInv
<1> QED
    BY <1>1, <1>2 DEF IngestInv

\* A job that is reopened.
LEMMA ReopenedFacts ==
  ASSUME TypeOK, NEW j PROVE Reopened(j) \in [Jobs -> JobType]
BY DEF TypeOK, Reopened, JobType

LEMMA RequestsKeep ==
  ASSUME IngestInv,
         \/ \E t \in Rows \cup {"all"} : Create(t)
         \/ Boot \/ BootInterrupted
         \/ \E j \in Jobs : Start(j)
         \/ Finish
  PROVE  IngestInv'
<1>0. TypeOK
    BY DEF IngestInv
<1>1. ASSUME NEW t \in Rows \cup {"all"}, Create(t) PROVE IngestInv'
  <2>1. jobs' \in [Jobs -> JobType]
    <3>1. CASE \E j \in Reopens(t) : jobs' = Reopened(j)
        BY <1>0, <3>1, ReopenedFacts
    <3>2. CASE \E j \in Jobs :
                 jobs' = [jobs EXCEPT ![j] = [NewJob EXCEPT !.status = "pending", !.target = t]]
      <4>1. [NewJob EXCEPT !.status = "pending", !.target = t] \in JobType
          BY DEF NewJob, JobType, Targets
      <4> QED
          BY <1>0, <3>2, <4>1 DEF TypeOK
    <3> QED
        BY <1>1, <3>1, <3>2 DEF Create
  <2> QED
      BY <1>0, <1>1, <2>1, StaysKeeps DEF Create, TypeOK
<1>2. CASE Boot \/ BootInterrupted
  <2>1. jobs' \in [Jobs -> JobType]
      BY <1>0, <1>2, ReopenedFacts DEF Boot, BootInterrupted
  <2> QED
      BY <1>0, <1>2, <2>1, StaysKeeps DEF Boot, BootInterrupted, TypeOK
<1>3. ASSUME NEW j \in Jobs, Start(j) PROVE IngestInv'
  <2>1. PICK rows \in SUBSET Targets :
          thread' = [NoThread EXCEPT !.pc = "row", !.job = j, !.rows = rows, !.todo = rows]
    <3>1. jobs[j].target \in Targets /\ Rows \subseteq Targets
        BY <1>0 DEF TypeOK, JobType, Targets
    <3> QED
        BY <1>3, <3>1 DEF Start
  <2>2. thread' \in ThreadType /\ thread'.pc = "row"
    <3>1. j \in Nat /\ NoCheckpoint \in CheckpointType
        BY BoundAssumption, NoCheckpointFacts DEF Jobs
    <3> QED
        BY <2>1, <3>1 DEF NoThread, ThreadType, Places
  <2>3. jobs' \in [Jobs -> JobType]
      BY <1>0, <1>3 DEF Start, TypeOK, JobType
  <2> QED
      BY <1>0, <1>3, <2>2, <2>3, StaysKeeps DEF Start, TypeOK
<1>4. CASE Finish
  <2>1. jobs' \in [Jobs -> JobType]
      BY <1>0, <1>4 DEF Finish, Outcome, TypeOK, JobType
  <2> QED
      BY <1>0, <1>4, <2>1, StaysKeeps, NoThreadFacts DEF Finish, TypeOK
<1> QED
    BY <1>1, <1>2, <1>3, <1>4

LEMMA KeepsSelf == \A d : Keeps(d, d)
BY DEF Keeps

\* The session falls back to what was committed.
LEMMA RollbackKeeps ==
  ASSUME IngestInv, Crash \/ AuthFails
  PROVE  IngestInv'
<1>1. /\ ses' = db /\ db' = db /\ thread' = NoThread /\ countries' = countries
      /\ faults' = faults + 1
    BY DEF Crash, AuthFails, Fault
<1>2. jobs' \in [Jobs -> JobType]
    BY DEF IngestInv, TypeOK, Crash, AuthFails, JobType
<1>3. TypeOK'
    BY <1>1, <1>2, NoThreadFacts DEF IngestInv, TypeOK
<1>4. RowInv(thread', ses') /\ CellInv(thread') /\ SearchInv(thread', ses')
    BY <1>1, NoThreadFacts, OutOfRow
<1> QED
    BY <1>1, <1>3, <1>4, KeepsSelf DEF IngestInv

\* A commit while no thread is in a row.
LEMMA CommitKeeps ==
  ASSUME IngestInv, Commit, ses' \in DbType, Sound(ses'), jobs' \in [Jobs -> JobType],
         faults' \in Nat, countries' \in Nat,
         thread' \in ThreadType, thread'.pc \in {"none", "row"}
  PROVE  IngestInv'
<1>1. db' = ses'
    BY DEF Commit
<1>2. TypeOK'
    BY <1>1 DEF IngestInv, TypeOK
<1>3. RowInv(thread', ses') /\ CellInv(thread') /\ SearchInv(thread', ses')
    BY OutOfRow
<1> QED
    BY <1>1, <1>2, <1>3, KeepsSelf DEF IngestInv

LEMMA SampledFacts ==
  ASSUME TypeOK, NEW r \in Rows, NEW S \in SUBSET Stock[r]
  PROVE  Sampled(r, S) \in [Numbers -> NumberType]
BY DEF TypeOK, DbType, Sampled, NumberType

LEMMA CountriesKeep ==
  ASSUME IngestInv, CountriesJob \/ CountriesFails
  PROVE  IngestInv'
<1>0. TypeOK /\ thread.pc = "none" /\ UNCHANGED <<jobs, thread>> /\ Commit
    BY DEF IngestInv, CountriesJob, CountriesFails, CountriesAllowed
<1>1. faults' \in Nat /\ countries' \in Nat
  <2>1. faults \in Nat /\ countries \in Nat
      BY <1>0 DEF TypeOK
  <2> QED
    <3>1. CASE CountriesJob
        <4>1. countries' = countries + 1 /\ faults' = faults
            BY <3>1, Zenon DEF CountriesJob
        <4> QED
            BY <2>1, <4>1
      <3>2. CASE CountriesFails
        <4>1. countries' = countries /\ Fault
            BY <3>2, Zenon DEF CountriesFails
        <4> QED
            BY <2>1, <4>1 DEF Fault
      <3> QED
          BY <3>1, <3>2
<1>2. CASE CountriesJob
  <2>1. PICK r \in Rows : \E S \in SUBSET Stock[r] :
         ses' = [ses EXCEPT
           !.numbers = [n \in Numbers |-> IF n \in S /\ Sampled(r, S)[n].owner = r
                                          THEN Sampled(r, S)[n] ELSE NoNumber],
           !.ck = [s \in Rows |-> NoCheckpoint], !.err = [s \in Rows |-> FALSE],
           !.loaded = [s \in Rows |-> FALSE], !.asked = [s \in Rows |-> {}]]
      BY <1>2 DEF CountriesJob
  <2>2. PICK S \in SUBSET Stock[r] :
         ses' = [ses EXCEPT
           !.numbers = [n \in Numbers |-> IF n \in S /\ Sampled(r, S)[n].owner = r
                                          THEN Sampled(r, S)[n] ELSE NoNumber],
           !.ck = [s \in Rows |-> NoCheckpoint], !.err = [s \in Rows |-> FALSE],
           !.loaded = [s \in Rows |-> FALSE], !.asked = [s \in Rows |-> {}]]
      BY <2>1
  <2> DEFINE numbers == [n \in Numbers |-> IF n \in S /\ Sampled(r, S)[n].owner = r
                                           THEN Sampled(r, S)[n] ELSE NoNumber]
  <2>3. numbers \in [Numbers -> NumberType]
      BY <1>0, SampledFacts DEF NoNumber, NumberType
  <2>4. ses' \in DbType /\ ses'.ck = [s \in Rows |-> NoCheckpoint]
    <3> HIDE DEF numbers
    <3>1. ses' = [ses EXCEPT !.numbers = numbers,
           !.ck = [s \in Rows |-> NoCheckpoint], !.err = [s \in Rows |-> FALSE],
           !.loaded = [s \in Rows |-> FALSE], !.asked = [s \in Rows |-> {}]]
        BY <2>2 DEF numbers
    <3> QED
        BY <1>0, <2>3, <3>1, NoCheckpointFacts DEF TypeOK, DbType
  <2>5. Sound(ses')
      BY <2>4, NoCheckpointFacts DEF Sound
  <2> QED
      BY <1>0, <1>1, <2>4, <2>5, CommitKeeps DEF TypeOK
<1>3. CASE CountriesFails
  <2>1. PICK numbers \in [Numbers -> NumberType] : ses' = [ses EXCEPT !.numbers = numbers]
      BY <1>0, <1>3, SampledFacts DEF CountriesFails
  <2>2. ses' \in DbType /\ ses'.ck = ses.ck /\ ses'.asked = ses.asked
      BY <1>0, <2>1 DEF TypeOK, DbType
  <2>3. Sound(ses')
      BY <2>2 DEF IngestInv, Sound
  <2> QED
      BY <1>0, <1>1, <2>2, <2>3, CommitKeeps DEF TypeOK
<1> QED
    BY <1>2, <1>3

\* A commit that comes or does not, with the batch or before it.
LEMMA MayCommit ==
  ASSUME IngestInv, NEW d, d \in DbType, Sound(d), Keeps(ses, d), db' \in {db, d},
         ses'.numbers = d.numbers
  PROVE  db' \in DbType /\ Sound(db') /\ Keeps(db', ses')
<1>1. Keeps(db, ses)
    BY DEF IngestInv
<1>2. Keeps(db, ses') /\ Keeps(d, ses')
    BY <1>1 DEF Keeps
<1> QED
    BY <1>2 DEF IngestInv, TypeOK

LEMMA BeginRowKeeps ==
  ASSUME IngestInv, NEW r \in Rows, BeginRow(r)
  PROVE  IngestInv'
<1> DEFINE ck == ses.ck[r]
           asked == IF ck.kept THEN ses.asked[r] ELSE {}
<1>1. /\ TypeOK /\ Sound(ses) /\ ck \in CheckpointType /\ ses \in DbType /\ thread \in ThreadType
      /\ ses.asked[r] \subseteq Keys \X Nat /\ thread.job \in Nat
    BY DEF IngestInv, TypeOK, DbType, ThreadType
<1>2. Covered(Normal(ck)) \subseteq asked
    BY <1>1, NoCheckpointFacts DEF Sound
<1>3. /\ ses'.ck = ses.ck /\ ses' \in DbType
      /\ ses'.asked[r] = asked /\ \A s \in Rows \ {r} : ses'.asked[s] = ses.asked[s]
      /\ \A n \in Numbers : ses'.numbers[n].owner = r => ses'.numbers[n].job = thread.job
  <2>1. Adopted(r) \in [Numbers -> NumberType]
        /\ \A n \in Numbers : Adopted(r)[n].owner = r => Adopted(r)[n].job = thread.job
      BY <1>1 DEF Adopted, NumberType, DbType
  <2>2. ses' = [ses EXCEPT !.numbers = Adopted(r), !.err[r] = FALSE, !.asked[r] = asked]
      BY DEF BeginRow
  <2> HIDE DEF asked
  <2>3. asked \subseteq Keys \X Nat
      BY <1>1 DEF asked
  <2> QED
      BY <1>1, <2>1, <2>2, <2>3 DEF DbType
<1>4. Sound(ses')
    BY <1>1, <1>2, <1>3 DEF Sound
<1>5. /\ thread' = [thread EXCEPT !.pc = "cell", !.row = r, !.todo = @ \ {r}, !.cell = 1,
                     !.known = OwnedBy(ses, r), !.ck = Normal(ck),
                     !.from = Normal(ck).cur, !.at = ck.last]
      /\ Normal(ck) \in CheckpointType
    BY <1>1, NormalFacts DEF BeginRow
<1>6. /\ thread' \in ThreadType /\ thread'.pc = "cell" /\ thread'.row = r /\ thread'.cell = 1
      /\ thread'.ck = Normal(ck) /\ thread'.from = Normal(ck).cur /\ thread'.at = ck.last
      /\ thread'.job = thread.job
  <2> HIDE DEF ck
  <2>1. OwnedBy(ses, r) \subseteq Numbers
      BY DEF OwnedBy
  <2> QED
      BY <1>1, <1>5, <2>1, NormalFacts DEF ThreadType, CheckpointType, Places
<1>7. TypeOK' /\ Keeps(db', ses') /\ Sound(db')
  <2>1. jobs' \in [Jobs -> JobType]
      BY <1>1 DEF BeginRow, TypeOK, JobType, Targets
  <2>2. db' = ses' /\ faults' = faults /\ countries' = countries
      BY DEF BeginRow, Commit
  <2> QED
      BY <1>1, <1>3, <1>4, <1>6, <2>1, <2>2, KeepsSelf DEF TypeOK
<1>8. RowInv(thread', ses')
  <2>1. SameCheckpoint(Normal(ck), ck)
    <3> HIDE DEF ck
    <3>1. Normal(Normal(ck)).cur = Normal(ck).cur
        BY <1>1, <1>5, NormalFacts
    <3> QED
        BY <1>1, <3>1, NormalFacts DEF SameCheckpoint
  <2>2. /\ \A k \in Normal(ck).done : {k} \X (1..Patterns) \subseteq asked
        /\ Normal(ck).cur # None => {Normal(ck).cur} \X (1..ck.last) \subseteq asked
    <3> HIDE DEF ck, asked
    <3>1. Normal(ck).done = ck.done \ {""} /\ Normal(ck).cur = IF ck.cur = "" THEN None ELSE ck.cur
        BY <1>1, NormalFacts
    <3>2. /\ \A k \in ck.done \ {""} : {k} \X (1..Patterns) \subseteq asked
          /\ ck.cur \notin {"", None} => {ck.cur} \X (1..ck.last) \subseteq asked
        BY <1>1, <1>2, CoveredFacts
    <3> QED
        BY <3>1, <3>2
  <2> QED
      BY <1>3, <1>6, <2>1, <2>2 DEF RowInv
<1>9. CellInv(thread') /\ SearchInv(thread', ses')
    BY <1>1, <1>6, NormalFacts DEF CellInv, SearchInv
<1> QED
    BY <1>4, <1>7, <1>8, <1>9 DEF IngestInv

LEMMA BeginCellKeeps ==
  ASSUME IngestInv, BeginCell
  PROVE  IngestInv'
<1>1. /\ TypeOK /\ thread \in ThreadType /\ thread.pc = "cell" /\ R \in Rows
      /\ thread.cell \in Nat \ {0} /\ Len(Cells[R]) \in Nat /\ thread.at \in Nat
      /\ UNCHANGED <<db, ses, jobs, faults, countries>>
    BY KeyFacts DEF IngestInv, TypeOK, RowInv, InRow, BeginCell, R, ThreadType
<1>2. /\ RowInv(thread, ses) /\ CellInv(thread)
    BY DEF IngestInv
<1>3. CASE thread.cell > Len(Cells[R]) /\ thread' = [thread EXCEPT !.pc = "end"]
  <2>1. thread' \in ThreadType
      BY <1>1, <1>3 DEF ThreadType, Places
  <2>2. RowInv(thread', ses) /\ CellInv(thread') /\ SearchInv(thread', ses)
      BY <1>1, <1>2, <1>3 DEF RowInv, CellInv, SearchInv, InRow, R, ThreadType
  <2> QED
      BY <1>1, <2>1, <2>2 DEF IngestInv, TypeOK
<1>4. CASE /\ thread.cell <= Len(Cells[R]) /\ Key \in thread.ck.done
           /\ thread' = [thread EXCEPT !.cell = @ + 1]
  <2>1. thread' \in ThreadType
      BY <1>1, <1>4 DEF ThreadType
  <2>2. \A i \in 1..Len(Cells[R]) : i < thread.cell + 1 => Cells[R][i] \in thread.ck.done
      BY <1>1, <1>2, <1>4 DEF RowInv, InRow, R, Key
  <2>3. RowInv(thread', ses) /\ CellInv(thread') /\ SearchInv(thread', ses)
      BY <1>1, <1>2, <1>4, <2>2 DEF RowInv, CellInv, SearchInv, InRow, R, ThreadType
  <2> QED
      BY <1>1, <2>1, <2>3 DEF IngestInv, TypeOK
<1>5. CASE /\ thread.cell <= Len(Cells[R]) /\ Key \notin thread.ck.done
           /\ thread' = [thread EXCEPT !.pc = "search", !.streak = 0,
                           !.pat = IF Resumed THEN thread.at + 1 ELSE 0]
  <2>1. thread' \in ThreadType
    <3> DEFINE pat == IF Resumed THEN thread.at + 1 ELSE 0
    <3>1. pat \in Nat
        BY <1>1
    <3> HIDE DEF pat
    <3>2. thread' = [thread EXCEPT !.pc = "search", !.streak = 0, !.pat = pat]
        BY <1>5 DEF pat
    <3> QED
        BY <1>1, <3>1, <3>2 DEF ThreadType, Places
  <2>2. Resumed => {Key} \X (1..thread.at) \subseteq ses.asked[R]
    <3>1. Key # None
        BY <1>1, <1>5, KeyFacts DEF Key
    <3>2. thread.from # None => {thread.from} \X (1..thread.at) \subseteq ses.asked[R]
        BY <1>1, <1>2 DEF RowInv, InRow, R
    <3> QED
        BY <3>1, <3>2 DEF Resumed
  <2>3. SearchInv(thread', ses)
      BY <1>1, <1>5, <2>2 DEF SearchInv, R, Key, Resumed, ThreadType
  <2>4. RowInv(thread', ses) /\ CellInv(thread')
      BY <1>1, <1>2, <1>5 DEF RowInv, CellInv, InRow, R, ThreadType
  <2> QED
      BY <1>1, <2>1, <2>3, <2>4 DEF IngestInv, TypeOK
<1> QED
    BY <1>1, <1>3, <1>4, <1>5 DEF BeginCell

\* The end of a cell that was searched whole: the checkpoint counts it.
LEMMA CellDoneKeeps ==
  ASSUME IngestInv, thread.pc = "search", NEW d \in DbType, Sound(d), d.ck = ses.ck,
         \A k \in thread.ck.done \cup {Key} : {k} \X (1..Patterns) \subseteq d.asked[R],
         thread.from # None => {thread.from} \X (1..thread.at) \subseteq d.asked[R],
         \A n \in Numbers : d.numbers[n].owner = R => d.numbers[n].job = thread.job,
         ses' = Save(d, CellDone(thread.ck)),
         thread' = [thread EXCEPT !.pc = "cell", !.cell = @ + 1, !.ck = CellDone(thread.ck)]
  PROVE  /\ thread' \in ThreadType /\ ses' \in DbType /\ Sound(ses')
         /\ ses'.numbers = d.numbers
         /\ RowInv(thread', ses') /\ CellInv(thread') /\ SearchInv(thread', ses')
<1> DEFINE ck == CellDone(thread.ck)
<1>1. /\ thread \in ThreadType /\ R \in Rows /\ thread.cell \in Nat \ {0}
      /\ thread.ck \in CheckpointType /\ Key \in Keys
      /\ Len(Cells[R]) \in Nat /\ RowInv(thread, ses)
    BY KeyFacts DEF IngestInv, TypeOK, RowInv, SearchInv, InRow, R, Key, ThreadType
<1>2. /\ ck \in CheckpointType /\ ck.done = thread.ck.done \cup {Key}
      /\ ck.cur = None /\ ck.last = 0
    BY <1>1 DEF CellDone, CheckpointType
<1> HIDE DEF ck
<1>3. /\ ses' \in DbType /\ ses'.ck[R] = [ck EXCEPT !.kept = TRUE]
      /\ \A r \in Rows \ {R} : ses'.ck[r] = ses.ck[r]
      /\ ses'.asked = d.asked /\ ses'.numbers = d.numbers
    BY <1>1, <1>2, SaveFacts DEF ck
<1>4. /\ ses'.ck[R] \in CheckpointType /\ ses'.ck[R].done = ck.done /\ ses'.ck[R].cur = None
      /\ ses'.ck[R].last = 0 /\ ses'.ck[R].kept
    BY <1>2, <1>3 DEF CheckpointType
<1>5. Sound(ses')
  <2> DEFINE saved == ses'.ck[R]
             asked == d.asked[R]
  <2>1. Covered(Normal(saved)) \subseteq asked
    <3>1. saved \in CheckpointType /\ saved.cur = None
          /\ \A k \in saved.done : {k} \X (1..Patterns) \subseteq asked
        BY <1>2, <1>4
    <3> HIDE DEF saved, asked
    <3> QED
        BY <3>1, CoveredFacts
  <2>2. \A r \in Rows \ {R} : /\ Covered(Normal(ses'.ck[r])) \subseteq ses'.asked[r]
                              /\ ~ses'.ck[r].kept => ses'.ck[r] = NoCheckpoint
      BY <1>3 DEF Sound
  <2> QED
      BY <1>3, <1>4, <2>1, <2>2 DEF Sound
<1>6. thread' = [thread EXCEPT !.pc = "cell", !.cell = @ + 1, !.ck = ck]
    BY DEF ck
<1>7. /\ thread' \in ThreadType /\ thread'.pc = "cell" /\ thread'.row = R
      /\ thread'.cell = thread.cell + 1 /\ thread'.ck = ck /\ thread'.job = thread.job
      /\ thread'.from = thread.from /\ thread'.at = thread.at
  <2>1. thread.cell + 1 \in Nat
      BY <1>1
  <2>2. thread' \in ThreadType
      BY <1>1, <1>2, <1>6, <2>1 DEF ThreadType, Places
  <2> QED
      BY <1>1, <1>6, <2>2 DEF ThreadType, R
<1>8. SameCheckpoint(ck, ses'.ck[R])
    BY <1>2, <1>4, NormalFacts DEF SameCheckpoint
<1>9. \A i \in 1..Len(Cells[R]) : i < thread.cell + 1 => Cells[R][i] \in ck.done
    BY <1>1, <1>2 DEF RowInv, InRow, R, Key
<1>10. RowInv(thread', ses')
  <2>1. thread'.row \in Rows /\ thread'.cell \in Nat \ {0}
      BY <1>1, <1>7
  <2>2. \A k \in ck.done : {k} \X (1..Patterns) \subseteq ses'.asked[R]
      BY <1>2, <1>3
  <2> QED
      BY <1>3, <1>7, <1>8, <1>9, <2>1, <2>2 DEF RowInv
<1>11. CellInv(thread') /\ SearchInv(thread', ses')
    BY <1>2, <1>7 DEF CellInv, SearchInv
<1> QED
    BY <1>3, <1>5, <1>7, <1>10, <1>11

LEMMA EndCellKeeps ==
  ASSUME IngestInv, EndCell
  PROVE  IngestInv'
<1>1. /\ TypeOK /\ thread.pc = "search" /\ thread.pat > Patterns /\ ses \in DbType /\ Sound(ses)
      /\ ses' = Save(ses, CellDone(thread.ck))
      /\ thread' = [thread EXCEPT !.pc = "cell", !.cell = @ + 1, !.ck = CellDone(thread.ck)]
      /\ UNCHANGED <<db, jobs, faults, countries>>
    BY DEF IngestInv, TypeOK, EndCell
<1>2. /\ \A k \in thread.ck.done : {k} \X (1..Patterns) \subseteq ses.asked[R]
      /\ thread.from # None => {thread.from} \X (1..thread.at) \subseteq ses.asked[R]
      /\ \A n \in Numbers : ses.numbers[n].owner = R => ses.numbers[n].job = thread.job
    BY <1>1 DEF IngestInv, RowInv, InRow, R
<1>3. {Key} \X (1..Patterns) \subseteq ses.asked[R]
  <2>1. {Key} \X (1..(thread.pat - 1)) \subseteq ses.asked[R] /\ thread.pat \in Nat
      BY <1>1, BoundAssumption DEF IngestInv, TypeOK, SearchInv, R, Key, ThreadType
  <2>2. 1..Patterns \subseteq 1..(thread.pat - 1)
      BY <1>1, <2>1, BoundAssumption
  <2> QED
      BY <2>1, <2>2
<1>4. /\ thread' \in ThreadType /\ ses' \in DbType /\ Sound(ses') /\ ses'.numbers = ses.numbers
      /\ RowInv(thread', ses') /\ CellInv(thread') /\ SearchInv(thread', ses')
    BY <1>1, <1>2, <1>3, CellDoneKeeps
<1>5. Keeps(db, ses')
    BY <1>4 DEF IngestInv, Keeps
<1> QED
    BY <1>1, <1>4, <1>5 DEF IngestInv, TypeOK

LEMMA ProbeKeeps ==
  ASSUME IngestInv, Probe
  PROVE  IngestInv'
<1>0. /\ TypeOK /\ thread.pc = "search" /\ thread.pat = 0 /\ UNCHANGED <<jobs, faults, countries>>
      /\ thread \in ThreadType /\ R \in Rows /\ RowInv(thread, ses) /\ CellInv(thread)
      /\ SearchInv(thread, ses)
    BY DEF IngestInv, TypeOK, RowInv, InRow, R, Probe
<1>1. PICK page \in SUBSET Stock[R] :
        /\ IF page = {}
           THEN /\ ses' = Save(Ingested(page, TRUE), CellDone(thread.ck))
                /\ thread' = [thread EXCEPT !.pc = "cell", !.cell = @ + 1,
                                !.ck = CellDone(thread.ck)]
           ELSE /\ ses' = Ingested(page, TRUE)
                /\ thread' = [thread EXCEPT !.pat = 1, !.known = @ \cup page]
        /\ db' \in {db, Ingested(page, TRUE)}
    BY DEF Probe
<1> DEFINE d == Ingested(page, TRUE)
<1>2. /\ d \in DbType /\ d.ck = ses.ck /\ Keeps(ses, d)
      /\ \A n \in Numbers : d.numbers[n].owner = R => d.numbers[n].job = thread.job
      /\ d.asked[R] = Asked(ses.asked[R], page)
    BY <1>0, IngestedFacts
<1>3. /\ Sound(d)
      /\ \A k \in thread.ck.done : {k} \X (1..Patterns) \subseteq d.asked[R]
      /\ thread.from # None => {thread.from} \X (1..thread.at) \subseteq d.asked[R]
    BY <1>0, BatchSound
<1>4. page = {} => {Key} \X (1..Patterns) \subseteq d.asked[R]
  <2>1. page = {} => {Key} \X (0..Patterns) \subseteq Asked(ses.asked[R], page)
      BY <1>0 DEF Asked
  <2>2. 1..Patterns \subseteq 0..Patterns
      BY BoundAssumption
  <2> QED
      BY <1>2, <2>1, <2>2
<1> HIDE DEF d
<1>5. /\ thread' \in ThreadType /\ ses' \in DbType /\ Sound(ses') /\ ses'.numbers = d.numbers
      /\ RowInv(thread', ses') /\ CellInv(thread') /\ SearchInv(thread', ses')
  <2>1. CASE page = {}
      BY <1>0, <1>1, <1>2, <1>3, <1>4, <2>1, CellDoneKeeps DEF d
  <2>2. CASE page # {}
    <3>1. ses' = d /\ thread' = [thread EXCEPT !.pat = 1, !.known = @ \cup page]
        BY <1>1, <2>2 DEF d
    <3>2. thread' \in ThreadType
        BY <1>0, <3>1, KeyFacts DEF ThreadType
    <3>3. RowInv(thread', ses')
        BY <1>0, <1>2, <1>3, <3>1 DEF RowInv, InRow, R, ThreadType
    <3>4. CellInv(thread') /\ SearchInv(thread', ses')
        BY <1>0, <3>1 DEF CellInv, SearchInv, R, ThreadType
    <3> QED
        BY <1>2, <1>3, <3>1, <3>2, <3>3, <3>4
  <2> QED
      BY <2>1, <2>2
<1>6. db' \in DbType /\ Sound(db') /\ Keeps(db', ses')
    BY <1>1, <1>2, <1>3, <1>5, MayCommit DEF d
<1> QED
    BY <1>0, <1>5, <1>6 DEF IngestInv, TypeOK

\* A page that is asked for again, or not.
LEMMA SearchKeeps ==
  ASSUME IngestInv, Search
  PROVE  IngestInv'
<1>0. /\ TypeOK /\ thread.pc = "search" /\ thread.pat \in 1..Patterns
      /\ UNCHANGED <<jobs, faults, countries>>
      /\ thread \in ThreadType /\ R \in Rows /\ RowInv(thread, ses) /\ CellInv(thread)
      /\ SearchInv(thread, ses) /\ thread.ck \in CheckpointType /\ Key \in Keys
      /\ thread.pat \in Nat \ {0} /\ ses.ck[R] \in CheckpointType
  <2>1. IngestInv /\ Search
      OBVIOUS
  <2>2. /\ TypeOK /\ thread.pc = "search" /\ thread.pat \in 1..Patterns
        /\ UNCHANGED <<jobs, faults, countries>>
        /\ thread \in ThreadType /\ R \in Rows /\ RowInv(thread, ses) /\ CellInv(thread)
        /\ SearchInv(thread, ses)
      BY DEF IngestInv, TypeOK, RowInv, InRow, R, Search
  <2> QED
      BY <2>2, KeyFacts, BoundAssumption DEF TypeOK, DbType, RowInv, SearchInv, InRow, R, Key,
         ThreadType
<1>1. PICK page \in SUBSET Stock[R], full \in BOOLEAN :
        /\ ses' = IF Repeats(full, page) THEN Ingested(page, ~Repeats(full, page))
                  ELSE Save(Ingested(page, ~Repeats(full, page)), PatternDone(thread.ck))
        /\ thread' = IF Repeats(full, page)
                     THEN [thread EXCEPT !.streak = Streak(page), !.known = @ \cup page]
                     ELSE [thread EXCEPT !.streak = 0, !.known = @ \cup page, !.pat = @ + 1,
                             !.ck = PatternDone(thread.ck)]
        /\ db' \in {db, Ingested(page, ~Repeats(full, page))}
    BY DEF Search
<1> DEFINE again == Repeats(full, page)
           d == Ingested(page, ~again)
           ck == PatternDone(thread.ck)
           known == thread.known \cup page
<1>2. again \in BOOLEAN /\ known \subseteq Numbers
    BY <1>0, KeyFacts DEF Repeats, ThreadType
<1> HIDE DEF again
<1>3. /\ d \in DbType /\ d.ck = ses.ck /\ Keeps(ses, d)
      /\ \A n \in Numbers : d.numbers[n].owner = R => d.numbers[n].job = thread.job
      /\ d.asked[R] = IF ~again THEN Asked(ses.asked[R], page) ELSE ses.asked[R]
    BY <1>0, <1>2, IngestedFacts
<1>4. /\ Sound(d)
      /\ \A k \in thread.ck.done : {k} \X (1..Patterns) \subseteq d.asked[R]
      /\ thread.from # None => {thread.from} \X (1..thread.at) \subseteq d.asked[R]
    BY <1>0, <1>2, BatchSound
<1>5. /\ {Key} \X (1..(thread.pat - 1)) \subseteq d.asked[R]
      /\ ~again => {Key} \X (1..thread.pat) \subseteq d.asked[R]
  <2>1. {Key} \X (1..(thread.pat - 1)) \subseteq ses.asked[R]
      BY <1>0 DEF SearchInv, R, Key
  <2>2. again => d.asked[R] = ses.asked[R]
      BY <1>2, <1>3
  <2>3. ~again => d.asked[R] = ses.asked[R] \cup {<<Key, thread.pat>>}
      BY <1>0, <1>2, <1>3 DEF Asked
  <2>4. 1..thread.pat = (1..(thread.pat - 1)) \cup {thread.pat}
      BY <1>0
  <2> QED
      BY <1>2, <2>1, <2>2, <2>3, <2>4
<1>6. /\ ck \in CheckpointType /\ ck.done = thread.ck.done /\ ck.cur = Key
      /\ ck.last = thread.pat
    BY <1>0 DEF PatternDone, CheckpointType
<1>7. CASE again
  <2>1. ses' = d /\ thread' = [thread EXCEPT !.streak = Streak(page), !.known = known]
      BY <1>1, <1>7 DEF again
  <2> HIDE DEF d, ck, known
  <2>2. Streak(page) \in Nat
      BY <1>0 DEF Streak, ThreadType
  <2>3. thread' \in ThreadType
      BY <1>0, <1>2, <2>1, <2>2 DEF ThreadType
  <2>4. RowInv(thread', ses')
      BY <1>0, <1>3, <1>4, <2>1 DEF RowInv, InRow, R, ThreadType
  <2>5. CellInv(thread') /\ SearchInv(thread', ses')
      BY <1>0, <1>5, <2>1 DEF CellInv, SearchInv, R, Key, ThreadType
  <2>6. db' \in DbType /\ Sound(db') /\ Keeps(db', ses')
      BY <1>1, <1>3, <1>4, <2>1, MayCommit DEF d, again
  <2> QED
      BY <1>0, <1>3, <1>4, <2>1, <2>3, <2>4, <2>5, <2>6 DEF IngestInv, TypeOK
<1>8. CASE ~again
  <2>1. /\ ses' = Save(d, ck)
        /\ thread' = [thread EXCEPT !.streak = 0, !.known = known, !.pat = @ + 1, !.ck = ck]
      BY <1>1, <1>8 DEF again
  <2> HIDE DEF d, ck, known
  <2>2. /\ ses' \in DbType /\ ses'.ck[R] = [ck EXCEPT !.kept = TRUE]
        /\ \A r \in Rows \ {R} : ses'.ck[r] = ses.ck[r]
        /\ ses'.asked = d.asked /\ ses'.numbers = d.numbers
      BY <1>0, <1>3, <1>6, <2>1, SaveFacts
  <2>3. /\ ses'.ck[R] \in CheckpointType /\ ses'.ck[R].done = ck.done
        /\ ses'.ck[R].cur = Key /\ ses'.ck[R].last = thread.pat /\ ses'.ck[R].kept
      BY <1>6, <2>2 DEF CheckpointType
  <2>4. Sound(ses')
    <3> DEFINE saved == ses'.ck[R]
               asked == d.asked[R]
    <3>1. Covered(Normal(saved)) \subseteq asked
      <4>1. /\ saved \in CheckpointType
            /\ \A k \in saved.done : {k} \X (1..Patterns) \subseteq asked
            /\ {saved.cur} \X (1..saved.last) \subseteq asked
          BY <1>4, <1>5, <1>6, <1>8, <2>3
      <4> HIDE DEF saved, asked
      <4> QED
          BY <4>1, CoveredFacts
    <3>2. \A r \in Rows \ {R} : /\ Covered(Normal(ses'.ck[r])) \subseteq ses'.asked[r]
                                /\ ~ses'.ck[r].kept => ses'.ck[r] = NoCheckpoint
        BY <1>3, <1>4, <2>2 DEF Sound
    <3> QED
        BY <2>2, <2>3, <3>1, <3>2 DEF Sound
  <2>5. /\ thread' \in ThreadType /\ thread'.pc = "search" /\ thread'.row = R
        /\ thread'.cell = thread.cell /\ thread'.ck = ck /\ thread'.job = thread.job
        /\ thread'.from = thread.from /\ thread'.at = thread.at
        /\ thread'.pat = thread.pat + 1
    <3>1. thread.pat + 1 \in Nat
        BY <1>0
    <3>2. thread' \in ThreadType
        BY <1>0, <1>2, <1>6, <2>1, <3>1 DEF ThreadType
    <3> QED
        BY <1>0, <2>1, <3>2 DEF ThreadType, R
  <2>6. SameCheckpoint(ck, ses'.ck[R])
    <3>1. /\ Normal(ck).cur = IF ck.cur = "" THEN None ELSE ck.cur
          /\ Normal(ses'.ck[R]).done = ses'.ck[R].done \ {""}
          /\ Normal(ses'.ck[R]).cur = IF ses'.ck[R].cur = "" THEN None ELSE ses'.ck[R].cur
        BY <1>6, <2>3, NormalFacts
    <3> QED
        BY <1>6, <2>3, <3>1 DEF SameCheckpoint
  <2>7. RowInv(thread', ses')
    <3>1. \A i \in 1..Len(Cells[R]) : i < thread.cell => Cells[R][i] \in ck.done
        BY <1>0, <1>6 DEF RowInv, InRow, R
    <3>2. thread.cell \in Nat \ {0}
        BY <1>0 DEF RowInv, InRow
    <3> QED
        BY <1>0, <1>3, <1>4, <1>6, <2>2, <2>5, <2>6, <3>1, <3>2 DEF RowInv
  <2>8. CellInv(thread') /\ SearchInv(thread', ses')
    <3>1. (thread.pat + 1) - 1 = thread.pat /\ thread.pat + 1 # 0
        BY <1>0
    <3>2. thread.cell <= Len(Cells[R]) /\ Key \notin ck.done
        BY <1>0, <1>6 DEF SearchInv, R, Key
    <3> QED
        BY <1>5, <1>8, <2>2, <2>5, <3>1, <3>2 DEF CellInv, SearchInv, Key
  <2>9. db' \in DbType /\ Sound(db') /\ Keeps(db', ses')
      BY <1>1, <1>3, <1>4, <2>2, MayCommit DEF d, again
  <2> QED
      BY <1>0, <2>2, <2>4, <2>5, <2>7, <2>8, <2>9 DEF IngestInv, TypeOK
<1> QED
    BY <1>2, <1>7, <1>8

\* What EndRow takes away of the numbers: nothing, they are all of this job.
LEMMA EndRowFacts ==
  ASSUME IngestInv, EndRow
  PROVE  /\ ses' \in DbType /\ ses'.asked = ses.asked
         /\ ses'.numbers = ses.numbers
         /\ ses'.ck = [ses.ck EXCEPT ![R] = NoCheckpoint]
<1>1. /\ ses \in DbType /\ R \in Rows
      /\ \A n \in Numbers : ses.numbers[n].owner = R => ses.numbers[n].job = thread.job
    BY DEF IngestInv, TypeOK, RowInv, InRow, R, EndRow
<1> DEFINE numbers == [n \in Numbers |->
             IF /\ ses.numbers[n].owner = R /\ ses.numbers[n].job # thread.job
                /\ \E k \in OwnedBy(ses, R) : ses.numbers[k].job = thread.job
             THEN NoNumber ELSE ses.numbers[n]]
<1>2. numbers = ses.numbers
    BY <1>1 DEF DbType
<1>3. ses' = [ses EXCEPT !.numbers = numbers,
                !.loaded[R] = TRUE, !.ck[R] = NoCheckpoint, !.err[R] = FALSE]
    BY DEF EndRow
<1> HIDE DEF numbers
<1> QED
    BY <1>1, <1>2, <1>3, NoCheckpointFacts DEF DbType

LEMMA RowEndKeeps ==
  ASSUME IngestInv, EndRow \/ FailRow
  PROVE  IngestInv'
<1>1. TypeOK /\ Sound(ses) /\ Sound(db) /\ thread \in ThreadType
    BY DEF IngestInv, TypeOK
<1>2. CASE EndRow
  <2>1. Sound(ses')
      BY <1>1, <1>2, EndRowFacts, NoCheckpointFacts DEF Sound, TypeOK, DbType
  <2>2. thread' \in ThreadType /\ thread'.pc = "row"
      BY <1>1, <1>2 DEF EndRow, Goto, ThreadType, Places
  <2>3. Commit /\ UNCHANGED <<jobs, faults, countries>>
      BY <1>2 DEF EndRow
  <2> QED
      BY <1>1, <1>2, <2>1, <2>2, <2>3, EndRowFacts, CommitKeeps DEF TypeOK
<1>3. CASE FailRow
  <2>1. R \in Rows
      BY <1>3 DEF IngestInv, RowInv, InRow, R, FailRow
  <2>2. ses' \in DbType /\ ses'.ck = db.ck /\ ses'.asked = db.asked
      BY <1>1, <1>3 DEF FailRow, TypeOK, DbType
  <2>3. Sound(ses')
      BY <1>1, <2>2 DEF Sound
  <2>4. thread' \in ThreadType /\ thread'.pc = "row"
      BY <1>1, <1>3, <2>1 DEF FailRow, ThreadType, Places
  <2>5. Commit /\ UNCHANGED <<jobs, countries>> /\ faults' \in Nat
      BY <1>1, <1>3 DEF FailRow, Fault, TypeOK
  <2> QED
      BY <1>1, <2>2, <2>3, <2>4, <2>5, CommitKeeps DEF TypeOK
<1> QED
    BY <1>2, <1>3

-----------------------------------------------------------------------------
(* The invariant is inductive *)

LEMMA IngestInvInit == Init => IngestInv
<1> SUFFICES ASSUME Init PROVE IngestInv
    OBVIOUS
<1>1. NoNumber \in NumberType /\ NewJob \in JobType
    BY DEF NoNumber, NumberType, NewJob, JobType, Targets
<1>2. ses = db /\ db \in DbType /\ db.ck = [r \in Rows |-> NoCheckpoint]
    BY <1>1, NoCheckpointFacts DEF Init, DbType
<1>3. TypeOK
    BY <1>1, <1>2, NoThreadFacts DEF Init, TypeOK
<1>4. Sound(db)
    BY <1>2, NoCheckpointFacts DEF Sound
<1>5. RowInv(thread, ses) /\ CellInv(thread) /\ SearchInv(thread, ses)
    BY NoThreadFacts, OutOfRow DEF Init
<1> QED
    BY <1>2, <1>3, <1>4, <1>5, KeepsSelf DEF IngestInv

LEMMA IngestInvInductive == IngestInv /\ [Next]_vars => IngestInv'
<1> SUFFICES ASSUME IngestInv, [Next]_vars PROVE IngestInv'
    OBVIOUS
<1>1. CASE UNCHANGED vars
    BY <1>1 DEF vars, IngestInv, TypeOK
<1>2. CASE \/ \E t \in Rows \cup {"all"} : Create(t)
           \/ Boot \/ BootInterrupted
           \/ \E j \in Jobs : Start(j)
           \/ Finish
    BY <1>2, RequestsKeep
<1>3. CASE CountriesJob \/ CountriesFails
    BY <1>3, CountriesKeep
<1>4. CASE Crash \/ AuthFails
    BY <1>4, RollbackKeeps
<1>5. ASSUME NEW r \in Rows, BeginRow(r) PROVE IngestInv'
    BY <1>5, BeginRowKeeps
<1>6. CASE BeginCell
    BY <1>6, BeginCellKeeps
<1>7. CASE Probe
    BY <1>7, ProbeKeeps
<1>8. CASE Search
    BY <1>8, SearchKeeps
<1>9. CASE EndCell
    BY <1>9, EndCellKeeps
<1>10. CASE EndRow \/ FailRow
    BY <1>10, RowEndKeeps
<1> QED
    BY <1>1, <1>2, <1>3, <1>4, <1>5, <1>6, <1>7, <1>8, <1>9, <1>10 DEF Next, ThreadStep

LEMMA IngestInvHolds == Spec => []IngestInv
BY IngestInvInit, IngestInvInductive, PTL DEF Spec

-----------------------------------------------------------------------------
(* Theorems *)

\* The tables, in the database and in the thread's session, the jobs and the
\* thread have their types: the checkpoint stays a set of cells, a current one
\* and a pattern, over every restart and every reopened job.
THEOREM IngestTypeCorrect == Spec => []TypeOK
BY IngestInvHolds, PTL DEF IngestInv

\* A committed checkpoint is never ahead of the committed numbers: whatever a
\* thread that resumes from it will skip was searched, and its numbers are in
\* the table (apply, save_row_checkpoint and their commits in
\* numbers_runner.py).
THEOREM CheckpointCoveredHolds == Spec => []CheckpointCovered
<1>1. IngestInv => CheckpointCovered
    BY DEF IngestInv, Sound, CheckpointCovered
<1> QED
    BY <1>1, IngestInvHolds, PTL

\* mark_numbers_synced is reached only with every cell of the row searched, or
\* probed and found empty, however many threads and processes took part.
THEOREM LoadedIsCompleteHolds == Spec => LoadedIsComplete
<1>1. ASSUME IngestInv, thread.pc = "end" PROVE Complete(ses, R)
  <2>1. R \in Rows /\ RowInv(thread, ses) /\ thread.cell \in Nat /\ thread.cell > Len(Cells[R])
      BY <1>1 DEF IngestInv, RowInv, InRow, R
  <2>2. \A i \in 1..Len(Cells[R]) : Cells[R][i] \in thread.ck.done
      BY <1>1, <2>1, KeyFacts DEF RowInv, InRow, R
  <2>3. \A k \in thread.ck.done : {k} \X (1..Patterns) \subseteq ses.asked[R]
      BY <1>1, <2>1 DEF RowInv, InRow, R
  <2> QED
      BY <2>1, <2>2, <2>3, KeyFacts DEF Complete
<1>2. IngestInv /\ [Next]_vars =>
        [thread.pc = "end" /\ thread'.pc = "row" => Complete(ses, R)]_vars
    BY <1>1
<1> QED
    BY <1>2, IngestInvHolds, PTL DEF Spec, LoadedIsComplete

\* No step but a countries job takes a committed number away from its row.
LEMMA StepKeeps ==
  ASSUME IngestInv, [Next]_vars, countries' = countries
  PROVE  Keeps(db, db')
<1>0. TypeOK /\ Keeps(db, ses) /\ ses \in DbType
    BY DEF IngestInv, TypeOK
<1>1. ASSUME db' = db PROVE Keeps(db, db')
    BY <1>1, KeepsSelf
<1>2. ASSUME NEW page \in SUBSET Stock[R], NEW over \in BOOLEAN, thread.pc = "search",
             db' \in {db, Ingested(page, over)}
      PROVE  Keeps(db, db')
  <2>1. Keeps(ses, Ingested(page, over))
      BY <1>2, IngestedFacts
  <2> HIDE DEF Ingested
  <2>2. Keeps(db, Ingested(page, over))
      BY <1>0, <2>1 DEF Keeps
  <2> QED
      BY <1>1, <1>2, <2>2
<1>3. CASE UNCHANGED vars
    BY <1>1, <1>3 DEF vars
<1>4. ASSUME NEW r \in Rows, BeginRow(r) PROVE Keeps(db, db')
  <2>1. db'.numbers = Adopted(r)
      BY <1>0, <1>4 DEF BeginRow, Commit, DbType
  <2>2. \A n \in Numbers : Adopted(r)[n].owner = ses.numbers[n].owner
      BY <1>0 DEF Adopted, DbType, NumberType
  <2> QED
      BY <1>0, <2>1, <2>2 DEF Keeps
<1>5. CASE Probe
    BY <1>2, <1>5 DEF Probe
<1>6. CASE Search
  <2>1. thread.pc = "search"
      BY <1>6 DEF Search
  <2>2. PICK page \in SUBSET Stock[R], full \in BOOLEAN :
             db' \in {db, Ingested(page, ~Repeats(full, page))}
      BY <1>6 DEF Search
  <2>3. PICK over \in BOOLEAN : over = ~Repeats(full, page)
      OBVIOUS
  <2> QED
      BY <1>2, <2>1, <2>2, <2>3
<1>7. CASE EndRow
    BY <1>0, <1>7, EndRowFacts DEF EndRow, Commit, Keeps
<1>8. CASE FailRow
  <2>1. db'.numbers = db.numbers
      BY <1>0, <1>8 DEF FailRow, Commit, TypeOK, DbType
  <2> QED
      BY <2>1 DEF Keeps
<1>9. CASE CountriesFails
  <2>1. PICK r \in Rows, S \in SUBSET Numbers : db'.numbers = Sampled(r, S)
      BY <1>0, <1>9, KeyFacts DEF CountriesFails, Commit, DbType
  <2>2. \A n \in Numbers : db.numbers[n].owner # None =>
            Sampled(r, S)[n].owner = db.numbers[n].owner
      BY DEF Sampled
  <2> QED
      BY <2>1, <2>2 DEF Keeps
<1>10. ~CountriesJob
  <2>1. CountriesJob => countries' = countries + 1
      BY Zenon DEF CountriesJob
  <2> QED
      BY <1>0, <2>1 DEF TypeOK
<1>11. ASSUME \/ \E t \in Rows \cup {"all"} : Create(t)
              \/ Boot \/ BootInterrupted \/ Crash \/ AuthFails
              \/ \E j \in Jobs : Start(j)
              \/ Finish \/ BeginCell \/ EndCell
       PROVE  Keeps(db, db')
    BY <1>1, <1>11 DEF Create, Boot, BootInterrupted, Crash, AuthFails, Start, Finish,
       BeginCell, EndCell
<1> QED
    BY <1>3, <1>4, <1>5, <1>6, <1>7, <1>8, <1>9, <1>10, <1>11 DEF Next, ThreadStep

\* The partial dump survives every step of the ingest, every failing row,
\* rejected credentials, crashes, restarts and failing countries jobs: only the
\* cutover of a countries job takes a committed number from its row.
THEOREM DumpSurvivesHolds == Spec => DumpSurvives
<1>1. IngestInv /\ [Next]_vars =>
        [countries' = countries =>
           \A n \in Numbers : db.numbers[n].owner # None =>
                              db'.numbers[n].owner = db.numbers[n].owner]_vars
    BY StepKeeps DEF Keeps
<1> QED
    BY <1>1, IngestInvHolds, PTL DEF Spec, DumpSurvives
=============================================================================
