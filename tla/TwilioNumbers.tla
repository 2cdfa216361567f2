---------------------------- MODULE TwilioNumbers ----------------------------
(***************************************************************************)
(* The numbers ingest of modules/twilio/numbers_runner.py: catalogue rows  *)
(* (a country and a number type) are searched cell by cell and pattern by  *)
(* pattern, the numbers found are written live, and a checkpoint in the    *)
(* row lets a later thread take up where a dead one stopped.               *)
(*                                                                         *)
(* One thread writes at a time (LockedJobs!OneWriter), so the database is  *)
(* two values of one record: `db`, the committed one, and `ses`, what the  *)
(* thread's session has made of it.  _Progress.apply commits at most every *)
(* two seconds: after a batch the commit may or may not come.  A countries *)
(* job, whose steps LockedJobs has, is one step here.                      *)
(***************************************************************************)
EXTENDS Naturals, Sequences, FiniteSets

CONSTANTS
  Cells,       \* per row: its cells, as region filters; "" is a whole country
  Stock,       \* per row: the numbers the provider may return for it
  Patterns,    \* contains patterns of a cell (100 of them in the code)
  MaxJobs,     \* bound on the sync_jobs rows of numbers jobs
  MaxFaults,   \* bound on restarts, failing rows and rejected credentials
  MaxCountries \* bound on the countries jobs

Rows == DOMAIN Cells
Numbers == UNION {Stock[r] : r \in Rows}
Keys == UNION {{Cells[r][i] : i \in DOMAIN Cells[r]} : r \in Rows}
Jobs == 1..MaxJobs

ASSUME CellAssumption == \A r \in Rows : Cells[r] \in Seq(STRING) /\ Cells[r] # <<>>
ASSUME BoundAssumption ==
  /\ DOMAIN Stock = Rows /\ Patterns \in Nat \ {0} /\ MaxJobs \in Nat \ {0}
  /\ MaxFaults \in Nat /\ MaxCountries \in Nat

VARIABLES
  db,        \* committed: numbers, checkpoints, last errors, loaded marks, searches
  ses,       \* the same in the session of the thread
  jobs,      \* sync_jobs: status and target ("all", or a row)
  thread,    \* the thread of _execute_numbers
  faults, countries

vars == <<db, ses, jobs, thread, faults, countries>>

None == "none"
\* None stands for a null of the database, which is no row and no region.
ASSUME NoneAssumption == None \notin Rows \cup Keys

NoCheckpoint == [done |-> {}, cur |-> None, last |-> 0, kept |-> FALSE]
NoThread == [pc |-> "none", job |-> 0, rows |-> {}, todo |-> {}, row |-> None, cell |-> 0, pat |-> 0,
             streak |-> 0, known |-> {}, ck |-> NoCheckpoint, from |-> None, at |-> 0, errors |-> {}]
NoNumber == [owner |-> None, job |-> 0, sync |-> FALSE]
NewJob == [status |-> None, target |-> None, auth |-> FALSE]

Init ==
  /\ db = [numbers |-> [n \in Numbers |-> NoNumber],
           ck |-> [r \in Rows |-> NoCheckpoint], err |-> [r \in Rows |-> FALSE],
           loaded |-> [r \in Rows |-> FALSE], asked |-> [r \in Rows |-> {}]]
  /\ ses = db
  /\ jobs = [j \in Jobs |-> NewJob]
  /\ thread = NoThread
  /\ faults = 0 /\ countries = 0

Commit == db' = ses'
Fault == faults < MaxFaults /\ faults' = faults + 1

Active == {j \in Jobs : jobs[j].status \in {"pending", "running"}}
Used == {j \in Jobs : jobs[j].status # None}
Newest(J) == CHOOSE j \in J : \A k \in J : k <= j
OwnedBy(d, r) == {n \in Numbers : d.numbers[n].owner = r}

\* catalog_row_load_state
State(d, r) ==
  CASE d.loaded[r] -> "loaded"
    [] ~d.loaded[r] /\ (d.ck[r].kept \/ d.err[r] \/ \E n \in OwnedBy(d, r) : d.numbers[n].sync) -> "interrupted"
    [] OTHER -> "idle"

-----------------------------------------------------------------------------
(* Requests and restarts.                                                  *)

\* find_resumable_numbers_job: the newest job whose target is the row.
Resumable(r) ==
  LET own == {j \in Used : jobs[j].target = r}
  IN IF own # {} /\ jobs[Newest(own)].status = "failed" THEN {Newest(own)} ELSE {}

\* _reopen_numbers_job
Reopened(j) == [jobs EXCEPT ![j].status = "pending", ![j].auth = FALSE]

\* POST /numbers/sync for a row or for all of them: a row that is not loaded
\* reopens the job it was interrupted in.
Reopens(target) ==
  IF target = "all" THEN {} ELSE IF db.loaded[target] THEN {} ELSE Resumable(target)
Create(target) ==
  /\ Active = {} /\ thread.pc = "none"
  /\ \/ \E j \in Reopens(target) : jobs' = Reopened(j)
     \/ /\ Reopens(target) = {}
        /\ \E j \in Jobs : j = Cardinality(Used) + 1
             /\ jobs' = [jobs EXCEPT ![j] = [NewJob EXCEPT !.status = "pending", !.target = target]]
  /\ UNCHANGED <<db, ses, thread, faults, countries>>

\* The thread reads its target.  A reopened job that was to load every row
\* finds the row it had come to, and loads that one alone.
Start(j) ==
  /\ jobs[j].status = "pending" /\ thread.pc = "none"
  /\ LET rows == IF jobs[j].target = "all" THEN Rows ELSE {jobs[j].target}
     IN thread' = [NoThread EXCEPT !.pc = "row", !.job = j, !.rows = rows, !.todo = rows]
  /\ jobs' = [jobs EXCEPT ![j].status = "running"]
  /\ UNCHANGED <<db, ses, faults, countries>>

\* The process dies with what was not committed.
Crash ==
  /\ Active # {} /\ Fault
  /\ ses' = db /\ thread' = NoThread
  /\ UNCHANGED <<db, jobs, countries>>

\* mutant: only a pending job is reopened
BootPending ==
  /\ thread.pc = "none"
  /\ \E j \in Active : jobs[j].status = "pending" /\ jobs' = Reopened(j)
  /\ UNCHANGED <<db, ses, thread, faults, countries>>

\* respawn_interrupted_twilio_on_boot reopens the active job,
Boot ==
  /\ thread.pc = "none"
  /\ \E j \in Active : jobs[j].status = "running" /\ jobs' = Reopened(j)
  /\ UNCHANGED <<db, ses, thread, faults, countries>>

\* or, after the death of a process without one, the failed job of an
\* interrupted row, unless it failed on its credentials.
BootInterrupted ==
  /\ thread.pc = "none" /\ Active = {}
  /\ \E r \in {s \in Rows : State(db, s) = "interrupted"} : \E j \in Resumable(r) :
       ~jobs[j].auth /\ jobs' = Reopened(j)
  /\ UNCHANGED <<db, ses, thread, faults, countries>>

\* A whole countries job is one step; it is refused while a row is
\* interrupted.  Its samples are written live, over numbers the row has,
Sampled(r, S) == [n \in Numbers |->
  IF n \in S /\ db.numbers[n].owner \in {None, r}
  THEN [owner |-> r, job |-> 0, sync |-> FALSE] ELSE db.numbers[n]]
CountriesAllowed ==
  Active = {} /\ thread.pc = "none" /\ \A r \in Rows : State(db, r) # "interrupted"

\* and in its cutover every other number and all marks of the rows go.
CountriesJob ==
  /\ CountriesAllowed /\ countries < MaxCountries
  /\ \E r \in Rows : \E S \in SUBSET Stock[r] :
       ses' = [ses EXCEPT
         !.numbers = [n \in Numbers |-> IF n \in S /\ Sampled(r, S)[n].owner = r
                                        THEN Sampled(r, S)[n] ELSE NoNumber],
         !.ck = [s \in Rows |-> NoCheckpoint], !.err = [s \in Rows |-> FALSE],
         !.loaded = [s \in Rows |-> FALSE], !.asked = [s \in Rows |-> {}]]
  /\ Commit /\ countries' = countries + 1
  /\ UNCHANGED <<jobs, thread, faults>>

\* One that fails before its cutover leaves what it sampled.
CountriesFails ==
  /\ CountriesAllowed /\ Fault
  /\ \E r \in Rows : \E S \in SUBSET Stock[r] : ses' = [ses EXCEPT !.numbers = Sampled(r, S)]
  /\ Commit
  /\ UNCHANGED <<jobs, thread, countries>>

-----------------------------------------------------------------------------
(* The thread.                                                             *)

R == thread.row
Key == Cells[R][thread.cell]
Goto(pc) == thread' = [thread EXCEPT !.pc = pc]

\* _checkpoint_from_catalog: an empty region filter does not survive, neither
\* as a completed cell nor as the current one.
Normal(ck) == [ck EXCEPT !.done = @ \ {""}, !.cur = IF @ = "" THEN None ELSE @]

\* mutant: numbers of an earlier job are not adopted
AdoptedNot(r) == ses.numbers

\* adopt_row_ingest: whatever the row has belongs to this job from now on.
Adopted(r) == [n \in Numbers |->
  IF ses.numbers[n].owner = r THEN [ses.numbers[n] EXCEPT !.job = thread.job] ELSE ses.numbers[n]]

\* The next row: adopt, read what is known and the checkpoint, record the row
\* as the job's target, commit.
BeginRow(r) ==
  /\ thread.pc = "row" /\ r \in thread.todo
  /\ ses' = [ses EXCEPT !.numbers = Adopted(r), !.err[r] = FALSE,
               !.asked[r] = IF ses.ck[r].kept THEN @ ELSE {}]
  /\ Commit
  /\ jobs' = [jobs EXCEPT ![thread.job].target = r]
  /\ thread' = [thread EXCEPT !.pc = "cell", !.row = r, !.todo = @ \ {r}, !.cell = 1,
                  !.known = OwnedBy(ses, r), !.ck = Normal(ses.ck[r]),
                  !.from = Normal(ses.ck[r]).cur, !.at = ses.ck[r].last]
  /\ UNCHANGED <<faults, countries>>

\* mutant: the pattern of the checkpoint counts for any cell
ResumedAnyCell == thread.at > 0

\* The next cell: one that is done is skipped, the one the checkpoint was in
\* goes on after its last pattern, another starts with its probe.
Resumed == thread.from = Key /\ thread.at > 0
BeginCell ==
  /\ thread.pc = "cell"
  /\ thread' = CASE thread.cell > Len(Cells[R]) -> [thread EXCEPT !.pc = "end"]
                 [] thread.cell <= Len(Cells[R]) /\ Key \in thread.ck.done -> [thread EXCEPT !.cell = @ + 1]
                 [] OTHER -> [thread EXCEPT !.pc = "search", !.streak = 0,
                                !.pat = IF Resumed THEN thread.at + 1 ELSE 0]
  /\ UNCHANGED <<db, ses, jobs, faults, countries>>

\* (history) The searches of the row: a probe starts its cell anew, an empty
\* one stands for all of its patterns.
Asked(asked, page) ==
  IF thread.pat > 0 THEN asked \cup {<<Key, thread.pat>>}
  ELSE {a \in asked : a[1] # Key} \cup IF page = {} THEN {Key} \X (0..Patterns) ELSE {<<Key, 0>>}

\* ingest_available_batch: new numbers are the row's, known ones are kept
\* fresh, and a number that another row owns is left to it.
Ingested(page, over) == [ses EXCEPT
  !.numbers = [n \in Numbers |->
     IF n \in page /\ ses.numbers[n].owner \in {None, R}
     THEN [owner |-> R, job |-> thread.job, sync |-> TRUE] ELSE ses.numbers[n]],
  !.asked[R] = IF over THEN Asked(@, page) ELSE @]

\* mutant: the checkpoint names the pattern that comes next
PatternDoneNext(ck) == [ck EXCEPT !.cur = Key, !.last = thread.pat + 1]

Save(d, ck) == [d EXCEPT !.ck[R] = [ck EXCEPT !.kept = TRUE]]
CellDone(ck) == [ck EXCEPT !.done = @ \cup {Key}, !.cur = None, !.last = 0]
PatternDone(ck) == [ck EXCEPT !.cur = Key, !.last = thread.pat]

\* The probe of a cell; an empty one ends the cell.  The batch may be
\* committed; what the checkpoint says of it is not, before the next commit.
Probe ==
  /\ thread.pc = "search" /\ thread.pat = 0
  /\ \E page \in SUBSET Stock[R] :
       /\ IF page = {}
          THEN LET ck == CellDone(thread.ck) IN
               /\ ses' = Save(Ingested(page, TRUE), ck)
               /\ thread' = [thread EXCEPT !.pc = "cell", !.cell = @ + 1, !.ck = ck]
          ELSE /\ ses' = Ingested(page, TRUE)
               /\ thread' = [thread EXCEPT !.pat = 1, !.known = @ \cup page]
       /\ db' \in {db, Ingested(page, TRUE)}
  /\ UNCHANGED <<jobs, faults, countries>>

\* Pages in a row that brought nothing new.
Streak(page) == IF page \subseteq thread.known THEN thread.streak + 1 ELSE 0

\* should_repeat_pattern: a full page is asked for again, until two in a row
\* bring nothing new.
Repeats(full, page) == full /\ Streak(page) < 2

Search ==
  /\ thread.pc = "search" /\ thread.pat \in 1..Patterns
  /\ \E page \in SUBSET Stock[R], full \in BOOLEAN :
       LET again == Repeats(full, page)
           batch == Ingested(page, ~again)
           ck == PatternDone(thread.ck)
       IN /\ full => page # {}
          /\ ses' = IF again THEN batch ELSE Save(batch, ck)
          /\ thread' = IF again
                       THEN [thread EXCEPT !.streak = Streak(page), !.known = @ \cup page]
                       ELSE [thread EXCEPT !.streak = 0, !.known = @ \cup page, !.pat = @ + 1, !.ck = ck]
          /\ db' \in {db, batch}
  /\ UNCHANGED <<jobs, faults, countries>>

EndCell ==
  /\ thread.pc = "search" /\ thread.pat > Patterns
  /\ LET ck == CellDone(thread.ck) IN
       /\ ses' = Save(ses, ck)
       /\ thread' = [thread EXCEPT !.pc = "cell", !.cell = @ + 1, !.ck = ck]
  /\ UNCHANGED <<db, jobs, faults, countries>>

\* cutover_numbers_row and mark_numbers_synced: the row's numbers of another
\* job go, the row is loaded, its checkpoint is cleared.  (The refusal to cut
\* over a row that has numbers, none of them this job's, cannot come: BeginRow
\* has adopted them.)
EndRow ==
  /\ thread.pc = "end"
  /\ ses' = [ses EXCEPT
       !.numbers = [n \in Numbers |->
          IF /\ ses.numbers[n].owner = R /\ ses.numbers[n].job # thread.job
             /\ \E k \in OwnedBy(ses, R) : ses.numbers[k].job = thread.job
          THEN NoNumber ELSE ses.numbers[n]],
       !.loaded[R] = TRUE, !.ck[R] = NoCheckpoint, !.err[R] = FALSE]
  /\ Commit
  /\ Goto("row")
  /\ UNCHANGED <<jobs, faults, countries>>

\* A row fails: back to the last commit, the error noted, on to the next row.
FailRow ==
  /\ thread.pc = "search" /\ Fault
  /\ ses' = [db EXCEPT !.err[R] = TRUE] /\ Commit
  /\ thread' = [thread EXCEPT !.pc = "row", !.errors = @ \cup {R}]
  /\ UNCHANGED <<jobs, countries>>

\* Rejected credentials end the job.
AuthFails ==
  /\ thread.pc = "search" /\ Fault
  /\ ses' = db /\ thread' = NoThread
  /\ jobs' = [jobs EXCEPT ![thread.job].status = "failed", ![thread.job].auth = TRUE]
  /\ UNCHANGED <<db, countries>>

\* numbers_job_outcome: failed only if every row of the thread failed.
Outcome == IF thread.errors = thread.rows THEN "failed" ELSE "success"

Finish ==
  /\ thread.pc = "row" /\ thread.todo = {}
  /\ jobs' = [jobs EXCEPT ![thread.job].status = Outcome]
  /\ thread' = NoThread
  /\ UNCHANGED <<db, ses, faults, countries>>

-----------------------------------------------------------------------------
ThreadStep ==
  \/ \E j \in Jobs : Start(j)
  \/ \E r \in Rows : BeginRow(r)
  \/ BeginCell \/ Probe \/ Search \/ EndCell \/ EndRow \/ Finish

Next ==
  \/ ThreadStep
  \/ \E t \in Rows \cup {"all"} : Create(t)
  \/ CountriesJob \/ CountriesFails
  \/ FailRow \/ AuthFails \/ Crash \/ Boot \/ BootInterrupted

Spec == Init /\ [][Next]_vars /\ WF_vars(ThreadStep) /\ WF_vars(Boot)

-----------------------------------------------------------------------------
\* What a thread that resumes from a checkpoint counts as searched.
Covered(ck) == (ck.done \X (1..Patterns)) \cup (({ck.cur} \ {None}) \X (1..ck.last))

\* A committed checkpoint is never ahead of the committed numbers: every
\* search it counts as done has left its numbers in the table, so that a
\* thread that resumes from it after a crash misses nothing.
CheckpointCovered == \A r \in Rows : Covered(Normal(db.ck[r])) \subseteq db.asked[r]

\* A row is marked loaded only when this thread and those it took over from
\* have searched every cell, and to its last pattern if its probe found a number.
Complete(d, r) == \A i \in DOMAIN Cells[r] : {Cells[r][i]} \X (1..Patterns) \subseteq d.asked[r]
LoadedIsComplete == [][thread.pc = "end" /\ thread'.pc = "row" => Complete(ses, R)]_vars

\* The partial dump survives: no step of the ingest, no failure and no restart
\* takes a committed number away from its row; only the cutover of a countries
\* job does.  The wipe of the settings page (runner.py:368), which is meant to
\* take them all, is left to LockedJobs.
DumpSurvives == [][countries' = countries =>
  \A n \in Numbers : db.numbers[n].owner # None => db'.numbers[n].owner = db.numbers[n].owner]_vars

\* Every job ends, and with it the search of its rows: full pages are not
\* asked for forever, and a restarted process goes on by itself.
JobsEnd == \A j \in Jobs : (jobs[j].status = "running") ~> (jobs[j].status \notin {"running", "pending"})
===============================================================================
