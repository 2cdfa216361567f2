------------------------- MODULE SyncLifecycleProofs -------------------------
(***************************************************************************)
(* Proofs about SyncLifecycle, for every set of runs and requests.         *)
(*                                                                         *)
(* The inductive invariant says who holds SYNC_LOCK_KEY and which rows a   *)
(* request is allowed to be about to close.                                *)
(***************************************************************************)
EXTENDS SyncLifecycle, TLAPS

-----------------------------------------------------------------------------
(* Types *)

\* Every variable keeps its type: the steps of unified.py and scheduler.py
\* write the statuses, lock owners and days TypeOK lists and no other.
LEMMA TypeInductive == TypeOK /\ [Next]_vars => TypeOK'
<1> USE RunsAssumption, OwnersAssumption, FaultsAssumption, DayAssumption
<1> SUFFICES ASSUME TypeOK, [Next]_vars PROVE TypeOK'
    OBVIOUS
<1> USE DEF TypeOK, Status, Active, Terminal, WorkerPc, ClientPc, SetStatus, GoTo,
            At, ClientAt, WorkerAt, Unlocked, Fault, rows, calendar, clients, locals
<1>1. ASSUME NEW c \in Clients, Request(c)  PROVE TypeOK'
    BY <1>1 DEF Clients, Request, Enter
<1>2. ASSUME NEW c \in Clients, SelectOrphan(c)  PROVE TypeOK'
    BY <1>2 DEF Clients, SelectOrphan, NextPass
<1>3. ASSUME NEW c \in Clients, SelectStale(c)  PROVE TypeOK'
    BY <1>3 DEF Clients, SelectStale, NextPass
<1>4. ASSUME NEW c \in Clients, MarkAged(c)  PROVE TypeOK'
    BY <1>4 DEF Clients, MarkAged, NextPass
<1>5. ASSUME NEW c \in Clients, TryProbe(c)  PROVE TypeOK'
    BY <1>5 DEF Clients, TryProbe, NextPass
<1>6. ASSUME NEW c \in Clients, Refresh(c)  PROVE TypeOK'
    BY <1>6 DEF Clients, Refresh
<1>7. ASSUME NEW c \in Clients, MarkOrphan(c)  PROVE TypeOK'
    BY <1>7 DEF Clients, MarkOrphan
<1>8. ASSUME NEW c \in Clients, UnlockProbe(c)  PROVE TypeOK'
    BY <1>8 DEF Clients, UnlockProbe, NextPass
<1>9. ASSUME NEW c \in Clients, Answer(c)  PROVE TypeOK'
    BY <1>9 DEF Clients, Answer, Enter, Leave
<1>10. ASSUME NEW c \in Clients, Insert(c)  PROVE TypeOK'
    BY <1>10 DEF Clients, Insert, OtherActive
<1>11. ASSUME NEW c \in Clients, InsertRefused(c)  PROVE TypeOK'
    BY <1>11 DEF Clients, InsertRefused, Leave
<1>12. ASSUME NEW c \in Clients, Spawn(c)  PROVE TypeOK'
    BY <1>12 DEF Clients, Spawn, Leave
<1>13. ASSUME NEW c \in Clients, RequestFails(c)  PROVE TypeOK'
    BY <1>13 DEF Clients, RequestFails, Leave
<1>14. ASSUME NEW r \in Runs, AcquireLock(r)  PROVE TypeOK'
    BY <1>14 DEF Clients, AcquireLock
<1>15. ASSUME NEW r \in Runs, BusyCheck(r)  PROVE TypeOK'
    BY <1>15 DEF Clients, BusyCheck
<1>16. ASSUME NEW r \in Runs, RetryLock(r)  PROVE TypeOK'
    BY <1>16 DEF Clients, RetryLock
<1>17. ASSUME NEW r \in Runs, GiveUp(r)  PROVE TypeOK'
    BY <1>17 DEF Clients, GiveUp
<1>18. ASSUME NEW r \in Runs, MarkFired(r)  PROVE TypeOK'
    BY <1>18 DEF Clients, MarkFired
<1>19. ASSUME NEW r \in Runs, Start(r)  PROVE TypeOK'
    BY <1>19 DEF Clients, Start, OtherActive
<1>20. ASSUME NEW r \in Runs, Check(r)  PROVE TypeOK'
    BY <1>20 DEF Clients, Check
<1>21. ASSUME NEW r \in Runs, Write(r)  PROVE TypeOK'
    BY <1>21 DEF Clients, Write
<1>22. ASSUME NEW r \in Runs, Finish(r)  PROVE TypeOK'
    BY <1>22 DEF Clients, Finish
<1>23. ASSUME NEW r \in Runs, LogOutcome(r)  PROVE TypeOK'
    BY <1>23 DEF Clients, LogOutcome
<1>24. ASSUME NEW r \in Runs, Crashed(r)  PROVE TypeOK'
    BY <1>24 DEF Clients, Crashed
<1>25. ASSUME NEW r \in Runs, Aborting(r)  PROVE TypeOK'
    BY <1>25 DEF Clients, Aborting
<1>26. ASSUME NEW r \in Runs, Release(r)  PROVE TypeOK'
    BY <1>26 DEF Clients, Release
<1>27. ASSUME NEW r \in Runs, WorkerDbError(r)  PROVE TypeOK'
    BY <1>27 DEF Clients, WorkerDbError
<1>28. ASSUME NEW r \in Runs, LoseLock(r)  PROVE TypeOK'
    BY <1>28 DEF Clients, LoseLock
<1>29. ASSUME NEW r \in Runs, Age(r)  PROVE TypeOK'
    BY <1>29 DEF Clients, Age, Unstarted
<1>30. CASE Tick
    BY <1>30 DEF Clients, Tick, Enter
<1>31. CASE Midnight
    BY <1>31 DEF Clients, Midnight
<1>32. CASE Crash
    <2>1. /\ worker' \in [Runs -> WorkerPc]
          /\ lock' \in Runs \cup Clients \cup {Free, Ghost}
        BY <1>32 DEF Crash
    <2>2. /\ req' \in [Clients -> ClientPc]
          /\ want' \in [Clients -> {"latest", "create", "tick"}]
          /\ pass' \in [Clients -> {"reclaim", "stale"}]
          /\ seen' \in [Clients -> Runs \cup {NoRun}]
          /\ old' \in [Clients -> Runs \cup {NoRun}]
        BY <1>32 DEF Crash
    <2>3. faults' \in 0..MaxFaults
        BY <1>32 DEF Crash
    <2> QED
        BY <1>32, <2>1, <2>2, <2>3 DEF Crash
<1>33. CASE GhostGone
    BY <1>33 DEF Clients, GhostGone
<1>34. CASE Boot
    BY <1>34 DEF Clients, Boot
<1>35. CASE UNCHANGED vars
    BY <1>35 DEF Clients, vars
<1>36. ASSUME NEW r \in Runs, Linger(r)  PROVE TypeOK'
    BY <1>36 DEF Clients, Linger, Unstarted
<1> HIDE DEF TypeOK, ClientAt, WorkerAt, At, GoTo, SetStatus, Fault
<1> QED
    BY <1>1, <1>2, <1>3, <1>4, <1>5, <1>6, <1>7, <1>8, <1>9, <1>10,
       <1>11, <1>12, <1>13, <1>14, <1>15, <1>16, <1>17, <1>18,
       <1>19, <1>20, <1>21, <1>22, <1>23, <1>24, <1>25, <1>26,
       <1>27, <1>28, <1>29, <1>30, <1>31, <1>32, <1>33, <1>34,
       <1>35, <1>36
    DEF Next, ClientStep, WorkerStep

THEOREM TypeCorrect == Spec => []TypeOK
<1>1. Init => TypeOK
    BY DayAssumption, FaultsAssumption
    DEF Init, TypeOK, Status, Active, Terminal, WorkerPc, ClientPc
<1> QED
    BY <1>1, TypeInductive, PTL DEF Spec

-----------------------------------------------------------------------------
(* The lock *)

\* From the claim of SYNC_LOCK_KEY to the end of the run.
Holding == {"claimed", "start", "log"} \cup Writing

\* A worker in that part of its run owns the lock, and so does a request
\* that looks at, or is about to close, a row it found running.
WorkerOwnsLock == \A r \in Runs : worker[r] \in Holding => lock = r
ProbeOwnsLock  == \A c \in Clients : req[c] \in {"refresh", "mark"} => lock = c
LockInv == WorkerOwnsLock /\ ProbeOwnsLock

\* Only LoseLock takes the lock from a live owner.
LEMMA LockInductive ==
    ASSUME "lockloss" \notin FaultKinds, TypeOK, LockInv, [Next]_vars
    PROVE  LockInv'
<1> USE OwnersAssumption
<1> USE DEF TypeOK, LockInv, WorkerOwnsLock, ProbeOwnsLock, Holding, Writing, SetStatus, GoTo,
            At, ClientAt, WorkerAt, Unlocked, Fault, rows, calendar, clients, locals
<1>1. ASSUME NEW c \in Clients, Request(c)  PROVE LockInv'
    BY <1>1 DEF Clients, Request, Enter
<1>2. ASSUME NEW c \in Clients, SelectOrphan(c)  PROVE LockInv'
    BY <1>2 DEF Clients, SelectOrphan, NextPass
<1>3. ASSUME NEW c \in Clients, SelectStale(c)  PROVE LockInv'
    BY <1>3 DEF Clients, SelectStale, NextPass
<1>4. ASSUME NEW c \in Clients, MarkAged(c)  PROVE LockInv'
    BY <1>4 DEF Clients, MarkAged, NextPass
<1>5. ASSUME NEW c \in Clients, TryProbe(c)  PROVE LockInv'
    BY <1>5 DEF Clients, TryProbe, NextPass
<1>6. ASSUME NEW c \in Clients, Refresh(c)  PROVE LockInv'
    BY <1>6 DEF Clients, Refresh
<1>7. ASSUME NEW c \in Clients, MarkOrphan(c)  PROVE LockInv'
    BY <1>7 DEF Clients, MarkOrphan
<1>8. ASSUME NEW c \in Clients, UnlockProbe(c)  PROVE LockInv'
    BY <1>8 DEF Clients, UnlockProbe, NextPass
<1>9. ASSUME NEW c \in Clients, Answer(c)  PROVE LockInv'
    BY <1>9 DEF Clients, Answer, Enter, Leave
<1>10. ASSUME NEW c \in Clients, Insert(c)  PROVE LockInv'
    BY <1>10 DEF Clients, Insert
<1>11. ASSUME NEW c \in Clients, InsertRefused(c)  PROVE LockInv'
    BY <1>11 DEF Clients, InsertRefused, Leave
<1>12. ASSUME NEW c \in Clients, Spawn(c)  PROVE LockInv'
    BY <1>12 DEF Clients, Spawn, Leave
<1>13. ASSUME NEW c \in Clients, RequestFails(c)  PROVE LockInv'
    BY <1>13 DEF Clients, RequestFails, Leave
<1>14. ASSUME NEW r \in Runs, AcquireLock(r)  PROVE LockInv'
    BY <1>14 DEF Clients, AcquireLock
<1>15. ASSUME NEW r \in Runs, BusyCheck(r)  PROVE LockInv'
    BY <1>15 DEF Clients, BusyCheck
<1>16. ASSUME NEW r \in Runs, RetryLock(r)  PROVE LockInv'
    BY <1>16 DEF Clients, RetryLock
<1>17. ASSUME NEW r \in Runs, GiveUp(r)  PROVE LockInv'
    BY <1>17 DEF Clients, GiveUp
<1>18. ASSUME NEW r \in Runs, MarkFired(r)  PROVE LockInv'
    BY <1>18 DEF Clients, MarkFired
<1>19. ASSUME NEW r \in Runs, Start(r)  PROVE LockInv'
    BY <1>19 DEF Clients, Start
<1>20. ASSUME NEW r \in Runs, Check(r)  PROVE LockInv'
    BY <1>20 DEF Clients, Check
<1>21. ASSUME NEW r \in Runs, Write(r)  PROVE LockInv'
    BY <1>21 DEF Clients, Write
<1>22. ASSUME NEW r \in Runs, Finish(r)  PROVE LockInv'
    BY <1>22 DEF Clients, Finish
<1>23. ASSUME NEW r \in Runs, LogOutcome(r)  PROVE LockInv'
    BY <1>23 DEF Clients, LogOutcome
<1>24. ASSUME NEW r \in Runs, Crashed(r)  PROVE LockInv'
    BY <1>24 DEF Clients, Crashed
<1>25. ASSUME NEW r \in Runs, Aborting(r)  PROVE LockInv'
    BY <1>25 DEF Clients, Aborting
<1>26. ASSUME NEW r \in Runs, Release(r)  PROVE LockInv'
    BY <1>26 DEF Clients, Release
<1>27. ASSUME NEW r \in Runs, WorkerDbError(r)  PROVE LockInv'
    BY <1>27 DEF Clients, WorkerDbError
<1>28. ASSUME NEW r \in Runs, LoseLock(r)  PROVE LockInv'
    BY <1>28 DEF Clients, LoseLock
<1>29. ASSUME NEW r \in Runs, Age(r)  PROVE LockInv'
    BY <1>29 DEF Clients, Age, Unstarted
<1>30. CASE Tick
    BY <1>30 DEF Clients, Tick, Enter
<1>31. CASE Midnight
    BY <1>31 DEF Clients, Midnight
<1>32. CASE Crash
    BY <1>32 DEF Clients, Crash
<1>33. CASE GhostGone
    BY <1>33 DEF Clients, GhostGone
<1>34. CASE Boot
    BY <1>34 DEF Clients, Boot
<1>35. CASE UNCHANGED vars
    BY <1>35 DEF Clients, vars
<1>36. ASSUME NEW r \in Runs, Linger(r)  PROVE LockInv'
    BY <1>36 DEF Clients, Linger, Unstarted
<1> HIDE DEF TypeOK, LockInv, ClientAt, WorkerAt, At, GoTo, SetStatus, Fault
<1> QED
    BY <1>1, <1>2, <1>3, <1>4, <1>5, <1>6, <1>7, <1>8, <1>9, <1>10,
       <1>11, <1>12, <1>13, <1>14, <1>15, <1>16, <1>17, <1>18,
       <1>19, <1>20, <1>21, <1>22, <1>23, <1>24, <1>25, <1>26,
       <1>27, <1>28, <1>29, <1>30, <1>31, <1>32, <1>33, <1>34,
       <1>35, <1>36
    DEF Next, ClientStep, WorkerStep

\* The staging tables have one writer at a time, as staging.py assumes, if
\* the server never drops the session of a live lock_conn.
THEOREM OneWriterHolds ==
    ASSUME "lockloss" \notin FaultKinds
    PROVE  Spec => []OneWriter
<1>1. Init => TypeOK /\ LockInv
    BY DayAssumption, FaultsAssumption
    DEF Init, TypeOK, Status, Active, Terminal, WorkerPc, ClientPc, LockInv,
        WorkerOwnsLock, ProbeOwnsLock, Holding, Writing
<1>2. TypeOK /\ LockInv /\ [Next]_vars => (TypeOK /\ LockInv)'
    BY TypeInductive, LockInductive
<1>3. LockInv => OneWriter
    BY DEF LockInv, WorkerOwnsLock, OneWriter, Holding
<1> QED
    BY <1>1, <1>2, <1>3, PTL DEF Spec

-----------------------------------------------------------------------------
(* The rows *)

\* From the spawn of the thread to Start.
Starting == {"acquire", "busy", "retry", "refused", "stuck", "claimed", "start"}

\* The row of a worker is pending before Start and running after it, and a
\* row that grew old while pending has no worker.
WorkerRow ==
    \A r \in Runs :
        /\ worker[r] \in Starting => status[r] = "pending"
        /\ worker[r] \in Writing => status[r] = "running"
        /\ r \in aged => worker[r] \in {"none", "done"}
        /\ status[r] = "none" => worker[r] = "none" /\ r \notin aged

\* The row a request works on: just inserted, found orphaned under the lock,
\* or found too old.
RequestRow ==
    \A c \in Clients :
        /\ req[c] = "spawn" => /\ seen[c] \in Runs \ aged
                               /\ status[seen[c]] = "pending"
                               /\ worker[seen[c]] = "none"
        /\ req[c] \in {"try", "refresh", "mark"} => seen[c] \in Runs
        /\ req[c] = "mark" => status[seen[c]] \in {"running", "failed"}
        /\ req[c] = "markAged" => /\ old[c] \in aged
                                  /\ status[old[c]] \in {"pending", "failed"}

\* No two requests spawn the same run.
SpawnOnce ==
    \A c, d \in Clients : req[c] = "spawn" /\ req[d] = "spawn" /\ seen[c] = seen[d] => c = d

\* Nothing runs in a process that is down.
DownIsQuiet ==
    ~up => /\ \A c \in Clients : req[c] = "idle"
           /\ \A r \in Runs : worker[r] \in {"none", "done"}

RowInv == WorkerRow /\ RequestRow /\ SpawnOnce /\ DownIsQuiet

LEMMA RowInductive ==
    ASSUME "lockloss" \notin FaultKinds, "slow" \notin FaultKinds, TypeOK, LockInv, RowInv, [Next]_vars
    PROVE  RowInv'
<1> USE OwnersAssumption, RunsAssumption
<1> USE DEF TypeOK, LockInv, WorkerOwnsLock, ProbeOwnsLock, Holding, Writing, RowInv,
            WorkerRow, RequestRow, SpawnOnce, DownIsQuiet, Starting, Status, Active,
            Terminal, SetStatus, GoTo,
            At, ClientAt, WorkerAt, Unlocked, Fault, rows, calendar, clients, locals
<1>1. ASSUME NEW c \in Clients, Request(c)  PROVE RowInv'
    BY <1>1 DEF Clients, Request, Enter
<1>2. ASSUME NEW c \in Clients, SelectOrphan(c)  PROVE RowInv'
    BY <1>2 DEF Clients, SelectOrphan, NextPass
<1>3. ASSUME NEW c \in Clients, SelectStale(c)  PROVE RowInv'
    BY <1>3 DEF Clients, SelectStale, NextPass
<1>4. ASSUME NEW c \in Clients, MarkAged(c)  PROVE RowInv'
    BY <1>4 DEF Clients, MarkAged, NextPass
<1>5. ASSUME NEW c \in Clients, TryProbe(c)  PROVE RowInv'
    BY <1>5 DEF Clients, TryProbe, NextPass
<1>6. ASSUME NEW c \in Clients, Refresh(c)  PROVE RowInv'
    BY <1>6 DEF Clients, Refresh
<1>7. ASSUME NEW c \in Clients, MarkOrphan(c)  PROVE RowInv'
    BY <1>7 DEF Clients, MarkOrphan
<1>8. ASSUME NEW c \in Clients, UnlockProbe(c)  PROVE RowInv'
    BY <1>8 DEF Clients, UnlockProbe, NextPass
<1>9. ASSUME NEW c \in Clients, Answer(c)  PROVE RowInv'
    BY <1>9 DEF Clients, Answer, Enter, Leave
<1>10. ASSUME NEW c \in Clients, Insert(c)  PROVE RowInv'
    BY <1>10 DEF Clients, Insert, OtherActive
<1>11. ASSUME NEW c \in Clients, InsertRefused(c)  PROVE RowInv'
    BY <1>11 DEF Clients, InsertRefused, Leave
<1>12. ASSUME NEW c \in Clients, Spawn(c)  PROVE RowInv'
    BY <1>12 DEF Clients, Spawn, Leave
<1>13. ASSUME NEW c \in Clients, RequestFails(c)  PROVE RowInv'
    BY <1>13 DEF Clients, RequestFails, Leave
<1>14. ASSUME NEW r \in Runs, AcquireLock(r)  PROVE RowInv'
    BY <1>14 DEF Clients, AcquireLock
<1>15. ASSUME NEW r \in Runs, BusyCheck(r)  PROVE RowInv'
    BY <1>15 DEF Clients, BusyCheck
<1>16. ASSUME NEW r \in Runs, RetryLock(r)  PROVE RowInv'
    BY <1>16 DEF Clients, RetryLock
<1>17. ASSUME NEW r \in Runs, GiveUp(r)  PROVE RowInv'
    BY <1>17 DEF Clients, GiveUp
<1>18. ASSUME NEW r \in Runs, MarkFired(r)  PROVE RowInv'
    BY <1>18 DEF Clients, MarkFired
<1>19. ASSUME NEW r \in Runs, Start(r)  PROVE RowInv'
    BY <1>19 DEF Clients, Start, OtherActive
<1>20. ASSUME NEW r \in Runs, Check(r)  PROVE RowInv'
    BY <1>20 DEF Clients, Check
<1>21. ASSUME NEW r \in Runs, Write(r)  PROVE RowInv'
    BY <1>21 DEF Clients, Write
<1>22. ASSUME NEW r \in Runs, Finish(r)  PROVE RowInv'
    BY <1>22 DEF Clients, Finish
<1>23. ASSUME NEW r \in Runs, LogOutcome(r)  PROVE RowInv'
    BY <1>23 DEF Clients, LogOutcome
<1>24. ASSUME NEW r \in Runs, Crashed(r)  PROVE RowInv'
    BY <1>24 DEF Clients, Crashed
<1>25. ASSUME NEW r \in Runs, Aborting(r)  PROVE RowInv'
    BY <1>25 DEF Clients, Aborting
<1>26. ASSUME NEW r \in Runs, Release(r)  PROVE RowInv'
    BY <1>26 DEF Clients, Release
<1>27. ASSUME NEW r \in Runs, WorkerDbError(r)  PROVE RowInv'
    BY <1>27 DEF Clients, WorkerDbError
<1>28. ASSUME NEW r \in Runs, LoseLock(r)  PROVE RowInv'
    BY <1>28 DEF Clients, LoseLock
<1>29. ASSUME NEW r \in Runs, Age(r)  PROVE RowInv'
    BY <1>29 DEF Clients, Age, Unstarted
<1>30. CASE Tick
    BY <1>30 DEF Clients, Tick, Enter
<1>31. CASE Midnight
    BY <1>31 DEF Clients, Midnight
<1>32. CASE Crash
    BY <1>32 DEF Clients, Crash
<1>33. CASE GhostGone
    BY <1>33 DEF Clients, GhostGone
<1>34. CASE Boot
    BY <1>34 DEF Clients, Boot
<1>35. CASE UNCHANGED vars
    BY <1>35 DEF Clients, vars
<1>36. ASSUME NEW r \in Runs, Linger(r)  PROVE RowInv'
    BY <1>36 DEF Clients, Linger, Unstarted
<1> HIDE DEF TypeOK, LockInv, RowInv, ClientAt, WorkerAt, At, GoTo, SetStatus, Fault
<1> QED
    BY <1>1, <1>2, <1>3, <1>4, <1>5, <1>6, <1>7, <1>8, <1>9, <1>10,
       <1>11, <1>12, <1>13, <1>14, <1>15, <1>16, <1>17, <1>18,
       <1>19, <1>20, <1>21, <1>22, <1>23, <1>24, <1>25, <1>26,
       <1>27, <1>28, <1>29, <1>30, <1>31, <1>32, <1>33, <1>34,
       <1>35, <1>36
    DEF Next, ClientStep, WorkerStep

\* The inductive invariant holds in every initial state.
LEMMA InvInit == Init => TypeOK /\ LockInv /\ RowInv
<1> USE DayAssumption, FaultsAssumption DEF Init
<1>1. Init => TypeOK
    BY DEF TypeOK, Status, Active, Terminal, WorkerPc, ClientPc
<1>2. Init => LockInv
    BY DEF LockInv, WorkerOwnsLock, ProbeOwnsLock, Holding, Writing
<1>3. Init => RowInv
    BY DEF RowInv, WorkerRow, RequestRow, SpawnOnce, DownIsQuiet, Starting, Writing
<1> QED
    BY <1>1, <1>2, <1>3

\* Reclaim, the marking of stale rows and the boot close the row of no run
\* whose worker is still writing, if workers start within the 30 minutes a
\* row may stay pending and keep their lock connection.
THEOREM NoLiveRunClosedHolds ==
    ASSUME "lockloss" \notin FaultKinds, "slow" \notin FaultKinds
    PROVE  Spec => []NoLiveRunClosed
<1>1. TypeOK /\ LockInv /\ RowInv /\ [Next]_vars => (TypeOK /\ LockInv /\ RowInv)'
    BY TypeInductive, LockInductive, RowInductive
<1>2. RowInv => NoLiveRunClosed
    BY DEF RowInv, WorkerRow, NoLiveRunClosed
<1> QED
    BY InvInit, <1>1, <1>2, PTL DEF Spec

-----------------------------------------------------------------------------
(* Outcomes *)

\* Without database errors a worker reaches the generic handler only from
\* inside its run: it still owns the lock, and its row is still open.
CrashedRow ==
    \A r \in Runs : worker[r] = "crashed" => lock = r /\ status[r] \in Active

\* The unique index uq_sync_runs_one_active.
OneActive ==
    \A r, q \in Runs : status[r] \in Active /\ status[q] \in Active => r = q

OutcomeInv == CrashedRow /\ OneActive

LEMMA OutcomeInductive ==
    ASSUME "lockloss" \notin FaultKinds, "db" \notin FaultKinds, "slow" \notin FaultKinds,
           TypeOK, LockInv, RowInv, OutcomeInv, [Next]_vars
    PROVE  OutcomeInv'
<1> USE OwnersAssumption, RunsAssumption
<1> USE DEF TypeOK, LockInv, WorkerOwnsLock, ProbeOwnsLock, Holding, Writing, RowInv,
            WorkerRow, RequestRow, DownIsQuiet, OutcomeInv, CrashedRow, OneActive,
            Starting, Status, Active, Terminal, SetStatus, GoTo,
            At, ClientAt, WorkerAt, Unlocked, Fault, rows, calendar, clients, locals
<1>1. ASSUME NEW c \in Clients, Request(c)  PROVE OutcomeInv'
    BY <1>1 DEF Clients, Request, Enter
<1>2. ASSUME NEW c \in Clients, SelectOrphan(c)  PROVE OutcomeInv'
    BY <1>2 DEF Clients, SelectOrphan, NextPass
<1>3. ASSUME NEW c \in Clients, SelectStale(c)  PROVE OutcomeInv'
    BY <1>3 DEF Clients, SelectStale, NextPass
<1>4. ASSUME NEW c \in Clients, MarkAged(c)  PROVE OutcomeInv'
    BY <1>4 DEF Clients, MarkAged, NextPass
<1>5. ASSUME NEW c \in Clients, TryProbe(c)  PROVE OutcomeInv'
    BY <1>5 DEF Clients, TryProbe, NextPass
<1>6. ASSUME NEW c \in Clients, Refresh(c)  PROVE OutcomeInv'
    BY <1>6 DEF Clients, Refresh
<1>7. ASSUME NEW c \in Clients, MarkOrphan(c)  PROVE OutcomeInv'
    BY <1>7 DEF Clients, MarkOrphan
<1>8. ASSUME NEW c \in Clients, UnlockProbe(c)  PROVE OutcomeInv'
    BY <1>8 DEF Clients, UnlockProbe, NextPass
<1>9. ASSUME NEW c \in Clients, Answer(c)  PROVE OutcomeInv'
    BY <1>9 DEF Clients, Answer, Enter, Leave
<1>10. ASSUME NEW c \in Clients, Insert(c)  PROVE OutcomeInv'
    BY <1>10 DEF Clients, Insert, OtherActive
<1>11. ASSUME NEW c \in Clients, InsertRefused(c)  PROVE OutcomeInv'
    BY <1>11 DEF Clients, InsertRefused, Leave
<1>12. ASSUME NEW c \in Clients, Spawn(c)  PROVE OutcomeInv'
    BY <1>12 DEF Clients, Spawn, Leave
<1>13. ASSUME NEW c \in Clients, RequestFails(c)  PROVE OutcomeInv'
    BY <1>13 DEF Clients, RequestFails, Leave
<1>14. ASSUME NEW r \in Runs, AcquireLock(r)  PROVE OutcomeInv'
    BY <1>14 DEF Clients, AcquireLock
<1>15. ASSUME NEW r \in Runs, BusyCheck(r)  PROVE OutcomeInv'
    BY <1>15 DEF Clients, BusyCheck
<1>16. ASSUME NEW r \in Runs, RetryLock(r)  PROVE OutcomeInv'
    BY <1>16 DEF Clients, RetryLock
<1>17. ASSUME NEW r \in Runs, GiveUp(r)  PROVE OutcomeInv'
    BY <1>17 DEF Clients, GiveUp
<1>18. ASSUME NEW r \in Runs, MarkFired(r)  PROVE OutcomeInv'
    BY <1>18 DEF Clients, MarkFired
<1>19. ASSUME NEW r \in Runs, Start(r)  PROVE OutcomeInv'
    BY <1>19 DEF Clients, Start, OtherActive
<1>20. ASSUME NEW r \in Runs, Check(r)  PROVE OutcomeInv'
    BY <1>20 DEF Clients, Check
<1>21. ASSUME NEW r \in Runs, Write(r)  PROVE OutcomeInv'
    BY <1>21 DEF Clients, Write
<1>22. ASSUME NEW r \in Runs, Finish(r)  PROVE OutcomeInv'
    BY <1>22 DEF Clients, Finish
<1>23. ASSUME NEW r \in Runs, LogOutcome(r)  PROVE OutcomeInv'
    BY <1>23 DEF Clients, LogOutcome
<1>24. ASSUME NEW r \in Runs, Crashed(r)  PROVE OutcomeInv'
    BY <1>24 DEF Clients, Crashed
<1>25. ASSUME NEW r \in Runs, Aborting(r)  PROVE OutcomeInv'
    BY <1>25 DEF Clients, Aborting
<1>26. ASSUME NEW r \in Runs, Release(r)  PROVE OutcomeInv'
    BY <1>26 DEF Clients, Release
<1>27. ASSUME NEW r \in Runs, WorkerDbError(r)  PROVE OutcomeInv'
    BY <1>27 DEF Clients, WorkerDbError
<1>28. ASSUME NEW r \in Runs, LoseLock(r)  PROVE OutcomeInv'
    BY <1>28 DEF Clients, LoseLock
<1>29. ASSUME NEW r \in Runs, Age(r)  PROVE OutcomeInv'
    BY <1>29 DEF Clients, Age, Unstarted
<1>30. CASE Tick
    BY <1>30 DEF Clients, Tick, Enter
<1>31. CASE Midnight
    BY <1>31 DEF Clients, Midnight
<1>32. CASE Crash
    BY <1>32 DEF Clients, Crash
<1>33. CASE GhostGone
    BY <1>33 DEF Clients, GhostGone
<1>34. CASE Boot
    BY <1>34 DEF Clients, Boot
<1>35. CASE UNCHANGED vars
    BY <1>35 DEF Clients, vars
<1>36. ASSUME NEW r \in Runs, Linger(r)  PROVE OutcomeInv'
    BY <1>36 DEF Clients, Linger, Unstarted
<1> HIDE DEF TypeOK, LockInv, RowInv, OutcomeInv, ClientAt, WorkerAt, At, GoTo, SetStatus, Fault
<1> QED
    BY <1>1, <1>2, <1>3, <1>4, <1>5, <1>6, <1>7, <1>8, <1>9, <1>10,
       <1>11, <1>12, <1>13, <1>14, <1>15, <1>16, <1>17, <1>18,
       <1>19, <1>20, <1>21, <1>22, <1>23, <1>24, <1>25, <1>26,
       <1>27, <1>28, <1>29, <1>30, <1>31, <1>32, <1>33, <1>34,
       <1>35, <1>36
    DEF Next, ClientStep, WorkerStep

\* One step rewrites no outcome.
KeepsOutcomes == \A r \in Runs : status[r] \in Terminal => status'[r] = status[r]

LEMMA StepKeepsOutcomes ==
    ASSUME "lockloss" \notin FaultKinds, "db" \notin FaultKinds, "slow" \notin FaultKinds,
           TypeOK, LockInv, RowInv, OutcomeInv, [Next]_vars
    PROVE  KeepsOutcomes
<1> USE OwnersAssumption, RunsAssumption
<1> USE DEF TypeOK, LockInv, WorkerOwnsLock, ProbeOwnsLock, Holding, Writing, RowInv,
            WorkerRow, RequestRow, DownIsQuiet, OutcomeInv, CrashedRow, OneActive,
            Starting, Status, Active, Terminal, KeepsOutcomes,
            SetStatus, GoTo,
            At, ClientAt, WorkerAt, Unlocked, Fault, rows, calendar, clients, locals
<1>1. ASSUME NEW c \in Clients, Request(c)  PROVE KeepsOutcomes
    BY <1>1 DEF Clients, Request, Enter
<1>2. ASSUME NEW c \in Clients, SelectOrphan(c)  PROVE KeepsOutcomes
    BY <1>2 DEF Clients, SelectOrphan, NextPass
<1>3. ASSUME NEW c \in Clients, SelectStale(c)  PROVE KeepsOutcomes
    BY <1>3 DEF Clients, SelectStale, NextPass
<1>4. ASSUME NEW c \in Clients, MarkAged(c)  PROVE KeepsOutcomes
    BY <1>4 DEF Clients, MarkAged, NextPass
<1>5. ASSUME NEW c \in Clients, TryProbe(c)  PROVE KeepsOutcomes
    BY <1>5 DEF Clients, TryProbe, NextPass
<1>6. ASSUME NEW c \in Clients, Refresh(c)  PROVE KeepsOutcomes
    BY <1>6 DEF Clients, Refresh
<1>7. ASSUME NEW c \in Clients, MarkOrphan(c)  PROVE KeepsOutcomes
    BY <1>7 DEF Clients, MarkOrphan
<1>8. ASSUME NEW c \in Clients, UnlockProbe(c)  PROVE KeepsOutcomes
    BY <1>8 DEF Clients, UnlockProbe, NextPass
<1>9. ASSUME NEW c \in Clients, Answer(c)  PROVE KeepsOutcomes
    BY <1>9 DEF Clients, Answer, Enter, Leave
<1>10. ASSUME NEW c \in Clients, Insert(c)  PROVE KeepsOutcomes
    BY <1>10 DEF Clients, Insert, OtherActive
<1>11. ASSUME NEW c \in Clients, InsertRefused(c)  PROVE KeepsOutcomes
    BY <1>11 DEF Clients, InsertRefused, Leave
<1>12. ASSUME NEW c \in Clients, Spawn(c)  PROVE KeepsOutcomes
    BY <1>12 DEF Clients, Spawn, Leave
<1>13. ASSUME NEW c \in Clients, RequestFails(c)  PROVE KeepsOutcomes
    BY <1>13 DEF Clients, RequestFails, Leave
<1>14. ASSUME NEW r \in Runs, AcquireLock(r)  PROVE KeepsOutcomes
    BY <1>14 DEF Clients, AcquireLock
<1>15. ASSUME NEW r \in Runs, BusyCheck(r)  PROVE KeepsOutcomes
    BY <1>15 DEF Clients, BusyCheck
<1>16. ASSUME NEW r \in Runs, RetryLock(r)  PROVE KeepsOutcomes
    BY <1>16 DEF Clients, RetryLock
<1>17. ASSUME NEW r \in Runs, GiveUp(r)  PROVE KeepsOutcomes
    BY <1>17 DEF Clients, GiveUp
<1>18. ASSUME NEW r \in Runs, MarkFired(r)  PROVE KeepsOutcomes
    BY <1>18 DEF Clients, MarkFired
<1>19. ASSUME NEW r \in Runs, Start(r)  PROVE KeepsOutcomes
    BY <1>19 DEF Clients, Start, OtherActive
<1>20. ASSUME NEW r \in Runs, Check(r)  PROVE KeepsOutcomes
    BY <1>20 DEF Clients, Check
<1>21. ASSUME NEW r \in Runs, Write(r)  PROVE KeepsOutcomes
    BY <1>21 DEF Clients, Write
<1>22. ASSUME NEW r \in Runs, Finish(r)  PROVE KeepsOutcomes
    BY <1>22 DEF Clients, Finish
<1>23. ASSUME NEW r \in Runs, LogOutcome(r)  PROVE KeepsOutcomes
    BY <1>23 DEF Clients, LogOutcome
<1>24. ASSUME NEW r \in Runs, Crashed(r)  PROVE KeepsOutcomes
    BY <1>24 DEF Clients, Crashed
<1>25. ASSUME NEW r \in Runs, Aborting(r)  PROVE KeepsOutcomes
    BY <1>25 DEF Clients, Aborting
<1>26. ASSUME NEW r \in Runs, Release(r)  PROVE KeepsOutcomes
    BY <1>26 DEF Clients, Release
<1>27. ASSUME NEW r \in Runs, WorkerDbError(r)  PROVE KeepsOutcomes
    BY <1>27 DEF Clients, WorkerDbError
<1>28. ASSUME NEW r \in Runs, LoseLock(r)  PROVE KeepsOutcomes
    BY <1>28 DEF Clients, LoseLock
<1>29. ASSUME NEW r \in Runs, Age(r)  PROVE KeepsOutcomes
    BY <1>29 DEF Clients, Age, Unstarted
<1>30. CASE Tick
    BY <1>30 DEF Clients, Tick, Enter
<1>31. CASE Midnight
    BY <1>31 DEF Clients, Midnight
<1>32. CASE Crash
    BY <1>32 DEF Clients, Crash
<1>33. CASE GhostGone
    BY <1>33 DEF Clients, GhostGone
<1>34. CASE Boot
    BY <1>34 DEF Clients, Boot
<1>35. CASE UNCHANGED vars
    BY <1>35 DEF Clients, vars
<1>36. ASSUME NEW r \in Runs, Linger(r)  PROVE KeepsOutcomes
    BY <1>36 DEF Clients, Linger, Unstarted
<1> HIDE DEF TypeOK, LockInv, RowInv, OutcomeInv, KeepsOutcomes, ClientAt, WorkerAt, At, GoTo, SetStatus, Fault
<1> QED
    BY <1>1, <1>2, <1>3, <1>4, <1>5, <1>6, <1>7, <1>8, <1>9, <1>10,
       <1>11, <1>12, <1>13, <1>14, <1>15, <1>16, <1>17, <1>18,
       <1>19, <1>20, <1>21, <1>22, <1>23, <1>24, <1>25, <1>26,
       <1>27, <1>28, <1>29, <1>30, <1>31, <1>32, <1>33, <1>34,
       <1>35, <1>36
    DEF Next, ClientStep, WorkerStep

\* A closed run stays as it was closed: neither a reclaim nor its own worker
\* rewrites the outcome, if the database answers the worker.
THEOREM OutcomeIsFinalHolds ==
    ASSUME "lockloss" \notin FaultKinds, "db" \notin FaultKinds, "slow" \notin FaultKinds
    PROVE  Spec => OutcomeIsFinal
<1>1. Init => OutcomeInv
    BY DEF Init, OutcomeInv, CrashedRow, OneActive, Active
<1>2. TypeOK /\ LockInv /\ RowInv /\ OutcomeInv /\ [Next]_vars
        => (TypeOK /\ LockInv /\ RowInv /\ OutcomeInv)'
    BY TypeInductive, LockInductive, RowInductive, OutcomeInductive
<1>3. TypeOK /\ LockInv /\ RowInv /\ OutcomeInv /\ [Next]_vars
        => [\A r \in Runs : status[r] \in Terminal => status'[r] = status[r]]_vars
    BY StepKeepsOutcomes DEF KeepsOutcomes
<1> QED
    BY InvInit, <1>1, <1>2, <1>3, PTL DEF Spec, OutcomeIsFinal

-----------------------------------------------------------------------------
(* The board *)

Writers == {r \in Runs : worker[r] \in Writing}
BoardStep == [Board!BNext]_(Board!bvars)

\* Every step of the engine is a step of the board or leaves it alone.
LEMMA StepImplementsBoard ==
    ASSUME "lockloss" \notin FaultKinds, "db" \notin FaultKinds, "slow" \notin FaultKinds,
           TypeOK, LockInv, RowInv, OutcomeInv, [Next]_vars
    PROVE  BoardStep
<1> USE OwnersAssumption, RunsAssumption
<1> USE DEF TypeOK, LockInv, WorkerOwnsLock, ProbeOwnsLock, Holding, Writing, RowInv,
            WorkerRow, RequestRow, DownIsQuiet, OutcomeInv, CrashedRow, OneActive,
            Starting, Status, Active, Terminal, Writers, BoardStep, Board!BNext,
            Board!bvars, Board!Open, Board!Closed,
            SetStatus, GoTo,
            At, ClientAt, WorkerAt, Unlocked, Fault, rows, calendar, clients, locals
<1>1. ASSUME NEW c \in Clients, Request(c)  PROVE BoardStep
    BY <1>1 DEF Clients, Request, Enter
<1>2. ASSUME NEW c \in Clients, SelectOrphan(c)  PROVE BoardStep
    BY <1>2 DEF Clients, SelectOrphan, NextPass
<1>3. ASSUME NEW c \in Clients, SelectStale(c)  PROVE BoardStep
    BY <1>3 DEF Clients, SelectStale, NextPass
<1>4. ASSUME NEW c \in Clients, MarkAged(c)  PROVE BoardStep
    <2>1. /\ old[c] \in Runs /\ old[c] \in aged
          /\ status[old[c]] \in {"pending", "failed"}
          /\ status' = [status EXCEPT ![old[c]] = "failed"]
          /\ worker' = worker
        BY <1>4 DEF Clients, MarkAged
    <2>2. CASE status[old[c]] = "pending"
        <3>1. Board!CloseOut(old[c])
            BY <2>1, <2>2 DEF Board!CloseOut
        <3> QED
            BY <2>1, <3>1
    <2>3. CASE status[old[c]] = "failed"
        BY <2>1, <2>3
    <2> QED
        BY <2>1, <2>2, <2>3
<1>5. ASSUME NEW c \in Clients, TryProbe(c)  PROVE BoardStep
    BY <1>5 DEF Clients, TryProbe, NextPass
<1>6. ASSUME NEW c \in Clients, Refresh(c)  PROVE BoardStep
    BY <1>6 DEF Clients, Refresh
<1>7. ASSUME NEW c \in Clients, MarkOrphan(c)  PROVE BoardStep
    <2>1. /\ seen[c] \in Runs
          /\ worker[seen[c]] \notin Writing
          /\ status[seen[c]] \in {"running", "failed"}
          /\ status' = [status EXCEPT ![seen[c]] = "failed"]
          /\ worker' = worker
        BY <1>7 DEF Clients, MarkOrphan
    <2>2. CASE status[seen[c]] = "running"
        <3>1. Board!CloseOut(seen[c])
            BY <2>1, <2>2 DEF Board!CloseOut
        <3> QED
            BY <2>1, <3>1
    <2>3. CASE status[seen[c]] = "failed"
        BY <2>1, <2>3
    <2> QED
        BY <2>1, <2>2, <2>3
<1>8. ASSUME NEW c \in Clients, UnlockProbe(c)  PROVE BoardStep
    BY <1>8 DEF Clients, UnlockProbe, NextPass
<1>9. ASSUME NEW c \in Clients, Answer(c)  PROVE BoardStep
    BY <1>9 DEF Clients, Answer, Enter, Leave
<1>10. ASSUME NEW c \in Clients, Insert(c)  PROVE BoardStep
    <2>1. PICK r \in Runs : /\ status[r] = "none"
                            /\ OtherActive(r) = {}
                            /\ status' = [status EXCEPT ![r] = "pending"]
        BY <1>10 DEF Insert
    <2>2. worker' = worker
        BY <1>10 DEF Insert
    <2>3. \A q \in Runs : status[q] \notin {"pending", "running"}
        BY <2>1 DEF OtherActive
    <2>4. Board!Accept(r)
        BY <2>1, <2>2, <2>3 DEF Board!Accept
    <2> QED
        BY <2>4
<1>11. ASSUME NEW c \in Clients, InsertRefused(c)  PROVE BoardStep
    BY <1>11 DEF Clients, InsertRefused, Leave
<1>12. ASSUME NEW c \in Clients, Spawn(c)  PROVE BoardStep
    BY <1>12 DEF Clients, Spawn, Leave
<1>13. ASSUME NEW c \in Clients, RequestFails(c)  PROVE BoardStep
    BY <1>13 DEF Clients, RequestFails, Leave
<1>14. ASSUME NEW r \in Runs, AcquireLock(r)  PROVE BoardStep
    BY <1>14 DEF Clients, AcquireLock
<1>15. ASSUME NEW r \in Runs, BusyCheck(r)  PROVE BoardStep
    BY <1>15 DEF Clients, BusyCheck
<1>16. ASSUME NEW r \in Runs, RetryLock(r)  PROVE BoardStep
    BY <1>16 DEF Clients, RetryLock
<1>17. ASSUME NEW r \in Runs, GiveUp(r)  PROVE BoardStep
    BY <1>17 DEF Clients, GiveUp, Board!CloseOut
<1>18. ASSUME NEW r \in Runs, MarkFired(r)  PROVE BoardStep
    BY <1>18 DEF Clients, MarkFired, Board!CloseOut
<1>19. ASSUME NEW r \in Runs, Start(r)  PROVE BoardStep
    BY <1>19 DEF Clients, Start, OtherActive, Board!Begin
<1>20. ASSUME NEW r \in Runs, Check(r)  PROVE BoardStep
    BY <1>20 DEF Clients, Check
<1>21. ASSUME NEW r \in Runs, Write(r)  PROVE BoardStep
    BY <1>21 DEF Clients, Write, Board!Vanish
<1>22. ASSUME NEW r \in Runs, Finish(r)  PROVE BoardStep
    <2>1. PICK s \in {"success", "partial", "failed"} :
              status' = [status EXCEPT ![r] = s]
        BY <1>22 DEF Finish
    <2>2. worker[r] = "finish" /\ worker' = [worker EXCEPT ![r] = "log"]
        BY <1>22 DEF Finish
    <2>3. \A q \in Runs : worker[q] \in Writing => q = r
        BY <2>2
    <2>4. {q \in Runs : worker'[q] \in Writing} = {}
        BY <2>2, <2>3
    <2>5. Board!Complete(r)
        BY <2>1, <2>2, <2>4 DEF Board!Complete
    <2> QED
        BY <2>5
<1>23. ASSUME NEW r \in Runs, LogOutcome(r)  PROVE BoardStep
    BY <1>23 DEF Clients, LogOutcome
<1>24. ASSUME NEW r \in Runs, Crashed(r)  PROVE BoardStep
    BY <1>24 DEF Clients, Crashed, Board!CloseOut
<1>25. ASSUME NEW r \in Runs, Aborting(r)  PROVE BoardStep
    BY <1>25 DEF Clients, Aborting, Board!CloseOut
<1>26. ASSUME NEW r \in Runs, Release(r)  PROVE BoardStep
    BY <1>26 DEF Clients, Release
<1>27. ASSUME NEW r \in Runs, WorkerDbError(r)  PROVE BoardStep
    BY <1>27 DEF Clients, WorkerDbError
<1>28. ASSUME NEW r \in Runs, LoseLock(r)  PROVE BoardStep
    BY <1>28 DEF Clients, LoseLock
<1>29. ASSUME NEW r \in Runs, Age(r)  PROVE BoardStep
    BY <1>29 DEF Clients, Age, Unstarted
<1>30. CASE Tick
    BY <1>30 DEF Clients, Tick, Enter
<1>31. CASE Midnight
    BY <1>31 DEF Clients, Midnight
<1>32. CASE Crash
    BY <1>32 DEF Clients, Crash, Board!Vanish
<1>33. CASE GhostGone
    BY <1>33 DEF Clients, GhostGone
<1>34. CASE Boot
    <2>1. /\ status' = [r \in Runs |-> IF status[r] \in Active THEN "failed" ELSE status[r]]
          /\ worker' = worker
          /\ \A r \in Runs : worker[r] \notin Writing
        BY <1>34 DEF Boot
    <2>2. ASSUME NEW r \in Runs, status[r] \in Active  PROVE BoardStep
        <3>1. \A q \in Runs : q # r => status[q] \notin Active
            BY <2>2
        <3>2. status' = [status EXCEPT ![r] = "failed"]
            <4>1. \A q \in Runs : status'[q] = IF q = r THEN "failed" ELSE status[q]
                BY <2>1, <2>2, <3>1
            <4>2. DOMAIN status' = Runs /\ status' = [q \in Runs |-> status'[q]]
                BY <2>1
            <4> QED
                BY <4>1, <4>2
        <3>3. Board!CloseOut(r)
            <4>1. {q \in Runs : worker'[q] \in Writing} = {q \in Runs : worker[q] \in Writing}
                BY <2>1
            <4>2. r \notin {q \in Runs : worker[q] \in Writing}
                BY <2>1
            <4>3. status[r] \in {"pending", "running"}
                BY <2>2
            <4> QED
                BY <3>2, <4>1, <4>2, <4>3 DEF Board!CloseOut
        <3> QED
            BY <3>3
    <2>3. CASE \A r \in Runs : status[r] \notin Active
        <3>1. status' = status
            BY <2>1, <2>3
        <3> QED
            BY <2>1, <3>1
    <2> QED
        BY <2>2, <2>3
<1>35. CASE UNCHANGED vars
    BY <1>35 DEF Clients, vars
<1>36. ASSUME NEW r \in Runs, Linger(r)  PROVE BoardStep
    BY <1>36 DEF Clients, Linger, Unstarted
<1> HIDE DEF TypeOK, LockInv, RowInv, OutcomeInv, BoardStep, ClientAt, WorkerAt, At, GoTo, SetStatus, Fault
<1> QED
    BY <1>1, <1>2, <1>3, <1>4, <1>5, <1>6, <1>7, <1>8, <1>9, <1>10,
       <1>11, <1>12, <1>13, <1>14, <1>15, <1>16, <1>17, <1>18,
       <1>19, <1>20, <1>21, <1>22, <1>23, <1>24, <1>25, <1>26,
       <1>27, <1>28, <1>29, <1>30, <1>31, <1>32, <1>33, <1>34,
       <1>35, <1>36
    DEF Next, ClientStep, WorkerStep

\* The engine implements the board: one run at a time is accepted and
\* executed, and only its writer, or nobody's writer, closes it.
THEOREM BoardImplemented ==
    ASSUME "lockloss" \notin FaultKinds, "db" \notin FaultKinds, "slow" \notin FaultKinds
    PROVE  Spec => ImplementsBoard
<1>1. Init => Board!BInit
    BY DEF Init, Board!BInit, Writing
<1>2. Init => OutcomeInv
    BY DEF Init, OutcomeInv, CrashedRow, OneActive, Active
<1>3. TypeOK /\ LockInv /\ RowInv /\ OutcomeInv /\ [Next]_vars
        => (TypeOK /\ LockInv /\ RowInv /\ OutcomeInv)'
    BY TypeInductive, LockInductive, RowInductive, OutcomeInductive
<1>4. TypeOK /\ LockInv /\ RowInv /\ OutcomeInv /\ [Next]_vars
        => [Board!BNext]_(Board!bvars)
    BY StepImplementsBoard DEF BoardStep
<1> QED
    BY InvInit, <1>1, <1>2, <1>3, <1>4, PTL DEF Spec, ImplementsBoard, Board!BSpec

=============================================================================
