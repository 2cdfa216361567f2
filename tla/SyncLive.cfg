\* Liveness under any two faults, a worker that is slow to start among them: a row that was
\* failed for its age may be set to running again, and must close a second time.
CONSTANTS
    Runs = {r1, r2}
    Browsers = {b1}
    Scheduler = sched
    NoRun = NoRun
    Free = Free
    Ghost = Ghost
    FaultKinds = {"request", "db", "lockloss", "crash", "slow"}
    MaxFaults = 2
    MaxDay = 1
    ScheduleOn = FALSE
SPECIFICATION FairSpec
PROPERTIES EveryRunCloses LockComesFree
