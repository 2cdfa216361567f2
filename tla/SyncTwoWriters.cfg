\* The server drops the session of lock_conn.
CONSTANTS
    Runs = {r1, r2}
    Browsers = {b1}
    Scheduler = sched
    NoRun = NoRun
    Free = Free
    Ghost = Ghost
    FaultKinds = {"lockloss"}
    MaxFaults = 1
    MaxDay = 1
    ScheduleOn = FALSE
SPECIFICATION Spec
INVARIANTS OneWriter
