\* Failing requests and a restart; the lock connection survives.
CONSTANTS
    Runs = {r1, r2}
    Browsers = {b1}
    Scheduler = sched
    NoRun = NoRun
    Free = Free
    Ghost = Ghost
    FaultKinds = {"request", "crash"}
    MaxFaults = 1
    MaxDay = 2
    ScheduleOn = TRUE
SPECIFICATION Spec
SYMMETRY Symmetry
INVARIANTS OneWriter NoLiveRunClosed
PROPERTIES OutcomeIsFinal ImplementsBoard
