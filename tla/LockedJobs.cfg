SPECIFICATION Spec
CONSTANTS
  c1 = c1
  c2 = c2
  w1 = w1
  w2 = w2
  w3 = w3
  Workers = {w1, w2, w3}
  Free = Free
  Ghost = Ghost
  MaxJobs = 2
  Environments <- Worlds
INVARIANT OneWriter
PROPERTIES EveryJobCloses LockComesFree
CHECK_DEADLOCK FALSE
