\* Two requests, one finished run, two commits to the catalogue, one fault.
SPECIFICATION Spec
CONSTANTS
  Jobs = {j1, j2}
  Rebuilds = {r1}
  KindOrder <- OneKind
  MaxConcurrent = 1
  MaxRows = 2
  MaxFaults = 1
  None = None
INVARIANTS FreshIsTrue Accounted NoJobForgotten
SYMMETRY Symmetry
CHECK_DEADLOCK FALSE
