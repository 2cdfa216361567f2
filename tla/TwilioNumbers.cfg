SPECIFICATION Spec
CONSTANTS
  Cells <- RowCells
  Stock <- RowStock
  Patterns = 2
  MaxJobs = 2
  MaxFaults = 1
  MaxCountries = 1
INVARIANT CheckpointCovered
PROPERTIES LoadedIsComplete DumpSurvives JobsEnd
CHECK_DEADLOCK FALSE
