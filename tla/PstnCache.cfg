SPECIFICATION Spec
CONSTANTS
  Inns = {"mts", "other"}
  Required = {"mts"}
  MaxRefreshes = 3
  MaxEdits = 2
  MaxFaults = 1
INVARIANT CountIsTrue
PROPERTIES ReadyStays StatusCloses
CHECK_DEADLOCK FALSE
