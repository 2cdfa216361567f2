SPECIFICATION PagerSpec
CONSTANTS
  PageLimit = 4
  Requested = 3
  MaxOffset = 40
  Sizes <- TheSizes
  MaxShort = 3
  MaxRefused = 2
INVARIANTS NoGap LastPageOnly
PROPERTY PagerEnds
CHECK_DEADLOCK FALSE
