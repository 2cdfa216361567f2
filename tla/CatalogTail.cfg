SPECIFICATION TailSpec
CONSTANTS
  Rows <- TheRows
  Slices <- TheSlices
  Fresh <- TheFresh
  Seeds <- TheSeeds
  Registry <- TheRegistry
  RegionFiles <- TheRegions
  Masks <- TheMasks
  MaskFiles <- TheFiles
  BatchSize = 3
  MaxRounds = 2
  MaxRuns = 2
  MaxEdits = 1
  MaxFaults = 1
INVARIANTS SentinelConfirmed FirstRangeWins TailConsistent RequiredMasks
CHECK_DEADLOCK FALSE
