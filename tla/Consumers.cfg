SPECIFICATION FairSpec
CONSTANTS
  N = 3
  Junk <- MCJunk
  MaxRuns = 2
  MaxRejects = 1
  MaxCrashes = 1
  MaxBatch = 2
  MaxBreaks = 1
  Types <- MCTypes
  Env <- MCAny
INVARIANTS Released LostOnlySo OldestFirst
PROPERTIES RedeliverySpec EverythingSettles EndsWhenAsked
