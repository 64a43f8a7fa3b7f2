SPECIFICATION FairSpec
CONSTANTS
  N = 2
  Junk <- MCJunk
  Prefetches <- MCOneOrTwo
  DropsOnError <- MCEither
  MaxRejects = 1
  MaxFaults = 2
  Env <- MCAny
INVARIANT NothingStranded
PROPERTIES GoneInOrder RedeliverySpec EndsWhenAsked EverythingSettles
