SPECIFICATION Spec
CONSTANTS
  N = 2
  Junk <- MCNoJunk
  Prefetches <- MCOne
  DropsOnError <- MCNever
  MaxRejects = 1
  MaxFaults = 1
  Env <- MCRestart
INVARIANT SurvivesRestart
