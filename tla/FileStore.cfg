SPECIFICATION Spec
CONSTANTS
  g1 = g1
  g2 = g2
  g3 = g3
  k1 = k1
  k2 = k2
  v1 = v1
  v2 = v2
  None = None
  Part = Part
  Callers <- MCCallers
  Keys <- MCKeys
  Values <- MCValues
  MaxCalls = 1
  MaxCrashes = 2
  Env <- MCAny
SYMMETRY MCSymmetry
INVARIANTS TempsAreInUse
PROPERTIES StableUnderLock StoreSpec
