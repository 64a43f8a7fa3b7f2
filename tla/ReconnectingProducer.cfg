SPECIFICATION Spec
CONSTANTS
  s1 = s1
  s2 = s2
  Senders <- MCTwo
  MaxSends = 3
  MaxFaults = 3
  Env <- MCAny
SYMMETRY MCSymmetry
INVARIANTS OnlyTheCurrentIsOpen RestartCostsNothing NeverNil
