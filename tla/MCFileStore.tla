------------------------------ MODULE MCFileStore ------------------------------
(* An instance of FileStore for TLC.                                          *)
EXTENDS FileStore, TLC

CONSTANTS g1, g2, g3, k1, k2, v1, v2

MCCallers == {g1, g2, g3}
MCKeys == {k1, k2}
MCValues == {v1, v2}
MCSymmetry ==
  Permutations(MCCallers) \cup Permutations(MCKeys) \cup Permutations(MCValues)

MCAny == EnvEvents

=============================================================================
