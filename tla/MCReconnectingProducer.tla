------------------------ MODULE MCReconnectingProducer -------------------------
(* Instances of ReconnectingProducer for TLC.                                 *)
EXTENDS ReconnectingProducer, TLC

CONSTANTS s1, s2

MCTwo == {s1, s2}
MCSymmetry == Permutations(MCTwo)

MCAny == EnvEvents

=============================================================================
