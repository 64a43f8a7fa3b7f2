---------------------------- MODULE MCKafkaConsumer ---------------------------
(* Instances of KafkaConsumer for TLC.                                       *)
EXTENDS KafkaConsumer

CONSTANTS c1, c2

MCOne == {c1}
MCTwo == {c1, c2}

MCJunk == {2}
MCNoJunk == {}

MCAny == EnvEvents
MCNothing == {}

=============================================================================
