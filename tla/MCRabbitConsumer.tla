--------------------------- MODULE MCRabbitConsumer ---------------------------
(* Instances of RabbitConsumer for TLC.                                      *)
EXTENDS RabbitConsumer

MCOneOrTwo == {1, 2}
MCOne == {1}
MCEither == BOOLEAN
MCNever == {FALSE}

MCJunk == {2}
MCNoJunk == {}

MCAny == EnvEvents
MCRestart == {"restart"}

=============================================================================
