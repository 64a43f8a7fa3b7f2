------------------------------ MODULE MCConsumers ------------------------------
(* An instance of Consumers for TLC.                                          *)
EXTENDS Consumers

MCJunk == {3}
MCTypes == {"pulsar", "rocketmq", "redis"}
MCAny == EnvEvents

=============================================================================
