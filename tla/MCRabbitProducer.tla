--------------------------- MODULE MCRabbitProducer ---------------------------
(* RabbitProducer with everything that can go wrong.                        *)
EXTENDS RabbitProducer

MCAll == EnvEvents

=============================================================================
