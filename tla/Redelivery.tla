------------------------------ MODULE Redelivery ------------------------------
(***************************************************************************)
(* What a consumer that acknowledges promises of every message it is given *)
(* (the contract of Handler in queue/consumer/consumer.go): the middleware *)
(* keeps the message until the handler has accepted it, or until it turned *)
(* out not to be an event at all.  How often, in which order and by which  *)
(* process a message is tried is left open.                                *)
(***************************************************************************)
CONSTANTS
  Messages,  \* what was published
  Junk       \* the messages whose payload is not an event

VARIABLES
  kept,      \* messages the middleware still has
  accepted   \* messages the handler has accepted at least once

Init ==
  /\ kept = Messages
  /\ accepted = {}

\* The handler returns nil for a message.  It may have done so before.
Accept ==
  \E m \in kept \ Junk :
    /\ accepted' = accepted \cup {m}
    /\ UNCHANGED kept

\* The middleware lets go of some messages.
Remove ==
  \E S \in SUBSET (kept \cap (accepted \cup Junk)) :
    /\ kept' = kept \ S
    /\ UNCHANGED accepted

Spec == Init /\ [][Accept \/ Remove]_<<kept, accepted>>

=============================================================================
