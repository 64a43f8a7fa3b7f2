------------------------------- MODULE MCListen -------------------------------
(* Listen with the environments its configurations check it in.            *)
EXTENDS Listen

\* Everything but a restart can go wrong.
MCAnyFault == EnvEvents

MCStop == {"signal"}

=============================================================================
