------------------------------- MODULE MCCredit -------------------------------
(* Small instances of AdaptiveCredit for TLC. *)
EXTENDS AdaptiveCredit, MCAdaptive
=============================================================================
