---------------------------- MODULE MCDecodeEvents ----------------------------
(* Small instances of DecodeEvents for TLC. *)
EXTENDS DecodeEvents

Unreliable == BOOLEAN
=============================================================================
