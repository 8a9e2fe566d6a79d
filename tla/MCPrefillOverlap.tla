--------------------------- MODULE MCPrefillOverlap ---------------------------
(* Small instances of PrefillOverlap for TLC. *)
EXTENDS PrefillOverlap

Unreliable == BOOLEAN
=============================================================================
