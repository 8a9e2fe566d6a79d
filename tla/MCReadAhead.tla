----------------------------- MODULE MCReadAhead -----------------------------
(* Small instances of ReadAhead for TLC. *)
EXTENDS ReadAhead

\* Two layers whose experts have the same numbers, and miss lists that are too
\* short to read ahead, that fit the window, and that exceed it.
TwoLayers == {1, 2}
MissLists == {<<3>>, <<2, 3>>, <<1, 2, 3, 4, 5, 6>>}

Unreliable == BOOLEAN
=============================================================================
