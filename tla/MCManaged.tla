----------------------------- MODULE MCManaged -----------------------------
(* Two processes, two native roots and one of the legacy runtime, found   *)
(* below and above the limits the processes are given.                     *)
EXTENDS ManagedRetention

MCSymmetry == Permutations(Processes)
MCNative == {"a", "b"}
MCLegacy == {"old"}
MCSizes == {1, 2}
MCLimits == {2, 4}

Leaf(sizes) == [l \in Leaves |-> IF l \in DOMAIN sizes THEN sizes[l] ELSE 0]
Found(named, sizes) ==
    [lock |-> Nobody, indexed |-> TRUE, suspect |-> FALSE, legacy |-> FALSE,
     named |-> named, attached |-> {}, companion |-> FALSE, leaf |-> Leaf(sizes)]
FoundLegacy(companion) ==
    [Found(<<0>>, [l \in 0 .. 1 |-> 1]) EXCEPT
        !.legacy = TRUE, !.companion = companion, !.attached = IF companion THEN {1} ELSE {}]

Empty == Found(<<>>, [l \in {0} |-> 0])
Used == Found(<<1, 0>>, [l \in 0 .. 1 |-> l + 1])
Unreadable == [Found(<<>>, [l \in {0} |-> 1]) EXCEPT !.indexed = FALSE]
Odd == [Found(<<0>>, [l \in {0} |-> 1]) EXCEPT !.suspect = TRUE]

Below(a, b, old) ==
    [r \in Roots |-> CASE r = "a" -> a [] r = "b" -> b [] r = "old" -> old]
MCFounds ==
    {Below(Empty, b, FoundLegacy(TRUE)) : b \in {Empty, Used, Unreadable}}
    \cup {Below(Empty, Used, FoundLegacy(FALSE)), Below(Used, Used, Odd)}
=============================================================================
