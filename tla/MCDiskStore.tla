----------------------------- MODULE MCDiskStore -----------------------------
(* Small instances of DiskStore for TLC. *)
EXTENDS DiskStore

\* One conversation in three stages, or two stages and another conversation.
Growing == {<<1>>, <<1, 1>>, <<1, 1, 1>>}
Branching == {<<1>>, <<1, 1>>, <<2>>}

\* Room for the two longest stages; room for two short files or a long one; and
\* a restart with less.
Roomy == [mode |-> "Full", max_entries |-> 2, max_bytes |-> 5, max_file |-> 3]
Shared == [mode |-> "Prefix", max_entries |-> 2, max_bytes |-> 2, max_file |-> 2]
Tight == [mode |-> "Prefix", max_entries |-> 1, max_bytes |-> 2, max_file |-> 1]

\* A root of its own on a file system with a journal, whose payloads may rot; a
\* managed root where changes survive in any order and payloads may vanish; and
\* a managed root with two short conversations on a file system with a journal.
Explicit == [histories |-> Growing, limits |-> {Roomy}, managed |-> FALSE,
             ordered |-> TRUE, harms |-> {"corrupt"}]
Managed == [histories |-> Branching, limits |-> {Shared, Tight}, managed |-> TRUE,
            ordered |-> FALSE, harms |-> {"none"}]

ManagedJournal == [histories |-> {<<1>>, <<2>>}, limits |-> {Shared}, managed |-> TRUE,
                   ordered |-> TRUE, harms |-> {"corrupt"}]

EverySetting == {Explicit, Managed, ManagedJournal}
ManagedOnly == {Managed}

OneScope == {"this"}
Unreliable == BOOLEAN
=============================================================================
