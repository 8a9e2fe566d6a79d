-------------------------------- MODULE Retain --------------------------------
(* The loops over index entries that the checkpoint stores share: `retain`, *)
(* `try_fold` and the repeated `remove(0)` of                               *)
(* src/engine/snapshot/disk/store.rs.                                       *)
EXTENDS Naturals, SequencesExt

\* retain: the sequence without the members of `out`.
Without(s, out) ==
    LET kept[i \in 0 .. Len(s)] ==
            IF i = 0 THEN <<>>
            ELSE IF s[i] \in out THEN kept[i - 1] ELSE Append(kept[i - 1], s[i])
    IN  kept[Len(s)]

\* try_fold with checked_add: f[0] + ... + f[n].
SumTo(f, n) ==
    LET sum[i \in 0 .. n] == IF i = 0 THEN f[0] ELSE sum[i - 1] + f[i]
    IN  sum[n]

\* remove(0), n times: the entries without the n least recently used.
From(entries, n) == SubSeq(entries, n + 1, Len(entries))

=============================================================================
