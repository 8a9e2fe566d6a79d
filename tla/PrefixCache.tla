---------------------------- MODULE PrefixCache ----------------------------
(***************************************************************************)
(* PromptPrefixCache (engine/prefix_cache.rs): committed session states in *)
(* host memory, keyed by the exact tokens consumed, least recently used    *)
(* first.  An entry holds its tokens, its kind and the bytes it retains.   *)
(***************************************************************************)
EXTENDS Integers, Sequences, SequencesExt, FiniteSetsExt

CONSTANTS
    MaxEntries,            \* MAX_ENTRIES
    EntryBytes,            \* bytes of a snapshot apart from its tokens
    Rounding               \* what allocation adds to the minimum

ExactPrefixMatch(saved, requested) == saved # <<>> /\ IsPrefix(saved, requested)

MinimumBytes(tokens) == EntryBytes + Len(tokens)
RetainedCapacity(tokens) == MinimumBytes(tokens) + Rounding

(* snapshot_with_budget declines before the copy when even the minimum is  *)
(* too much, and while it copies when what it allocates is.                *)
WithinBudget(tokens, limit) == MinimumBytes(tokens) <= limit /\ RetainedCapacity(tokens) <= limit

RetainedBytes(entries) ==
    MapThenSumSet(LAMBDA i : entries[i].bytes, DOMAIN entries)

Touched(entries, i) == Append(RemoveAt(entries, i), entries[i])

(* Index of the longest exact prefix, 0 when there is none.                *)
BestMatch(entries, prompt) ==
    LET hits == {i \in DOMAIN entries : ExactPrefixMatch(entries[i].tokens, prompt)}
    IN  IF hits = {} THEN 0
        ELSE CHOOSE i \in hits :
                 \A j \in hits : Len(entries[j].tokens) <= Len(entries[i].tokens)

(* Earlier checkpoints of the same chain that a new one replaces.          *)
Superseded(entry, tokens, kind) ==
    /\ IsPrefix(entry.tokens, tokens)
    /\ \/ entry.kind = kind
       \/ kind = "prompt" /\ entry.kind = "generated"

(* Mutants: eviction by recency alone; admission by the minimum only.      *)
RECURSIVE AdmitByRecency(_, _, _, _)
AdmitByRecency(entries, tokens, kind, budget) ==
    LET bytes == RetainedCapacity(tokens)
    IN  IF Len(entries) < MaxEntries /\ bytes <= budget - RetainedBytes(entries)
        THEN Append(entries, [tokens |-> tokens, kind |-> kind, bytes |-> bytes])
        ELSE IF entries = <<>> THEN entries
        ELSE AdmitByRecency(Tail(entries), tokens, kind, budget)

RECURSIVE AdmitMinimum(_, _, _, _)
AdmitMinimum(entries, tokens, kind, budget) ==
    LET bytes == RetainedCapacity(tokens)
    IN  IF Len(entries) < MaxEntries /\ MinimumBytes(tokens) <= budget - RetainedBytes(entries)
        THEN Append(entries, [tokens |-> tokens, kind |-> kind, bytes |-> bytes])
        ELSE IF entries = <<>> THEN entries
        ELSE AdmitMinimum(Tail(entries), tokens, kind, budget)

(* What must go when the snapshot does not fit: extra state first, then,   *)
(* for a prompt only, the least recently used prompt; 0 when nothing may.  *)
Victim(entries, kind) ==
    LET extras == {i \in DOMAIN entries : entries[i].kind # "prompt"}
    IN  IF extras # {} THEN Min(extras)
        ELSE IF kind = "prompt" /\ entries # <<>> THEN 1 ELSE 0

(* Evict until the snapshot fits; one that never fits is declined, with    *)
(* what was evicted for it gone.                                           *)
RECURSIVE Admit(_, _, _, _)
Admit(entries, tokens, kind, budget) ==
    LET available == budget - RetainedBytes(entries)
        victim == Victim(entries, kind)
    IN  IF Len(entries) < MaxEntries /\ WithinBudget(tokens, available)
        THEN Append(entries, [tokens |-> tokens, kind |-> kind, bytes |-> RetainedCapacity(tokens)])
        ELSE IF victim = 0 THEN entries
        ELSE Admit(RemoveAt(entries, victim), tokens, kind, budget)

(* Where the copy may fail instead: whenever it is tried, because an entry *)
(* is free and the minimum fits.                                           *)
RECURSIVE Abandoned(_, _, _, _)
Abandoned(entries, tokens, kind, budget) ==
    LET available == budget - RetainedBytes(entries)
        victim == Victim(entries, kind)
        free == Len(entries) < MaxEntries
    IN  (IF free /\ MinimumBytes(tokens) <= available THEN {entries} ELSE {})
          \cup (IF victim = 0 \/ (free /\ WithinBudget(tokens, available)) THEN {}
                ELSE Abandoned(RemoveAt(entries, victim), tokens, kind, budget))

(* What an offer leaves; one that fails has failed before it changed       *)
(* anything, or in a copy, after it dropped what the new state replaces.   *)
Offer(entries, tokens, kind, budget, failed) ==
    LET same == {i \in DOMAIN entries : entries[i].tokens = tokens}
        kept == SelectSeq(entries, LAMBDA e : ~Superseded(e, tokens, kind))
        declined == MinimumBytes(tokens) > budget
    IN  IF failed
        THEN {entries} \cup (IF same # {} \/ declined THEN {}
                             ELSE Abandoned(kept, tokens, kind, budget))
        ELSE IF same # {} THEN {Touched(entries, CHOOSE i \in same : TRUE)}
        ELSE IF declined THEN {entries}
        ELSE {Admit(kept, tokens, kind, budget)}

OfferPrompt(entries, tokens, prompt, budget, failed) ==
    Offer(entries, tokens, IF tokens = prompt THEN "prompt" ELSE "anchor", budget, failed)

OfferGenerated(entries, tokens, prompt, budget, failed) ==
    IF Len(tokens) <= Len(prompt) THEN {entries}
    ELSE Offer(entries, tokens, "generated", budget, failed)

=============================================================================
