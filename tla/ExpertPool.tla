------------------------------ MODULE ExpertPool ------------------------------
(***************************************************************************)
(* One bounded expert pool, BoundedExperts of src/experts.rs: the slots of *)
(* the resident weight storage, the two published maps between expert      *)
(* sources and slots, and what each slot's bytes hold.  Operators take a   *)
(* pool record and give the next one; the owners are in other modules.     *)
(*                                                                         *)
(* Frequency and recency only choose among the slots that may be evicted:  *)
(* here any of them is chosen.  The three projections of a row are one.    *)
(***************************************************************************)
EXTENDS Integers, FiniteSets

CONSTANTS
    Sources,   \* logical experts of a layer
    MaxSlots   \* largest capacity of a pool

ASSUME PoolAssumption ==
    /\ Sources \subseteq Nat \ {0}
    /\ IsFiniteSet(Sources)
    /\ MaxSlots \in Nat \ {0}

Absent == 0       \* no slot, no expert
Torn == 0         \* bytes that are no expert's row

Slots(capacity) == 1 .. capacity

SlotMaps == [Sources -> 0 .. MaxSlots]
ExpertMaps == [1 .. MaxSlots -> Sources \union {Absent}]
ByteMaps == [1 .. MaxSlots -> Sources \union {Torn}]

Pools == [capacity : 1 .. MaxSlots, slot_of : SlotMaps, expert_at : ExpertMaps, bytes : ByteMaps]

EmptyPool(capacity) ==
    [ capacity  |-> capacity,
      slot_of   |-> [s \in Sources |-> Absent],
      expert_at |-> [n \in 1 .. MaxSlots |-> Absent],
      bytes     |-> [n \in 1 .. MaxSlots |-> Torn] ]

Resident(p) == {s \in Sources : p.slot_of[s] # Absent}
Missing(p, wanted) == wanted \ Resident(p)

\* BTreeSet iteration: the smallest member first.
First(set) == CHOOSE s \in set : \A t \in set : s <= t

\* choose_slot: the first empty slot, else a slot whose expert is unprotected.
\* The empty set is the error "no evictable slot".
ChooseSlot(p, protected) ==
    LET empty == {n \in Slots(p.capacity) : p.expert_at[n] = Absent} IN
    IF empty # {} THEN {First(empty)}
    ELSE {n \in Slots(p.capacity) : p.expert_at[n] \notin protected}

\* publish_replacement up to the write: the old expert goes, the bytes change.
Unpublish(p, slot) ==
    LET previous == p.expert_at[slot] IN
    [ capacity  |-> p.capacity,
      slot_of   |-> IF previous = Absent THEN p.slot_of ELSE [p.slot_of EXCEPT ![previous] = Absent],
      expert_at |-> [p.expert_at EXCEPT ![slot] = Absent],
      bytes     |-> [p.bytes EXCEPT ![slot] = Torn] ]

\* publish_replacement after the write.
Publish(p, source, slot) ==
    [ capacity  |-> p.capacity,
      slot_of   |-> [p.slot_of EXCEPT ![source] = slot],
      expert_at |-> [p.expert_at EXCEPT ![slot] = source],
      bytes     |-> [p.bytes EXCEPT ![slot] = source] ]

\* PreparedExpertSuffixGrowth::commit
Grow(p, target) == [p EXCEPT !.capacity = target]

\* PreparedExpertSuffixRelease::commit
Release(p, target) ==
    [ capacity  |-> target,
      slot_of   |-> [s \in Sources |-> IF p.slot_of[s] > target THEN Absent ELSE p.slot_of[s]],
      expert_at |-> [n \in 1 .. MaxSlots |-> IF n > target THEN Absent ELSE p.expert_at[n]],
      bytes     |-> [n \in 1 .. MaxSlots |-> IF n > target THEN Torn ELSE p.bytes[n]] ]

\* The two maps are inverse, inside the capacity, and a published slot holds
\* the complete row of its expert.
PoolSound(p) ==
    /\ \A s \in Resident(p) : p.slot_of[s] <= p.capacity /\ p.expert_at[p.slot_of[s]] = s
    /\ \A n \in 1 .. MaxSlots :
          p.expert_at[n] # Absent => p.slot_of[p.expert_at[n]] = n /\ p.bytes[n] = p.expert_at[n]

=============================================================================
