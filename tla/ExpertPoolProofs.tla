--------------------------- MODULE ExpertPoolProofs ---------------------------
(***************************************************************************)
(* What the operations of a bounded expert pool keep true of it, for every *)
(* set of experts and every capacity.                                      *)
(***************************************************************************)
EXTENDS ExpertPool, TLAPS, WellFoundedInduction

\* A pool record whose published part is really there.
Sane(p) == p \in Pools /\ PoolSound(p)

\* Ascending iteration (BTreeSet) starts with a member of the set.
LEMMA FirstMember ==
    ASSUME NEW set \in SUBSET Nat, set # {}
    PROVE  First(set) \in set
<1>1. PICK x \in set : \A y \in set : ~ (<<y, x>> \in OpToRel(<, Nat))
  BY WFMin, NatLessThanWellFounded, Zenon
<1>2. \A y \in set : x <= y
  <2> TAKE y \in set
  <2>1. x \in Nat /\ y \in Nat
    OBVIOUS
  <2>2. ~ (y < x)
    BY <1>1, <2>1 DEF OpToRel
  <2> QED
    BY <2>1, <2>2
<1> QED
  BY <1>2 DEF First

\* choose_slot never leaves the capacity, and what it may evict is empty or
\* holds an expert nobody protects.
LEMMA ChosenSlot ==
    ASSUME NEW p \in Pools, NEW protected, NEW n \in ChooseSlot(p, protected)
    PROVE  /\ n \in Slots(p.capacity)
           /\ p.expert_at[n] = Absent \/ p.expert_at[n] \notin protected
<1> DEFINE empty == {m \in Slots(p.capacity) : p.expert_at[m] = Absent}
<1>1. CASE empty # {}
  <2>1. empty \in SUBSET Nat
    BY DEF Slots
  <2>2. n \in empty
    BY <1>1, <2>1, FirstMember DEF ChooseSlot
  <2> QED
    BY <2>2
<1>2. CASE empty = {}
  BY <1>2 DEF ChooseSlot
<1> QED
  BY <1>1, <1>2

\* The fields of a pool, and a pool from its fields.
LEMMA PoolFields ==
    ASSUME NEW p \in Pools
    PROVE  /\ p.capacity \in 1 .. MaxSlots
           /\ p.slot_of \in SlotMaps
           /\ p.expert_at \in ExpertMaps
           /\ p.bytes \in ByteMaps
BY DEF Pools

LEMMA PoolOf ==
    ASSUME NEW c \in 1 .. MaxSlots, NEW f \in SlotMaps, NEW g \in ExpertMaps, NEW h \in ByteMaps
    PROVE  LET q == [capacity |-> c, slot_of |-> f, expert_at |-> g, bytes |-> h] IN
           q \in Pools /\ q.capacity = c /\ q.slot_of = f /\ q.expert_at = g /\ q.bytes = h
BY DEF Pools

\* publish_replacement before the write: only the expert of the overwritten
\* slot is no longer published.
LEMMA UnpublishSane ==
    ASSUME NEW p \in Pools, PoolSound(p), NEW n \in Slots(p.capacity)
    PROVE  LET q == Unpublish(p, n) IN
           /\ Sane(q)
           /\ q.capacity = p.capacity
           /\ q.expert_at[n] = Absent
           /\ \A s \in Sources : q.slot_of[s] = IF p.slot_of[s] = n THEN Absent ELSE p.slot_of[s]
<1> DEFINE q == Unpublish(p, n)
           previous == p.expert_at[n]
           f == IF previous = Absent THEN p.slot_of ELSE [p.slot_of EXCEPT ![previous] = Absent]
           g == [p.expert_at EXCEPT ![n] = Absent]
           h == [p.bytes EXCEPT ![n] = Torn]
<1> USE PoolAssumption DEF Absent, Torn
<1>1. n \in 1 .. MaxSlots /\ n # 0
  BY PoolFields DEF Slots
<1>2. previous # 0 => previous \in Sources /\ p.slot_of[previous] = n
  BY <1>1, PoolFields DEF PoolSound, ExpertMaps
<1>3. \A s \in Sources : p.slot_of[s] = n => s = previous /\ previous # 0
  BY <1>1 DEF PoolSound, Resident
<1>4. f \in SlotMaps /\ g \in ExpertMaps /\ h \in ByteMaps
  BY <1>1, <1>2, PoolFields DEF SlotMaps, ExpertMaps, ByteMaps
<1>5. q \in Pools /\ q.capacity = p.capacity /\ q.slot_of = f /\ q.expert_at = g /\ q.bytes = h
  BY <1>4, PoolFields, PoolOf DEF Unpublish
<1>6. \A s \in Sources : f[s] = IF p.slot_of[s] = n THEN 0 ELSE p.slot_of[s]
  BY <1>2, <1>3, PoolFields DEF SlotMaps
<1>7. \A m \in 1 .. MaxSlots :
          /\ g[m] = IF m = n THEN 0 ELSE p.expert_at[m]
          /\ h[m] = IF m = n THEN 0 ELSE p.bytes[m]
  BY PoolFields DEF ExpertMaps, ByteMaps
<1> HIDE DEF q, f, g, h, previous
<1>8. PoolSound(q)
  <2>1. ASSUME NEW s \in Sources, q.slot_of[s] # 0
        PROVE  q.slot_of[s] <= q.capacity /\ q.expert_at[q.slot_of[s]] = s
    <3>1. q.slot_of[s] = p.slot_of[s] /\ p.slot_of[s] # n /\ p.slot_of[s] # 0
      BY <1>5, <1>6, <2>1
    <3>2. p.slot_of[s] <= p.capacity /\ p.expert_at[p.slot_of[s]] = s
      BY <3>1 DEF PoolSound, Resident
    <3>3. p.slot_of[s] \in 1 .. MaxSlots
      BY <3>1, PoolFields DEF SlotMaps
    <3> QED
      BY <1>5, <1>7, <3>1, <3>2, <3>3
  <2>2. ASSUME NEW m \in 1 .. MaxSlots, q.expert_at[m] # 0
        PROVE  q.slot_of[q.expert_at[m]] = m /\ q.bytes[m] = q.expert_at[m]
    <3>1. m # n /\ q.expert_at[m] = p.expert_at[m] /\ q.bytes[m] = p.bytes[m] /\ p.expert_at[m] # 0
      BY <1>5, <1>7, <2>2
    <3>2. /\ p.expert_at[m] \in Sources
          /\ p.slot_of[p.expert_at[m]] = m
          /\ p.bytes[m] = p.expert_at[m]
      BY <3>1, PoolFields DEF PoolSound, ExpertMaps
    <3> QED
      BY <1>5, <1>6, <3>1, <3>2
  <2> QED
    BY <2>1, <2>2 DEF PoolSound, Resident
<1> QED
  BY <1>1, <1>5, <1>6, <1>7, <1>8 DEF Sane, q

\* publish_replacement after the write: a complete row in an empty slot, for an
\* expert that was not resident.
LEMMA PublishSane ==
    ASSUME NEW p \in Pools, PoolSound(p), NEW n \in Slots(p.capacity), p.expert_at[n] = Absent,
           NEW source \in Sources \ Resident(p)
    PROVE  LET q == Publish(p, source, n) IN
           /\ Sane(q)
           /\ q.capacity = p.capacity
           /\ \A s \in Sources : q.slot_of[s] = IF s = source THEN n ELSE p.slot_of[s]
<1> DEFINE q == Publish(p, source, n)
           f == [p.slot_of EXCEPT ![source] = n]
           g == [p.expert_at EXCEPT ![n] = source]
           h == [p.bytes EXCEPT ![n] = source]
<1> USE PoolAssumption DEF Absent, Torn
<1>1. n \in 1 .. MaxSlots /\ n # 0 /\ n <= p.capacity
  BY PoolFields DEF Slots
<1>2. f \in SlotMaps /\ g \in ExpertMaps /\ h \in ByteMaps
  BY <1>1, PoolFields DEF SlotMaps, ExpertMaps, ByteMaps
<1>3. q \in Pools /\ q.capacity = p.capacity /\ q.slot_of = f /\ q.expert_at = g /\ q.bytes = h
  BY <1>2, PoolFields, PoolOf DEF Publish
<1>4. \A s \in Sources : f[s] = IF s = source THEN n ELSE p.slot_of[s]
  BY PoolFields DEF SlotMaps
<1>5. \A m \in 1 .. MaxSlots :
          /\ g[m] = IF m = n THEN source ELSE p.expert_at[m]
          /\ h[m] = IF m = n THEN source ELSE p.bytes[m]
  BY PoolFields DEF ExpertMaps, ByteMaps
<1>6. p.slot_of[source] = 0
  BY DEF Resident
<1> HIDE DEF q, f, g, h
<1>7. PoolSound(q)
  <2>1. ASSUME NEW s \in Sources, q.slot_of[s] # 0
        PROVE  q.slot_of[s] <= q.capacity /\ q.expert_at[q.slot_of[s]] = s
    <3>1. CASE s = source
      BY <1>1, <1>3, <1>4, <1>5, <3>1
    <3>2. CASE s # source
      <4>1. q.slot_of[s] = p.slot_of[s] /\ p.slot_of[s] # 0
        BY <1>3, <1>4, <2>1, <3>2
      <4>2. p.slot_of[s] <= p.capacity /\ p.expert_at[p.slot_of[s]] = s
        BY <4>1 DEF PoolSound, Resident
      <4>3. p.slot_of[s] \in 1 .. MaxSlots /\ p.slot_of[s] # n
        BY <4>1, <4>2, PoolFields DEF SlotMaps
      <4> QED
        BY <1>3, <1>5, <4>1, <4>2, <4>3
    <3> QED
      BY <3>1, <3>2
  <2>2. ASSUME NEW m \in 1 .. MaxSlots, q.expert_at[m] # 0
        PROVE  q.slot_of[q.expert_at[m]] = m /\ q.bytes[m] = q.expert_at[m]
    <3>1. CASE m = n
      BY <1>1, <1>3, <1>4, <1>5, <3>1
    <3>2. CASE m # n
      <4>1. q.expert_at[m] = p.expert_at[m] /\ q.bytes[m] = p.bytes[m] /\ p.expert_at[m] # 0
        BY <1>3, <1>5, <2>2, <3>2
      <4>2. /\ p.expert_at[m] \in Sources
            /\ p.slot_of[p.expert_at[m]] = m
            /\ p.bytes[m] = p.expert_at[m]
        BY <4>1, PoolFields DEF PoolSound, ExpertMaps
      <4>3. p.expert_at[m] # source
        BY <1>6, <4>2
      <4> QED
        BY <1>3, <1>4, <4>1, <4>2, <4>3
    <3> QED
      BY <3>1, <3>2
  <2> QED
    BY <2>1, <2>2 DEF PoolSound, Resident
<1> QED
  BY <1>3, <1>4, <1>7 DEF Sane, q

\* The commit of a growth publishes nothing.
LEMMA GrowSane ==
    ASSUME NEW p \in Pools, PoolSound(p), NEW target \in 1 .. MaxSlots, target >= p.capacity
    PROVE  Sane(Grow(p, target)) /\ Grow(p, target).capacity = target
<1> DEFINE q == Grow(p, target)
<1>1. /\ q \in Pools
      /\ q.capacity = target
      /\ q.slot_of = p.slot_of
      /\ q.expert_at = p.expert_at
      /\ q.bytes = p.bytes
  BY DEF Grow, Pools
<1>2. \A s \in Resident(p) : p.slot_of[s] <= target
  BY PoolFields, PoolAssumption DEF PoolSound, SlotMaps, Resident
<1> HIDE DEF q
<1>3. PoolSound(q)
  BY <1>1, <1>2 DEF PoolSound, Resident
<1> QED
  BY <1>1, <1>3 DEF Sane, q

\* The commit of a release forgets exactly the experts of the released suffix.
LEMMA ReleaseSane ==
    ASSUME NEW p \in Pools, PoolSound(p), NEW target \in 1 .. MaxSlots
    PROVE  Sane(Release(p, target)) /\ Release(p, target).capacity = target
<1> DEFINE q == Release(p, target)
           f == [s \in Sources |-> IF p.slot_of[s] > target THEN 0 ELSE p.slot_of[s]]
           g == [m \in 1 .. MaxSlots |-> IF m > target THEN 0 ELSE p.expert_at[m]]
           h == [m \in 1 .. MaxSlots |-> IF m > target THEN 0 ELSE p.bytes[m]]
<1> USE PoolAssumption DEF Absent, Torn
<1>1. f \in SlotMaps /\ g \in ExpertMaps /\ h \in ByteMaps
  BY PoolFields DEF SlotMaps, ExpertMaps, ByteMaps
<1>2. q = [capacity |-> target, slot_of |-> f, expert_at |-> g, bytes |-> h]
  BY DEF Release
<1>3. \A s \in Sources : f[s] = IF p.slot_of[s] > target THEN 0 ELSE p.slot_of[s]
  OBVIOUS
<1>4. \A m \in 1 .. MaxSlots :
          /\ g[m] = IF m > target THEN 0 ELSE p.expert_at[m]
          /\ h[m] = IF m > target THEN 0 ELSE p.bytes[m]
  OBVIOUS
<1> HIDE DEF q, f, g, h
<1>5. q \in Pools /\ q.capacity = target /\ q.slot_of = f /\ q.expert_at = g /\ q.bytes = h
  BY <1>1, <1>2, PoolOf
<1>6. PoolSound(q)
  <2>1. ASSUME NEW s \in Sources, q.slot_of[s] # 0
        PROVE  q.slot_of[s] <= q.capacity /\ q.expert_at[q.slot_of[s]] = s
    <3>1. q.slot_of[s] = p.slot_of[s] /\ p.slot_of[s] # 0 /\ ~ (p.slot_of[s] > target)
      BY <1>5, <1>3, <2>1
    <3>2. p.expert_at[p.slot_of[s]] = s /\ p.slot_of[s] \in 1 .. MaxSlots
      BY <3>1, PoolFields DEF PoolSound, Resident, SlotMaps
    <3> QED
      BY <1>5, <1>4, <3>1, <3>2
  <2>2. ASSUME NEW m \in 1 .. MaxSlots, q.expert_at[m] # 0
        PROVE  q.slot_of[q.expert_at[m]] = m /\ q.bytes[m] = q.expert_at[m]
    <3>1. /\ ~ (m > target)
          /\ q.expert_at[m] = p.expert_at[m] /\ q.bytes[m] = p.bytes[m]
          /\ p.expert_at[m] # 0
      BY <1>5, <1>4, <2>2
    <3>2. /\ p.expert_at[m] \in Sources
          /\ p.slot_of[p.expert_at[m]] = m
          /\ p.bytes[m] = p.expert_at[m]
      BY <3>1, PoolFields DEF PoolSound, ExpertMaps
    <3> QED
      BY <1>5, <1>3, <3>1, <3>2
  <2> QED
    BY <2>1, <2>2 DEF PoolSound, Resident
<1> QED
  BY <1>5, <1>6 DEF Sane, q

\* A pool without residents is sound.
LEMMA EmptySane ==
    ASSUME NEW c \in 1 .. MaxSlots
    PROVE  Sane(EmptyPool(c)) /\ EmptyPool(c).capacity = c
<1> DEFINE f == [s \in Sources |-> Absent]
           g == [n \in 1 .. MaxSlots |-> Absent]
           h == [n \in 1 .. MaxSlots |-> Torn]
           q == EmptyPool(c)
<1>1. f \in SlotMaps /\ g \in ExpertMaps /\ h \in ByteMaps
  BY PoolAssumption DEF SlotMaps, ExpertMaps, ByteMaps, Absent, Torn
<1>2. q = [capacity |-> c, slot_of |-> f, expert_at |-> g, bytes |-> h]
  BY DEF EmptyPool
<1>3. (\A s \in Sources : f[s] = Absent) /\ (\A n \in 1 .. MaxSlots : g[n] = Absent)
  OBVIOUS
<1> HIDE DEF q, f, g, h
<1>4. q \in Pools /\ q.capacity = c /\ q.slot_of = f /\ q.expert_at = g
  BY <1>1, <1>2, PoolOf
<1>5. PoolSound(q)
  BY <1>3, <1>4 DEF PoolSound, Resident
<1> QED
  BY <1>4, <1>5 DEF Sane, q

=============================================================================
