------------------------- MODULE PrefillOverlapProofs -------------------------
(***************************************************************************)
(* Machine-checked proofs about PrefillOverlap, for every set of experts,  *)
(* every pool size and every batch: what the pool publishes is there, no   *)
(* outstanding reader loses a row, and a batch reads all it selected.      *)
(*                                                                         *)
(* The inductive invariant says why: while rows are loaded, every command  *)
(* that is not retired reads through the map of a group the scope still    *)
(* holds and whose marker is not before it, and each such map still agrees *)
(* with the pool; so the victims the loader may choose are read by nobody. *)
(***************************************************************************)
EXTENDS PrefillOverlap, ExpertPoolProofs, FiniteSetTheorems, SequenceTheorems

Groups == [map : Maps, mark : Nat]
Submissions == [reads : SUBSET Maps, error : BOOLEAN]
Working == {"enter", "retire", "load", "write", "encode"}

Shape ==
    /\ pool \in Pools
    /\ pool.capacity \in Capacities
    /\ pc \in Places
    /\ plan \in Seq(SUBSET Sources)
    /\ demand \in SUBSET Sources
    /\ covered \in SUBSET Sources
    /\ overlap \in BOOLEAN
    /\ groups \in Seq(Groups)
    /\ Len(groups) <= 2
    /\ slot \in 0 .. MaxSlots
    /\ active \in SUBSET Maps
    /\ queue \in Seq(Submissions)
    /\ ran \in 0 .. Len(queue)

\* The pool holds the complete row of every expert the map reads.
Whole(map, p) == \A s \in DOMAIN map : p.bytes[map[s]] = s

\* The map still is what the pool publishes.
Published(map, p) ==
    /\ DOMAIN map \subseteq Sources
    /\ \A s \in DOMAIN map : p.slot_of[s] # Absent /\ map[s] = p.slot_of[s]

\* No reader that is not retired has lost a row.
Intact ==
    /\ \A map \in active : Whole(map, pool)
    /\ \A i \in 1 .. Len(queue) : \A map \in queue[i].reads : Whole(map, pool)

\* Each reader of commands q reads through the map of a group in gs that is
\* not to be retired before it, and those maps are what pool p publishes.
Covers(q, gs, p) ==
    /\ \A i \in 1 .. Len(q) : \A map \in q[i].reads :
          \E k \in 1 .. Len(gs) : map = gs[k].map /\ i <= gs[k].mark
    /\ \A k \in 1 .. Len(gs) : Published(gs[k].map, p) /\ gs[k].mark <= Len(q)

\* While rows are loaded the scope's groups account for all such readers.
Guarded == pc \in Working => active = {} /\ Covers(queue, groups, pool)

\* Where the owner is tells what it has done.
Located ==
    /\ pc \in Working => plan # <<>> /\ (~overlap => Len(plan) = 1)
    /\ pc \in Working \union {"routing"} => demand # {}
    /\ pc \in {"load", "write"} => Len(groups) <= 1
    /\ pc = "retire" /\ Len(groups) = 2 => groups[1].mark <= groups[2].mark
    /\ pc = "write" =>
          /\ slot \in Slots(pool.capacity)
          /\ pool.expert_at[slot] = Absent
          /\ Missing(pool, plan[1]) # {}
    /\ pc = "encode" => Missing(pool, plan[1]) = {}
    /\ pc = "encode" /\ overlap => groups # <<>>
    /\ pc \in {"routing", "enter"} => groups = <<>>
    /\ pc = "routing" => active = {} /\ covered = {}
    /\ pc = "idle" /\ demand = {} => groups = <<>>

\* What is read and what is still planned make up the demand.
Accounted ==
    /\ pc \in Working =>
          demand = covered \union UNION {plan[i] : i \in 1 .. Len(plan)}
    /\ BatchComplete

IndInv == Shape /\ PoolSound(pool) /\ Intact /\ Guarded /\ Located /\ Accounted

-----------------------------------------------------------------------------
(* Planning *)

\* With z > 0, a quotient of at least z is positive, and a smaller dividend
\* falls into one of the rounded-up number of parts.
LEMMA PartIndex ==
    ASSUME NEW c \in Nat, NEW z \in Nat \ {0}, NEW r \in Nat, r < c
    PROVE  /\ (c + z - 1) \div z \in Nat
           /\ r \div z \in Nat
           /\ r \div z < (c + z - 1) \div z
<1> DEFINE q == r \div z
           n == (c + z - 1) \div z
<1>1. q \in Nat /\ n \in Nat
  OBVIOUS
<1>2. z * q <= r
  OBVIOUS
<1>3. c + z - 1 < z * n + z
  OBVIOUS
<1>4. SUFFICES ASSUME n <= q PROVE FALSE
  BY <1>1
<1>5. z * n <= z * q
  BY <1>1, <1>4
<1> HIDE DEF q, n
<1> QED
  BY <1>1, <1>2, <1>3, <1>5

\* planned_chunks covers exactly the experts of the batch, with at least one
\* group.
LEMMA PlannedCovers ==
    ASSUME NEW all \in SUBSET Sources, NEW c \in Nat, c >= 2
    PROVE  /\ Planned(all, c) \in Seq(SUBSET Sources)
           /\ Planned(all, c) # <<>>
           /\ all = UNION {Planned(all, c)[i] : i \in 1 .. Len(Planned(all, c))}
<1>1. IsFiniteSet(all) /\ Cardinality(all) \in Nat
  BY FS_Subset, FS_CardinalityType, PoolAssumption
<1>2. CASE Cardinality(all) <= c
  <2>1. Planned(all, c) = <<all>>
    BY <1>2 DEF Planned
  <2> QED
    BY <2>1
<1>3. CASE ~ (Cardinality(all) <= c)
  <2> DEFINE z == GroupSize(c)
             n == (Cardinality(all) + z - 1) \div z
             e(i) == {s \in all : Rank(s, all) \div z = i - 1}
             seq == [i \in 1 .. n |-> e(i)]
  <2>1. Planned(all, c) = seq
    BY <1>3 DEF Planned
  <2>2. z \in Nat \ {0}
    BY DEF GroupSize
  <2>3. ASSUME NEW s \in all
        PROVE  Rank(s, all) \in Nat /\ Rank(s, all) < Cardinality(all)
    <3> DEFINE below == {t \in all : t < s}
    <3>1. below \in SUBSET (all \ {s})
      BY PoolAssumption
    <3>2. IsFiniteSet(all \ {s}) /\ Cardinality(all \ {s}) = Cardinality(all) - 1
      BY <1>1, <2>3, FS_RemoveElement
    <3>3. IsFiniteSet(below) /\ Cardinality(below) <= Cardinality(all) - 1
      BY <3>1, <3>2, FS_Subset
    <3>4. Cardinality(below) \in Nat
      BY <3>3, FS_CardinalityType
    <3> QED
      BY <1>1, <3>3, <3>4 DEF Rank
  <2>4. n \in Nat /\ n >= 1
    <3>1. 0 < Cardinality(all)
      BY <1>1, <1>3
    <3>2. n \in Nat /\ 0 \div z \in Nat /\ 0 \div z < n
      BY <1>1, <2>2, <3>1, PartIndex
    <3> QED
      BY <3>2
  <2>5. \A s \in all : Rank(s, all) \div z \in Nat /\ Rank(s, all) \div z < n
    BY <1>1, <2>2, <2>3, PartIndex
  <2>6. seq \in [1 .. n -> SUBSET Sources]
    OBVIOUS
  <2> HIDE DEF n
  <2>7. seq \in Seq(SUBSET Sources) /\ Len(seq) = n
    BY <2>4, <2>6, SeqDef
  <2>8. ASSUME NEW s \in all
        PROVE  \E i \in 1 .. n : s \in seq[i]
    <3>1. Rank(s, all) \div z + 1 \in 1 .. n
      BY <2>4, <2>5
    <3>2. s \in e(Rank(s, all) \div z + 1)
      BY <2>5
    <3> QED
      BY <3>1, <3>2
  <2>9. \A i \in 1 .. n : seq[i] \subseteq all
    OBVIOUS
  <2> HIDE DEF seq
  <2> QED
    BY <2>1, <2>4, <2>7, <2>8, <2>9
<1> QED
  BY <1>2, <1>3

-----------------------------------------------------------------------------
(* Readers *)

\* What the pool publishes is whole.
LEMMA PublishedWhole ==
    ASSUME NEW p \in Pools, PoolSound(p), NEW map, Published(map, p)
    PROVE  Whole(map, p)
<1> SUFFICES ASSUME NEW s \in DOMAIN map PROVE p.bytes[map[s]] = s
  BY DEF Whole
<1>1. s \in Sources /\ p.slot_of[s] # 0 /\ map[s] = p.slot_of[s]
  BY DEF Published, Absent
<1>2. p.slot_of[s] \in 1 .. MaxSlots /\ p.expert_at[p.slot_of[s]] = s
  BY <1>1, PoolFields, PoolAssumption DEF PoolSound, Resident, SlotMaps, Absent
<1>3. s # 0
  BY <1>1, PoolAssumption
<1> QED
  BY <1>1, <1>2, <1>3 DEF PoolSound, Absent

\* Readers that are covered by groups are whole.
LEMMA CoveredWhole ==
    ASSUME NEW p \in Pools, PoolSound(p), NEW q, NEW gs, Covers(q, gs, p)
    PROVE  \A i \in 1 .. Len(q) : \A map \in q[i].reads : Whole(map, p)
BY PublishedWhole DEF Covers

\* A change of the pool that keeps the slots of the groups' experts keeps the
\* cover.
LEMMA CoverKept ==
    ASSUME NEW p, NEW r, NEW q, NEW gs, Covers(q, gs, p),
           \A k \in 1 .. Len(gs) : \A s \in DOMAIN gs[k].map : r.slot_of[s] = p.slot_of[s]
    PROVE  Covers(q, gs, r)
BY DEF Covers, Published

\* drain_through: the commands that remain, and their positions.
LEMMA Remaining ==
    ASSUME NEW q \in Seq(Submissions), NEW n \in 0 .. Len(q)
    PROVE  LET r == SubSeq(q, n + 1, Len(q)) IN
           /\ r \in Seq(Submissions)
           /\ Len(r) = Len(q) - n
           /\ \A i \in 1 .. Len(r) : i + n \in 1 .. Len(q) /\ r[i] = q[i + n]
<1>1. Len(q) \in Nat /\ \A i \in n + 1 .. Len(q) : q[i] \in Submissions
  BY LenProperties
<1> DEFINE r == SubSeq(q, n + 1, Len(q))
<1>2. /\ r \in Seq(Submissions)
      /\ Len(r) = IF n + 1 <= Len(q) THEN Len(q) - (n + 1) + 1 ELSE 0
      /\ \A i \in 1 .. Len(q) - (n + 1) + 1 : r[i] = q[(n + 1) + i - 1]
  BY <1>1, SubSeqProperties
<1> HIDE DEF r
<1>3. Len(r) = Len(q) - n
  BY <1>1, <1>2
<1>4. \A i \in 1 .. Len(r) : i + n \in 1 .. Len(q) /\ r[i] = q[i + n]
  BY <1>1, <1>2, <1>3
<1> QED
  BY <1>2, <1>3, <1>4 DEF r

\* With every command retired nothing is left to cover.
LEMMA NothingLeft ==
    ASSUME NEW q \in Seq(Submissions)
    PROVE  SubSeq(q, Len(q) + 1, Len(q)) = <<>>
<1>1. Len(q) \in Nat
  BY LenProperties
<1> QED
  BY <1>1, SubSeqEmpty

\* The scope holds none, one or two groups.
LEMMA FewGroups ==
    ASSUME NEW gs \in Seq(Groups), Len(gs) <= 2
    PROVE  /\ Len(gs) # 2 => Len(gs) <= 1
           /\ Len(gs) = 2 => gs[1] \in Groups /\ gs[2] \in Groups
           /\ Len(gs) <= 1 /\ gs # <<>> => Len(gs) = 1
<1> DEFINE n == Len(gs)
<1>1. n \in Nat /\ n <= 2 /\ (n = 0 => gs = <<>>)
  BY LenProperties, EmptySeq
<1>2. \A i \in 1 .. n : gs[i] \in Groups
  BY ElementOfSeq
<1> HIDE DEF n
<1>3. /\ n # 2 => n <= 1
      /\ n = 2 => gs[1] \in Groups /\ gs[2] \in Groups
      /\ n <= 1 /\ gs # <<>> => n = 1
  BY <1>1, <1>2
<1> QED
  BY <1>3 DEF n

\* A sequence of one group.
LEMMA OneGroup ==
    ASSUME NEW g \in Groups
    PROVE  <<g>> \in Seq(Groups) /\ Len(<<g>>) = 1 /\ <<g>>[1] = g /\ <<g>> # <<>>
OBVIOUS

\* A plan that is neither empty nor longer than one group.
LEMMA OneChunk ==
    ASSUME NEW q \in Seq(SUBSET Sources), q # <<>>, ~ (Len(q) > 1)
    PROVE  Len(q) = 1
<1> DEFINE n == Len(q)
<1>1. n \in Nat /\ n # 0 /\ ~ (n > 1)
  BY LenProperties, EmptySeq
<1> HIDE DEF n
<1>2. n = 1
  BY <1>1
<1> QED
  BY <1>2 DEF n

\* The first group of a plan and the rest of it.
LEMMA PlanHead ==
    ASSUME NEW q \in Seq(SUBSET Sources), q # <<>>
    PROVE  /\ q[1] \in SUBSET Sources
           /\ Tail(q) \in Seq(SUBSET Sources)
           /\ UNION {q[i] : i \in 1 .. Len(q)}
                = q[1] \union UNION {Tail(q)[i] : i \in 1 .. Len(Tail(q))}
           /\ Len(q) = 1 => UNION {q[i] : i \in 1 .. Len(q)} = q[1]
           /\ Len(q) # 1 => Tail(q) # <<>>
<1> DEFINE r == Tail(q)
           n == Len(q)
           m == Len(r)
<1>1. n \in Nat /\ n # 0
  BY LenProperties, EmptySeq
<1>2. /\ r \in Seq(SUBSET Sources)
      /\ m = n - 1
      /\ \A i \in 1 .. m : r[i] = q[i + 1]
  BY HeadTailProperties
<1>3. \A i \in 1 .. n : q[i] \in SUBSET Sources
  BY ElementOfSeq
<1>4. r = <<>> => m = 0
  BY EmptySeq
<1> HIDE DEF r, n, m
<1>5. q[1] \in SUBSET Sources
  BY <1>1, <1>3
<1>6. \A i \in 1 .. n : i = 1 \/ (i - 1 \in 1 .. m /\ q[i] = r[i - 1])
  BY <1>1, <1>2
<1>7. \A i \in 1 .. m : i + 1 \in 1 .. n /\ r[i] = q[i + 1]
  BY <1>1, <1>2
<1>8. 1 \in 1 .. n
  BY <1>1
<1>9. UNION {q[i] : i \in 1 .. n} = q[1] \union UNION {r[i] : i \in 1 .. m}
  BY <1>6, <1>7, <1>8
<1>10. n = 1 => UNION {q[i] : i \in 1 .. n} = q[1]
  BY <1>8
<1>11. n # 1 => r # <<>>
  BY <1>1, <1>2, <1>4
<1> QED
  BY <1>2, <1>5, <1>9, <1>10, <1>11 DEF r, n, m

\* One more command behind the others.
LEMMA Appended ==
    ASSUME NEW q \in Seq(Submissions), NEW c \in Submissions
    PROVE  LET r == Append(q, c) IN
           /\ r \in Seq(Submissions)
           /\ Len(q) \in Nat
           /\ Len(r) = Len(q) + 1
           /\ \A i \in 1 .. Len(q) : r[i] = q[i]
           /\ r[Len(q) + 1] = c
           /\ \A i \in 1 .. Len(r) : i \in 1 .. Len(q) \/ i = Len(q) + 1
<1>1. Len(q) \in Nat
  BY LenProperties
<1> QED
  BY <1>1, AppendProperties

\* The slots captured for a resident group are what the pool publishes.
LEMMA CapturedPublished ==
    ASSUME NEW p \in Pools, NEW w \in SUBSET Sources, Missing(p, w) = {}
    PROVE  LET map == [s \in w |-> p.slot_of[s]] IN map \in Maps /\ Published(map, p)
<1> DEFINE map == [s \in w |-> p.slot_of[s]]
<1>1. \A s \in w : s \in Sources /\ p.slot_of[s] # 0
  BY DEF Missing, Resident, Absent
<1>2. \A s \in w : p.slot_of[s] \in 1 .. MaxSlots
  BY <1>1, PoolFields, PoolAssumption DEF SlotMaps
<1>3. map \in [w -> 1 .. MaxSlots]
  BY <1>2
<1>4. map \in Maps
  BY <1>3, Zenon DEF Maps
<1>5. Published(map, p)
  BY <1>1 DEF Published, Absent
<1> QED
  BY <1>4, <1>5

-----------------------------------------------------------------------------
(* One lemma per action *)

\* A capacity the engine uses is a size of the pool, at least two.
LEMMA CapacityRange ==
    ASSUME NEW c \in Capacities
    PROVE  c \in 1 .. MaxSlots /\ c \in Nat /\ c >= 2
BY PrefillAssumption, PoolAssumption

\* The initial states.
LEMMA InitInv == Init => IndInv
<1> SUFFICES ASSUME Init PROVE IndInv
  OBVIOUS
<1>1. PICK c \in Capacities : pool = EmptyPool(c)
  BY DEF Init
<1>2. pool \in Pools /\ PoolSound(pool) /\ pool.capacity = c
  BY <1>1, CapacityRange, EmptySane DEF Sane
<1>3. Shape
  <2>1. plan \in Seq(SUBSET Sources) /\ groups \in Seq(Groups) /\ queue \in Seq(Submissions)
    BY EmptySeq DEF Init
  <2>2. Len(groups) = 0 /\ Len(queue) = 0 /\ ran = 0
    BY EmptySeq DEF Init
  <2>3. slot \in 0 .. MaxSlots
    BY PoolAssumption DEF Init, Absent
  <2>4. pc \in Places /\ active \in SUBSET Maps /\ overlap \in BOOLEAN
    BY DEF Init, Places
  <2>5. demand \in SUBSET Sources /\ covered \in SUBSET Sources
    BY DEF Init
  <2> QED
    BY <1>2, <2>1, <2>2, <2>3, <2>4, <2>5 DEF Shape
<1>4. Intact /\ Guarded /\ Located /\ Accounted
  BY DEF Init, Intact, Guarded, Located, Accounted, Working, BatchComplete
<1> QED
  BY <1>2, <1>3, <1>4 DEF IndInv

\* The router is submitted with whatever the batch still held.
LEMMA RouteInv ==
    ASSUME IndInv, NEW all \in Demands, Route(all)
    PROVE  IndInv'
<1> USE DEF IndInv
<1> DEFINE c == Submitted(active)
<1>1. c \in Submissions /\ c.reads = active
  BY DEF Submitted, Submissions, Shape
<1>2. /\ queue' \in Seq(Submissions)
      /\ Len(queue') = Len(queue) + 1
      /\ \A i \in 1 .. Len(queue) : queue'[i] = queue[i]
      /\ queue'[Len(queue) + 1] = c
  BY <1>1 DEF Route, Shape
<1> HIDE DEF c
<1>3. Shape'
  BY <1>2 DEF Route, Shape, Places, Demands
<1>4. PoolSound(pool)'
  BY DEF Route
<1>5. Intact'
  <2>1. ASSUME NEW i \in 1 .. Len(queue'), NEW map \in queue'[i].reads
        PROVE  Whole(map, pool)
    <3>1. CASE i \in 1 .. Len(queue)
      BY <1>2, <2>1, <3>1 DEF Intact
    <3>2. CASE i = Len(queue) + 1
      BY <1>1, <1>2, <2>1, <3>2 DEF Intact
    <3> QED
      BY <1>2, <3>1, <3>2 DEF Shape
  <2> QED
    BY <2>1 DEF Intact, Route
<1>6. all # {}
  BY FS_EmptySet, PrefillAssumption DEF Demands
<1>7. Guarded' /\ Located' /\ Accounted'
  BY <1>6 DEF Route, Guarded, Located, Accounted, Working, BatchComplete
<1> QED
  BY <1>3, <1>4, <1>5, <1>7

\* The route boundary: everything is retired, and the groups are planned.
LEMMA RoutedInv ==
    ASSUME IndInv, Routed
    PROVE  IndInv'
<1> USE DEF IndInv
<1> DEFINE chunks == Planned(demand, pool.capacity)
<1>1. queue' = <<>> /\ ran' = 0
  <2>1. queue' = <<>>
    BY NothingLeft DEF Routed, Retire, Shape
  <2>2. ran' = ran - Len(queue) /\ ran >= Len(queue)
    BY DEF Routed, Retire, Retirable
  <2> QED
    BY <2>1, <2>2 DEF Shape
<1>2. /\ chunks \in Seq(SUBSET Sources)
      /\ chunks # <<>>
      /\ demand = UNION {chunks[i] : i \in 1 .. Len(chunks)}
  BY CapacityRange, PlannedCovers DEF Shape
<1> HIDE DEF chunks
<1>3. \/ /\ plan' = chunks
         /\ overlap' = (Len(chunks) > 1)
         /\ pc' = "enter"
         /\ active' = active
      \/ /\ pc' = "drain" /\ active' = {}
         /\ plan' = plan /\ overlap' = overlap
  BY DEF Routed, Abort, chunks
<1>4. /\ pc = "routing" /\ active = {} /\ covered = {} /\ groups = <<>>
      /\ UNCHANGED <<pool, demand, covered, groups, slot>>
  BY DEF Routed, Located
<1>5. Shape'
  <2>1. plan' \in Seq(SUBSET Sources)
    BY <1>2, <1>3 DEF Shape
  <2>2. pc' \in Places /\ active' = {}
    BY <1>3, <1>4 DEF Places
  <2>3. overlap' \in BOOLEAN
    <3>1. (Len(chunks) > 1) \in BOOLEAN
      OBVIOUS
    <3>2. overlap' = (Len(chunks) > 1) \/ overlap' = overlap
      BY <1>3, Zenon
    <3>3. overlap \in BOOLEAN
      BY DEF Shape
    <3> QED
      BY <3>1, <3>2, <3>3, Zenon
  <2>4. queue' \in Seq(Submissions) /\ Len(queue') = 0
    BY <1>1, EmptySeq
  <2> QED
    BY <1>1, <1>4, <2>1, <2>2, <2>3, <2>4 DEF Shape
<1>6. PoolSound(pool)' /\ Intact' /\ Guarded'
  BY <1>1, <1>3, <1>4 DEF Intact, Guarded, Covers
<1>7. Located'
  <2>1. ~ (Len(chunks) > 1) => Len(chunks) = 1
    BY <1>2, OneChunk
  <2>2. pc' = "enter" /\ ~overlap' => Len(plan') = 1
    BY <1>3, <2>1, Zenon
  <2>3. demand # {}
    BY <1>4 DEF Located
  <2> QED
    BY <1>2, <1>3, <1>4, <2>2, <2>3 DEF Located, Working
<1>8. Accounted'
  BY <1>2, <1>3, <1>4 DEF Accounted, BatchComplete, Working
<1> QED
  BY <1>5, <1>6, <1>7, <1>8

\* The scope is entered, or the boundary of a single group is passed.
LEMMA EnterInv ==
    ASSUME IndInv, Enter
    PROVE  IndInv'
<1> USE DEF IndInv
<1>1. pc = "enter" /\ pc' \in {"retire", "load"} /\ groups = <<>>
      /\ UNCHANGED <<pool, plan, demand, covered, overlap, groups, slot, stream>>
  BY DEF Enter, Located
<1>2. Shape' /\ PoolSound(pool)' /\ Intact'
  BY <1>1 DEF Shape, Intact, stream, Places
<1>3. Guarded'
  BY <1>1 DEF Guarded, stream, Working
<1>4. Located' /\ Accounted'
  BY <1>1 DEF Located, Accounted, BatchComplete, Working, stream
<1> QED
  BY <1>2, <1>3, <1>4

\* Of two groups the older is retired, with all commands up to its marker.
LEMMA RetirePreviousInv ==
    ASSUME IndInv, RetirePrevious
    PROVE  IndInv'
<1> USE DEF IndInv
<1>0. pc = "retire" /\ UNCHANGED <<pool, plan, demand, covered, overlap, slot>>
  BY DEF RetirePrevious
<1>00. active = {} /\ Covers(queue, groups, pool)
  BY <1>0 DEF Guarded, Working
<1>1. CASE Len(groups) # 2
  <2>1. pc' = "load" /\ UNCHANGED <<groups, active, queue, ran>>
    BY <1>1 DEF RetirePrevious, stream
  <2>2. Len(groups) <= 1
    BY <1>1, FewGroups DEF Shape
  <2> QED
    BY <1>0, <2>1, <2>2 DEF Shape, Intact, Guarded, Located, Accounted, BatchComplete, Working, Places
<1>2. CASE Len(groups) = 2
  <2> DEFINE n == groups[1].mark
             g == [groups[2] EXCEPT !.mark = @ - n]
  <2>1. /\ groups[1] \in Groups /\ groups[2] \in Groups
        /\ groups[1].mark \in Nat /\ groups[2].mark \in Nat
        /\ groups[1].mark <= groups[2].mark
    <3>1. groups[1] \in Groups /\ groups[2] \in Groups
      BY <1>2, FewGroups DEF Shape
    <3>2. groups[1].mark <= groups[2].mark
      BY <1>0, <1>2 DEF Located
    <3> QED
      BY <3>1, <3>2 DEF Groups
  <2>2. /\ ran >= n /\ ran' = ran - n
        /\ queue' = SubSeq(queue, n + 1, Len(queue))
        /\ \/ pc' = "drain" /\ active' = {} /\ groups' = groups
           \/ groups' = <<g>> /\ pc' = "load" /\ active' = active
    BY <1>2 DEF RetirePrevious, Retirable, Retire, Abort
  <2>3. n \in 0 .. Len(queue)
    BY <2>1, <2>2 DEF Shape
  <2>4. /\ queue' \in Seq(Submissions)
        /\ Len(queue') = Len(queue) - n
        /\ \A i \in 1 .. Len(queue') : i + n \in 1 .. Len(queue) /\ queue'[i] = queue[i + n]
    BY <2>2, <2>3, Remaining DEF Shape
  <2>5. g \in Groups /\ g.map = groups[2].map /\ g.mark = groups[2].mark - n
    BY <2>1 DEF Groups
  <2> HIDE DEF n, g
  <2>6. ran' \in 0 .. Len(queue')
    BY <2>2, <2>3, <2>4 DEF Shape
  <2>7. Shape'
    <3>1. groups' \in Seq(Groups) /\ Len(groups') <= 2
      <4>1. CASE groups' = <<g>>
        <5>1. Len(groups') = 1
          BY <2>5, <4>1, OneGroup
        <5> QED
          BY <2>5, <4>1, <5>1, OneGroup
      <4>2. CASE groups' = groups
        BY <4>2 DEF Shape
      <4> QED
        BY <2>2, <4>1, <4>2
    <3>2. pc' \in Places /\ active' = {}
      BY <1>00, <2>2 DEF Places
    <3> QED
      BY <1>0, <2>4, <2>6, <3>1, <3>2 DEF Shape
  <2>8. Intact'
    BY <1>0, <1>00, <2>2, <2>4 DEF Intact
  <2>9. Guarded'
    <3> SUFFICES ASSUME pc' \in Working PROVE active' = {} /\ Covers(queue', groups', pool')
      BY DEF Guarded
    <3>1. groups' = <<g>> /\ active' = {}
      BY <1>00, <2>2 DEF Working
    <3>2. ASSUME NEW i \in 1 .. Len(queue'), NEW map \in queue'[i].reads
          PROVE  map = g.map /\ i <= g.mark
      <4>1. i + n \in 1 .. Len(queue) /\ map \in queue[i + n].reads
        BY <2>4, <3>2
      <4>2. PICK k \in 1 .. Len(groups) : map = groups[k].map /\ i + n <= groups[k].mark
        BY <1>00, <4>1 DEF Covers
      <4>3. i \in Nat /\ i >= 1
        BY <2>4 DEF Shape
      <4>4. k # 1
        BY <2>1, <2>3, <4>2, <4>3 DEF n
      <4>5. k = 2
        BY <1>2, <4>4
      <4> QED
        BY <2>1, <2>3, <2>5, <4>2, <4>3, <4>5
    <3>3. Published(g.map, pool) /\ g.mark <= Len(queue')
      BY <1>2, <1>00, <2>1, <2>3, <2>4, <2>5 DEF Covers, Shape
    <3>4. Len(groups') = 1 /\ groups'[1] = g
      BY <3>1
    <3> QED
      BY <1>0, <3>1, <3>2, <3>3, <3>4 DEF Covers
  <2>10. Located' /\ Accounted' /\ PoolSound(pool)'
    <3>1. Len(<<g>>) = 1
      BY <2>5, OneGroup
    <3>2. pc' \in {"load", "drain"} /\ (pc' = "load" => Len(groups') = 1)
      BY <2>2, <3>1
    <3>3. pc' = "load" => Len(groups') <= 1
      <4> HIDE DEF IndInv
      <4> DEFINE m == Len(groups')
      <4>1. pc' = "load" => m = 1
        BY <3>2
      <4> HIDE DEF m
      <4>2. pc' = "load" => m <= 1
        BY <4>1
      <4> QED
        BY <4>2 DEF m
    <3>4. Located'
      BY <1>0, <3>2, <3>3 DEF Located, Working
    <3> QED
      BY <1>0, <3>2, <3>4 DEF Accounted, BatchComplete, Working
  <2> QED
    BY <2>7, <2>8, <2>9, <2>10
<1> QED
  BY <1>1, <1>2

\* publish_replacement up to the write: the victim is in no group's map, so the
\* cover, and with it every outstanding reader, survives.
LEMMA EvictInv ==
    ASSUME IndInv, Evict
    PROVE  IndInv'
<1> USE DEF IndInv
<1>1. pc = "load" /\ pc' = "write" /\ UNCHANGED <<plan, demand, covered, overlap, groups, active, queue, ran>>
  BY DEF Evict, stream
<1>2. active = {} /\ Covers(queue, groups, pool) /\ plan # <<>>
  BY <1>1 DEF Guarded, Working, Located
<1>3. pool \in Pools /\ pool.capacity \in Capacities
  BY DEF Shape
<1>4. slot' \in Slots(pool.capacity)
      /\ (pool.expert_at[slot'] = Absent \/ pool.expert_at[slot'] \notin Protected)
  BY <1>3, ChosenSlot DEF Evict
<1>5. /\ Sane(pool')
      /\ pool'.capacity = pool.capacity
      /\ pool'.expert_at[slot'] = Absent
      /\ \A s \in Sources :
            pool'.slot_of[s] = IF pool.slot_of[s] = slot' THEN Absent ELSE pool.slot_of[s]
  BY <1>3, <1>4, UnpublishSane DEF Evict
<1>6. slot' \in 1 .. MaxSlots /\ slot' # 0
  <2>1. pool.capacity \in 1 .. MaxSlots
    BY <1>3, PoolFields
  <2>2. \A c \in 1 .. MaxSlots : \A n \in 1 .. c : n \in 1 .. MaxSlots /\ n # 0
    BY PoolAssumption
  <2> QED
    BY <1>4, <2>1, <2>2 DEF Slots
<1>7. ASSUME NEW k \in 1 .. Len(groups), NEW s \in DOMAIN groups[k].map
      PROVE  pool'.slot_of[s] = pool.slot_of[s]
  <2>1. s \in Sources /\ s \in Protected
    BY <1>2 DEF Covers, Published, Protected, ReaderSources
  <2>2. s # 0
    BY <2>1, PoolAssumption
  <2>3. pool.slot_of[s] # slot'
    <3>1. SUFFICES ASSUME pool.slot_of[s] = slot' PROVE FALSE
      OBVIOUS
    <3>2. pool.expert_at[slot'] = s
      BY <1>6, <2>1, <3>1 DEF PoolSound, Resident, Absent
    <3> QED
      BY <1>4, <2>1, <2>2, <3>2 DEF Absent
  <2> QED
    BY <1>5, <2>1, <2>3
<1>8. Covers(queue, groups, pool')
  BY <1>2, <1>7, CoverKept
<1>9. Shape'
  BY <1>1, <1>3, <1>5, <1>6 DEF Shape, Sane, Places
<1>10. PoolSound(pool')
  BY <1>5 DEF Sane
<1>11. Intact' /\ Guarded'
  <2>1. \A i \in 1 .. Len(queue) : \A map \in queue[i].reads : Whole(map, pool')
    BY <1>5, <1>8, CoveredWhole DEF Sane
  <2> QED
    BY <1>1, <1>2, <1>8, <2>1 DEF Intact, Guarded
<1>12. Missing(pool', plan[1]) # {}
  <2>1. plan[1] \in SUBSET Sources
    BY <1>2, PlanHead DEF Shape
  <2>2. PICK x \in plan[1] : x \notin Resident(pool)
    BY DEF Evict, Missing
  <2>3. x \notin Resident(pool')
    BY <1>5, <2>1, <2>2 DEF Resident
  <2> QED
    BY <2>2, <2>3 DEF Missing
<1>13. Located'
  BY <1>1, <1>4, <1>5, <1>12 DEF Located, Working
<1>14. Accounted'
  BY <1>1 DEF Accounted, BatchComplete, Working
<1> QED
  BY <1>9, <1>10, <1>11, <1>13, <1>14

\* publish_replacement after the write: a row that was missing, in the slot
\* that was emptied.
LEMMA WriteRowInv ==
    ASSUME IndInv, WriteRow
    PROVE  IndInv'
<1> USE DEF IndInv
<1> DEFINE missing == Missing(pool, plan[1])
           x == First(missing)
<1>1. /\ pc = "write" /\ pc' = "load" /\ slot' = Absent
      /\ UNCHANGED <<plan, demand, covered, overlap, groups, active, queue, ran>>
      /\ pool' = Publish(pool, x, slot)
  BY DEF WriteRow, stream
<1>2. active = {} /\ Covers(queue, groups, pool) /\ plan # <<>>
  BY <1>1 DEF Guarded, Working, Located
<1>3. pool \in Pools /\ pool.capacity \in Capacities
  BY DEF Shape
<1>4. slot \in Slots(pool.capacity) /\ pool.expert_at[slot] = Absent /\ missing # {}
  BY <1>1 DEF Located
<1>5. plan[1] \in SUBSET Sources
  BY <1>2, PlanHead DEF Shape
<1>6. x \in missing
  <2>1. missing \in SUBSET Nat
    BY <1>5, PoolAssumption DEF Missing
  <2> QED
    BY <1>4, <2>1, FirstMember
<1>7. x \in Sources \ Resident(pool)
  BY <1>5, <1>6 DEF Missing
<1> HIDE DEF missing, x
<1>8. /\ Sane(pool')
      /\ pool'.capacity = pool.capacity
      /\ \A s \in Sources : pool'.slot_of[s] = IF s = x THEN slot ELSE pool.slot_of[s]
  BY <1>1, <1>3, <1>4, <1>7, PublishSane
<1>9. ASSUME NEW k \in 1 .. Len(groups), NEW s \in DOMAIN groups[k].map
      PROVE  pool'.slot_of[s] = pool.slot_of[s]
  <2>1. s \in Sources /\ pool.slot_of[s] # Absent
    BY <1>2 DEF Covers, Published
  <2>2. s # x
    BY <1>7, <2>1 DEF Resident
  <2> QED
    BY <1>8, <2>1, <2>2
<1>10. Covers(queue, groups, pool')
  BY <1>2, <1>9, CoverKept
<1>11. Shape'
  <2>1. slot' \in 0 .. MaxSlots
    BY <1>1, PoolAssumption DEF Absent
  <2> QED
    BY <1>1, <1>3, <1>8, <2>1 DEF Shape, Sane, Places
<1>12. PoolSound(pool')
  BY <1>8 DEF Sane
<1>13. Intact' /\ Guarded'
  <2>1. \A i \in 1 .. Len(queue) : \A map \in queue[i].reads : Whole(map, pool')
    BY <1>8, <1>10, CoveredWhole DEF Sane
  <2> QED
    BY <1>1, <1>2, <1>10, <2>1 DEF Intact, Guarded
<1>14. Located' /\ Accounted'
  BY <1>1 DEF Located, Accounted, BatchComplete, Working
<1> QED
  BY <1>11, <1>12, <1>13, <1>14

\* A failure leaves the pool and what is submitted as they are.
LEMMA FailsInv ==
    ASSUME IndInv, LoadFails \/ EncodeFails
    PROVE  IndInv'
<1> USE DEF IndInv
<1>1. /\ pc' = "drain" /\ active' = {}
      /\ UNCHANGED <<pool, plan, demand, covered, overlap, groups, slot, queue, ran>>
  BY DEF LoadFails, EncodeFails, Abort
<1>2. Shape'
  BY <1>1 DEF Shape, Places
<1>3. PoolSound(pool') /\ Intact'
  BY <1>1 DEF Intact
<1>4. Guarded' /\ Located' /\ Accounted'
  BY <1>1 DEF Guarded, Located, Accounted, BatchComplete, Working
<1> QED
  BY <1>2, <1>3, <1>4

\* The group is resident: what its readers will use is what is published.
LEMMA LoadedInv ==
    ASSUME IndInv, Loaded
    PROVE  IndInv'
<1> USE DEF IndInv
<1> DEFINE g == [map |-> Captured, mark |-> 0]
<1>1. /\ pc = "load" /\ pc' = "encode" /\ Missing(pool, plan[1]) = {}
      /\ UNCHANGED <<pool, plan, demand, covered, overlap, slot, active, queue, ran>>
      /\ \/ overlap /\ groups' = Append(groups, g)
         \/ ~overlap /\ groups' = groups
  BY DEF Loaded, stream
<1>2. active = {} /\ Covers(queue, groups, pool) /\ plan # <<>> /\ Len(groups) <= 1
  BY <1>1 DEF Guarded, Working, Located
<1>3. pool \in Pools
  BY DEF Shape
<1>4. plan[1] \in SUBSET Sources
  BY <1>2, PlanHead DEF Shape
<1>5. Captured \in Maps /\ Published(Captured, pool)
  BY <1>1, <1>3, <1>4, CapturedPublished DEF Captured
<1>6. g \in Groups /\ g.map = Captured /\ g.mark = 0
  BY <1>5 DEF Groups
<1> HIDE DEF g
<1>7. groups \in Seq(Groups) /\ Len(groups) \in Nat /\ Len(queue) \in Nat
  BY LenProperties DEF Shape
<1>8. CASE overlap
  <2>1. /\ groups' \in Seq(Groups)
        /\ Len(groups') = Len(groups) + 1
        /\ \A k \in 1 .. Len(groups) : groups'[k] = groups[k]
        /\ groups'[Len(groups) + 1] = g
    BY <1>1, <1>6, <1>7, <1>8, AppendProperties
  <2>2. Len(groups') <= 2 /\ groups' # <<>>
    BY <1>2, <1>7, <2>1, EmptySeq
  <2>3. Covers(queue, groups', pool)
    <3>1. ASSUME NEW i \in 1 .. Len(queue), NEW map \in queue[i].reads
          PROVE  \E k \in 1 .. Len(groups') : map = groups'[k].map /\ i <= groups'[k].mark
      <4>1. PICK k \in 1 .. Len(groups) : map = groups[k].map /\ i <= groups[k].mark
        BY <1>2 DEF Covers
      <4>2. k \in 1 .. Len(groups') /\ groups'[k] = groups[k]
        BY <1>7, <2>1
      <4> QED
        BY <4>1, <4>2
    <3>2. ASSUME NEW k \in 1 .. Len(groups')
          PROVE  Published(groups'[k].map, pool) /\ groups'[k].mark <= Len(queue)
      <4>1. CASE k \in 1 .. Len(groups)
        BY <1>2, <2>1, <4>1 DEF Covers
      <4>2. CASE k = Len(groups) + 1
        BY <1>5, <1>6, <1>7, <2>1, <4>2
      <4> QED
        BY <1>7, <2>1, <4>1, <4>2
    <3> QED
      BY <3>1, <3>2 DEF Covers
  <2>4. Shape'
    BY <1>1, <2>1, <2>2 DEF Shape, Places
  <2>5. PoolSound(pool') /\ Intact' /\ Guarded'
    BY <1>1, <1>2, <2>3 DEF Intact, Guarded
  <2>6. Located' /\ Accounted'
    BY <1>1, <2>2 DEF Located, Accounted, BatchComplete, Working
  <2> QED
    BY <2>4, <2>5, <2>6
<1>9. CASE ~overlap
  <2>1. groups' = groups
    BY <1>1, <1>9
  <2>2. Shape' /\ PoolSound(pool') /\ Intact'
    BY <1>1, <2>1 DEF Shape, Places, Intact
  <2>3. Guarded' /\ Located' /\ Accounted'
    BY <1>1, <1>2, <1>9, <2>1 DEF Guarded, Located, Accounted, BatchComplete, Working
  <2> QED
    BY <2>2, <2>3
<1> QED
  BY <1>8, <1>9

\* submit_group: the newest group gets a marker behind its own command, which
\* is behind every other marker.
LEMMA SubmitGroupInv ==
    ASSUME IndInv, SubmitGroup
    PROVE  IndInv'
<1> USE DEF IndInv
<1> DEFINE n == Len(groups)
           l == Len(queue)
           c == Submitted(active \union {groups[n].map})
<1>1. /\ pc = "encode" /\ overlap /\ active' = {}
      /\ queue' = Append(queue, c)
      /\ groups' = [groups EXCEPT ![n].mark = Len(queue')]
      /\ covered' = covered \union plan[1] /\ plan' = Tail(plan)
      /\ pc' = IF Len(plan) = 1 THEN "idle" ELSE "retire"
      /\ UNCHANGED <<pool, demand, overlap, slot, ran>>
  BY DEF SubmitGroup
<1>2. active = {} /\ Covers(queue, groups, pool) /\ plan # <<>> /\ groups # <<>> /\ demand # {}
  BY <1>1 DEF Guarded, Working, Located
<1>3. groups \in Seq(Groups) /\ n \in Nat /\ n # 0 /\ n <= 2 /\ l \in Nat
  BY <1>2, LenProperties, EmptySeq DEF Shape
<1>4. n \in 1 .. n
  BY <1>3
<1>5. groups[n] \in Groups
  BY <1>3, <1>4, ElementOfSeq
<1>6. c \in Submissions /\ c.reads = {groups[n].map}
  BY <1>2, <1>5 DEF Submitted, Submissions, Groups
<1>7. /\ queue' \in Seq(Submissions)
      /\ Len(queue') = l + 1
      /\ \A i \in 1 .. l : queue'[i] = queue[i]
      /\ queue'[l + 1] = c
      /\ \A i \in 1 .. Len(queue') : i \in 1 .. l \/ i = l + 1
  BY <1>1, <1>6, Appended DEF Shape
<1>8. /\ groups' \in Seq(Groups)
      /\ Len(groups') = n
      /\ groups'[n].map = groups[n].map /\ groups'[n].mark = l + 1
      /\ \A k \in 1 .. n : k # n => groups'[k] = groups[k]
  <2> DEFINE g == [groups[n] EXCEPT !.mark = l + 1]
  <2>1. groups' = [groups EXCEPT ![n] = g]
    BY <1>1, <1>7
  <2>2. g \in Groups /\ g.map = groups[n].map /\ g.mark = l + 1
    BY <1>3, <1>5 DEF Groups
  <2> HIDE DEF g
  <2>3. /\ groups' \in Seq(Groups)
        /\ Len(groups') = n
        /\ \A k \in 1 .. n : groups'[k] = IF k = n THEN g ELSE groups[k]
    BY <1>3, <1>4, <2>1, <2>2, ExceptSeq
  <2> QED
    BY <1>4, <2>2, <2>3
<1> HIDE DEF n, l, c
<1>9. /\ plan' \in Seq(SUBSET Sources)
      /\ plan[1] \in SUBSET Sources
      /\ UNION {plan[i] : i \in 1 .. Len(plan)}
           = plan[1] \union UNION {plan'[i] : i \in 1 .. Len(plan')}
      /\ Len(plan) = 1 => UNION {plan[i] : i \in 1 .. Len(plan)} = plan[1]
      /\ Len(plan) # 1 => plan' # <<>>
  BY ZenonT(40), <1>1, <1>2, PlanHead DEF Shape
<1>10. Covers(queue', groups', pool)
  <2>1. ASSUME NEW i \in 1 .. Len(queue'), NEW map \in queue'[i].reads
        PROVE  \E k \in 1 .. n : map = groups'[k].map /\ i <= groups'[k].mark
    <3>1. CASE i \in 1 .. l
      <4>1. PICK k \in 1 .. n : map = groups[k].map /\ i <= groups[k].mark
        BY <1>2, <1>7, <2>1, <3>1 DEF Covers, n, l
      <4>2. CASE k = n
        BY <1>3, <1>8, <3>1, <4>1, <4>2
      <4>3. CASE k # n
        BY <1>8, <4>1, <4>3
      <4> QED
        BY <4>2, <4>3
    <3>2. CASE i = l + 1
      <4>1. map = groups'[n].map /\ i <= groups'[n].mark
        BY <1>3, <1>6, <1>7, <1>8, <2>1, <3>2
      <4> QED
        BY <1>4, <4>1
    <3> QED
      BY <1>7, <3>1, <3>2
  <2>2. ASSUME NEW k \in 1 .. n
        PROVE  Published(groups'[k].map, pool) /\ groups'[k].mark <= l + 1
    <3>1. Published(groups[k].map, pool) /\ groups[k].mark <= l
      BY <1>2 DEF Covers, n, l
    <3>2. groups[k].mark \in Nat
      <4>1. groups[k] \in Groups
        BY <1>3, ElementOfSeq DEF n
      <4> QED
        BY <4>1 DEF Groups
    <3> QED
      BY <1>3, <1>8, <3>1, <3>2
  <2> QED
    BY <1>7, <1>8, <2>1, <2>2 DEF Covers
<1>11. Shape'
  <2>1. ran' \in 0 .. Len(queue')
    BY <1>1, <1>3, <1>7 DEF Shape, l
  <2>2. pc' \in Places /\ active' \in SUBSET Maps
    BY <1>1 DEF Places
  <2>3. Len(groups') <= 2
    BY <1>3, <1>8
  <2>4. covered' \in SUBSET Sources
    BY <1>1, <1>9 DEF Shape
  <2> QED
    BY <1>1, <1>7, <1>8, <1>9, <2>1, <2>2, <2>3, <2>4 DEF Shape
<1>12. PoolSound(pool') /\ Intact' /\ Guarded'
  <2>1. \A i \in 1 .. Len(queue') : \A map \in queue'[i].reads : Whole(map, pool)
    BY <1>10, CoveredWhole DEF Shape
  <2> QED
    BY <1>1, <1>10, <2>1 DEF Intact, Guarded
<1>13. Located'
  <2>1. n = 2 => groups'[1].mark <= groups'[2].mark
    <3>1. SUFFICES ASSUME n = 2 PROVE groups'[1].mark <= groups'[2].mark
      OBVIOUS
    <3>2. groups'[1] = groups[1] /\ groups[1] \in Groups /\ groups[1].mark <= l
      <4>1. 1 \in 1 .. n /\ 1 # n
        BY <3>1
      <4>2. groups[1] \in Groups
        BY <1>3, <4>1, ElementOfSeq DEF n
      <4>3. groups[1].mark <= l
        BY <1>2, <4>1 DEF Covers, n, l
      <4> QED
        BY <1>8, <4>1, <4>2, <4>3
    <3>3. groups'[2].mark = l + 1
      BY <1>8, <3>1
    <3> QED
      BY <1>3, <3>2, <3>3 DEF Groups
  <2> QED
    BY <1>1, <1>2, <1>8, <1>9, <2>1 DEF Located, Working
<1>14. Accounted'
  <2>1. demand = covered \union UNION {plan[i] : i \in 1 .. Len(plan)}
    BY <1>1 DEF Accounted, Working
  <2>2. Len(plan) = 1 => covered' = demand
    BY <1>1, <1>9, <2>1
  <2>3. demand = covered' \union UNION {plan'[i] : i \in 1 .. Len(plan')}
    BY <1>1, <1>9, <2>1
  <2> QED
    BY <1>1, <2>2, <2>3 DEF Accounted, BatchComplete
<1> QED
  BY <1>11, <1>12, <1>13, <1>14

\* A single group is encoded with the slots it was captured with.
LEMMA EncodeGroupInv ==
    ASSUME IndInv, EncodeGroup
    PROVE  IndInv'
<1> USE DEF IndInv
<1>1. /\ pc = "encode" /\ ~overlap /\ pc' = "idle"
      /\ active' = active \union {Captured}
      /\ covered' = covered \union plan[1] /\ plan' = Tail(plan)
      /\ UNCHANGED <<pool, demand, overlap, groups, slot, queue, ran>>
  BY DEF EncodeGroup
<1>2. /\ active = {} /\ plan # <<>> /\ Len(plan) = 1 /\ demand # {}
      /\ Missing(pool, plan[1]) = {}
  BY <1>1 DEF Guarded, Working, Located
<1>3. /\ plan' \in Seq(SUBSET Sources)
      /\ plan[1] \in SUBSET Sources
      /\ UNION {plan[i] : i \in 1 .. Len(plan)} = plan[1]
  BY <1>1, <1>2, PlanHead DEF Shape
<1>4. Captured \in Maps /\ Published(Captured, pool)
  BY <1>2, <1>3, CapturedPublished DEF Captured, Shape
<1>5. Whole(Captured, pool)
  BY <1>4, PublishedWhole DEF Shape
<1>6. Shape'
  BY <1>1, <1>3, <1>4 DEF Shape, Places
<1>7. PoolSound(pool') /\ Intact' /\ Guarded'
  BY <1>1, <1>2, <1>5 DEF Intact, Guarded, Working
<1>8. Located'
  BY <1>1, <1>2 DEF Located, Working
<1>9. Accounted'
  <2>1. demand = covered \union UNION {plan[i] : i \in 1 .. Len(plan)}
    BY <1>1 DEF Accounted, Working
  <2>2. covered' = demand
    BY <1>1, <1>3, <2>1
  <2> QED
    BY <1>1, <2>2 DEF Accounted, BatchComplete, Working
<1> QED
  BY <1>6, <1>7, <1>8, <1>9

\* `finish` gives up the scope.
LEMMA ReturnInv ==
    ASSUME IndInv, Return
    PROVE  IndInv'
<1> USE DEF IndInv
<1>1. /\ pc = "idle" /\ demand' = {} /\ covered' = {} /\ overlap' = FALSE /\ groups' = <<>>
      /\ UNCHANGED <<pool, pc, plan, slot, active, queue, ran>>
  BY DEF Return, stream
<1>2. groups' \in Seq(Groups) /\ Len(groups') = 0
  BY <1>1, EmptySeq
<1>3. Shape'
  <2>1. overlap' \in BOOLEAN /\ demand' \in SUBSET Sources /\ covered' \in SUBSET Sources
    BY <1>1
  <2>2. Len(groups') <= 2
    BY <1>2
  <2>3. pool' \in Pools /\ pool'.capacity \in Capacities /\ pc' \in Places /\ slot' \in 0 .. MaxSlots
    BY <1>1 DEF Shape
  <2>4. /\ plan' \in Seq(SUBSET Sources) /\ active' \in SUBSET Maps
        /\ queue' \in Seq(Submissions) /\ ran' \in 0 .. Len(queue')
    BY <1>1 DEF Shape
  <2> QED
    BY <1>2, <2>1, <2>2, <2>3, <2>4 DEF Shape
<1>4. PoolSound(pool') /\ Intact' /\ Guarded'
  BY <1>1 DEF Intact, Guarded, Working
<1>5. Located' /\ Accounted'
  BY <1>1 DEF Located, Accounted, BatchComplete, Working
<1> QED
  BY <1>3, <1>4, <1>5

\* The stream is settled: what was encoded is submitted or dropped.
LEMMA SettleInv ==
    ASSUME IndInv, NEW keep \in BOOLEAN, Settle(keep)
    PROVE  IndInv'
<1> USE DEF IndInv
<1> DEFINE c == Submitted(active)
<1>1. /\ pc' = "drain" /\ active' = {}
      /\ queue' = Append(queue, c) \/ queue' = queue
      /\ UNCHANGED <<pool, plan, demand, covered, overlap, groups, slot, ran>>
  BY DEF Settle
<1>2. c \in Submissions /\ c.reads = active
  BY DEF Submitted, Submissions, Shape
<1> HIDE DEF c
<1>3. /\ queue' \in Seq(Submissions)
      /\ ran' \in 0 .. Len(queue')
      /\ \A i \in 1 .. Len(queue') : \A map \in queue'[i].reads : Whole(map, pool)
  <2>1. CASE queue' = queue
    BY <1>1, <2>1 DEF Shape, Intact
  <2>2. CASE queue' = Append(queue, c)
    <3>1. /\ queue' \in Seq(Submissions)
          /\ Len(queue) \in Nat
          /\ Len(queue') = Len(queue) + 1
          /\ \A i \in 1 .. Len(queue) : queue'[i] = queue[i]
          /\ queue'[Len(queue) + 1] = c
          /\ \A i \in 1 .. Len(queue') : i \in 1 .. Len(queue) \/ i = Len(queue) + 1
      BY <1>2, <2>2, Appended DEF Shape
    <3>2. ASSUME NEW i \in 1 .. Len(queue'), NEW map \in queue'[i].reads
          PROVE  Whole(map, pool)
      <4>1. CASE i \in 1 .. Len(queue)
        BY <3>1, <3>2, <4>1 DEF Intact
      <4>2. CASE i = Len(queue) + 1
        BY <1>2, <3>1, <3>2, <4>2 DEF Intact
      <4> QED
        BY <3>1, <4>1, <4>2
    <3> QED
      BY <1>1, <3>1, <3>2 DEF Shape
  <2> QED
    BY <1>1, <2>1, <2>2
<1>4. Shape'
  BY <1>1, <1>3 DEF Shape, Places
<1>5. PoolSound(pool') /\ Intact'
  BY <1>1, <1>3 DEF Intact
<1>6. Guarded' /\ Located' /\ Accounted'
  BY <1>1 DEF Guarded, Located, Accounted, BatchComplete, Working
<1> QED
  BY <1>4, <1>5, <1>6

\* A resize happens when no command holds the pool: there is no reader at all.
LEMMA ResizeInv ==
    ASSUME IndInv, NEW target \in Capacities, Resize(target)
    PROVE  IndInv'
<1> USE DEF IndInv
<1>1. /\ pc = "idle"
      /\ UNCHANGED <<pc, plan, demand, covered, overlap, groups, slot, active, queue, ran>>
  BY DEF Resize, owner, stream
<1>2. active = {} /\ \A i \in 1 .. Len(queue) : queue[i].reads = {}
  BY DEF Resize, Reserved
<1>3. pool \in Pools /\ pool.capacity \in 1 .. MaxSlots /\ target \in 1 .. MaxSlots
  BY CapacityRange, PoolFields DEF Shape
<1>4. Sane(pool') /\ pool'.capacity = target
  <2>1. CASE target < pool.capacity
    BY <1>3, <2>1, ReleaseSane DEF Resize
  <2>2. CASE ~ (target < pool.capacity)
    <3>1. target >= pool.capacity
      BY <1>3, <2>2, PoolAssumption
    <3> QED
      BY <1>3, <2>2, <3>1, GrowSane DEF Resize
  <2> QED
    BY <2>1, <2>2
<1>5. Shape'
  BY <1>1, <1>4 DEF Shape, Sane
<1>6. PoolSound(pool')
  BY <1>4 DEF Sane
<1>7. Intact' /\ Guarded'
  BY <1>1, <1>2 DEF Intact, Guarded, Working
<1>8. Located' /\ Accounted'
  BY <1>1 DEF Located, Accounted, BatchComplete, Working
<1> QED
  BY <1>5, <1>6, <1>7, <1>8

\* The device completes a command: who reads what does not change.
LEMMA GpuInv ==
    ASSUME IndInv, NEW ok \in BOOLEAN, GpuCompletes(ok)
    PROVE  IndInv'
<1> USE DEF IndInv
<1> DEFINE n == ran + 1
           c == [queue[n] EXCEPT !.error = ~ok]
<1>1. /\ ran' = n /\ ran < Len(queue)
      /\ queue' = [queue EXCEPT ![n] = c]
      /\ UNCHANGED <<pool, pc, plan, demand, covered, overlap, groups, slot, active>>
  BY DEF GpuCompletes, owner
<1>2. n \in 1 .. Len(queue) /\ n \in 0 .. Len(queue)
  BY <1>1, LenProperties DEF Shape
<1>3. queue[n] \in Submissions
  BY <1>2, ElementOfSeq DEF Shape
<1>4. c \in Submissions /\ c.reads = queue[n].reads
  BY <1>3 DEF Submissions
<1> HIDE DEF n, c
<1>5. /\ queue' \in Seq(Submissions)
      /\ Len(queue') = Len(queue)
      /\ \A i \in 1 .. Len(queue) : queue'[i].reads = queue[i].reads
  <2>1. /\ queue' \in Seq(Submissions)
        /\ Len(queue') = Len(queue)
        /\ \A i \in 1 .. Len(queue) : queue'[i] = IF i = n THEN c ELSE queue[i]
    BY <1>1, <1>2, <1>4, ExceptSeq DEF Shape
  <2> QED
    BY <1>4, <2>1
<1>6. Shape'
  BY <1>1, <1>2, <1>5 DEF Shape
<1>7. PoolSound(pool') /\ Intact'
  BY <1>1, <1>5 DEF Intact
<1>8. Guarded'
  BY <1>1, <1>5 DEF Guarded, Covers
<1>9. Located' /\ Accounted'
  BY <1>1 DEF Located, Accounted, BatchComplete
<1> QED
  BY <1>6, <1>7, <1>8, <1>9

\* After a drain nothing is outstanding.
LEMMA DrainedInv ==
    ASSUME IndInv, Drained
    PROVE  IndInv'
<1> USE DEF IndInv
<1>1. /\ pc' = "idle" /\ plan' = <<>> /\ demand' = {} /\ covered' = {}
      /\ overlap' = FALSE /\ groups' = <<>> /\ slot' = Absent
      /\ UNCHANGED <<pool, active>>
  BY DEF Drained
<1>2. queue' = <<>>
  BY NothingLeft DEF Drained, Retire, Shape
<1>3. ran' = 0
  <2>1. ran' = ran - Len(queue) /\ ran >= Len(queue)
    BY DEF Drained, Retire, Retirable
  <2> QED
    BY <2>1 DEF Shape
<1>4. /\ plan' \in Seq(SUBSET Sources) /\ groups' \in Seq(Groups) /\ queue' \in Seq(Submissions)
      /\ Len(groups') = 0 /\ Len(queue') = 0
  BY <1>1, <1>2, EmptySeq
<1>5. slot' \in 0 .. MaxSlots
  BY <1>1, PoolAssumption DEF Absent
<1>6. Shape'
  <2>1. /\ overlap' \in BOOLEAN /\ demand' \in SUBSET Sources /\ covered' \in SUBSET Sources
        /\ pc' \in Places
    BY <1>1 DEF Places
  <2>2. Len(groups') <= 2 /\ ran' \in 0 .. Len(queue')
    BY <1>3, <1>4
  <2>3. pool' \in Pools /\ pool'.capacity \in Capacities /\ active' \in SUBSET Maps
    BY <1>1 DEF Shape
  <2> QED
    BY <1>4, <1>5, <2>1, <2>2, <2>3 DEF Shape
<1>7. PoolSound(pool') /\ Intact' /\ Guarded'
  BY <1>1, <1>4 DEF Intact, Guarded, Working
<1>8. Located' /\ Accounted'
  BY <1>1 DEF Located, Accounted, BatchComplete, Working
<1> QED
  BY <1>6, <1>7, <1>8

-----------------------------------------------------------------------------
(* The theorems *)

\* No step of the owner, the device or the engine breaks the invariant.
LEMMA StepInv == IndInv /\ [Next]_vars => IndInv'
<1> SUFFICES ASSUME IndInv, [Next]_vars PROVE IndInv'
  OBVIOUS
<1>1. CASE OwnerStep
  BY <1>1, RoutedInv, EnterInv, RetirePreviousInv, EvictInv, WriteRowInv, LoadedInv,
     SubmitGroupInv, EncodeGroupInv, ReturnInv, DrainedInv DEF OwnerStep
<1>2. CASE GpuStep
  <2>1. PICK ok \in Outcomes : GpuCompletes(ok)
    BY <1>2 DEF GpuStep
  <2>2. ok \in BOOLEAN
    BY PrefillAssumption, Zenon
  <2> QED
    BY <2>1, <2>2, GpuInv, Zenon
<1>3. CASE OwnerFails
  BY <1>3, FailsInv DEF OwnerFails
<1>4. CASE \E all \in Demands : Route(all)
  BY <1>4, RouteInv
<1>5. CASE \E keep \in BOOLEAN : Settle(keep)
  BY <1>5, SettleInv, Zenon
<1>6. CASE \E target \in Capacities : Resize(target)
  BY <1>6, ResizeInv
<1>7. CASE UNCHANGED vars
  <2>1. UNCHANGED <<pool, pc, plan, demand, covered, overlap, groups, slot, active, queue, ran>>
    BY <1>7 DEF vars, owner, stream
  <2>2. Shape' /\ PoolSound(pool') /\ Intact'
    BY <2>1 DEF IndInv, Shape, Intact
  <2>3. Guarded' /\ Located' /\ Accounted'
    BY <2>1 DEF IndInv, Guarded, Located, Accounted, BatchComplete
  <2> QED
    BY <2>2, <2>3 DEF IndInv
<1> QED
  BY <1>1, <1>2, <1>3, <1>4, <1>5, <1>6, <1>7, Zenon DEF Next

\* The invariant holds in every state of every batch.
THEOREM Invariant == Spec => []IndInv
<1> QED
  BY InitInv, StepInv, PTL DEF Spec

\* Every variable keeps its type: plans, groups and markers, outstanding
\* commands and the pool.
THEOREM TypeCorrect == Spec => []TypeOK
<1>1. IndInv => TypeOK
  <2> SUFFICES ASSUME Shape PROVE TypeOK
    BY DEF IndInv
  <2>1. \A i \in 1 .. Len(plan) : plan[i] \in SUBSET Sources
    BY ElementOfSeq DEF Shape
  <2>2. \A i \in 1 .. Len(groups) : groups[i].map \in Maps /\ groups[i].mark \in Nat
    <3>1. \A i \in 1 .. Len(groups) : groups[i] \in Groups
      BY ElementOfSeq DEF Shape
    <3> QED
      BY <3>1 DEF Groups
  <2>3. \A i \in 1 .. Len(queue) : queue[i].reads \subseteq Maps /\ queue[i].error \in BOOLEAN
    <3>1. \A i \in 1 .. Len(queue) : queue[i] \in Submissions
      BY ElementOfSeq DEF Shape
    <3> QED
      BY <3>1 DEF Submissions
  <2> QED
    BY <2>1, <2>2, <2>3 DEF Shape, TypeOK
<1> QED
  BY <1>1, Invariant, PTL

\* What the expert pool publishes is complete and in its slot, at every step
\* of every batch: through evictions, failed writes and resizes.
THEOREM PoolAlwaysSound == Spec => []PoolIsSound
<1>1. IndInv => PoolIsSound
  BY DEF IndInv, PoolIsSound
<1> QED
  BY <1>1, Invariant, PTL

\* No outstanding reader ever loses a row, although the loader overwrites the
\* pool while the device reads it.
THEOREM ReadersKeepRows == Spec => []ReadersIntact
<1>1. IndInv => ReadersIntact
  <2> SUFFICES ASSUME IndInv,
                      NEW map \in active \union UNION {queue[i].reads : i \in ran + 1 .. Len(queue)}
               PROVE  \A s \in DOMAIN map : pool.bytes[map[s]] = s
    BY DEF ReadersIntact
  <2>1. CASE map \in active
    BY <2>1 DEF IndInv, Intact, Whole
  <2>2. CASE map \notin active
    <3>1. PICK i \in ran + 1 .. Len(queue) : map \in queue[i].reads
      BY <2>2
    <3>2. i \in 1 .. Len(queue)
      BY <3>1 DEF IndInv, Shape
    <3> QED
      BY <3>1, <3>2 DEF IndInv, Intact, Whole
  <2> QED
    BY <2>1, <2>2
<1> QED
  BY <1>1, Invariant, PTL

\* A batch that returns has read every expert it selected, however it was cut
\* into groups.
THEOREM BatchesComplete == Spec => []BatchComplete
<1>1. IndInv => BatchComplete
  BY DEF IndInv, Accounted
<1> QED
  BY <1>1, Invariant, PTL

=============================================================================
