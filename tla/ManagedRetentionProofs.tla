------------------------ MODULE ManagedRetentionProofs ------------------------
(***************************************************************************)
(* What processes that share one managed cache base keep true of it, for   *)
(* any number of processes, roots, entries, checkpoint sizes and limits.   *)
(***************************************************************************)
EXTENDS ManagedRetention, RetainProofs, FiniteSetTheorems

-----------------------------------------------------------------------------
(* Sets and sequences *)

\* A store has one payload slot more than entries: one is spare.
LEMMA SlotSpare ==
    ASSUME NEW s \in Seq(Slots), Len(s) <= MaxEntries
    PROVE  Slots \ ToSet(s) # {}
<1> SUFFICES ASSUME Slots \subseteq ToSet(s) PROVE FALSE
  OBVIOUS
<1>0. MaxEntries \in Nat
  BY RetentionAssumption
<1>1. Len(s) \in Nat /\ DOMAIN s = 1 .. Len(s) /\ s \in [1 .. Len(s) -> Slots]
  BY LenProperties
<1>2. s \in Surjection(1 .. Len(s), Slots)
  <2>1. \A x \in Slots : \E i \in 1 .. Len(s) : s[i] = x
    BY <1>1 DEF ToSet
  <2> QED
    BY <2>1, <1>1 DEF Surjection
<1>3. ExistsSurjection(1 .. Len(s), Slots)
  BY <1>2 DEF ExistsSurjection
<1>4. Cardinality(Slots) <= Len(s)
  BY <1>1, <1>3, FS_SurjCardinalityBound
<1>5. Cardinality(0 .. MaxEntries) = MaxEntries - 0 + 1
  <2>1. 0 \in Int /\ MaxEntries \in Int /\ ~ (0 > MaxEntries)
    BY <1>0
  <2> QED
    BY <2>1, FS_Interval
<1> QED
  BY <1>0, <1>1, <1>4, <1>5 DEF Slots

\* The head and the tail of what is still to be measured.
LEMMA TodoSplits ==
    ASSUME NEW T, NEW s \in Seq(T), s # <<>>
    PROVE  /\ Head(s) \in T /\ Tail(s) \in Seq(T)
           /\ ToSet(s) = ToSet(Tail(s)) \cup {Head(s)}
<1>1. Head(s) \in T /\ Tail(s) \in Seq(T) /\ Len(Tail(s)) = Len(s) - 1
      /\ \A i \in 1 .. Len(Tail(s)) : Tail(s)[i] = s[i + 1]
  BY HeadTailProperties
<1>2. Len(s) \in Nat \ {0} /\ DOMAIN s = 1 .. Len(s)
  BY EmptySeq, LenProperties
<1>3. DOMAIN Tail(s) = 1 .. Len(Tail(s))
  BY <1>1, LenProperties
<1>4. Head(s) = s[1]
  BY <1>2
<1>5. \A i \in 1 .. Len(s) : i = 1 \/ i - 1 \in 1 .. Len(Tail(s))
  BY <1>1, <1>2
<1>6. \A i \in 1 .. Len(Tail(s)) : i + 1 \in 1 .. Len(s)
  BY <1>1, <1>2
<1>7. ASSUME NEW x \in ToSet(s) PROVE x \in ToSet(Tail(s)) \cup {Head(s)}
  <2>1. PICK i \in 1 .. Len(s) : s[i] = x
    BY <1>2 DEF ToSet
  <2>2. CASE i = 1
    BY <2>1, <2>2, <1>4
  <2>3. CASE i - 1 \in 1 .. Len(Tail(s))
    <3>1. Tail(s)[i - 1] = s[i - 1 + 1] /\ i - 1 + 1 = i
      BY <2>3, <1>1, <1>2
    <3> QED
      BY <3>1, <2>1, <2>3, <1>3 DEF ToSet
  <2> QED
    BY <2>2, <2>3, <1>5
<1>8. ASSUME NEW x \in ToSet(Tail(s)) PROVE x \in ToSet(s)
  <2>1. PICK i \in 1 .. Len(Tail(s)) : Tail(s)[i] = x
    BY <1>3 DEF ToSet
  <2> QED
    BY <2>1, <1>1, <1>6, <1>2 DEF ToSet
<1>9. Head(s) \in ToSet(s)
  <2>1. 1 \in 1 .. Len(s)
    BY <1>2
  <2> QED
    BY <2>1, <1>4, <1>2 DEF ToSet
<1> QED
  BY <1>1, <1>7, <1>8, <1>9

-----------------------------------------------------------------------------
(* The inductive invariant *)

\* What a process can be.
Places == {"absent", "idle", "prune", "unlink", "reserve", "measure", "clear",
           "write", "rename", "index", "release"}
ProcStates ==
    [ at       : Places,
      root     : Native \cup {Nobody},
      limit    : Nat,
      index    : Seq(Slots),
      incoming : Nat,
      kept     : Seq(Slots),
      todo     : Seq(Roots),
      held     : SUBSET Roots,
      bytes    : [Roots -> Nat],
      other    : Int,
      target   : Roots \cup {Nobody},
      drop     : SUBSET Leaves,
      then     : {"none", "reserve", "idle", "release"} ]

Types ==
    /\ root \in [Roots -> RootStates]
    /\ proc \in [Processes -> ProcStates]
    /\ order \in Seq(Roots)

\* What was measured in the roots, as `by` says, without those in `out`.
Counted(by, out, i) == IF i = 0 \/ Names[i] \in out THEN 0 ELSE by[Names[i]]
RootSum(by, out) == SumTo([i \in 0 .. Len(Names) |-> Counted(by, out, i)], Len(Names))

\* The roots that `other` does not count: those not measured yet, and the
\* process's own.
Uncounted(p) == ToSet(proc[p].todo) \cup {proc[p].root}

\* reserve has returned to no caller yet, or its caller has not returned.
Reserving(p) ==
    \/ proc[p].at \in {"measure", "clear", "write", "rename", "index", "release"}
    \/ proc[p].at \in {"prune", "unlink"} /\ proc[p].then = "release"

\* A live process has the lock of its own root and of those reserve took.
Owns(p) ==
    /\ proc[p].at = "absent" => proc[p] = Absent
    /\ proc[p].at # "absent" =>
          /\ proc[p].root \in Native
          /\ Mine(p).lock = p
          /\ Mine(p).named = proc[p].index
    /\ \A r \in proc[p].held : r # proc[p].root /\ root[r].lock = p

\* Where it can go from where it is.
Course(p) ==
    /\ proc[p].at = "clear" => proc[p].target \in proc[p].held
    /\ proc[p].at # "measure" => proc[p].todo = <<>>
    /\ proc[p].at = "prune" => proc[p].then \in {"reserve", "release"}
    /\ proc[p].at = "unlink" => proc[p].then \in {"reserve", "release", "idle"}
    /\ proc[p].at \in {"write", "rename", "index"} => proc[p].then = "release"
    /\ Reserving(p) <=> retention = p

\* The entries a save keeps are indexed, and reserve granted their bytes.
Keeps(p) ==
    /\ \/ proc[p].at \in {"reserve", "measure", "clear", "write", "rename", "index"}
       \/ proc[p].at = "unlink" /\ proc[p].then = "reserve"
       => ToSet(proc[p].kept) \subseteq ToSet(proc[p].index)
    /\ proc[p].at \in {"write", "rename", "index"} => proc[p].incoming \in 1 .. Allowance(p)

\* Which leaves its root can hold beside those the index names.
Beside(p) ==
    CASE proc[p].at = "rename" -> {Temp}
      [] proc[p].at = "index" -> {Spare(p)}
      [] proc[p].at = "unlink" -> proc[p].drop
      [] OTHER -> {}

Clean(p) ==
    /\ \/ proc[p].at \in {"reserve", "measure", "clear", "write", "rename", "index", "release"}
       \/ proc[p].at = "unlink" /\ proc[p].then \in {"reserve", "release"}
       => Present(Mine(p)) \subseteq ToSet(proc[p].index) \cup Beside(p)
    /\ proc[p].at = "unlink" => proc[p].drop \cap ToSet(proc[p].index) = {}
    /\ proc[p].at = "index" => Mine(p).leaf[Spare(p)] = proc[p].incoming

\* `other` covers what was measured, and no native root outgrows its measure
\* before the reservation ends; a legacy root may.
Observed(p) ==
    /\ RootSum(proc[p].bytes, Uncounted(p)) <= proc[p].other
    /\ \A r \in Native : r \notin Uncounted(p) => Bytes(root[r]) <= proc[p].bytes[r]

\* What it may keep, and what others keep.
Budget(p) ==
    /\ proc[p].at = "release" \/ (proc[p].at = "unlink" /\ proc[p].then = "release")
       => LiveBytes(Mine(p), proc[p].index) <= Allowance(p)
    /\ retention = p => Observed(p)

\* No index names a payload that is gone, or every slot.
RootSound(r) ==
    /\ ToSet(root[r].named) \cup root[r].attached \subseteq Present(root[r])
    /\ Slots \ ToSet(root[r].named) # {}
    /\ r \in Native => root[r].attached = {}

Sound(p) == Owns(p) /\ Course(p) /\ Keeps(p) /\ Clean(p)

Safe ==
    /\ Types
    /\ \A r \in Roots : RootSound(r)
    /\ \A p \in Processes : Sound(p)

IndInv == Safe /\ \A p \in Processes : Budget(p)

-----------------------------------------------------------------------------
(* One root *)

LEMMA LeafFacts ==
    /\ Temp \in Nat /\ MaxEntries \in Nat /\ Slots \subseteq Leaves /\ Leaves \subseteq Nat
    /\ Temp \in Leaves /\ Temp \notin Slots
BY RetentionAssumption DEF Temp, Leaves, Slots

\* The bytes of a root are a number, none without leaves.
LEMMA BytesFacts ==
    ASSUME NEW r \in RootStates
    PROVE  /\ Bytes(r) \in Nat
           /\ \A l \in Leaves : r.leaf[l] \in Nat
           /\ Present(r) = {} => Bytes(r) = 0
<1>1. \A l \in 0 .. Temp : r.leaf[l] \in Nat
  BY DEF RootStates, Leaves
<1>2. Bytes(r) \in Nat /\ ((\A l \in 0 .. Temp : r.leaf[l] = 0) => Bytes(r) = 0)
  BY <1>1, SumTerm, LeafFacts DEF Bytes
<1> QED
  BY <1>1, <1>2 DEF Present, Leaves

\* A root whose lock, index, companion index or one leaf is written.
LEMMA WithLock ==
    ASSUME NEW r \in RootStates, NEW k \in Processes \cup {Nobody, Runtime}
    PROVE  LET q == [r EXCEPT !.lock = k] IN
           /\ q \in RootStates /\ q.lock = k /\ q.named = r.named /\ q.attached = r.attached
           /\ q.leaf = r.leaf /\ Bytes(q) = Bytes(r) /\ Present(q) = Present(r)
BY DEF RootStates, Bytes, Present

LEMMA WithNamed ==
    ASSUME NEW r \in RootStates, NEW s \in Seq(Slots)
    PROVE  LET q == [r EXCEPT !.named = s] IN
           /\ q \in RootStates /\ q.lock = r.lock /\ q.named = s /\ q.attached = r.attached
           /\ q.leaf = r.leaf /\ Bytes(q) = Bytes(r) /\ Present(q) = Present(r)
BY DEF RootStates, Bytes, Present

LEMMA WithoutAttached ==
    ASSUME NEW r \in RootStates
    PROVE  LET q == [r EXCEPT !.attached = {}] IN
           /\ q \in RootStates /\ q.lock = r.lock /\ q.named = r.named /\ q.attached = {}
           /\ q.leaf = r.leaf /\ Bytes(q) = Bytes(r) /\ Present(q) = Present(r)
BY DEF RootStates, Bytes, Present

LEMMA WithoutLeaf ==
    ASSUME NEW r \in RootStates, NEW l \in Leaves
    PROVE  LET q == [r EXCEPT !.leaf[l] = 0] IN
           /\ q \in RootStates /\ q.lock = r.lock /\ q.named = r.named /\ q.attached = r.attached
           /\ Bytes(q) <= Bytes(r) /\ Present(q) = Present(r) \ {l}
           /\ \A k \in Leaves : q.leaf[k] <= r.leaf[k]
<1> DEFINE q == [r EXCEPT !.leaf[l] = 0]
<1>1. r.leaf \in [Leaves -> Nat]
  BY DEF RootStates
<1>2. q \in RootStates /\ q.lock = r.lock /\ q.named = r.named /\ q.attached = r.attached
      /\ q.leaf = [r.leaf EXCEPT ![l] = 0]
  BY <1>1 DEF RootStates
<1> HIDE DEF q
<1>3. q.leaf \in [Leaves -> Nat] /\ \A k \in Leaves : q.leaf[k] = IF k = l THEN 0 ELSE r.leaf[k]
  BY <1>1, <1>2
<1>4. Present(q) = Present(r) \ {l}
  BY <1>1, <1>3 DEF Present
<1>5. \A k \in 0 .. Temp : q.leaf[k] \in Nat /\ r.leaf[k] \in Nat /\ q.leaf[k] <= r.leaf[k]
  <2> TAKE k \in 0 .. Temp
  <2>1. k \in Leaves /\ r.leaf[k] \in Nat
    BY <1>1 DEF Leaves
  <2>2. CASE k = l
    BY <2>1, <2>2, <1>3
  <2>3. CASE k # l
    BY <2>1, <2>3, <1>3
  <2> QED
    BY <2>2, <2>3
<1>6. Bytes(q) <= Bytes(r)
  BY <1>5, SumLe, LeafFacts DEF Bytes
<1>7. \A k \in Leaves : q.leaf[k] <= r.leaf[k]
  BY <1>5 DEF Leaves
<1> QED
  BY <1>2, <1>4, <1>6, <1>7 DEF q

LEMMA WithTemp ==
    ASSUME NEW r \in RootStates, NEW n \in Nat
    PROVE  LET q == [r EXCEPT !.leaf[Temp] = n] IN
           /\ q \in RootStates /\ q.lock = r.lock /\ q.named = r.named /\ q.attached = r.attached
           /\ Present(r) \subseteq Present(q) \cup {Temp}
           /\ Present(q) \subseteq Present(r) \cup {Temp}
<1> DEFINE q == [r EXCEPT !.leaf[Temp] = n]
<1>1. r.leaf \in [Leaves -> Nat]
  BY DEF RootStates
<1>2. q \in RootStates /\ q.lock = r.lock /\ q.named = r.named /\ q.attached = r.attached
      /\ q.leaf = [r.leaf EXCEPT ![Temp] = n]
  BY <1>1, LeafFacts DEF RootStates
<1> HIDE DEF q
<1>3. q.leaf \in [Leaves -> Nat] /\ \A k \in Leaves : k # Temp => q.leaf[k] = r.leaf[k]
  BY <1>1, <1>2, LeafFacts
<1>4. Present(r) \subseteq Present(q) \cup {Temp} /\ Present(q) \subseteq Present(r) \cup {Temp}
  BY <1>1, <1>3 DEF Present
<1> QED
  BY <1>2, <1>4 DEF q

\* The rename of a payload, from the temporary to a slot.
Renamed(r, l, n) == [r EXCEPT !.leaf[Temp] = 0, !.leaf[l] = n]

LEMMA WithPayload ==
    ASSUME NEW r \in RootStates, NEW l \in Slots, NEW n \in Nat \ {0}
    PROVE  LET q == Renamed(r, l, n) IN
           /\ q \in RootStates /\ q.lock = r.lock /\ q.named = r.named /\ q.attached = r.attached
           /\ q.leaf[l] = n
           /\ Present(q) = (Present(r) \ {Temp}) \cup {l}
<1> DEFINE q == Renamed(r, l, n)
<1>0. l \in Leaves /\ Temp \in Leaves /\ l # Temp
  BY LeafFacts
<1>1. r.leaf \in [Leaves -> Nat]
  BY DEF RootStates
<1>2. q \in RootStates /\ q.lock = r.lock /\ q.named = r.named /\ q.attached = r.attached
      /\ q.leaf = [r.leaf EXCEPT ![Temp] = 0, ![l] = n]
  BY <1>0, <1>1 DEF RootStates, Renamed
<1> HIDE DEF q
<1>3. /\ q.leaf \in [Leaves -> Nat]
      /\ \A k \in Leaves : q.leaf[k] = IF k = l THEN n ELSE IF k = Temp THEN 0 ELSE r.leaf[k]
  BY <1>0, <1>1, <1>2
<1>4. q.leaf[l] = n /\ Present(q) = (Present(r) \ {Temp}) \cup {l}
  BY <1>0, <1>1, <1>3 DEF Present
<1> QED
  BY <1>2, <1>4 DEF q

-----------------------------------------------------------------------------
(* The bytes of index entries *)

Term(r, e, i) == IF i = 0 THEN 0 ELSE r.leaf[e[i]]

LEMMA LiveFacts ==
    ASSUME NEW r \in RootStates, NEW e \in Seq(Slots)
    PROVE  /\ LiveBytes(r, e) = SumTo([i \in 0 .. Len(e) |-> Term(r, e, i)], Len(e))
           /\ Len(e) \in Nat
           /\ \A i \in 0 .. Len(e) : Term(r, e, i) \in Nat
           /\ LiveBytes(r, e) \in Nat
           /\ Len(e) = 0 => LiveBytes(r, e) = 0
<1> DEFINE f == [i \in 0 .. Len(e) |-> Term(r, e, i)]
<1>1. Len(e) \in Nat /\ \A i \in 1 .. Len(e) : e[i] \in Leaves
  BY LenProperties, ElementOfSeq, LeafFacts
<1>2. \A i \in 0 .. Len(e) : Term(r, e, i) \in Nat
  <2> TAKE i \in 0 .. Len(e)
  <2>1. CASE i = 0
    BY <2>1 DEF Term
  <2>2. CASE i # 0
    <3>1. i \in 1 .. Len(e)
      BY <2>2, <1>1
    <3> QED
      BY <3>1, <2>2, <1>1, BytesFacts DEF Term
  <2> QED
    BY <2>1, <2>2
<1>3. LiveBytes(r, e) = SumTo(f, Len(e))
  BY DEF LiveBytes, Term
<1>4. \A i \in 0 .. Len(e) : f[i] \in Nat
  BY <1>2
<1>5. f[0] = 0
  BY <1>1 DEF Term
<1> HIDE DEF f
<1>6. SumTo(f, Len(e)) \in Nat /\ (Len(e) = 0 => SumTo(f, Len(e)) = 0)
  BY <1>1, <1>4, <1>5, SumStep, SumTerm
<1> QED
  BY <1>1, <1>2, <1>3, <1>6 DEF f

\* The least number of entries to drop exists, and what stays then fits.
LEMMA ExcessFacts ==
    ASSUME NEW r \in RootStates, NEW e \in Seq(Slots), NEW count \in Nat,
           NEW allowance \in Nat, NEW incoming \in Nat, incoming <= allowance
    PROVE  LET n == Excess(r, e, count, allowance, incoming) IN
           /\ n \in 0 .. Len(e)
           /\ Len(From(e, n)) <= count
           /\ LiveBytes(r, From(e, n)) + incoming <= allowance
<1> DEFINE Fits(m) == /\ Len(From(e, m)) <= count
                      /\ LiveBytes(r, From(e, m)) + incoming <= allowance
           good == {m \in 0 .. Len(e) : Fits(m)}
           n == Excess(r, e, count, allowance, incoming)
<1>1. Len(e) \in Nat
  BY LenProperties
<1>2. Fits(Len(e))
  <2>1. Len(e) \in 0 .. Len(e)
    BY <1>1
  <2>2. From(e, Len(e)) \in Seq(Slots) /\ Len(From(e, Len(e))) = 0
    BY <2>1, <1>1, FromFacts
  <2>3. LiveBytes(r, From(e, Len(e))) = 0
    BY <2>2, LiveFacts
  <2> QED
    BY <2>2, <2>3
<1>3. n = CHOOSE k \in 0 .. Len(e) : Fits(k) /\ \A m \in 0 .. k - 1 : ~ Fits(m)
  BY DEF Excess, From
<1> HIDE DEF Fits, n
<1>4. good \in SUBSET Nat /\ good # {}
  BY <1>1, <1>2
<1>5. Min(good) \in good /\ \A y \in good : Min(good) <= y
  BY <1>4, MinMember
<1>6. Fits(Min(good)) /\ \A m \in 0 .. Min(good) - 1 : ~ Fits(m)
  <2>1. Min(good) \in 0 .. Len(e) /\ Fits(Min(good))
    BY <1>5
  <2> SUFFICES ASSUME NEW m \in 0 .. Min(good) - 1, Fits(m) PROVE FALSE
    BY <2>1
  <2>2. m \in Nat /\ Min(good) \in Nat /\ m < Min(good) /\ m \in 0 .. Len(e)
    BY <2>1, <1>1
  <2>3. m \in good
    BY <2>2
  <2>4. Min(good) <= m
    BY <2>3, <1>5
  <2> QED
    BY ONLY <2>2, <2>4
<1>7. n \in 0 .. Len(e) /\ Fits(n)
  <2>1. Min(good) \in 0 .. Len(e)
    BY <1>5
  <2> QED
    BY <2>1, <1>3, <1>6
<1> QED
  BY <1>7 DEF n, Fits

-----------------------------------------------------------------------------
(* Whom a step concerns *)

LEMMA NobodyElse == Nobody \notin Processes /\ Runtime \notin Processes /\ Nobody # Runtime
BY RetentionAssumption DEF Nobody, Runtime

LEMMA ProcFields ==
    ASSUME Types, NEW p \in Processes
    PROVE  /\ proc[p] \in ProcStates
           /\ proc[p].at \in Places /\ proc[p].root \in Native \cup {Nobody}
           /\ proc[p].limit \in Nat /\ proc[p].index \in Seq(Slots)
           /\ proc[p].incoming \in Nat /\ proc[p].kept \in Seq(Slots)
           /\ proc[p].todo \in Seq(Roots) /\ proc[p].held \in SUBSET Roots
           /\ proc[p].bytes \in [Roots -> Nat]
           /\ proc[p].other \in Int /\ proc[p].target \in Roots \cup {Nobody}
           /\ proc[p].drop \in SUBSET Leaves
           /\ proc[p].then \in {"none", "reserve", "idle", "release"}
BY DEF Types, ProcStates

\* Nothing a process relies on changes unless it steps, or somebody writes a
\* root that it has locked.
LEMMA OthersSound ==
    ASSUME Safe, NEW q \in Processes, proc'[q] = proc[q],
           (retention' = q) <=> (retention = q),
           \A r \in Roots : root[r].lock = q => root'[r] = root[r]
    PROVE  Sound(q)'
<1> DEFINE me == proc[q]
<1>0. Types /\ Owns(q) /\ Course(q) /\ Keeps(q) /\ Clean(q)
  BY DEF Safe, Sound
<1>1. Reserving(q)' <=> Reserving(q)
  BY DEF Reserving
<1>2. Course(q)'
  BY <1>0, <1>1 DEF Course
<1>3. CASE me.at = "absent"
  <2>1. me = Absent
    BY <1>0, <1>3 DEF Owns
  <2>2. Owns(q)'
    BY <2>1, <1>3 DEF Owns, Absent
  <2>3. Keeps(q)' /\ Clean(q)'
    BY <1>3 DEF Keeps, Clean
  <2> QED
    BY <2>2, <2>3, <1>2 DEF Sound
<1>4. CASE me.at # "absent"
  <2>1. me.root \in Roots /\ Mine(q).lock = q
    BY <1>0, <1>4 DEF Owns, Roots
  <2>2. Mine(q)' = Mine(q)
    BY <2>1 DEF Mine
  <2>3. Allowance(q)' = Allowance(q)
    BY DEF Allowance
  <2>4. Spare(q)' = Spare(q)
    BY DEF Spare
  <2>5. Beside(q)' = Beside(q)
    BY <2>4 DEF Beside
  <2>6. Owns(q)'
    <3>1. me.held \in SUBSET Roots
      BY <1>0, ProcFields
    <3> QED
      BY <3>1, <2>2, <1>0, <1>4 DEF Owns
  <2>7. Keeps(q)'
    BY <2>3, <1>0 DEF Keeps
  <2>8. Clean(q)'
    BY <2>2, <2>4, <2>5, <1>0 DEF Clean
  <2> QED
    BY <2>6, <2>7, <2>8, <1>2 DEF Sound
<1> QED
  BY <1>3, <1>4

\* A step of p writes only roots that p or nobody has locked, and takes or
\* frees retention.lock only for itself.
LEMMA StepSafe ==
    ASSUME Safe, NEW p \in Processes, Types',
           \A q \in Processes : q # p => proc'[q] = proc[q],
           retention' = retention \/ {retention, retention'} \subseteq {p, Nobody},
           \A r \in Roots : \/ root'[r] = root[r]
                            \/ root[r].lock \in {p, Nobody} /\ RootSound(r)',
           Sound(p)'
    PROVE  Safe'
<1>1. ASSUME NEW r \in Roots PROVE RootSound(r)'
  <2>1. RootSound(r)
    BY DEF Safe
  <2> QED
    BY <2>1 DEF RootSound
<1>2. ASSUME NEW q \in Processes PROVE Sound(q)'
  <2>1. CASE q # p
    <3>1. (retention' = q) <=> (retention = q)
      BY <2>1, NobodyElse
    <3>2. \A r \in Roots : root[r].lock = q => root'[r] = root[r]
      BY <2>1, NobodyElse
    <3> QED
      BY <2>1, <3>1, <3>2, OthersSound
  <2> QED
    BY <2>1
<1> QED
  BY <1>1, <1>2 DEF Safe

LEMMA UnlockFacts ==
    ASSUME root \in [Roots -> RootStates], NEW roots
    PROVE  LET u == Unlock(roots) IN
           /\ u \in [Roots -> RootStates]
           /\ \A r \in Roots :
                 /\ r \notin roots => u[r] = root[r]
                 /\ u[r].named = root[r].named /\ u[r].attached = root[r].attached
                 /\ u[r].leaf = root[r].leaf
                 /\ Bytes(u[r]) = Bytes(root[r]) /\ Present(u[r]) = Present(root[r])
<1>1. \A r \in Roots : Unlock(roots)[r] = IF r \in roots THEN [root[r] EXCEPT !.lock = Nobody]
                                          ELSE root[r]
  BY DEF Unlock
<1>2. ASSUME NEW r \in Roots
      PROVE  /\ Unlock(roots)[r] \in RootStates
             /\ r \notin roots => Unlock(roots)[r] = root[r]
             /\ Unlock(roots)[r].named = root[r].named
             /\ Unlock(roots)[r].attached = root[r].attached
             /\ Unlock(roots)[r].leaf = root[r].leaf
             /\ Bytes(Unlock(roots)[r]) = Bytes(root[r])
             /\ Present(Unlock(roots)[r]) = Present(root[r])
  <2>1. root[r] \in RootStates
    OBVIOUS
  <2>2. CASE r \in roots
    <3>1. Unlock(roots)[r] = [root[r] EXCEPT !.lock = Nobody]
      BY <1>1, <2>2
    <3> QED
      BY <3>1, <2>1, <2>2, WithLock
  <2>3. CASE r \notin roots
    <3>1. Unlock(roots)[r] = root[r]
      BY <1>1, <2>3
    <3> QED
      BY <3>1, <2>1, <2>3
  <2> QED
    BY <2>2, <2>3
<1>3. Unlock(roots) \in [Roots -> RootStates]
  <2>1. Unlock(roots) = [r \in Roots |-> Unlock(roots)[r]]
    BY DEF Unlock
  <2> QED
    BY <2>1, <1>2
<1> QED
  BY <1>2, <1>3

\* Locks are no part of what makes a root sound.
LEMMA UnlockSound ==
    ASSUME Safe, NEW roots, root' = Unlock(roots), NEW r \in Roots
    PROVE  RootSound(r)'
<1>1. root'[r].named = root[r].named /\ root'[r].attached = root[r].attached
      /\ Present(root'[r]) = Present(root[r])
  BY UnlockFacts DEF Safe, Types
<1>2. RootSound(r)
  BY DEF Safe
<1> QED
  BY <1>1, <1>2 DEF RootSound

LEMMA DieSafe ==
    ASSUME Safe, NEW p \in Processes, Die(p)
    PROVE  Safe'
<1>0. Types /\ Owns(p)
  BY DEF Safe, Sound
<1>1. root' = Unlock(proc[p].held \cup {proc[p].root}) /\ proc' = [proc EXCEPT ![p] = Absent]
      /\ FreeRetention(p) /\ order' = order /\ proc[p].at # "absent"
  BY DEF Die
<1>2. proc'[p] = Absent /\ \A q \in Processes : q # p => proc'[q] = proc[q]
  BY <1>0, <1>1 DEF Types
<1>3. Types'
  <2>1. Absent \in ProcStates
    BY EmptySeq DEF Absent, ProcStates, Places
  <2>2. proc' \in [Processes -> ProcStates]
    BY <2>1, <1>0, <1>1 DEF Types
  <2>3. root' \in [Roots -> RootStates]
    BY <1>0, <1>1, UnlockFacts DEF Types
  <2> QED
    BY <2>2, <2>3, <1>0, <1>1 DEF Types
<1>4. retention' # p /\ (retention' = retention \/ {retention, retention'} \subseteq {p, Nobody})
  BY <1>1, NobodyElse DEF FreeRetention
<1>5. Sound(p)'
  <2>1. ~ Reserving(p)'
    BY <1>2 DEF Reserving, Absent
  <2>2. Owns(p)'
    BY <1>2 DEF Owns, Absent
  <2>3. Course(p)'
    BY <1>2, <1>4, <2>1 DEF Course, Absent
  <2>4. Keeps(p)' /\ Clean(p)'
    BY <1>2 DEF Keeps, Clean, Absent
  <2> QED
    BY <2>2, <2>3, <2>4 DEF Sound
<1>6. ASSUME NEW r \in Roots
      PROVE  root'[r] = root[r] \/ (root[r].lock \in {p, Nobody} /\ RootSound(r)')
  <2>1. CASE r \in proc[p].held \cup {proc[p].root}
    BY <2>1, <1>0, <1>1, UnlockSound DEF Owns, Mine
  <2>2. CASE r \notin proc[p].held \cup {proc[p].root}
    BY <2>2, <1>0, <1>1, UnlockFacts DEF Types
  <2> QED
    BY <2>1, <2>2
<1> QED
  BY <1>2, <1>3, <1>4, <1>5, <1>6, StepSafe

LEMMA RefuseSafe ==
    ASSUME Safe, NEW p \in Processes, proc[p].at # "absent", Refuse(p)
    PROVE  Safe'
<1>1. CASE proc[p].incoming = 0
  BY <1>1, DieSafe DEF Refuse
<1>2. CASE proc[p].incoming # 0
  <2>0. Types /\ Owns(p)
    BY DEF Safe, Sound
  <2>1. root' = Unlock(proc[p].held) /\ proc' = [proc EXCEPT ![p] = Idling(p)]
        /\ FreeRetention(p) /\ order' = order
    BY <1>2 DEF Refuse
  <2>2. /\ Idling(p).at = "idle" /\ Idling(p).root = proc[p].root
        /\ Idling(p).limit = proc[p].limit /\ Idling(p).index = proc[p].index
        /\ Idling(p).todo = <<>> /\ Idling(p).held = {}
    BY DEF Idling, Absent
  <2>3. Idling(p) \in ProcStates
    <3>1. proc[p].root \in Native \cup {Nobody} /\ proc[p].limit \in Nat /\ proc[p].index \in Seq(Slots)
      BY <2>0, ProcFields
    <3>2. Absent \in ProcStates
      BY EmptySeq DEF Absent, ProcStates, Places
    <3> QED
      BY ONLY <3>1, <3>2 DEF Idling, ProcStates, Places
  <2>4. proc'[p] = Idling(p) /\ \A q \in Processes : q # p => proc'[q] = proc[q]
    BY <2>0, <2>1 DEF Types
  <2>5. Types'
    <3>2. proc' \in [Processes -> ProcStates]
      BY <2>3, <2>0, <2>1 DEF Types
    <3>3. root' \in [Roots -> RootStates]
      BY <2>0, <2>1, UnlockFacts DEF Types
    <3> QED
      BY <3>2, <3>3, <2>0, <2>1 DEF Types
  <2>6. retention' # p /\ (retention' = retention \/ {retention, retention'} \subseteq {p, Nobody})
    BY <2>1, NobodyElse DEF FreeRetention
  <2>7. Mine(p)' = Mine(p)
    <3>1. proc[p].root \notin proc[p].held /\ proc[p].root \in Roots
      BY <2>0 DEF Owns, Roots
    <3> QED
      BY <3>1, <2>0, <2>1, <2>2, <2>4, UnlockFacts DEF Mine, Types
  <2>8. Sound(p)'
    <3>1. ~ Reserving(p)'
      BY <2>2, <2>4 DEF Reserving
    <3>2. Owns(p)'
      BY <2>0, <2>2, <2>4, <2>7 DEF Owns
    <3>3. Course(p)'
      BY <2>2, <2>4, <2>6, <3>1 DEF Course
    <3>4. Keeps(p)' /\ Clean(p)'
      BY <2>2, <2>4 DEF Keeps, Clean
    <3> QED
      BY <3>2, <3>3, <3>4 DEF Sound
  <2>9. ASSUME NEW r \in Roots
        PROVE  root'[r] = root[r] \/ (root[r].lock \in {p, Nobody} /\ RootSound(r)')
    <3>1. CASE r \in proc[p].held
      BY <3>1, <2>0, <2>1, UnlockSound DEF Owns
    <3>2. CASE r \notin proc[p].held
      BY <3>2, <2>0, <2>1, UnlockFacts DEF Types
    <3> QED
      BY <3>1, <3>2
  <2> QED
    BY <2>4, <2>5, <2>6, <2>8, <2>9, StepSafe
<1> QED
  BY <1>1, <1>2

-----------------------------------------------------------------------------
(* The names of the roots *)

LEMMA SeqOfSet ==
    ASSUME NEW S, IsFiniteSet(S)
    PROVE  /\ SetToSeq(S) \in Seq(S)
           /\ ToSet(SetToSeq(S)) = S
           /\ \A i, j \in 1 .. Len(SetToSeq(S)) : SetToSeq(S)[i] = SetToSeq(S)[j] => i = j
<1> DEFINE n == Cardinality(S)
           f == SetToSeq(S)
<1>1. n \in Nat /\ ExistsBijection(1 .. n, S)
  BY FS_CardinalityType
<1>2. PICK b : b \in Bijection(1 .. n, S)
  BY <1>1 DEF ExistsBijection
<1>3. b \in [1 .. n -> S] /\ IsInjective(b)
  BY <1>2 DEF Bijection, Injection, IsInjective
<1>4. f = CHOOSE g \in [1 .. n -> S] : IsInjective(g)
  BY DEF SetToSeq
<1> HIDE DEF f
<1>5. f \in [1 .. n -> S] /\ IsInjective(f)
  BY <1>3, <1>4
<1>6. f \in Seq(S) /\ Len(f) = n /\ DOMAIN f = 1 .. n
  BY <1>1, <1>5
<1>7. f \in Injection(1 .. n, S)
  BY <1>5 DEF Injection, IsInjective
<1>8. Cardinality(1 .. n) = n
  <2>1. 1 \in Int /\ n \in Int
    BY <1>1
  <2>2. Cardinality(1 .. n) = IF 1 > n THEN 0 ELSE n - 1 + 1
    BY <2>1, FS_Interval
  <2> QED
    BY <2>2, <1>1
<1>9. f \in Surjection(1 .. n, S)
  BY <1>7, <1>8, FS_Injection
<1>10. ToSet(f) = S
  BY <1>5, <1>6, <1>9 DEF Surjection, ToSet
<1> QED
  BY <1>5, <1>6, <1>10 DEF IsInjective, f

\* Every root has one name.
LEMMA NamesFacts ==
    /\ Names \in Seq(Roots)
    /\ ToSet(Names) = Roots
    /\ \A i, j \in 1 .. Len(Names) : Names[i] = Names[j] => i = j
<1> DEFINE a == SetToSeq(Native)
           b == SetToSeq(Legacy)
           c == a \o b
<1>1. /\ a \in Seq(Native) /\ ToSet(a) = Native
      /\ \A i, j \in 1 .. Len(a) : a[i] = a[j] => i = j
  BY SeqOfSet, RetentionAssumption
<1>2. /\ b \in Seq(Legacy) /\ ToSet(b) = Legacy
      /\ \A i, j \in 1 .. Len(b) : b[i] = b[j] => i = j
  BY SeqOfSet, RetentionAssumption
<1> HIDE DEF a, b
<1>3. a \in Seq(Roots) /\ b \in Seq(Roots)
  BY <1>1, <1>2, SeqMonotonic DEF Roots
<1>4. Len(a) \in Nat /\ Len(b) \in Nat /\ DOMAIN a = 1 .. Len(a) /\ DOMAIN b = 1 .. Len(b)
  BY <1>3, LenProperties
<1>5. /\ c \in Seq(Roots) /\ Len(c) = Len(a) + Len(b)
      /\ \A i \in 1 .. Len(a) + Len(b) : c[i] = IF i <= Len(a) THEN a[i] ELSE b[i - Len(a)]
  BY <1>3, ConcatProperties
<1> HIDE DEF c
<1>6. DOMAIN c = 1 .. Len(c)
  BY <1>5, LenProperties
<1>7. \A i \in 1 .. Len(a) : c[i] = a[i] /\ i \in 1 .. Len(c)
  BY <1>4, <1>5
<1>8. \A i \in 1 .. Len(b) : c[i + Len(a)] = b[i] /\ i + Len(a) \in 1 .. Len(c)
  <2> TAKE i \in 1 .. Len(b)
  <2>1. i + Len(a) \in 1 .. Len(a) + Len(b) /\ ~ (i + Len(a) <= Len(a)) /\ i + Len(a) - Len(a) = i
    BY <1>4
  <2> QED
    BY <2>1, <1>5
<1>9. \A i \in 1 .. Len(c) : \/ i \in 1 .. Len(a) /\ c[i] = a[i]
                             \/ i - Len(a) \in 1 .. Len(b) /\ c[i] = b[i - Len(a)]
  BY <1>4, <1>5
<1>10. \A i \in 1 .. Len(a) : a[i] \in Native
  BY <1>1, ElementOfSeq
<1>11. \A i \in 1 .. Len(b) : b[i] \in Legacy
  BY <1>2, ElementOfSeq
<1>12. Roots \subseteq ToSet(c)
  <2>1. ASSUME NEW x \in Native PROVE x \in ToSet(c)
    <3>1. PICK i \in 1 .. Len(a) : a[i] = x
      BY <1>1, <1>4 DEF ToSet
    <3> QED
      BY <3>1, <1>6, <1>7 DEF ToSet
  <2>2. ASSUME NEW x \in Legacy PROVE x \in ToSet(c)
    <3>1. PICK i \in 1 .. Len(b) : b[i] = x
      BY <1>2, <1>4 DEF ToSet
    <3> QED
      BY <3>1, <1>6, <1>8 DEF ToSet
  <2> QED
    BY <2>1, <2>2 DEF Roots
<1>13. ToSet(c) \subseteq Roots
  BY <1>5, <1>6, ElementOfSeq DEF ToSet
<1>14. ASSUME NEW i \in 1 .. Len(c), NEW j \in 1 .. Len(c), c[i] = c[j] PROVE i = j
  <2>1. Native \cap Legacy = {}
    BY RetentionAssumption
  <2>2. CASE i \in 1 .. Len(a) /\ j \in 1 .. Len(a)
    BY <2>2, <1>1, <1>7, <1>14
  <2>3. CASE i - Len(a) \in 1 .. Len(b) /\ c[i] = b[i - Len(a)] /\ j - Len(a) \in 1 .. Len(b) /\ c[j] = b[j - Len(a)]
    <3>1. i - Len(a) = j - Len(a)
      BY <2>3, <1>2, <1>14
    <3>2. i \in Int /\ j \in Int /\ Len(a) \in Int
      BY <1>4
    <3> QED
      BY ONLY <3>1, <3>2
  <2>4. CASE i \in 1 .. Len(a) /\ j - Len(a) \in 1 .. Len(b) /\ c[j] = b[j - Len(a)]
    BY <2>1, <2>4, <1>7, <1>10, <1>11, <1>14
  <2>5. CASE j \in 1 .. Len(a) /\ i - Len(a) \in 1 .. Len(b) /\ c[i] = b[i - Len(a)]
    BY <2>1, <2>5, <1>7, <1>10, <1>11, <1>14
  <2> QED
    BY <2>2, <2>3, <2>4, <2>5, <1>9
<1>15. Names = c
  BY DEF Names, a, b, c
<1> QED
  BY <1>5, <1>12, <1>13, <1>14, <1>15

-----------------------------------------------------------------------------
(* The steps of a store on its own root *)

\* What is known of a live process.
LEMMA Owner ==
    ASSUME Safe, NEW p \in Processes, proc[p].at # "absent"
    PROVE  /\ Types /\ Owns(p) /\ Course(p) /\ Keeps(p) /\ Clean(p)
           /\ proc[p].root \in Roots /\ proc[p].root \in Native
           /\ Mine(p) \in RootStates /\ Mine(p).lock = p
           /\ Mine(p).named = proc[p].index /\ Mine(p).attached = {}
           /\ ToSet(proc[p].index) \subseteq Present(Mine(p))
           /\ ToSet(proc[p].index) \subseteq Slots
           /\ Spare(p) \in Slots \ ToSet(proc[p].index)
           /\ Allowance(p) \in Nat
<1>1. Types /\ Owns(p) /\ Course(p) /\ Keeps(p) /\ Clean(p)
  BY DEF Safe, Sound
<1>2. proc[p].root \in Roots /\ proc[p].root \in Native /\ Mine(p).lock = p
      /\ Mine(p).named = proc[p].index
  BY <1>1 DEF Owns, Roots
<1>3. Mine(p) \in RootStates
  BY <1>1, <1>2 DEF Types, Mine
<1>4. /\ ToSet(proc[p].index) \subseteq Present(Mine(p)) /\ Mine(p).attached = {}
      /\ Slots \ ToSet(proc[p].index) # {}
  BY <1>2 DEF Safe, RootSound, Mine
<1>5. Slots \ ToSet(proc[p].index) \in SUBSET Nat
  BY LeafFacts
<1>6. Spare(p) \in Slots \ ToSet(proc[p].index)
  BY <1>4, <1>5, MinMember DEF Spare
<1>7. proc[p].limit \in Nat /\ proc[p].other \in Int /\ proc[p].index \in Seq(Slots)
  BY <1>1, ProcFields
<1>8. Allowance(p) \in Nat
  BY <1>7 DEF Allowance
<1>9. ToSet(proc[p].index) \subseteq Slots
  BY <1>7, LenProperties, ElementOfSeq DEF ToSet
<1> QED
  BY <1>1, <1>2, <1>3, <1>4, <1>6, <1>8, <1>9

\* A process writes its own root and stays its owner.
LEMMA MineWritten ==
    ASSUME Safe, NEW p \in Processes, proc[p].at # "absent",
           NEW new, new \in RootStates, new.lock = p, SetMine(p, new),
           proc'[p].root = proc[p].root
    PROVE  /\ root' \in [Roots -> RootStates]
           /\ Mine(p)' = new
           /\ \A r \in Roots : r # proc[p].root => root'[r] = root[r]
           /\ \A r \in proc[p].held : r # proc[p].root /\ root'[r].lock = p
<1>1. Types /\ Owns(p) /\ proc[p].root \in Roots
  BY Owner
<1>2. root' = [root EXCEPT ![proc[p].root] = new]
  BY DEF SetMine
<1>3. root' \in [Roots -> RootStates] /\ root'[proc[p].root] = new
      /\ \A r \in Roots : r # proc[p].root => root'[r] = root[r]
  BY <1>1, <1>2 DEF Types
<1>4. proc[p].held \in SUBSET Roots
  BY <1>1, ProcFields
<1> QED
  BY <1>1, <1>3, <1>4 DEF Mine, Owns

LEMMA MineSafe ==
    ASSUME Safe, NEW p \in Processes, proc[p].at # "absent",
           NEW new, new \in RootStates, new.lock = p, SetMine(p, new),
           proc'[p].root = proc[p].root,
           ToSet(new.named) \subseteq Present(new), new.attached = {},
           Slots \ ToSet(new.named) # {},
           proc' \in [Processes -> ProcStates], order' \in Seq(Roots),
           \A q \in Processes : q # p => proc'[q] = proc[q],
           retention' = retention,
           Sound(p)'
    PROVE  Safe'
<1>1. /\ root' \in [Roots -> RootStates]
      /\ Mine(p)' = new
      /\ \A r \in Roots : r # proc[p].root => root'[r] = root[r]
  BY MineWritten
<1>2. Types'
  BY <1>1 DEF Types
<1>3. ASSUME NEW r \in Roots
      PROVE  root'[r] = root[r] \/ (root[r].lock \in {p, Nobody} /\ RootSound(r)')
  <2>1. CASE r = proc[p].root
    <3>1. root[r].lock = p
      BY <2>1, Owner DEF Mine
    <3>2. root'[r] = new
      BY <2>1, <1>1 DEF Mine
    <3> QED
      BY <3>1, <3>2 DEF RootSound
  <2> QED
    BY <2>1, <1>1
<1> QED
  BY <1>2, <1>3, StepSafe

\* A process moves without writing a root.
LEMMA StaySafe ==
    ASSUME Safe, NEW p \in Processes, root' = root, order' = order,
           proc' \in [Processes -> ProcStates],
           \A q \in Processes : q # p => proc'[q] = proc[q],
           retention' = retention \/ {retention, retention'} \subseteq {p, Nobody},
           Sound(p)'
    PROVE  Safe'
<1>1. Types'
  BY DEF Safe, Types
<1> QED
  BY <1>1, StepSafe

LEMMA NewestTyped ==
    ASSUME Types, NEW r \in Roots
    PROVE  Newest(r) \in Seq(Roots)
<1>1. Without(order, {r}) \in Seq(Roots)
  BY WithoutFacts DEF Types
<1> QED
  BY <1>1, AppendProperties DEF Newest

LEMMA OpenSafe ==
    ASSUME Safe, NEW p \in Processes, NEW r \in Native, NEW limit \in Limits, Open(p, r, limit)
    PROVE  Safe'
<1> DEFINE new == [Absent EXCEPT !.at = "prune", !.root = r, !.limit = limit,
                                 !.index = root[r].named, !.then = "reserve"]
<1>1. /\ proc[p].at = "absent" /\ root[r].lock = Nobody
      /\ root' = [root EXCEPT ![r] = [root[r] EXCEPT !.lock = p]]
      /\ proc' = [proc EXCEPT ![p] = new] /\ order' = order /\ retention' = retention
  BY DEF Open
<1>2. Types /\ Owns(p) /\ Course(p) /\ r \in Roots
  BY DEF Safe, Sound, Roots
<1>3. root[r] \in RootStates /\ root[r].named \in Seq(Slots)
  BY <1>2 DEF Types, RootStates
<1>4. /\ new.at = "prune" /\ new.root = r /\ new.index = root[r].named /\ new.then = "reserve"
      /\ new.todo = <<>> /\ new.held = {}
  BY DEF Absent
<1>5. new \in ProcStates
  <2>1. Absent \in ProcStates
    BY EmptySeq DEF Absent, ProcStates, Places
  <2>2. limit \in Nat
    BY RetentionAssumption
  <2> QED
    BY ONLY <2>1, <2>2, <1>3, r \in Native DEF ProcStates, Places
<1> HIDE DEF new
<1>6. /\ proc' \in [Processes -> ProcStates] /\ proc'[p] = new
      /\ \A q \in Processes : q # p => proc'[q] = proc[q]
  BY <1>1, <1>2, <1>5 DEF Types
<1>7. LET u == [root[r] EXCEPT !.lock = p] IN
      /\ u \in RootStates /\ u.lock = p /\ u.named = root[r].named
      /\ u.attached = root[r].attached /\ Present(u) = Present(root[r])
  BY <1>3, WithLock
<1>8. /\ root' \in [Roots -> RootStates] /\ root'[r].lock = p /\ root'[r].named = root[r].named
      /\ root'[r].attached = root[r].attached /\ Present(root'[r]) = Present(root[r])
      /\ \A q \in Roots : q # r => root'[q] = root[q]
  BY <1>1, <1>2, <1>7 DEF Types
<1>9. Types'
  BY <1>1, <1>2, <1>6, <1>8 DEF Types
<1>10. ~ Reserving(p) /\ ~ Reserving(p)' /\ retention # p
  <2>1. ~ Reserving(p)
    BY <1>1 DEF Reserving
  <2> QED
    BY <2>1, <1>2, <1>4, <1>6 DEF Reserving, Course
<1>11. Owns(p)'
  BY <1>4, <1>6, <1>8 DEF Owns, Mine
<1>12. Course(p)'
  BY <1>1, <1>4, <1>6, <1>10 DEF Course
<1>13. Keeps(p)' /\ Clean(p)'
  BY <1>4, <1>6 DEF Keeps, Clean
<1>14. ASSUME NEW s \in Roots
       PROVE  root'[s] = root[s] \/ (root[s].lock \in {p, Nobody} /\ RootSound(s)')
  <2>1. CASE s = r
    <3>1. RootSound(r)
      BY <1>2 DEF Safe
    <3>2. RootSound(r)'
      BY <3>1, <1>8 DEF RootSound
    <3> QED
      BY <3>2, <2>1, <1>1
  <2> QED
    BY <2>1, <1>8
<1>15. Sound(p)'
  BY <1>11, <1>12, <1>13 DEF Sound
<1> QED
  BY <1>1, <1>6, <1>9, <1>14, <1>15, StepSafe

LEMMA PruneSafe ==
    ASSUME Safe, NEW p \in Processes, Prune(p)
    PROVE  Safe'
<1> DEFINE me == proc[p]
           n == Excess(Mine(p), me.index, MaxEntries, Allowance(p), 0)
           rest == From(me.index, n)
           new == [Mine(p) EXCEPT !.named = rest]
<1>1. /\ me.at = "prune" /\ SetMine(p, new)
      /\ order' = IF n > 0 THEN Newest(me.root) ELSE order
      /\ proc' = [proc EXCEPT ![p].at = "unlink", ![p].index = rest, ![p].kept = rest,
                              ![p].drop = Leaves \ ToSet(rest)]
      /\ retention' = retention
  BY DEF Prune
<1>2. /\ Types /\ Owns(p) /\ Course(p) /\ me.root \in Roots /\ me.root \in Native
      /\ Mine(p) \in RootStates /\ Mine(p).lock = p /\ Mine(p).attached = {}
      /\ ToSet(me.index) \subseteq Present(Mine(p))
      /\ Spare(p) \in Slots \ ToSet(me.index) /\ Allowance(p) \in Nat
  BY <1>1, Owner
<1>3. me.index \in Seq(Slots) /\ me \in ProcStates
  BY <1>2, ProcFields
<1>4. n \in 0 .. Len(me.index)
  <2>1. 0 <= Allowance(p) /\ 0 \in Nat /\ MaxEntries \in Nat
    BY <1>2, LeafFacts
  <2> QED
    BY <2>1, <1>2, <1>3, ExcessFacts
<1>5. rest \in Seq(Slots) /\ ToSet(rest) \subseteq ToSet(me.index)
  BY <1>3, <1>4, FromFacts
<1> HIDE DEF n, rest
<1>6. /\ new \in RootStates /\ new.lock = p /\ new.named = rest /\ new.attached = {}
      /\ Present(new) = Present(Mine(p))
  BY <1>2, <1>5, WithNamed
<1> HIDE DEF new
<1>7. /\ proc' \in [Processes -> ProcStates]
      /\ \A q \in Processes : q # p => proc'[q] = proc[q]
      /\ proc'[p].at = "unlink" /\ proc'[p].index = rest /\ proc'[p].kept = rest
      /\ proc'[p].drop = Leaves \ ToSet(rest) /\ proc'[p].root = me.root
      /\ proc'[p].then = me.then /\ proc'[p].todo = me.todo /\ proc'[p].held = me.held
  BY <1>1, <1>2, <1>3, <1>5 DEF Types, ProcStates, Places
<1>8. Mine(p)' = new /\ \A r \in me.held : r # me.root /\ root'[r].lock = p
  BY <1>1, <1>6, <1>7, MineWritten
<1>9. Owns(p)'
  BY <1>2, <1>6, <1>7, <1>8 DEF Owns
<1>10. Course(p)'
  BY <1>1, <1>2, <1>7 DEF Course, Reserving
<1>11. Keeps(p)'
  BY <1>7 DEF Keeps
<1>12. Clean(p)'
  <2>1. Present(new) \subseteq Leaves
    BY DEF Present
  <2>2. Beside(p)' = Leaves \ ToSet(rest)
    BY <1>7 DEF Beside
  <2> QED
    BY <2>1, <2>2, <1>7, <1>8 DEF Clean
<1>13. order' \in Seq(Roots)
  BY <1>1, <1>2, NewestTyped DEF Types
<1>14. Sound(p)'
  BY <1>9, <1>10, <1>11, <1>12 DEF Sound
<1>15. ToSet(new.named) \subseteq Present(new) /\ Slots \ ToSet(new.named) # {}
  BY <1>2, <1>5, <1>6
<1> QED
  BY <1>1, <1>6, <1>7, <1>13, <1>14, <1>15, MineSafe

LEMMA UnlinkSafe ==
    ASSUME Safe, NEW p \in Processes, Unlink(p)
    PROVE  Safe'
<1> DEFINE me == proc[p]
           left == me.drop \cap Present(Mine(p))
<1>1. /\ me.at = "unlink" /\ order' = order /\ retention' = retention
  BY DEF Unlink
<1>2. /\ Types /\ Owns(p) /\ Course(p) /\ Keeps(p) /\ Clean(p)
      /\ me.root \in Roots /\ me.root \in Native
      /\ Mine(p) \in RootStates /\ Mine(p).lock = p /\ Mine(p).attached = {}
      /\ Mine(p).named = me.index /\ ToSet(me.index) \subseteq Present(Mine(p))
      /\ Spare(p) \in Slots \ ToSet(me.index)
  BY <1>1, Owner
<1>3. me \in ProcStates /\ me.then \in {"reserve", "release", "idle"} /\ me.drop \in SUBSET Leaves
  BY <1>1, <1>2, ProcFields DEF Course
<1>4. Beside(p) = me.drop /\ me.drop \cap ToSet(me.index) = {}
  BY <1>1, <1>2 DEF Beside, Clean
<1>5. CASE left = {}
  <2>1. proc' = [proc EXCEPT ![p].at = me.then, ![p].drop = {}] /\ root' = root
    BY <1>5 DEF Unlink
  <2>2. /\ proc' \in [Processes -> ProcStates]
        /\ \A q \in Processes : q # p => proc'[q] = proc[q]
        /\ proc'[p].at = me.then /\ proc'[p].index = me.index /\ proc'[p].kept = me.kept
        /\ proc'[p].root = me.root
        /\ proc'[p].then = me.then /\ proc'[p].todo = me.todo /\ proc'[p].held = me.held
    BY <2>1, <1>2, <1>3 DEF Types, ProcStates, Places
  <2>3. Mine(p)' = Mine(p)
    BY <2>1, <2>2 DEF Mine
  <2>4. Owns(p)'
    BY <1>1, <1>2, <1>3, <2>1, <2>2, <2>3 DEF Owns
  <2>5. Course(p)'
    BY <1>1, <1>2, <1>3, <2>2 DEF Course, Reserving
  <2>6. Keeps(p)'
    BY <1>1, <1>2, <1>3, <2>2 DEF Keeps
  <2>7. Clean(p)'
    <3>1. Beside(p)' = {}
      BY <1>3, <2>2 DEF Beside
    <3>2. CASE me.then = "idle"
      BY <3>2, <2>2 DEF Clean
    <3>3. CASE me.then # "idle"
      <4>1. Present(Mine(p)) \subseteq ToSet(me.index) \cup me.drop
        BY <1>1, <1>2, <1>3, <1>4, <3>3 DEF Clean
      <4>2. Present(Mine(p)) \subseteq ToSet(me.index)
        BY <4>1, <1>5
      <4> QED
        BY <4>2, <3>1, <1>3, <2>2, <2>3 DEF Clean
    <3> QED
      BY <3>2, <3>3
  <2>8. Sound(p)'
    BY <2>4, <2>5, <2>6, <2>7 DEF Sound
  <2> QED
    BY <1>1, <2>1, <2>2, <2>8, StaySafe
<1>6. CASE left # {}
  <2>1. PICK l \in left : SetMine(p, [Mine(p) EXCEPT !.leaf[l] = 0])
    BY <1>6 DEF Unlink
  <2>2. proc' = proc
    BY <1>6 DEF Unlink
  <2> DEFINE new == [Mine(p) EXCEPT !.leaf[l] = 0]
  <2>3. l \in Leaves /\ l \notin ToSet(me.index)
    BY <1>3, <1>4
  <2>4. /\ new \in RootStates /\ new.lock = p /\ new.named = me.index /\ new.attached = {}
        /\ Present(new) = Present(Mine(p)) \ {l}
    BY <1>2, <2>3, WithoutLeaf
  <2> HIDE DEF new
  <2>5. Mine(p)' = new /\ \A r \in me.held : r # me.root /\ root'[r].lock = p
    BY <1>1, <2>1, <2>2, <2>4, MineWritten DEF new
  <2>6. Owns(p)'
    BY <1>2, <2>2, <2>4, <2>5, <1>1 DEF Owns
  <2>7. Course(p)'
    BY <1>1, <1>2, <2>2 DEF Course, Reserving
  <2>8. Keeps(p)'
    BY <1>1, <1>2, <2>2 DEF Keeps
  <2>9. Clean(p)'
    <3>1. Beside(p)' = me.drop
      BY <1>1, <2>2 DEF Beside
    <3> QED
      BY <3>1, <1>1, <1>2, <1>4, <2>2, <2>4, <2>5 DEF Clean
  <2>10. Sound(p)'
    BY <2>6, <2>7, <2>8, <2>9 DEF Sound
  <2>11. ToSet(new.named) \subseteq Present(new) /\ Slots \ ToSet(new.named) # {}
    BY <1>2, <2>3, <2>4
  <2>12. proc' \in [Processes -> ProcStates] /\ order' \in Seq(Roots)
    BY <1>1, <1>2, <2>2 DEF Types
  <2>13. SetMine(p, new)
    BY <2>1 DEF new
  <2> QED
    BY <1>1, <2>2, <2>4, <2>10, <2>11, <2>12, <2>13, MineSafe
<1> QED
  BY <1>5, <1>6

LEMMA TouchSafe ==
    ASSUME Safe, NEW p \in Processes, NEW l \in Slots, Touch(p, l)
    PROVE  Safe'
<1> DEFINE me == proc[p]
           moved == Append(Without(me.index, {l}), l)
           new == [Mine(p) EXCEPT !.named = moved]
<1>1. /\ me.at = "idle" /\ l \in ToSet(me.index) /\ SetMine(p, new)
      /\ proc' = [proc EXCEPT ![p].index = moved]
      /\ order' = Newest(me.root) /\ retention' = retention
  BY DEF Touch
<1>2. /\ Types /\ Owns(p) /\ Course(p) /\ me.root \in Roots /\ me.root \in Native
      /\ Mine(p) \in RootStates /\ Mine(p).lock = p /\ Mine(p).attached = {}
      /\ ToSet(me.index) \subseteq Present(Mine(p))
      /\ Spare(p) \in Slots \ ToSet(me.index)
  BY <1>1, Owner
<1>3. me.index \in Seq(Slots) /\ me \in ProcStates
  BY <1>2, ProcFields
<1>4. moved \in Seq(Slots) /\ ToSet(moved) = ToSet(me.index)
  <2> DEFINE w == Without(me.index, {l})
  <2>1. w \in Seq(Slots) /\ ToSet(w) = ToSet(me.index) \ {l}
    BY <1>3, WithoutFacts
  <2> HIDE DEF w
  <2>2. Append(w, l) \in Seq(Slots) /\ ToSet(Append(w, l)) = ToSet(w) \cup {l}
    BY ONLY <2>1, l \in Slots, AppendSet
  <2>3. moved = Append(w, l)
    BY DEF w
  <2> HIDE DEF moved
  <2> QED
    BY <2>1, <2>2, <2>3, <1>1
<1> HIDE DEF moved
<1>5. /\ new \in RootStates /\ new.lock = p /\ new.named = moved /\ new.attached = {}
      /\ Present(new) = Present(Mine(p))
  BY <1>2, <1>4, WithNamed
<1> HIDE DEF new
<1>6. /\ proc' \in [Processes -> ProcStates]
      /\ \A q \in Processes : q # p => proc'[q] = proc[q]
      /\ proc'[p].at = "idle" /\ proc'[p].index = moved /\ proc'[p].root = me.root
      /\ proc'[p].todo = me.todo /\ proc'[p].held = me.held
  BY <1>1, <1>2, <1>3, <1>4 DEF Types, ProcStates, Places
<1>7. Mine(p)' = new /\ \A r \in me.held : r # me.root /\ root'[r].lock = p
  BY <1>1, <1>5, <1>6, MineWritten
<1>8. Owns(p)'
  BY <1>2, <1>5, <1>6, <1>7 DEF Owns
<1>9. Course(p)'
  BY <1>1, <1>2, <1>6 DEF Course, Reserving
<1>10. Keeps(p)' /\ Clean(p)'
  BY <1>6 DEF Keeps, Clean
<1>11. order' \in Seq(Roots)
  BY <1>1, <1>2, NewestTyped
<1>12. Sound(p)'
  BY <1>8, <1>9, <1>10 DEF Sound
<1>13. ToSet(new.named) \subseteq Present(new) /\ Slots \ ToSet(new.named) # {}
  BY <1>2, <1>4, <1>5
<1> QED
  BY <1>1, <1>5, <1>6, <1>11, <1>12, <1>13, MineSafe

LEMMA RemoveInvalidSafe ==
    ASSUME Safe, NEW p \in Processes, NEW l \in Slots, RemoveInvalid(p, l)
    PROVE  Safe'
<1> DEFINE me == proc[p]
           rest == Without(me.index, {l})
           new == [Mine(p) EXCEPT !.named = rest]
<1>1. /\ me.at = "idle" /\ l \in ToSet(me.index) /\ SetMine(p, new)
      /\ proc' = [proc EXCEPT ![p].at = "unlink", ![p].index = rest, ![p].drop = {l},
                              ![p].then = "idle"]
      /\ order' = Newest(me.root) /\ retention' = retention
  BY DEF RemoveInvalid
<1>2. /\ Types /\ Owns(p) /\ Course(p) /\ me.root \in Roots /\ me.root \in Native
      /\ Mine(p) \in RootStates /\ Mine(p).lock = p /\ Mine(p).attached = {}
      /\ ToSet(me.index) \subseteq Present(Mine(p))
      /\ Spare(p) \in Slots \ ToSet(me.index)
  BY <1>1, Owner
<1>3. me.index \in Seq(Slots) /\ me \in ProcStates
  BY <1>2, ProcFields
<1>4. rest \in Seq(Slots) /\ ToSet(rest) = ToSet(me.index) \ {l}
  BY <1>3, WithoutFacts
<1> HIDE DEF rest
<1>5. /\ new \in RootStates /\ new.lock = p /\ new.named = rest /\ new.attached = {}
      /\ Present(new) = Present(Mine(p))
  BY <1>2, <1>4, WithNamed
<1> HIDE DEF new
<1>6. /\ proc' \in [Processes -> ProcStates]
      /\ \A q \in Processes : q # p => proc'[q] = proc[q]
      /\ proc'[p].at = "unlink" /\ proc'[p].index = rest /\ proc'[p].root = me.root
      /\ proc'[p].drop = {l} /\ proc'[p].then = "idle"
      /\ proc'[p].todo = me.todo /\ proc'[p].held = me.held
  <2>1. {l} \in SUBSET Leaves
    BY LeafFacts
  <2> QED
    BY <2>1, <1>1, <1>2, <1>3, <1>4 DEF Types, ProcStates, Places
<1>7. Mine(p)' = new /\ \A r \in me.held : r # me.root /\ root'[r].lock = p
  BY <1>1, <1>5, <1>6, MineWritten
<1>8. Owns(p)'
  BY <1>2, <1>5, <1>6, <1>7 DEF Owns
<1>9. Course(p)'
  BY <1>1, <1>2, <1>6 DEF Course, Reserving
<1>10. Keeps(p)' /\ Clean(p)'
  BY <1>4, <1>6 DEF Keeps, Clean
<1>11. order' \in Seq(Roots)
  BY <1>1, <1>2, NewestTyped
<1>12. Sound(p)'
  BY <1>8, <1>9, <1>10 DEF Sound
<1>13. ToSet(new.named) \subseteq Present(new) /\ Slots \ ToSet(new.named) # {}
  BY <1>2, <1>4, <1>5
<1> QED
  BY <1>1, <1>5, <1>6, <1>11, <1>12, <1>13, MineSafe

LEMMA SaveSafe ==
    ASSUME Safe, NEW p \in Processes, NEW size \in Sizes, NEW superseded \in SUBSET Slots,
           Save(p, size, superseded)
    PROVE  Safe'
<1> DEFINE me == proc[p]
           kept == Without(me.index, superseded)
           drop == Leaves \ ToSet(me.index)
<1>1. /\ me.at = "idle" /\ root' = root /\ order' = order /\ retention' = retention
      /\ proc' = [proc EXCEPT ![p].at = "unlink", ![p].then = "reserve", ![p].incoming = size,
                              ![p].drop = drop, ![p].kept = kept]
  BY DEF Save
<1>2. Types /\ Owns(p) /\ Course(p)
  BY <1>1, Owner
<1>3. me.index \in Seq(Slots) /\ me \in ProcStates /\ size \in Nat /\ drop \in SUBSET Leaves
  BY <1>2, ProcFields, RetentionAssumption
<1>4. kept \in Seq(Slots) /\ ToSet(kept) \subseteq ToSet(me.index)
  BY <1>3, WithoutFacts
<1> HIDE DEF kept, drop
<1>5. /\ proc' \in [Processes -> ProcStates]
      /\ \A q \in Processes : q # p => proc'[q] = proc[q]
      /\ proc'[p].at = "unlink" /\ proc'[p].index = me.index /\ proc'[p].root = me.root
      /\ proc'[p].kept = kept /\ proc'[p].drop = drop /\ proc'[p].then = "reserve"
      /\ proc'[p].todo = me.todo /\ proc'[p].held = me.held
  BY <1>1, <1>2, <1>3, <1>4 DEF Types, ProcStates, Places
<1>6. Mine(p)' = Mine(p)
  BY <1>1, <1>5 DEF Mine
<1>7. Owns(p)'
  BY <1>1, <1>2, <1>5, <1>6 DEF Owns
<1>8. Course(p)'
  BY <1>1, <1>2, <1>5 DEF Course, Reserving
<1>9. Keeps(p)'
  BY <1>4, <1>5 DEF Keeps
<1>10. Clean(p)'
  <2>1. Present(Mine(p)) \subseteq Leaves
    BY DEF Present
  <2>2. Beside(p)' = drop
    BY <1>5 DEF Beside
  <2> QED
    BY <2>1, <2>2, <1>5, <1>6 DEF Clean, drop
<1>11. Sound(p)'
  BY <1>7, <1>8, <1>9, <1>10 DEF Sound
<1> QED
  BY <1>1, <1>5, <1>11, StaySafe

LEMMA WriteTempSafe ==
    ASSUME Safe, NEW p \in Processes, WriteTemp(p)
    PROVE  Safe'
<1> DEFINE me == proc[p]
           new == [Mine(p) EXCEPT !.leaf[Temp] = me.incoming]
<1>1. /\ me.at = "write" /\ SetMine(p, new) /\ proc' = [proc EXCEPT ![p].at = "rename"]
      /\ order' = order /\ retention' = retention
  BY DEF WriteTemp
<1>2. /\ Types /\ Owns(p) /\ Course(p) /\ Keeps(p) /\ Clean(p)
      /\ me.root \in Roots /\ me.root \in Native
      /\ Mine(p) \in RootStates /\ Mine(p).lock = p /\ Mine(p).attached = {}
      /\ Mine(p).named = me.index /\ ToSet(me.index) \subseteq Present(Mine(p))
      /\ ToSet(me.index) \subseteq Slots /\ Spare(p) \in Slots \ ToSet(me.index)
  BY <1>1, Owner
<1>3. me \in ProcStates /\ me.incoming \in Nat
  BY <1>2, ProcFields
<1>4. /\ new \in RootStates /\ new.lock = p /\ new.named = me.index /\ new.attached = {}
      /\ Present(Mine(p)) \subseteq Present(new) \cup {Temp}
      /\ Present(new) \subseteq Present(Mine(p)) \cup {Temp}
  BY <1>2, <1>3, WithTemp
<1> HIDE DEF new
<1>5. /\ proc' \in [Processes -> ProcStates]
      /\ \A q \in Processes : q # p => proc'[q] = proc[q]
      /\ proc'[p].at = "rename" /\ proc'[p].index = me.index /\ proc'[p].root = me.root
      /\ proc'[p].kept = me.kept /\ proc'[p].then = me.then /\ proc'[p].incoming = me.incoming
      /\ proc'[p].limit = me.limit /\ proc'[p].other = me.other
      /\ proc'[p].todo = me.todo /\ proc'[p].held = me.held
  BY <1>1, <1>2, <1>3 DEF Types, ProcStates, Places
<1>6. Mine(p)' = new /\ \A r \in me.held : r # me.root /\ root'[r].lock = p
  BY <1>1, <1>4, <1>5, MineWritten
<1>7. Owns(p)'
  BY <1>2, <1>4, <1>5, <1>6 DEF Owns
<1>8. Course(p)'
  BY <1>1, <1>2, <1>5 DEF Course, Reserving
<1>9. Keeps(p)'
  <2>1. Allowance(p)' = Allowance(p)
    BY <1>1, <1>5 DEF Allowance
  <2> QED
    BY <2>1, <1>1, <1>2, <1>5 DEF Keeps
<1>10. Clean(p)'
  <2>1. Beside(p) = {} /\ Beside(p)' = {Temp}
    BY <1>1, <1>5 DEF Beside
  <2>2. Present(Mine(p)) \subseteq ToSet(me.index)
    BY <2>1, <1>1, <1>2 DEF Clean
  <2> QED
    BY <2>1, <2>2, <1>4, <1>5, <1>6 DEF Clean
<1>11. Sound(p)'
  BY <1>7, <1>8, <1>9, <1>10 DEF Sound
<1>12. ToSet(new.named) \subseteq Present(new) /\ Slots \ ToSet(new.named) # {}
  BY <1>2, <1>4, LeafFacts
<1>13. order' \in Seq(Roots)
  BY <1>1, <1>2 DEF Types
<1> QED
  BY <1>1, <1>4, <1>5, <1>11, <1>12, <1>13, MineSafe

LEMMA PublishPayloadSafe ==
    ASSUME Safe, NEW p \in Processes, PublishPayload(p)
    PROVE  Safe'
<1> DEFINE me == proc[p]
           new == [Mine(p) EXCEPT !.leaf[Temp] = 0, !.leaf[Spare(p)] = me.incoming]
<1>1. /\ me.at = "rename" /\ SetMine(p, new) /\ proc' = [proc EXCEPT ![p].at = "index"]
      /\ order' = order /\ retention' = retention
  BY DEF PublishPayload
<1>2. /\ Types /\ Owns(p) /\ Course(p) /\ Keeps(p) /\ Clean(p)
      /\ me.root \in Roots /\ me.root \in Native
      /\ Mine(p) \in RootStates /\ Mine(p).lock = p /\ Mine(p).attached = {}
      /\ Mine(p).named = me.index /\ ToSet(me.index) \subseteq Present(Mine(p))
      /\ ToSet(me.index) \subseteq Slots /\ Spare(p) \in Slots \ ToSet(me.index)
      /\ Allowance(p) \in Nat
  BY <1>1, Owner
<1>3. me \in ProcStates /\ me.incoming \in Nat \ {0}
  <2>1. me.incoming \in 1 .. Allowance(p)
    BY <1>1, <1>2 DEF Keeps
  <2> QED
    BY <2>1, <1>2, ProcFields
<1>4. /\ new \in RootStates /\ new.lock = p /\ new.named = me.index /\ new.attached = {}
      /\ new.leaf[Spare(p)] = me.incoming
      /\ Present(new) = (Present(Mine(p)) \ {Temp}) \cup {Spare(p)}
  <2>1. Mine(p) \in RootStates /\ me.incoming \in Nat \ {0} /\ Spare(p) \in Slots
    BY <1>2, <1>3
  <2>2. /\ new \in RootStates /\ new.lock = Mine(p).lock /\ new.named = Mine(p).named
        /\ new.attached = Mine(p).attached /\ new.leaf[Spare(p)] = me.incoming
        /\ Present(new) = (Present(Mine(p)) \ {Temp}) \cup {Spare(p)}
    <3>1. new = Renamed(Mine(p), Spare(p), me.incoming)
      BY DEF Renamed
    <3> HIDE DEF new
    <3> QED
      BY <2>1, <3>1, WithPayload
  <2> HIDE DEF new
  <2> QED
    BY <2>2, <1>2
<1> HIDE DEF new
<1>5. /\ proc' \in [Processes -> ProcStates]
      /\ \A q \in Processes : q # p => proc'[q] = proc[q]
      /\ proc'[p].at = "index" /\ proc'[p].index = me.index /\ proc'[p].root = me.root
      /\ proc'[p].kept = me.kept /\ proc'[p].then = me.then /\ proc'[p].incoming = me.incoming
      /\ proc'[p].limit = me.limit /\ proc'[p].other = me.other
      /\ proc'[p].todo = me.todo /\ proc'[p].held = me.held
  BY <1>1, <1>2, <1>3 DEF Types, ProcStates, Places
<1>6. Mine(p)' = new /\ \A r \in me.held : r # me.root /\ root'[r].lock = p
  BY <1>1, <1>4, <1>5, MineWritten
<1>7. Owns(p)'
  BY <1>2, <1>4, <1>5, <1>6 DEF Owns
<1>8. Course(p)'
  BY <1>1, <1>2, <1>5 DEF Course, Reserving
<1>9. Keeps(p)'
  <2>1. Allowance(p)' = Allowance(p)
    BY <1>1, <1>5 DEF Allowance
  <2> QED
    BY <2>1, <1>1, <1>2, <1>5 DEF Keeps
<1>10. Clean(p)'
  <2>1. Spare(p)' = Spare(p)
    BY <1>5 DEF Spare
  <2>2. Beside(p) = {Temp} /\ Beside(p)' = {Spare(p)}
    BY <2>1, <1>1, <1>5 DEF Beside
  <2>3. Present(Mine(p)) \subseteq ToSet(me.index) \cup {Temp}
    BY <2>2, <1>1, <1>2 DEF Clean
  <2> QED
    BY <2>1, <2>2, <2>3, <1>4, <1>5, <1>6 DEF Clean
<1>11. Sound(p)'
  BY <1>7, <1>8, <1>9, <1>10 DEF Sound
<1>12. ToSet(new.named) \subseteq Present(new) /\ Slots \ ToSet(new.named) # {}
  BY <1>2, <1>4, LeafFacts
<1>13. order' \in Seq(Roots)
  BY <1>1, <1>2 DEF Types
<1> QED
  BY <1>1, <1>4, <1>5, <1>11, <1>12, <1>13, MineSafe

\* The index that a save installs names what it kept, and the payload that it
\* published; with it there are no more entries than the store may have.
LEMMA CandidateFacts ==
    ASSUME Safe, NEW p \in Processes, proc[p].at = "index",
           NEW n, n = Excess(Mine(p), proc[p].kept, MaxEntries - 1, Allowance(p), proc[p].incoming),
           NEW c, c = Append(From(proc[p].kept, n), Spare(p))
    PROVE  /\ n \in 0 .. Len(proc[p].kept)
           /\ From(proc[p].kept, n) \in Seq(Slots)
           /\ LiveBytes(Mine(p), From(proc[p].kept, n)) + proc[p].incoming <= Allowance(p)
           /\ c \in Seq(Slots)
           /\ ToSet(c) = ToSet(From(proc[p].kept, n)) \cup {Spare(p)}
           /\ ToSet(From(proc[p].kept, n)) \subseteq ToSet(proc[p].index)
           /\ Slots \ ToSet(c) # {}
<1> DEFINE me == proc[p]
           k == From(me.kept, n)
<1>1. /\ Types /\ Keeps(p) /\ Mine(p) \in RootStates /\ Allowance(p) \in Nat
      /\ Spare(p) \in Slots
  BY Owner
<1>2. me.kept \in Seq(Slots) /\ me.incoming \in Nat
  BY <1>1, ProcFields
<1>3. me.incoming <= Allowance(p) /\ ToSet(me.kept) \subseteq ToSet(me.index)
  <2>1. me.incoming \in 1 .. Allowance(p) /\ ToSet(me.kept) \subseteq ToSet(me.index)
    BY <1>1 DEF Keeps
  <2> QED
    BY <2>1, <1>1
<1>4. MaxEntries - 1 \in Nat /\ MaxEntries \in Nat
  BY RetentionAssumption
<1>5. /\ n \in 0 .. Len(me.kept) /\ Len(k) <= MaxEntries - 1
      /\ LiveBytes(Mine(p), k) + me.incoming <= Allowance(p)
  BY <1>1, <1>2, <1>3, <1>4, ExcessFacts
<1>6. k \in Seq(Slots) /\ ToSet(k) \subseteq ToSet(me.kept)
  BY <1>2, <1>5, FromFacts
<1> HIDE DEF k
<1>7. Append(k, Spare(p)) \in Seq(Slots) /\ ToSet(Append(k, Spare(p))) = ToSet(k) \cup {Spare(p)}
  BY ONLY <1>1, <1>6, AppendSet
<1>8. Len(Append(k, Spare(p))) = Len(k) + 1 /\ Len(k) \in Nat
  BY <1>1, <1>6, AppendProperties, LenProperties
<1>9. c = Append(k, Spare(p))
  BY DEF k
<1>10. c \in Seq(Slots) /\ Len(c) <= MaxEntries
  <2>1. Len(c) = Len(k) + 1
    BY <1>8, <1>9
  <2>2. Len(c) <= MaxEntries
    BY ONLY <2>1, <1>4, <1>5, <1>8
  <2> QED
    BY <2>2, <1>7, <1>9
<1>11. Slots \ ToSet(c) # {}
  BY <1>10, SlotSpare
<1> QED
  BY <1>3, <1>5, <1>6, <1>7, <1>9, <1>10, <1>11 DEF k

LEMMA InstallIndexSafe ==
    ASSUME Safe, NEW p \in Processes, InstallIndex(p)
    PROVE  Safe'
<1> DEFINE me == proc[p]
           n == Excess(Mine(p), me.kept, MaxEntries - 1, Allowance(p), me.incoming)
           c == Append(From(me.kept, n), Spare(p))
           new == [Mine(p) EXCEPT !.named = c]
<1>1. /\ me.at = "index" /\ SetMine(p, new)
      /\ proc' = [proc EXCEPT ![p].at = "unlink", ![p].index = c,
                              ![p].drop = ToSet(me.index) \ ToSet(c)]
      /\ order' = Newest(me.root) /\ retention' = retention
  BY DEF InstallIndex
<1>2. /\ Types /\ Owns(p) /\ Course(p) /\ Keeps(p) /\ Clean(p)
      /\ me.root \in Roots /\ me.root \in Native
      /\ Mine(p) \in RootStates /\ Mine(p).lock = p /\ Mine(p).attached = {}
      /\ ToSet(me.index) \subseteq Present(Mine(p)) /\ ToSet(me.index) \subseteq Slots
      /\ Spare(p) \in Slots /\ Allowance(p) \in Nat
  BY <1>1, Owner
<1>3. me \in ProcStates /\ ToSet(me.index) \subseteq Leaves
  BY <1>2, ProcFields, LeafFacts
<1>4. /\ c \in Seq(Slots) /\ ToSet(c) = ToSet(From(me.kept, n)) \cup {Spare(p)}
      /\ ToSet(From(me.kept, n)) \subseteq ToSet(me.index) /\ Slots \ ToSet(c) # {}
  BY <1>1, CandidateFacts
<1> HIDE DEF c
<1>5. /\ new \in RootStates /\ new.lock = p /\ new.named = c /\ new.attached = {}
      /\ Present(new) = Present(Mine(p))
  BY <1>2, <1>4, WithNamed
<1> HIDE DEF new
<1>6. Spare(p) \in Present(Mine(p))
  <2>1. Mine(p).leaf[Spare(p)] = me.incoming /\ me.incoming \in 1 .. Allowance(p)
    BY <1>1, <1>2 DEF Clean, Keeps
  <2>2. Mine(p).leaf[Spare(p)] > 0
    BY <2>1, <1>2
  <2> QED
    BY <2>2, <1>2, LeafFacts DEF Present
<1>7. /\ proc' \in [Processes -> ProcStates]
      /\ \A q \in Processes : q # p => proc'[q] = proc[q]
      /\ proc'[p].at = "unlink" /\ proc'[p].index = c /\ proc'[p].root = me.root
      /\ proc'[p].drop = ToSet(me.index) \ ToSet(c) /\ proc'[p].then = me.then
      /\ proc'[p].todo = me.todo /\ proc'[p].held = me.held
  <2>1. ToSet(me.index) \ ToSet(c) \in SUBSET Leaves
    BY <1>3
  <2> QED
    BY <2>1, <1>1, <1>2, <1>3, <1>4 DEF Types, ProcStates, Places
<1>8. Mine(p)' = new /\ \A r \in me.held : r # me.root /\ root'[r].lock = p
  BY <1>1, <1>5, <1>7, MineWritten
<1>9. me.then = "release"
  BY <1>1, <1>2 DEF Course
<1>10. Owns(p)'
  BY <1>2, <1>5, <1>7, <1>8 DEF Owns
<1>11. Course(p)'
  BY <1>1, <1>2, <1>7, <1>9 DEF Course, Reserving
<1>12. Keeps(p)'
  BY <1>7, <1>9 DEF Keeps
<1>13. Clean(p)'
  <2>1. Beside(p) = {Spare(p)} /\ Beside(p)' = ToSet(me.index) \ ToSet(c)
    BY <1>1, <1>7 DEF Beside
  <2>2. Present(Mine(p)) \subseteq ToSet(me.index) \cup {Spare(p)}
    BY <2>1, <1>1, <1>2 DEF Clean
  <2>3. Present(new) \subseteq ToSet(c) \cup (ToSet(me.index) \ ToSet(c))
    BY <2>2, <1>4, <1>5
  <2> QED
    BY <2>1, <2>3, <1>7, <1>8 DEF Clean
<1>14. Sound(p)'
  BY <1>10, <1>11, <1>12, <1>13 DEF Sound
<1>15. ToSet(new.named) \subseteq Present(new) /\ Slots \ ToSet(new.named) # {}
  BY <1>2, <1>4, <1>5, <1>6
<1>16. order' \in Seq(Roots)
  BY <1>1, <1>2, NewestTyped
<1> QED
  BY <1>1, <1>5, <1>7, <1>14, <1>15, <1>16, MineSafe

LEMMA ReleaseSafe ==
    ASSUME Safe, NEW p \in Processes, Release(p)
    PROVE  Safe'
<1>1. /\ proc[p].at = "release" /\ FreeRetention(p) /\ proc' = [proc EXCEPT ![p] = Idling(p)]
      /\ root' = root /\ order' = order
  BY DEF Release
<1>2. Types /\ Owns(p)
  BY <1>1, Owner
<1>3. /\ Idling(p).at = "idle" /\ Idling(p).root = proc[p].root
      /\ Idling(p).limit = proc[p].limit /\ Idling(p).index = proc[p].index
      /\ Idling(p).todo = <<>> /\ Idling(p).held = {}
  BY DEF Idling, Absent
<1>4. Idling(p) \in ProcStates
  <2>1. proc[p].root \in Native \cup {Nobody} /\ proc[p].limit \in Nat /\ proc[p].index \in Seq(Slots)
    BY <1>2, ProcFields
  <2>2. Absent \in ProcStates
    BY EmptySeq DEF Absent, ProcStates, Places
  <2> QED
    BY ONLY <2>1, <2>2 DEF Idling, ProcStates, Places
<1>5. /\ proc' \in [Processes -> ProcStates] /\ proc'[p] = Idling(p)
      /\ \A q \in Processes : q # p => proc'[q] = proc[q]
  BY <1>1, <1>2, <1>4 DEF Types
<1>6. retention' # p /\ (retention' = retention \/ {retention, retention'} \subseteq {p, Nobody})
  BY <1>1, NobodyElse DEF FreeRetention
<1>7. ~ Reserving(p)'
  BY <1>3, <1>5 DEF Reserving
<1>8. Owns(p)'
  BY <1>1, <1>2, <1>3, <1>5 DEF Owns, Mine
<1>9. Course(p)'
  BY <1>3, <1>5, <1>6, <1>7 DEF Course
<1>10. Keeps(p)' /\ Clean(p)'
  BY <1>3, <1>5 DEF Keeps, Clean
<1>11. Sound(p)'
  BY <1>8, <1>9, <1>10 DEF Sound
<1> QED
  BY <1>1, <1>5, <1>6, <1>11, StaySafe

-----------------------------------------------------------------------------
(* The steps of reserve *)

LEMMA TryRetentionSafe ==
    ASSUME Safe, NEW p \in Processes, TryRetention(p)
    PROVE  Safe'
<1> DEFINE me == proc[p]
           todo == Without(Names, {me.root})
<1>1. me.at = "reserve"
  BY DEF TryRetention
<1>2. CASE retention # Nobody
  BY <1>1, <1>2, RefuseSafe DEF TryRetention
<1>3. CASE retention = Nobody
  <2>1. /\ retention' = p /\ root' = root /\ order' = order
        /\ proc' = [proc EXCEPT ![p].at = "measure", ![p].other = 0, ![p].todo = todo]
    BY <1>3 DEF TryRetention, Discovering
  <2>2. Types /\ Owns(p) /\ Course(p) /\ Keeps(p) /\ Clean(p) /\ me \in ProcStates
    BY <1>1, Owner, ProcFields
  <2>3. todo \in Seq(Roots)
    BY NamesFacts, WithoutFacts
  <2> HIDE DEF todo
  <2>4. /\ proc' \in [Processes -> ProcStates]
        /\ \A q \in Processes : q # p => proc'[q] = proc[q]
        /\ proc'[p].at = "measure" /\ proc'[p].index = me.index /\ proc'[p].kept = me.kept
        /\ proc'[p].root = me.root /\ proc'[p].held = me.held
    <3>1. 0 \in Int /\ "measure" \in Places
      BY DEF Places
    <3> QED
      BY <3>1, <2>1, <2>2, <2>3 DEF Types, ProcStates
  <2>5. Mine(p)' = Mine(p)
    BY <2>1, <2>4 DEF Mine
  <2>6. Owns(p)'
    BY <1>1, <2>1, <2>2, <2>4, <2>5 DEF Owns
  <2>7. Course(p)'
    BY <2>1, <2>4 DEF Course, Reserving
  <2>8. Keeps(p)'
    BY <1>1, <2>2, <2>4 DEF Keeps
  <2>9. Clean(p)'
    <3>1. Beside(p) = {} /\ Beside(p)' = {}
      BY <1>1, <2>4 DEF Beside
    <3> QED
      BY <3>1, <1>1, <2>2, <2>4, <2>5 DEF Clean
  <2>10. Sound(p)'
    BY <2>6, <2>7, <2>8, <2>9 DEF Sound
  <2>11. {retention, retention'} \subseteq {p, Nobody}
    BY <1>3, <2>1
  <2> QED
    BY <2>1, <2>4, <2>10, <2>11, StaySafe
<1> QED
  BY <1>2, <1>3

LEMMA MeasureSafe ==
    ASSUME Safe, NEW p \in Processes, Measure(p)
    PROVE  Safe'
<1> DEFINE me == proc[p]
           r == Head(me.todo)
           free == root[r].lock = Nobody
           bytes == Bytes(root[r])
           by == [me.bytes EXCEPT ![r] = bytes]
           held == IF free THEN me.held \cup {r} ELSE me.held
<1>1. me.at = "measure" /\ me.todo # <<>>
  BY DEF Measure
<1>2. CASE root[r].suspect
  BY <1>1, <1>2, RefuseSafe DEF Measure
<1>3. CASE ~ root[r].suspect
  <2>1. /\ root' = IF free THEN [root EXCEPT ![r] = [root[r] EXCEPT !.lock = p]] ELSE root
        /\ proc' = [proc EXCEPT ![p].todo = Tail(me.todo), ![p].other = me.other + bytes,
                                ![p].bytes = by, ![p].held = held]
        /\ order' = order /\ retention' = retention
    BY <1>3 DEF Measure
  <2>2. /\ Types /\ Owns(p) /\ Course(p) /\ Keeps(p) /\ Clean(p) /\ me \in ProcStates
        /\ me.todo \in Seq(Roots) /\ me.held \in SUBSET Roots /\ me.other \in Int
        /\ me.root \in Roots /\ root[me.root].lock = p
    BY <1>1, Owner, ProcFields DEF Mine
  <2>3. r \in Roots /\ Tail(me.todo) \in Seq(Roots)
    BY <1>1, <2>2, TodoSplits
  <2>4. bytes \in Nat /\ root[r] \in RootStates
    BY <2>2, <2>3, BytesFacts DEF Types
  <2>5. held \in SUBSET Roots /\ me.other + bytes \in Int /\ by \in [Roots -> Nat]
    <3>1. me.bytes \in [Roots -> Nat]
      BY <2>2, ProcFields
    <3>2. by \in [Roots -> Nat]
      BY ONLY <3>1, <2>4
    <3>3. held \in SUBSET Roots /\ me.other + bytes \in Int
      BY ONLY <2>2, <2>3, <2>4
    <3> QED
      BY <3>2, <3>3
  <2>6. free => r # me.root
    BY <2>2, NobodyElse
  <2> DEFINE rest == Tail(me.todo)
             sum == me.other + bytes
  <2> HIDE DEF held, r, rest, sum, by
  <2>7. /\ proc' \in [Processes -> ProcStates]
        /\ \A q \in Processes : q # p => proc'[q] = proc[q]
        /\ proc'[p].at = "measure" /\ proc'[p].index = me.index /\ proc'[p].kept = me.kept
        /\ proc'[p].root = me.root /\ proc'[p].held = held /\ proc'[p].limit = me.limit
    <3>1. proc' = [proc EXCEPT ![p].todo = rest, ![p].other = sum, ![p].bytes = by,
                               ![p].held = held]
      BY <2>1 DEF rest, sum
    <3>2. rest \in Seq(Roots) /\ sum \in Int /\ held \in SUBSET Roots /\ by \in [Roots -> Nat]
      BY <2>3, <2>5 DEF rest, sum
    <3> QED
      BY <3>1, <3>2, <1>1, <2>2 DEF Types, ProcStates, Places
  <2>8. /\ root' \in [Roots -> RootStates] /\ root'[me.root] = root[me.root]
        /\ \A s \in Roots : s # r => root'[s] = root[s]
        /\ free => root'[r] = [root[r] EXCEPT !.lock = p]
        /\ ~ free => root' = root
    <3>1. [root[r] EXCEPT !.lock = p] \in RootStates
      BY <2>4, WithLock
    <3> QED
      BY <3>1, <2>1, <2>2, <2>3, <2>6 DEF Types
  <2>9. free => /\ root'[r].lock = p /\ root'[r].named = root[r].named
                /\ root'[r].attached = root[r].attached /\ Present(root'[r]) = Present(root[r])
    <3> DEFINE u == [root[r] EXCEPT !.lock = p]
    <3>1. p \in Processes \cup {Nobody, Runtime}
      OBVIOUS
    <3>2. /\ u.lock = p /\ u.named = root[r].named
          /\ u.attached = root[r].attached /\ Present(u) = Present(root[r])
      BY <3>1, <2>4, WithLock
    <3>3. free => root'[r] = u
      BY <2>8
    <3> HIDE DEF u
    <3> QED
      BY <3>2, <3>3
  <2>10. Mine(p)' = Mine(p)
    BY <2>7, <2>8 DEF Mine
  <2>11. Owns(p)'
    <3>1. ASSUME NEW s \in held PROVE s # me.root /\ root'[s].lock = p
      <4>1. CASE s = r /\ free
        BY <4>1, <2>6, <2>9
      <4>2. CASE s \in me.held
        <5>1. s # me.root /\ root[s].lock = p /\ s \in Roots
          BY <4>2, <2>2 DEF Owns
        <5> QED
          BY <5>1, <2>8, <2>9
      <4> QED
        BY <4>1, <4>2, <3>1 DEF held
    <3> QED
      BY <3>1, <1>1, <2>2, <2>7, <2>10 DEF Owns
  <2>12. Course(p)'
    BY <1>1, <2>1, <2>2, <2>7 DEF Course, Reserving
  <2>13. Keeps(p)'
    BY <1>1, <2>2, <2>7 DEF Keeps
  <2>14. Clean(p)'
    <3>1. Beside(p) = {} /\ Beside(p)' = {}
      BY <1>1, <2>7 DEF Beside
    <3> QED
      BY <3>1, <1>1, <2>2, <2>7, <2>10 DEF Clean
  <2>15. Sound(p)'
    BY <2>11, <2>12, <2>13, <2>14 DEF Sound
  <2>16. Types'
    BY <2>1, <2>2, <2>7, <2>8 DEF Types
  <2>17. ASSUME NEW s \in Roots
         PROVE  root'[s] = root[s] \/ (root[s].lock \in {p, Nobody} /\ RootSound(s)')
    <3>1. CASE s = r /\ free
      <4>1. RootSound(s)
        BY DEF Safe
      <4>2. RootSound(s)'
        BY <4>1, <3>1, <2>9 DEF RootSound
      <4> QED
        BY <4>2, <3>1
    <3> QED
      BY <3>1, <2>8
  <2> QED
    BY <2>1, <2>7, <2>15, <2>16, <2>17, StepSafe
<1> QED
  BY <1>2, <1>3

\* The root that reserve clears next is one whose lock it took.
LEMMA TargetHeld ==
    ASSUME Safe, NEW p \in Processes, Clearable(p) # {}
    PROVE  order[Min(Clearable(p))] \in proc[p].held
<1>1. order \in Seq(Roots)
  BY DEF Safe, Types
<1>2. Len(order) \in Nat
  BY <1>1, LenProperties
<1>3. Clearable(p) \in SUBSET Nat
  BY <1>2 DEF Clearable
<1>4. Min(Clearable(p)) \in Clearable(p)
  BY <1>3, MinMember
<1> QED
  BY <1>4 DEF Clearable

LEMMA ChooseRootSafe ==
    ASSUME Safe, NEW p \in Processes, ChooseRoot(p)
    PROVE  Safe'
<1> DEFINE me == proc[p]
           r == order[Min(Clearable(p))]
<1>1. /\ me.at = "measure" /\ me.todo = <<>> /\ Clearable(p) # {}
      /\ proc' = [proc EXCEPT ![p].at = "clear", ![p].target = r]
      /\ root' = root /\ order' = order /\ retention' = retention
  BY DEF ChooseRoot, Clears
<1>2. /\ Types /\ Owns(p) /\ Course(p) /\ Keeps(p) /\ Clean(p) /\ me \in ProcStates
      /\ me.held \in SUBSET Roots /\ me.other \in Int
  BY <1>1, Owner, ProcFields
<1>3. r \in me.held /\ r \in Roots
  BY <1>1, <1>2, TargetHeld
<1> HIDE DEF r
<1>5. /\ proc' \in [Processes -> ProcStates]
      /\ \A q \in Processes : q # p => proc'[q] = proc[q]
      /\ proc'[p].at = "clear" /\ proc'[p].index = me.index /\ proc'[p].kept = me.kept
      /\ proc'[p].root = me.root /\ proc'[p].held = me.held /\ proc'[p].target = r
      /\ proc'[p].todo = me.todo
  BY <1>1, <1>2, <1>3 DEF Types, ProcStates, Places
<1>6. Mine(p)' = Mine(p)
  BY <1>1, <1>5 DEF Mine
<1>7. Owns(p)'
  BY <1>1, <1>2, <1>5, <1>6 DEF Owns
<1>8. Course(p)'
  BY <1>1, <1>2, <1>3, <1>5 DEF Course, Reserving
<1>9. Keeps(p)'
  BY <1>1, <1>2, <1>5 DEF Keeps
<1>10. Clean(p)'
  <2>1. Beside(p) = {} /\ Beside(p)' = {}
    BY <1>1, <1>5 DEF Beside
  <2> QED
    BY <2>1, <1>1, <1>2, <1>5, <1>6 DEF Clean
<1>11. Sound(p)'
  BY <1>7, <1>8, <1>9, <1>10 DEF Sound
<1> QED
  BY <1>1, <1>5, <1>11, StaySafe

\* What clear writes to the root that reserve chose.
LEMMA ClearWrites ==
    ASSUME Safe, NEW p \in Processes, Clear(p), proc' = proc
    PROVE  \E new \in RootStates :
              /\ root' = [root EXCEPT ![proc[p].target] = new]
              /\ new.lock = root[proc[p].target].lock
              /\ ToSet(new.named) \cup new.attached \subseteq Present(new)
              /\ Slots \ ToSet(new.named) # {}
              /\ proc[p].target \in Native => new.attached = {}
              /\ Bytes(new) <= Bytes(root[proc[p].target])
<1> DEFINE t == proc[p].target
           r == root[t]
<1>1. proc[p].at = "clear"
  BY DEF Clear
<1>2. Types /\ Course(p) /\ proc[p].held \in SUBSET Roots
  BY <1>1, Owner, ProcFields
<1>3. t \in Roots
  BY <1>1, <1>2 DEF Course
<1>4. RootSound(t) /\ r \in RootStates
  BY <1>2, <1>3 DEF Safe, Types
<1>5. Bytes(r) \in Nat
  BY <1>4, BytesFacts
<1>6. <<>> \in Seq(Slots) /\ ToSet(<<>>) = {} /\ Slots # {}
  <2>1. ToSet(<<>>) = {}
    BY DEF ToSet
  <2>2. 0 \in Slots
    BY RetentionAssumption DEF Slots
  <2> QED
    BY <2>1, <2>2, EmptySeq
<1>7. CASE r.named # <<>>
  <2> DEFINE new == [r EXCEPT !.named = <<>>]
  <2>1. root' = [root EXCEPT ![t] = new]
    BY <1>7 DEF Clear
  <2>2. /\ new \in RootStates /\ new.lock = r.lock /\ new.named = <<>>
        /\ new.attached = r.attached /\ Bytes(new) = Bytes(r) /\ Present(new) = Present(r)
    BY <1>4, <1>6, WithNamed
  <2> HIDE DEF new
  <2>3. /\ ToSet(new.named) \cup new.attached \subseteq Present(new)
        /\ Slots \ ToSet(new.named) # {} /\ (t \in Native => new.attached = {})
    BY <2>2, <1>4, <1>6 DEF RootSound
  <2>4. Bytes(new) <= Bytes(r)
    BY ONLY <2>2, <1>5
  <2> QED
    BY <2>1, <2>2, <2>3, <2>4
<1>8. CASE r.named = <<>> /\ r.attached # {}
  <2> DEFINE new == [r EXCEPT !.attached = {}]
  <2>1. root' = [root EXCEPT ![t] = new]
    BY <1>8 DEF Clear
  <2>2. /\ new \in RootStates /\ new.lock = r.lock /\ new.named = <<>>
        /\ new.attached = {} /\ Bytes(new) = Bytes(r) /\ Present(new) = Present(r)
    BY <1>4, <1>8, WithoutAttached
  <2> HIDE DEF new
  <2>3. /\ ToSet(new.named) \cup new.attached \subseteq Present(new)
        /\ Slots \ ToSet(new.named) # {} /\ (t \in Native => new.attached = {})
    BY <2>2, <1>6
  <2>4. Bytes(new) <= Bytes(r)
    BY ONLY <2>2, <1>5
  <2> QED
    BY <2>1, <2>2, <2>3, <2>4
<1>9. CASE r.named = <<>> /\ r.attached = {} /\ Present(r) # {}
  <2>1. PICK l \in Present(r) : root' = [root EXCEPT ![t] = [r EXCEPT !.leaf[l] = 0]]
    BY <1>9 DEF Clear
  <2> DEFINE new == [r EXCEPT !.leaf[l] = 0]
  <2>2. l \in Leaves
    BY DEF Present
  <2>3. /\ new \in RootStates /\ new.lock = r.lock /\ new.named = <<>>
        /\ new.attached = {} /\ Bytes(new) <= Bytes(r)
    BY <2>2, <1>4, <1>9, WithoutLeaf
  <2> HIDE DEF new
  <2>4. /\ ToSet(new.named) \cup new.attached \subseteq Present(new)
        /\ Slots \ ToSet(new.named) # {} /\ (t \in Native => new.attached = {})
    BY <2>3, <1>6
  <2>5. root' = [root EXCEPT ![t] = new]
    BY <2>1 DEF new
  <2> QED
    BY <2>3, <2>4, <2>5
<1>10. CASE r.named = <<>> /\ r.attached = {} /\ Present(r) = {}
  <2>1. proc'[p].at = "measure"
    <3> DEFINE rest == proc[p].other - proc[p].bytes[t]
               by == [proc[p].bytes EXCEPT ![t] = 0]
    <3>1. proc' = [proc EXCEPT ![p].at = "measure", ![p].target = Nobody,
                               ![p].other = rest, ![p].bytes = by]
      BY <1>10 DEF Clear, Cleared
    <3> HIDE DEF rest, by
    <3> QED
      BY <3>1, <1>2 DEF Types, ProcStates
  <2> QED
    BY <2>1, <1>1
<1> QED
  BY <1>7, <1>8, <1>9, <1>10

LEMMA ClearSafe ==
    ASSUME Safe, NEW p \in Processes, Clear(p)
    PROVE  Safe'
<1> DEFINE me == proc[p]
           t == me.target
<1>1. /\ me.at = "clear" /\ retention' = retention
      /\ order' = IF root[t].named # <<>> THEN Newest(t) ELSE order
  BY DEF Clear
<1>2. /\ Types /\ Owns(p) /\ Course(p) /\ Keeps(p) /\ Clean(p) /\ me \in ProcStates
      /\ me.held \in SUBSET Roots /\ me.root \in Roots
  BY <1>1, Owner, ProcFields
<1>3. t \in me.held /\ t \in Roots /\ t # me.root /\ root[t].lock = p
  BY <1>1, <1>2 DEF Course, Owns
<1>4. order' \in Seq(Roots)
  BY <1>1, <1>2, <1>3, NewestTyped DEF Types
<1>5. CASE proc' = proc
  <2>1. PICK new \in RootStates :
              /\ root' = [root EXCEPT ![t] = new]
              /\ new.lock = root[t].lock
              /\ ToSet(new.named) \cup new.attached \subseteq Present(new)
              /\ Slots \ ToSet(new.named) # {}
              /\ t \in Native => new.attached = {}
    BY <1>5, ClearWrites
  <2>2. /\ root' \in [Roots -> RootStates] /\ root'[t] = new
        /\ \A s \in Roots : s # t => root'[s] = root[s]
    BY <2>1, <1>2, <1>3 DEF Types
  <2>3. Mine(p)' = Mine(p)
    BY <2>2, <1>2, <1>3, <1>5 DEF Mine
  <2>4. Owns(p)'
    <3>1. \A s \in me.held : root'[s].lock = p
      BY <2>1, <2>2, <1>2, <1>3 DEF Owns
    <3> QED
      BY <3>1, <2>3, <1>1, <1>2, <1>5 DEF Owns
  <2>5. Course(p)'
    BY <1>1, <1>2, <1>5 DEF Course, Reserving
  <2>6. Keeps(p)'
    BY <1>1, <1>2, <1>5 DEF Keeps
  <2>7. Clean(p)'
    <3>1. Beside(p) = {} /\ Beside(p)' = {}
      BY <1>1, <1>5 DEF Beside
    <3> QED
      BY <3>1, <2>3, <1>1, <1>2, <1>5 DEF Clean
  <2>8. Sound(p)'
    BY <2>4, <2>5, <2>6, <2>7 DEF Sound
  <2>9. Types'
    BY <2>2, <1>2, <1>4, <1>5 DEF Types
  <2>10. ASSUME NEW s \in Roots
         PROVE  root'[s] = root[s] \/ (root[s].lock \in {p, Nobody} /\ RootSound(s)')
    <3>1. CASE s = t
      <4>1. RootSound(s)'
        BY <3>1, <2>1, <2>2 DEF RootSound
      <4> QED
        BY <4>1, <3>1, <1>3
    <3> QED
      BY <3>1, <2>2
  <2> QED
    BY <1>1, <1>5, <2>8, <2>9, <2>10, StepSafe
<1>6. CASE proc' # proc
  <2> DEFINE rest == me.other - me.bytes[t]
             by == [me.bytes EXCEPT ![t] = 0]
  <2>0. rest \in Int /\ by \in [Roots -> Nat]
    <3>1. me.bytes \in [Roots -> Nat] /\ me.other \in Int
      BY <1>2, ProcFields
    <3> QED
      BY <3>1, <1>3
  <2>1. /\ proc' = [proc EXCEPT ![p].at = "measure", ![p].target = Nobody,
                               ![p].other = rest, ![p].bytes = by]
        /\ root' = root /\ root[t].named = <<>>
    BY <1>6 DEF Clear, Cleared
  <2> HIDE DEF rest, by
  <2>2. /\ proc' \in [Processes -> ProcStates]
        /\ \A q \in Processes : q # p => proc'[q] = proc[q]
        /\ proc'[p].at = "measure" /\ proc'[p].index = me.index /\ proc'[p].kept = me.kept
        /\ proc'[p].root = me.root /\ proc'[p].held = me.held /\ proc'[p].todo = me.todo
    BY <2>0, <2>1, <1>2 DEF Types, ProcStates, Places
  <2>3. Mine(p)' = Mine(p)
    BY <2>1, <2>2 DEF Mine
  <2>4. Owns(p)'
    BY <1>1, <1>2, <2>1, <2>2, <2>3 DEF Owns
  <2>5. Course(p)'
    BY <1>1, <1>2, <2>2 DEF Course, Reserving
  <2>6. Keeps(p)'
    BY <1>1, <1>2, <2>2 DEF Keeps
  <2>7. Clean(p)'
    <3>1. Beside(p) = {} /\ Beside(p)' = {}
      BY <1>1, <2>2 DEF Beside
    <3> QED
      BY <3>1, <2>2, <2>3, <1>1, <1>2 DEF Clean
  <2>8. Sound(p)'
    BY <2>4, <2>5, <2>6, <2>7 DEF Sound
  <2>9. order' = order
    BY <1>1, <2>1
  <2> QED
    BY <1>1, <2>1, <2>2, <2>8, <2>9, StaySafe
<1> QED
  BY <1>5, <1>6

LEMMA GrantSafe ==
    ASSUME Safe, NEW p \in Processes, Grant(p)
    PROVE  Safe'
<1> DEFINE me == proc[p]
           at == IF me.incoming \in 1 .. Allowance(p) THEN "write" ELSE "prune"
<1>1. /\ me.at = "measure" /\ me.todo = <<>> /\ root' = Unlock(me.held)
      /\ proc' = [proc EXCEPT ![p].at = at, ![p].held = {}, ![p].then = "release"]
      /\ order' = order /\ retention' = retention
  BY DEF Grant
<1>2. /\ Types /\ Owns(p) /\ Course(p) /\ Keeps(p) /\ Clean(p) /\ me \in ProcStates
      /\ me.held \in SUBSET Roots /\ me.root \in Roots
  BY <1>1, Owner, ProcFields
<1>3. at \in {"write", "prune"} /\ (at = "write" => me.incoming \in 1 .. Allowance(p))
  OBVIOUS
<1> HIDE DEF at
<1>4. /\ proc' \in [Processes -> ProcStates]
      /\ \A q \in Processes : q # p => proc'[q] = proc[q]
      /\ proc'[p].at = at /\ proc'[p].index = me.index /\ proc'[p].kept = me.kept
      /\ proc'[p].root = me.root /\ proc'[p].held = {} /\ proc'[p].todo = me.todo
      /\ proc'[p].incoming = me.incoming /\ proc'[p].other = me.other
      /\ proc'[p].limit = me.limit /\ proc'[p].then = "release"
  BY <1>1, <1>2, <1>3 DEF Types, ProcStates, Places
<1>5. Mine(p)' = Mine(p)
  <2>1. me.root \notin me.held
    BY <1>2 DEF Owns
  <2> QED
    BY <2>1, <1>1, <1>2, <1>4, UnlockFacts DEF Mine, Types
<1>6. Allowance(p)' = Allowance(p)
  BY <1>1, <1>4 DEF Allowance
<1>7. Owns(p)'
  BY <1>1, <1>2, <1>3, <1>4, <1>5 DEF Owns
<1>8. Course(p)'
  BY <1>1, <1>2, <1>3, <1>4 DEF Course, Reserving
<1>9. Keeps(p)'
  BY <1>1, <1>2, <1>3, <1>4, <1>6 DEF Keeps
<1>10. Clean(p)'
  <2>1. Beside(p) = {} /\ Beside(p)' = {}
    BY <1>1, <1>3, <1>4 DEF Beside
  <2> QED
    BY <2>1, <1>1, <1>2, <1>3, <1>4, <1>5 DEF Clean
<1>11. Sound(p)'
  BY <1>7, <1>8, <1>9, <1>10 DEF Sound
<1>12. Types'
  <2>1. root' \in [Roots -> RootStates]
    BY <1>1, <1>2, UnlockFacts DEF Types
  <2> QED
    BY <2>1, <1>1, <1>2, <1>4 DEF Types
<1>13. ASSUME NEW r \in Roots
       PROVE  root'[r] = root[r] \/ (root[r].lock \in {p, Nobody} /\ RootSound(r)')
  <2>1. CASE r \in me.held
    BY <2>1, <1>1, <1>2, UnlockSound DEF Owns
  <2>2. CASE r \notin me.held
    BY <2>2, <1>1, <1>2, UnlockFacts DEF Types
  <2> QED
    BY <2>1, <2>2
<1> QED
  BY <1>1, <1>4, <1>11, <1>12, <1>13, StepSafe

LEMMA RuntimeTakesSafe ==
    ASSUME Safe, NEW r \in Legacy, RuntimeTakes(r)
    PROVE  Safe'
<1> DEFINE k == IF root[r].lock = Nobody THEN Runtime ELSE Nobody
           new == [root[r] EXCEPT !.lock = k]
<1>1. /\ root[r].lock \in {Nobody, Runtime} /\ root' = [root EXCEPT ![r] = new]
      /\ proc' = proc /\ order' = order /\ retention' = retention
  BY DEF RuntimeTakes
<1>2. Types /\ r \in Roots /\ root[r] \in RootStates /\ RootSound(r)
  BY DEF Safe, Types, Roots
<1>3. k \in Processes \cup {Nobody, Runtime}
  OBVIOUS
<1> HIDE DEF k
<1>4. /\ new \in RootStates /\ new.named = root[r].named /\ new.attached = root[r].attached
      /\ Present(new) = Present(root[r])
  BY <1>2, <1>3, WithLock
<1> HIDE DEF new
<1>5. /\ root' \in [Roots -> RootStates] /\ root'[r] = new
      /\ \A s \in Roots : s # r => root'[s] = root[s]
  BY <1>1, <1>2, <1>4 DEF Types
<1>6. Types'
  BY <1>1, <1>2, <1>5 DEF Types
<1>7. ASSUME NEW s \in Roots PROVE RootSound(s)'
  <2>1. RootSound(s)
    BY DEF Safe
  <2>2. CASE s = r
    BY <2>1, <2>2, <1>4, <1>5 DEF RootSound
  <2>3. CASE s # r
    BY <2>1, <2>3, <1>5 DEF RootSound
  <2> QED
    BY <2>2, <2>3
<1>8. ASSUME NEW q \in Processes PROVE Sound(q)'
  <2>1. \A s \in Roots : root[s].lock = q => root'[s] = root[s]
    BY <1>1, <1>5, NobodyElse
  <2> QED
    BY <2>1, <1>1, OthersSound
<1> QED
  BY <1>6, <1>7, <1>8 DEF Safe

\* A legacy server that writes its own root writes nothing a process relies on.
LEMMA RuntimeWritten ==
    ASSUME Safe, NEW r \in Legacy, NEW l \in Slots, NEW size \in Sizes \cup {0},
           RuntimeWrites(r, l, size)
    PROVE  /\ proc' = proc /\ retention' = retention /\ r \notin Native
           /\ root' \in [Roots -> RootStates] /\ order' \in Seq(Roots)
           /\ RootSound(r)'
           /\ \A s \in Roots : s # r => root'[s] = root[s]
           /\ \A q \in Processes, s \in Roots : root[s].lock = q => root'[s] = root[s]
<1> DEFINE k == root[r]
           others == Without(k.named, {l})
           named == IF size > 0 /\ Len(others) < MaxEntries THEN Append(others, l) ELSE others
           leaf == [k.leaf EXCEPT ![l] = size]
           new == [k EXCEPT !.leaf = leaf, !.named = named, !.attached = k.attached \ {l}]
<1>1. /\ k.lock = Runtime /\ root' = [root EXCEPT ![r] = new] /\ order' = Newest(r)
      /\ proc' = proc /\ retention' = retention
  BY DEF RuntimeWrites
<1>2. /\ Types /\ r \in Roots /\ k \in RootStates /\ RootSound(r) /\ r \notin Native
      /\ size \in Nat /\ l \in Leaves
  BY RetentionAssumption, LeafFacts DEF Safe, Types, Roots
<1>3. /\ k.named \in Seq(Slots) /\ k.attached \in SUBSET Leaves /\ k.leaf \in [Leaves -> Nat]
      /\ ToSet(k.named) \cup k.attached \subseteq Present(k)
  BY <1>2 DEF RootStates, RootSound
<1>4. others \in Seq(Slots) /\ ToSet(others) = ToSet(k.named) \ {l}
  BY <1>3, WithoutFacts
<1>5. /\ named \in Seq(Slots) /\ ToSet(named) \subseteq ToSet(k.named) \cup {l}
      /\ size = 0 => l \notin ToSet(named)
      /\ Slots \ ToSet(named) # {}
  <2>1. CASE size > 0 /\ Len(others) < MaxEntries
    <3>1. named = Append(others, l)
      BY <2>1
    <3> HIDE DEF others, named
    <3>2. named \in Seq(Slots) /\ ToSet(named) = ToSet(others) \cup {l}
      BY <3>1, <1>4, AppendSet
    <3>3. Len(named) <= MaxEntries
      BY <2>1, <3>1, <1>4, LeafFacts
    <3> QED
      BY <2>1, <3>2, <3>3, <1>2, <1>4, SlotSpare
  <2>2. CASE ~ (size > 0 /\ Len(others) < MaxEntries)
    <3>1. named = others
      BY <2>2
    <3> HIDE DEF others, named
    <3> QED
      BY <3>1, <1>2, <1>4 DEF RootSound
  <2> QED
    BY <2>1, <2>2
<1> HIDE DEF named, others
<1>6. leaf \in [Leaves -> Nat] /\ \A x \in Leaves : leaf[x] = IF x = l THEN size ELSE k.leaf[x]
  BY <1>2, <1>3
<1> HIDE DEF leaf
<1>7. /\ new \in RootStates /\ new.named = named /\ new.attached = k.attached \ {l}
      /\ new.leaf = leaf
  BY <1>2, <1>3, <1>5, <1>6 DEF RootStates
<1> HIDE DEF new
<1>8. ToSet(named) \cup new.attached \subseteq Present(new)
  <2> SUFFICES ASSUME NEW x \in ToSet(named) \cup new.attached
               PROVE  x \in Leaves /\ leaf[x] > 0
    BY <1>7 DEF Present
  <2>1. CASE x = l
    BY <2>1, <1>2, <1>5, <1>6, <1>7
  <2>2. CASE x # l
    <3>1. x \in Present(k)
      BY <2>2, <1>3, <1>5, <1>7
    <3> QED
      BY <3>1, <2>2, <1>6 DEF Present
  <2> QED
    BY <2>1, <2>2
<1>9. /\ root' \in [Roots -> RootStates] /\ root'[r] = new
      /\ \A s \in Roots : s # r => root'[s] = root[s]
  BY <1>1, <1>2, <1>7 DEF Types
<1>10. RootSound(r)'
  BY <1>2, <1>5, <1>7, <1>8, <1>9 DEF RootSound
<1>11. order' \in Seq(Roots)
  BY <1>1, <1>2, NewestTyped
<1> QED
  BY <1>1, <1>2, <1>9, <1>10, <1>11, NobodyElse

LEMMA RuntimeWritesSafe ==
    ASSUME Safe, NEW r \in Legacy, NEW l \in Slots, NEW size \in Sizes \cup {0},
           RuntimeWrites(r, l, size)
    PROVE  Safe'
<1>1. /\ proc' = proc /\ retention' = retention
      /\ root' \in [Roots -> RootStates] /\ order' \in Seq(Roots)
      /\ RootSound(r)'
      /\ \A s \in Roots : s # r => root'[s] = root[s]
      /\ \A q \in Processes, s \in Roots : root[s].lock = q => root'[s] = root[s]
  BY RuntimeWritten
<1>2. Types'
  BY <1>1 DEF Safe, Types
<1>3. ASSUME NEW s \in Roots PROVE RootSound(s)'
  <2>1. RootSound(s)
    BY DEF Safe
  <2> QED
    BY <2>1, <1>1 DEF RootSound
<1>4. ASSUME NEW q \in Processes PROVE Sound(q)'
  BY <1>1, OthersSound
<1> QED
  BY <1>2, <1>3, <1>4 DEF Safe

-----------------------------------------------------------------------------
(* Every step *)

LEMMA InitSafe ==
    ASSUME Init
    PROVE  Safe
<1>1. root \in Founds /\ proc = [p \in Processes |-> Absent] /\ retention = Nobody
      /\ order \in SetToSeqs(Roots)
  BY DEF Init
<1>2. /\ root \in [Roots -> RootStates]
      /\ \A r \in Roots :
            /\ Len(root[r].named) <= MaxEntries
            /\ ToSet(root[r].named) \cup root[r].attached \subseteq Present(root[r])
            /\ r \in Native => root[r].attached = {}
  BY <1>1, FoundAssumption
<1>3. Absent \in ProcStates
  BY EmptySeq DEF Absent, ProcStates, Places
<1>4. order \in Seq(Roots)
  <2>1. IsFiniteSet(Roots)
    BY RetentionAssumption, FS_Union DEF Roots
  <2>2. Cardinality(Roots) \in Nat
    BY <2>1, FS_CardinalityType
  <2>3. order \in [1 .. Cardinality(Roots) -> Roots]
    BY <1>1 DEF SetToSeqs
  <2> QED
    BY <2>2, <2>3
<1>5. Types
  BY <1>1, <1>2, <1>3, <1>4 DEF Types
<1>6. ASSUME NEW r \in Roots PROVE RootSound(r)
  <2>1. root[r].named \in Seq(Slots)
    BY <1>2 DEF RootStates
  <2> QED
    BY <2>1, <1>2, SlotSpare DEF RootSound
<1>7. ASSUME NEW p \in Processes PROVE Sound(p)
  <2>1. proc[p] = Absent /\ retention # p
    BY <1>1, NobodyElse
  <2>2. Owns(p) /\ Course(p) /\ Keeps(p) /\ Clean(p)
    BY <2>1 DEF Owns, Course, Reserving, Keeps, Clean, Absent
  <2> QED
    BY <2>2 DEF Sound
<1> QED
  BY <1>5, <1>6, <1>7 DEF Safe

LEMMA StutterSafe ==
    ASSUME Safe, UNCHANGED vars
    PROVE  Safe'
<1>1. root' = root /\ order' = order /\ proc' = proc /\ retention' = retention
  BY DEF vars
<1>2. Types'
  BY <1>1 DEF Safe, Types
<1>3. \A r \in Roots : RootSound(r)'
  BY <1>1 DEF Safe, RootSound
<1>4. ASSUME NEW q \in Processes PROVE Sound(q)'
  BY <1>1, OthersSound
<1> QED
  BY <1>2, <1>3, <1>4 DEF Safe

LEMMA NextSafe ==
    ASSUME Safe, [Next]_vars
    PROVE  Safe'
<1>1. CASE UNCHANGED vars
  BY <1>1, StutterSafe
<1>2. ASSUME NEW r \in Legacy, RuntimeTakes(r) PROVE Safe'
  BY <1>2, RuntimeTakesSafe
<1>0. ASSUME NEW r \in Legacy, NEW l \in Slots, NEW size \in Sizes \cup {0},
             RuntimeWrites(r, l, size)
      PROVE  Safe'
  BY <1>0, RuntimeWritesSafe
<1>3. ASSUME NEW p \in Processes, StoreStep(p) PROVE Safe'
  <2>1. ASSUME NEW r \in Native, NEW limit \in Limits, Open(p, r, limit) PROVE Safe'
    BY <2>1, OpenSafe
  <2>2. ASSUME NEW size \in Sizes, NEW superseded \in SUBSET Slots, Save(p, size, superseded)
        PROVE  Safe'
    BY <2>2, SaveSafe
  <2>3. ASSUME NEW l \in Slots, Touch(p, l) \/ RemoveInvalid(p, l) PROVE Safe'
    BY <2>3, TouchSafe, RemoveInvalidSafe
  <2>4. CASE Prune(p) \/ Unlink(p)
    BY <2>4, PruneSafe, UnlinkSafe
  <2>5. CASE WriteTemp(p) \/ PublishPayload(p) \/ InstallIndex(p) \/ Release(p)
    BY <2>5, WriteTempSafe, PublishPayloadSafe, InstallIndexSafe, ReleaseSafe
  <2>6. CASE WriteFails(p)
    BY <2>6, RefuseSafe DEF WriteFails
  <2> QED
    BY <1>3, <2>1, <2>2, <2>3, <2>4, <2>5, <2>6 DEF StoreStep
<1>4. ASSUME NEW p \in Processes, ReserveStep(p) PROVE Safe'
  <2>1. CASE TryRetention(p) \/ Measure(p) \/ ChooseRoot(p)
    BY <2>1, TryRetentionSafe, MeasureSafe, ChooseRootSafe
  <2>2. CASE Clear(p) \/ Grant(p)
    BY <2>2, ClearSafe, GrantSafe
  <2>3. CASE ClearFails(p)
    BY <2>3, RefuseSafe DEF ClearFails
  <2> QED
    BY <1>4, <2>1, <2>2, <2>3 DEF ReserveStep
<1>5. ASSUME NEW p \in Processes, Die(p) PROVE Safe'
  BY <1>5, DieSafe
<1> QED
  BY <1>0, <1>1, <1>2, <1>3, <1>4, <1>5 DEF Next

-----------------------------------------------------------------------------
(* Bytes of many roots, and of many entries *)

LEMMA RootSumFacts ==
    ASSUME NEW by \in [Roots -> Nat], NEW out
    PROVE  /\ Len(Names) \in Nat
           /\ \A i \in 0 .. Len(Names) : Counted(by, out, i) \in Nat
           /\ RootSum(by, out) \in Nat
<1> DEFINE f == [i \in 0 .. Len(Names) |-> Counted(by, out, i)]
<1>1. Len(Names) \in Nat /\ \A i \in 1 .. Len(Names) : Names[i] \in Roots
  BY NamesFacts, LenProperties, ElementOfSeq
<1>2. \A i \in 0 .. Len(Names) : Counted(by, out, i) \in Nat
  <2> TAKE i \in 0 .. Len(Names)
  <2>1. CASE i = 0
    BY <2>1 DEF Counted
  <2>2. CASE i # 0
    <3>1. i \in 1 .. Len(Names)
      BY <2>2, <1>1
    <3>2. by[Names[i]] \in Nat
      BY <3>1, <1>1
    <3> QED
      BY <2>2, <3>2 DEF Counted
  <2> QED
    BY <2>1, <2>2
<1>3. \A i \in 0 .. Len(Names) : f[i] \in Nat
  BY <1>2
<1> HIDE DEF f
<1>4. SumTo(f, Len(Names)) \in Nat
  BY <1>1, <1>3, SumTerm
<1> QED
  BY <1>1, <1>2, <1>4 DEF RootSum, f

\* Counting fewer roots, and none for more.
LEMMA RootSumLe ==
    ASSUME NEW by \in [Roots -> Nat], NEW new \in [Roots -> Nat],
           NEW out, NEW more,
           \A r \in Roots : r \notin more => r \notin out /\ new[r] <= by[r]
    PROVE  RootSum(new, more) <= RootSum(by, out)
<1> DEFINE n == Len(Names)
           f == [i \in 0 .. n |-> Counted(new, more, i)]
           h == [i \in 0 .. n |-> Counted(by, out, i)]
<1>1. n \in Nat /\ \A i \in 1 .. n : Names[i] \in Roots
  BY NamesFacts, LenProperties, ElementOfSeq
<1>2. \A i \in 0 .. n : Counted(new, more, i) \in Nat /\ Counted(by, out, i) \in Nat
  BY RootSumFacts
<1>3. \A i \in 0 .. n : Counted(new, more, i) <= Counted(by, out, i)
  <2> TAKE i \in 0 .. n
  <2>1. CASE i = 0 \/ Names[i] \in more
    <3>1. Counted(new, more, i) = 0
      BY <2>1 DEF Counted
    <3> QED
      BY <3>1, <1>2
  <2>2. CASE i # 0 /\ Names[i] \notin more
    <3>1. i \in 1 .. n
      BY <2>2, <1>1
    <3>2. Names[i] \notin out /\ new[Names[i]] <= by[Names[i]]
      BY <3>1, <2>2, <1>1
    <3> QED
      BY <3>2, <2>2 DEF Counted
  <2> QED
    BY <2>1, <2>2
<1>4. /\ \A i \in 0 .. n : f[i] \in Nat /\ h[i] \in Nat /\ f[i] <= h[i]
  BY <1>2, <1>3
<1> HIDE DEF f, h, n
<1>5. SumTo(f, n) <= SumTo(h, n)
  BY <1>1, <1>4, SumLe
<1> QED
  BY <1>5 DEF RootSum, f, h, n

\* One root less.
LEMMA RootSumSplit ==
    ASSUME NEW by \in [Roots -> Nat], NEW out, NEW r \in Roots, r \notin out
    PROVE  RootSum(by, out) = RootSum(by, out \cup {r}) + by[r]
<1> DEFINE n == Len(Names)
           more == out \cup {r}
           f == [i \in 0 .. n |-> Counted(by, out, i)]
           h == [i \in 0 .. n |-> Counted(by, more, i)]
<1>1. n \in Nat /\ DOMAIN Names = 1 .. n
  BY NamesFacts, LenProperties
<1>2. PICK k \in 1 .. n : Names[k] = r
  BY <1>1, NamesFacts DEF ToSet
<1>3. \A i \in 1 .. n : Names[i] = r => i = k
  BY <1>2, NamesFacts
<1>4. \A i \in 0 .. n : Counted(by, out, i) \in Nat /\ Counted(by, more, i) \in Nat
  BY RootSumFacts
<1>5. k \in 0 .. n /\ k # 0
  BY <1>1
<1>6. Counted(by, out, k) = by[r] /\ Counted(by, more, k) = 0
  BY <1>2, <1>5 DEF Counted
<1>7. \A i \in 0 .. n : i # k => Counted(by, more, i) = Counted(by, out, i)
  <2> SUFFICES ASSUME NEW i \in 0 .. n, i # k
               PROVE  Counted(by, more, i) = Counted(by, out, i)
    OBVIOUS
  <2>1. CASE i = 0
    BY <2>1 DEF Counted
  <2>2. CASE i # 0
    <3>1. i \in 1 .. n
      BY <2>2, <1>1
    <3>2. Names[i] # r
      BY <3>1, <1>3
    <3> QED
      BY <3>2, <2>2 DEF Counted
  <2> QED
    BY <2>1, <2>2
<1>8. /\ \A i \in 0 .. n : f[i] \in Nat /\ h[i] \in Nat
      /\ \A i \in 0 .. n : i # k => h[i] = f[i]
      /\ f[k] = by[r] /\ h[k] = 0
  BY <1>4, <1>5, <1>6, <1>7
<1>9. RootSum(by, out) = SumTo(f, n) /\ RootSum(by, more) = SumTo(h, n)
  BY DEF RootSum
<1> HIDE DEF f, h, n, more
<1>10. SumTo(h, n) + f[k] = SumTo(f, n) + h[k]
  <2>1. \A i \in 0 .. n : f[i] \in Nat
    BY <1>8
  <2>2. \A i \in 0 .. n : h[i] \in Nat
    BY <1>8
  <2>3. \A i \in 0 .. n : i # k => h[i] = f[i]
    BY <1>8
  <2>4. n \in Nat /\ k \in 0 .. n
    BY <1>1, <1>5
  <2> QED
    BY ONLY <2>1, <2>2, <2>3, <2>4, SumChange
<1>11. SumTo(h, n) \in Nat /\ SumTo(f, n) \in Nat /\ by[r] \in Nat
  BY <1>1, <1>8, SumTerm
<1>12. RootSum(by, out) = RootSum(by, more) + by[r]
  BY ONLY <1>8, <1>9, <1>10, <1>11
<1> QED
  BY <1>12 DEF more

\* Nothing is counted before anything is measured.
LEMMA RootSumNone ==
    ASSUME NEW by \in [Roots -> Nat], NEW out, Roots \subseteq out
    PROVE  RootSum(by, out) = 0
<1> DEFINE n == Len(Names)
           f == [i \in 0 .. n |-> Counted(by, out, i)]
<1>1. n \in Nat /\ \A i \in 1 .. n : Names[i] \in Roots
  BY NamesFacts, LenProperties, ElementOfSeq
<1>2. \A i \in 0 .. n : Counted(by, out, i) = 0
  <2> TAKE i \in 0 .. n
  <2>1. i = 0 \/ i \in 1 .. n
    BY <1>1
  <2> QED
    BY <2>1, <1>1 DEF Counted
<1>3. \A i \in 0 .. n : f[i] \in Nat /\ f[i] = 0
  BY <1>2
<1> HIDE DEF f, n
<1>4. SumTo(f, n) = 0
  BY <1>1, <1>3, SumTerm
<1> QED
  BY <1>4 DEF RootSum, f, n

LEMMA LiveLe ==
    ASSUME NEW r \in RootStates, NEW q \in RootStates, NEW e \in Seq(Slots),
           \A l \in Leaves : q.leaf[l] <= r.leaf[l]
    PROVE  LiveBytes(q, e) <= LiveBytes(r, e)
<1> DEFINE f == [i \in 0 .. Len(e) |-> Term(q, e, i)]
           h == [i \in 0 .. Len(e) |-> Term(r, e, i)]
<1>1. /\ LiveBytes(q, e) = SumTo(f, Len(e)) /\ LiveBytes(r, e) = SumTo(h, Len(e))
      /\ Len(e) \in Nat
      /\ \A i \in 0 .. Len(e) : Term(q, e, i) \in Nat /\ Term(r, e, i) \in Nat
  BY LiveFacts
<1>2. \A i \in 1 .. Len(e) : e[i] \in Leaves
  BY ElementOfSeq, LeafFacts
<1>3. \A i \in 0 .. Len(e) : Term(q, e, i) <= Term(r, e, i)
  <2> TAKE i \in 0 .. Len(e)
  <2>1. CASE i = 0
    BY <2>1 DEF Term
  <2>2. CASE i # 0
    <3>1. i \in 1 .. Len(e)
      BY <2>2, <1>1
    <3>2. q.leaf[e[i]] <= r.leaf[e[i]]
      BY <3>1, <1>2
    <3> QED
      BY <3>2, <2>2 DEF Term
  <2> QED
    BY <2>1, <2>2
<1>4. \A i \in 0 .. Len(e) : f[i] \in Nat /\ h[i] \in Nat /\ f[i] <= h[i]
  BY <1>1, <1>3
<1> HIDE DEF f, h
<1>5. SumTo(f, Len(e)) <= SumTo(h, Len(e))
  BY <1>1, <1>4, SumLe
<1> QED
  BY <1>1, <1>5

\* One entry more.
LEMMA LiveAppend ==
    ASSUME NEW r \in RootStates, NEW e \in Seq(Slots), NEW l \in Slots
    PROVE  LiveBytes(r, Append(e, l)) = LiveBytes(r, e) + r.leaf[l]
<1> DEFINE a == Append(e, l)
           n == Len(e)
           f == [i \in 0 .. n |-> Term(r, e, i)]
           h == [i \in 0 .. n + 1 |-> Term(r, a, i)]
<1>1. /\ a \in Seq(Slots) /\ Len(a) = n + 1 /\ n \in Nat
      /\ \A i \in 1 .. n : a[i] = e[i]
      /\ a[n + 1] = l
  BY AppendProperties, LenProperties
<1>2. /\ LiveBytes(r, e) = SumTo(f, n) /\ \A i \in 0 .. n : Term(r, e, i) \in Nat
  BY LiveFacts
<1> HIDE DEF a
<1>3. LiveBytes(r, a) = SumTo(h, n + 1) /\ \A i \in 0 .. n + 1 : Term(r, a, i) \in Nat
  <2>1. /\ LiveBytes(r, a) = SumTo([i \in 0 .. Len(a) |-> Term(r, a, i)], Len(a))
        /\ \A i \in 0 .. Len(a) : Term(r, a, i) \in Nat
    BY <1>1, LiveFacts
  <2> QED
    BY <2>1, <1>1
<1>4. \A i \in 0 .. n : Term(r, a, i) = Term(r, e, i)
  <2> TAKE i \in 0 .. n
  <2>1. i = 0 \/ i \in 1 .. n
    BY <1>1
  <2> QED
    BY <2>1, <1>1 DEF Term
<1>5. Term(r, a, n + 1) = r.leaf[l]
  <2>1. n + 1 # 0
    BY <1>1
  <2> QED
    BY <2>1, <1>1 DEF Term
<1>6. /\ \A i \in 0 .. n : f[i] \in Nat /\ h[i] = f[i]
      /\ \A i \in 0 .. n + 1 : h[i] \in Nat
      /\ h[n + 1] = r.leaf[l]
  <2>1. n + 1 \in 0 .. n + 1 /\ \A i \in 0 .. n : i \in 0 .. n + 1
    BY <1>1
  <2> QED
    BY <2>1, <1>2, <1>3, <1>4, <1>5
<1> HIDE DEF f, h, n
<1>7. SumTo(h, n + 1) = SumTo(h, n) + h[n + 1]
  <2>1. n + 1 \in Nat /\ n + 1 \in 1 .. n + 1 /\ n + 1 - 1 = n
    BY <1>1
  <2> DEFINE m == n + 1
  <2>2. m \in Nat /\ \A i \in 0 .. m : h[i] \in Nat
    BY <2>1, <1>6
  <2>4. m \in 1 .. m /\ m - 1 = n /\ m = n + 1
    BY <2>1, <1>1
  <2> HIDE DEF m
  <2>3. \A i \in 1 .. m : SumTo(h, i) = SumTo(h, i - 1) + h[i]
    BY ONLY <2>2, SumStep
  <2>5. SumTo(h, m) = SumTo(h, m - 1) + h[m]
    BY <2>3, <2>4
  <2> QED
    BY <2>4, <2>5
<1>8. SumTo(f, n) = SumTo(h, n)
  BY <1>1, <1>6, SumEqual
<1> QED
  BY <1>2, <1>3, <1>6, <1>7, <1>8 DEF a

\* What an index names bounds what is there, when it names all that is there.
LEMMA LiveCovers ==
    ASSUME NEW r \in RootStates, NEW e \in Seq(Slots), Present(r) \subseteq ToSet(e)
    PROVE  Bytes(r) <= LiveBytes(r, e)
<1> DEFINE n == Len(e)
           f == [i \in 0 .. n |-> Term(r, e, i)]
           Upto(k) == {e[i] : i \in 1 .. k}
           Part(k) == [l \in 0 .. Temp |-> IF l \in Upto(k) THEN r.leaf[l] ELSE 0]
           good == {k \in 0 .. n : SumTo(Part(k), Temp) <= SumTo(f, k)}
<1>1. /\ LiveBytes(r, e) = SumTo(f, n) /\ n \in Nat
      /\ \A i \in 0 .. n : Term(r, e, i) \in Nat
  BY LiveFacts
<1>2. Temp \in Nat /\ DOMAIN e = 1 .. n /\ \A i \in 1 .. n : e[i] \in 0 .. Temp
  BY LeafFacts, LenProperties, ElementOfSeq DEF Leaves
<1>3. \A l \in 0 .. Temp : r.leaf[l] \in Nat
  BY BytesFacts DEF Leaves
<1>4. \A i \in 0 .. n : f[i] \in Nat
  BY <1>1
<1>5. \A i \in 1 .. n : f[i] = r.leaf[e[i]]
  BY <1>1 DEF Term
<1>6. f[0] = 0
  BY <1>1 DEF Term
<1> HIDE DEF f
<1>7. /\ SumTo(f, 0) = 0 /\ \A i \in 0 .. n : SumTo(f, i) \in Nat
      /\ \A i \in 1 .. n : SumTo(f, i) = SumTo(f, i - 1) + f[i]
  BY <1>1, <1>4, <1>6, SumStep
<1>8. \A k : \A l \in 0 .. Temp : Part(k)[l] \in Nat /\ Part(k)[l] = IF l \in Upto(k) THEN r.leaf[l] ELSE 0
  BY <1>3
<1>9. ASSUME NEW k PROVE SumTo(Part(k), Temp) \in Nat
  <2> DEFINE g == Part(k)
  <2>1. \A l \in 0 .. Temp : g[l] \in Nat
    BY <1>8
  <2> HIDE DEF g
  <2>2. SumTo(g, Temp) \in Nat
    BY <2>1, <1>2, SumTerm
  <2> QED
    BY <2>2 DEF g
<1>10. 0 \in good
  <2> DEFINE g == Part(0)
  <2>1. \A l \in 0 .. Temp : g[l] \in Nat /\ g[l] = 0
    BY <1>3
  <2> HIDE DEF g
  <2>2. SumTo(g, Temp) = 0
    BY <2>1, <1>2, SumTerm
  <2>3. SumTo(Part(0), Temp) = 0
    BY <2>2 DEF g
  <2> HIDE DEF Part
  <2> QED
    BY <2>3, <1>1, <1>7
<1>11. ASSUME NEW k \in 1 .. n, k - 1 \in good PROVE k \in good
  <2> DEFINE a == Part(k - 1)
             b == Part(k)
             l == e[k]
  <2>1. l \in 0 .. Temp /\ k \in 0 .. n /\ k - 1 \in 0 .. n
    BY <1>1, <1>2
  <2>2. \A i \in 0 .. Temp : i # l => (i \in Upto(k) <=> i \in Upto(k - 1))
    <3> SUFFICES ASSUME NEW i \in 0 .. Temp, i # l PROVE i \in Upto(k) <=> i \in Upto(k - 1)
      OBVIOUS
    <3>1. \A j \in 1 .. k : j = k \/ j \in 1 .. k - 1
      BY <1>1
    <3>2. \A j \in 1 .. k - 1 : j \in 1 .. k
      BY <1>1
    <3> QED
      BY <3>1, <3>2
  <2>3. l \in Upto(k)
    <3>1. k \in 1 .. k
      BY <1>1
    <3> QED
      BY <3>1
  <2>4. \A i \in 0 .. Temp : a[i] \in Nat
    BY <1>8
  <2>5. \A i \in 0 .. Temp : b[i] \in Nat
    BY <1>8
  <2>6. \A i \in 0 .. Temp : i # l => b[i] = a[i]
    BY <1>8, <2>2
  <2>7. b[l] = r.leaf[l] /\ r.leaf[l] = f[k]
    BY <1>5, <1>8, <2>1, <2>3
  <2>8. SumTo(a, Temp) \in Nat /\ SumTo(b, Temp) \in Nat
    BY <1>9
  <2>9. SumTo(a, Temp) <= SumTo(f, k - 1)
    BY <1>11
  <2> HIDE DEF a, b, l
  <2>10. SumTo(b, Temp) + a[l] = SumTo(a, Temp) + b[l]
    BY ONLY <1>2, <2>1, <2>4, <2>5, <2>6, SumChange, SMTT(20)
  <2>11. a[l] \in Nat /\ f[k] \in Nat /\ SumTo(f, k) = SumTo(f, k - 1) + f[k]
         /\ SumTo(f, k - 1) \in Nat
    BY <1>4, <1>7, <2>1, <2>4
  <2>12. SumTo(b, Temp) <= SumTo(f, k)
    <3>1. b[l] = f[k]
      BY <2>7
    <3> QED
      BY ONLY <3>1, <2>8, <2>9, <2>10, <2>11
  <2>13. SumTo(Part(k), Temp) <= SumTo(f, k)
    BY <2>12 DEF b
  <2> HIDE DEF Part
  <2> QED
    BY <2>1, <2>13
<1>12. \A k \in 0 .. n : k \in good
  <2> HIDE DEF good
  <2> QED
    BY ONLY <1>1, <1>10, <1>11, Upwards
<1>13. SumTo(Part(n), Temp) <= SumTo(f, n)
  <2>1. n \in 0 .. n
    BY <1>1
  <2> QED
    BY <2>1, <1>12
<1>14. SumTo(Part(n), Temp) = SumTo(r.leaf, Temp)
  <2> DEFINE g == Part(n)
             h == r.leaf
  <2>1. \A l \in 0 .. Temp : h[l] = g[l]
    <3> SUFFICES ASSUME NEW l \in 0 .. Temp PROVE r.leaf[l] = Part(n)[l]
      OBVIOUS
    <3>1. CASE l \in Upto(n)
      BY <3>1, <1>8
    <3>2. CASE l \notin Upto(n)
      <4>1. l \notin ToSet(e)
        BY <3>2, <1>2 DEF ToSet
      <4>2. ~ (r.leaf[l] > 0)
        BY <4>1 DEF Present, Leaves
      <4>3. r.leaf[l] = 0
        BY <4>2, <1>3
      <4> QED
        BY <4>3, <3>2, <1>8
    <3> QED
      BY <3>1, <3>2
  <2>2. \A l \in 0 .. Temp : g[l] \in Nat
    BY <1>8
  <2> HIDE DEF g, h
  <2>3. SumTo(g, Temp) = SumTo(h, Temp)
    BY ONLY <2>1, <2>2, <1>2, SumEqual
  <2> QED
    BY <2>3 DEF g, h
<1> HIDE DEF Part, n
<1> QED
  BY <1>1, <1>13, <1>14 DEF Bytes

-----------------------------------------------------------------------------
(* The budget of each process *)

\* What a step of p leaves to the others: it writes only roots that p or nobody
\* has locked, takes or frees retention.lock only for itself, and adds no bytes
\* unless it has it.
Aside(p) ==
    /\ \A q \in Processes : q # p => proc'[q] = proc[q]
    /\ retention' = retention \/ {retention, retention'} \subseteq {p, Nobody}
    /\ \A r \in Roots : root'[r] = root[r] \/ root[r].lock \in {p, Nobody}
    /\ retention # p => \A r \in Roots : Bytes(root'[r]) <= Bytes(root[r])

LEMMA BytesTyped ==
    ASSUME Types, NEW r \in Roots
    PROVE  root[r] \in RootStates /\ Bytes(root[r]) \in Nat
BY BytesFacts DEF Types

\* Native roots that do not grow stay within what was measured.
LEMMA NativeLe ==
    ASSUME Types, Types', NEW q \in Processes, NEW r \in Native,
           Bytes(root'[r]) <= Bytes(root[r]), Bytes(root[r]) <= proc[q].bytes[r]
    PROVE  Bytes(root'[r]) <= proc[q].bytes[r]
<1>1. r \in Roots /\ root'[r] \in RootStates /\ root[r] \in RootStates
  BY DEF Types, Roots
<1>2. Bytes(root'[r]) \in Nat /\ Bytes(root[r]) \in Nat
  BY <1>1, BytesFacts
<1>3. proc[q].bytes[r] \in Nat
  BY <1>1, ProcFields
<1> QED
  BY <1>2, <1>3

LEMMA OthersBudget ==
    ASSUME Safe, Types', NEW q \in Processes, Budget(q), proc'[q] = proc[q],
           (retention' = q) <=> (retention = q),
           \A r \in Roots : root[r].lock = q => root'[r] = root[r],
           retention = q => \A r \in Native : Bytes(root'[r]) <= Bytes(root[r])
    PROVE  Budget(q)'
<1> DEFINE me == proc[q]
<1>1. ASSUME me.at = "release" \/ (me.at = "unlink" /\ me.then = "release")
      PROVE  LiveBytes(Mine(q)', me.index) <= Allowance(q)'
  <2>1. me.root \in Roots /\ Mine(q).lock = q
    BY <1>1, Owner
  <2>2. Mine(q)' = Mine(q)
    BY <2>1 DEF Mine
  <2>3. Allowance(q)' = Allowance(q)
    BY DEF Allowance
  <2> QED
    BY <2>2, <2>3, <1>1 DEF Budget
<1>2. ASSUME retention = q PROVE Observed(q)'
  <2>1. Uncounted(q)' = Uncounted(q) /\ Observed(q)
    BY <1>2 DEF Uncounted, Budget
  <2>2. \A r \in Native : r \notin Uncounted(q) => Bytes(root'[r]) <= me.bytes[r]
    BY <1>2, <2>1, NativeLe DEF Observed, Safe
  <2> QED
    BY <2>1, <2>2 DEF Observed
<1> QED
  BY <1>1, <1>2 DEF Budget

LEMMA StepBudget ==
    ASSUME IndInv, NEW p \in Processes, Safe', Aside(p), Budget(p)'
    PROVE  IndInv'
<1>1. ASSUME NEW q \in Processes PROVE Budget(q)'
  <2>1. CASE q # p
    <3>1. (retention' = q) <=> (retention = q)
      BY <2>1, NobodyElse DEF Aside
    <3>2. \A r \in Roots : root[r].lock = q => root'[r] = root[r]
      BY <2>1, NobodyElse DEF Aside
    <3>3. Safe /\ Types' /\ Budget(q) /\ proc'[q] = proc[q]
      BY <2>1 DEF IndInv, Safe, Aside
    <3>4. retention = q => \A r \in Native : Bytes(root'[r]) <= Bytes(root[r])
      BY <2>1 DEF Aside, Roots
    <3> QED
      BY <3>1, <3>2, <3>3, <3>4, OthersBudget
  <2> QED
    BY <2>1
<1> QED
  BY <1>1 DEF IndInv

\* A process that writes only its own root, without adding bytes or with
\* retention.lock, leaves the others alone.
LEMMA MineAside ==
    ASSUME Safe, NEW p \in Processes, proc[p].at # "absent",
           NEW new, new \in RootStates, new.lock = p, SetMine(p, new),
           proc'[p].root = proc[p].root,
           \A q \in Processes : q # p => proc'[q] = proc[q],
           retention' = retention,
           retention = p \/ Bytes(new) <= Bytes(Mine(p))
    PROVE  Aside(p)
<1>1. /\ Mine(p)' = new
      /\ \A r \in Roots : r # proc[p].root => root'[r] = root[r]
  BY MineWritten
<1>2. Types /\ proc[p].root \in Roots /\ Mine(p).lock = p
  BY Owner
<1>3. root'[proc[p].root] = new /\ root[proc[p].root] = Mine(p)
  BY <1>1 DEF Mine
<1>4. \A r \in Roots : root'[r] = root[r] \/ root[r].lock \in {p, Nobody}
  BY <1>1, <1>2, <1>3
<1>5. ASSUME retention # p, NEW r \in Roots PROVE Bytes(root'[r]) <= Bytes(root[r])
  <2>1. CASE r = proc[p].root
    BY <2>1, <1>3, <1>5
  <2>2. CASE r # proc[p].root
    <3>1. root'[r] = root[r] /\ Bytes(root[r]) \in Nat
      BY <2>2, <1>1, <1>2, BytesTyped
    <3> QED
      BY <3>1
  <2> QED
    BY <2>1, <2>2
<1> QED
  BY <1>4, <1>5 DEF Aside

\* A process that writes no root leaves the others alone.
LEMMA StayAside ==
    ASSUME Safe, NEW p \in Processes, root' = root,
           \A q \in Processes : q # p => proc'[q] = proc[q],
           retention' = retention \/ {retention, retention'} \subseteq {p, Nobody}
    PROVE  Aside(p)
<1>1. \A r \in Roots : Bytes(root'[r]) <= Bytes(root[r])
  <2> TAKE r \in Roots
  <2>1. Bytes(root[r]) \in Nat /\ root'[r] = root[r]
    BY BytesTyped DEF Safe
  <2> QED
    BY <2>1
<1> QED
  BY <1>1 DEF Aside

\* A process that only gives up locks of its own leaves the others alone.
LEMMA UnlockAside ==
    ASSUME Safe, NEW p \in Processes, NEW roots, root' = Unlock(roots),
           \A r \in Roots : r \in roots => root[r].lock = p,
           \A q \in Processes : q # p => proc'[q] = proc[q],
           retention' = retention \/ {retention, retention'} \subseteq {p, Nobody}
    PROVE  Aside(p) /\ \A r \in Roots : Bytes(root'[r]) = Bytes(root[r])
<1>1. \A r \in Roots : /\ r \notin roots => root'[r] = root[r]
                       /\ Bytes(root'[r]) = Bytes(root[r])
  BY UnlockFacts DEF Safe, Types
<1>2. \A r \in Roots : Bytes(root'[r]) <= Bytes(root[r])
  <2> TAKE r \in Roots
  <2>1. Bytes(root[r]) \in Nat /\ Bytes(root'[r]) = Bytes(root[r])
    BY <1>1, BytesTyped DEF Safe
  <2> QED
    BY <2>1
<1> QED
  BY <1>1, <1>2 DEF Aside

\* A process that keeps what it counts keeps its sum, as long as the native roots
\* that it counts do not grow.
LEMMA SumKept ==
    ASSUME IndInv, NEW p \in Processes, Types', Uncounted(p)' = Uncounted(p),
           proc'[p].other = proc[p].other, proc'[p].bytes = proc[p].bytes, retention = p,
           \A r \in Roots : r \notin Uncounted(p) => Bytes(root'[r]) <= Bytes(root[r])
    PROVE  Observed(p)'
<1>1. Observed(p) /\ Types
  BY DEF IndInv, Budget, Safe
<1>2. \A r \in Native : r \notin Uncounted(p) => Bytes(root'[r]) <= proc[p].bytes[r]
  BY <1>1, NativeLe DEF Observed, Roots
<1> QED
  BY <1>1, <1>2 DEF Observed

\* A process that goes where it has neither kept nor counted anything.
LEMMA NoBudget ==
    ASSUME NEW p \in Processes, retention' # p,
           proc'[p].at \notin {"release", "unlink"} \/ proc'[p].then \in {"idle", "reserve"},
           proc'[p].at # "release"
    PROVE  Budget(p)'
BY DEF Budget

LEMMA DieBudget ==
    ASSUME IndInv, NEW p \in Processes, Die(p)
    PROVE  Aside(p) /\ Budget(p)'
<1>1. /\ root' = Unlock(proc[p].held \cup {proc[p].root}) /\ FreeRetention(p)
      /\ proc' = [proc EXCEPT ![p] = Absent] /\ proc[p].at # "absent"
  BY DEF Die
<1>2. Safe /\ Types /\ Owns(p)
  BY DEF IndInv, Safe, Sound
<1>3. proc'[p] = Absent /\ \A q \in Processes : q # p => proc'[q] = proc[q]
  BY <1>1, <1>2 DEF Types
<1>4. retention' # p /\ (retention' = retention \/ {retention, retention'} \subseteq {p, Nobody})
  BY <1>1, NobodyElse DEF FreeRetention
<1>5. \A r \in Roots : r \in proc[p].held \cup {proc[p].root} => root[r].lock = p
  BY <1>1, <1>2 DEF Owns, Mine
<1>6. proc'[p].at = "absent"
  BY <1>3 DEF Absent
<1> QED
  BY <1>1, <1>2, <1>3, <1>4, <1>5, <1>6, UnlockAside, NoBudget

LEMMA RefuseBudget ==
    ASSUME IndInv, NEW p \in Processes, proc[p].at # "absent", Refuse(p)
    PROVE  Aside(p) /\ Budget(p)'
<1>1. CASE proc[p].incoming = 0
  BY <1>1, DieBudget DEF Refuse
<1>2. CASE proc[p].incoming # 0
  <2>1. /\ root' = Unlock(proc[p].held) /\ FreeRetention(p)
        /\ proc' = [proc EXCEPT ![p] = Idling(p)]
    BY <1>2 DEF Refuse
  <2>2. Safe /\ Types /\ Owns(p)
    BY DEF IndInv, Safe, Sound
  <2>3. proc'[p] = Idling(p) /\ \A q \in Processes : q # p => proc'[q] = proc[q]
    BY <2>1, <2>2 DEF Types
  <2>4. retention' # p /\ (retention' = retention \/ {retention, retention'} \subseteq {p, Nobody})
    BY <2>1, NobodyElse DEF FreeRetention
  <2>5. \A r \in Roots : r \in proc[p].held => root[r].lock = p
    BY <2>2 DEF Owns
  <2>6. proc'[p].at = "idle"
    BY <2>3 DEF Idling, Absent
  <2> QED
    BY <2>1, <2>2, <2>3, <2>4, <2>5, <2>6, UnlockAside, NoBudget
<1> QED
  BY <1>1, <1>2

LEMMA ReleaseBudget ==
    ASSUME IndInv, NEW p \in Processes, Release(p)
    PROVE  Aside(p) /\ Budget(p)'
<1>1. FreeRetention(p) /\ proc' = [proc EXCEPT ![p] = Idling(p)] /\ root' = root
  BY DEF Release
<1>2. Safe /\ Types
  BY DEF IndInv, Safe
<1>3. proc'[p] = Idling(p) /\ \A q \in Processes : q # p => proc'[q] = proc[q]
  BY <1>1, <1>2 DEF Types
<1>4. retention' # p /\ (retention' = retention \/ {retention, retention'} \subseteq {p, Nobody})
  BY <1>1, NobodyElse DEF FreeRetention
<1>5. proc'[p].at = "idle"
  BY <1>3 DEF Idling, Absent
<1> QED
  BY <1>1, <1>2, <1>3, <1>4, <1>5, StayAside, NoBudget

LEMMA OpenBudget ==
    ASSUME IndInv, NEW p \in Processes, NEW r \in Native, NEW limit \in Limits, Open(p, r, limit)
    PROVE  Aside(p) /\ Budget(p)'
<1> DEFINE new == [Absent EXCEPT !.at = "prune", !.root = r, !.limit = limit,
                                 !.index = root[r].named, !.then = "reserve"]
           u == [root[r] EXCEPT !.lock = p]
<1>1. /\ proc[p].at = "absent" /\ root[r].lock = Nobody /\ root' = [root EXCEPT ![r] = u]
      /\ proc' = [proc EXCEPT ![p] = new] /\ retention' = retention
  BY DEF Open
<1>2. Safe /\ Types /\ Course(p) /\ r \in Roots
  BY DEF IndInv, Safe, Sound, Roots
<1>3. retention' # p
  <2>1. ~ Reserving(p)
    BY <1>1 DEF Reserving
  <2> QED
    BY <2>1, <1>1, <1>2 DEF Course
<1>4. new.at = "prune"
  BY DEF Absent
<1> HIDE DEF new
<1>5. proc'[p].at = "prune" /\ \A q \in Processes : q # p => proc'[q] = proc[q]
  BY <1>1, <1>2, <1>4 DEF Types
<1>6. Bytes(u) = Bytes(root[r])
  <2>1. p \in Processes \cup {Nobody, Runtime} /\ root[r] \in RootStates
    BY <1>2 DEF Types
  <2> QED
    BY <2>1, WithLock
<1> HIDE DEF u
<1>7. root'[r] = u /\ \A s \in Roots : s # r => root'[s] = root[s]
  BY <1>1, <1>2 DEF Types
<1>8. \A s \in Roots : Bytes(root'[s]) <= Bytes(root[s])
  <2> TAKE s \in Roots
  <2>1. Bytes(root'[s]) = Bytes(root[s]) /\ Bytes(root[s]) \in Nat
    BY <1>2, <1>6, <1>7, BytesTyped
  <2> QED
    BY <2>1
<1>9. Aside(p)
  BY <1>1, <1>5, <1>7, <1>8 DEF Aside
<1> QED
  BY <1>3, <1>5, <1>9, NoBudget

\* Where a process is neither reserving nor returning, it has no budget.
LEMMA IdleBudget ==
    ASSUME IndInv, NEW p \in Processes, proc[p].at = "idle", retention' = retention,
           proc'[p].at = "idle" \/ (proc'[p].at = "unlink" /\ proc'[p].then \in {"idle", "reserve"})
    PROVE  Budget(p)'
<1>1. Course(p)
  BY DEF IndInv, Safe, Sound
<1>2. ~ Reserving(p)
  BY DEF Reserving
<1>3. retention' # p
  BY <1>1, <1>2 DEF Course
<1> QED
  BY <1>3, NoBudget

LEMMA TouchBudget ==
    ASSUME IndInv, NEW p \in Processes, NEW l \in Slots, Touch(p, l)
    PROVE  Aside(p) /\ Budget(p)'
<1> DEFINE me == proc[p]
           moved == Append(Without(me.index, {l}), l)
           new == [Mine(p) EXCEPT !.named = moved]
<1>1. /\ me.at = "idle" /\ SetMine(p, new) /\ proc' = [proc EXCEPT ![p].index = moved]
      /\ retention' = retention
  BY DEF Touch
<1>2. Safe
  BY DEF IndInv
<1>3. Types /\ Mine(p) \in RootStates /\ Mine(p).lock = p /\ me.index \in Seq(Slots)
  BY <1>1, <1>2, Owner, ProcFields
<1>4. moved \in Seq(Slots)
  <2> DEFINE w == Without(me.index, {l})
  <2>1. w \in Seq(Slots)
    BY <1>3, WithoutFacts
  <2> HIDE DEF w
  <2>2. Append(w, l) \in Seq(Slots)
    BY ONLY <2>1, l \in Slots, AppendSet
  <2> QED
    BY <2>2 DEF w
<1> HIDE DEF moved
<1>5. new \in RootStates /\ new.lock = p /\ Bytes(new) = Bytes(Mine(p)) /\ Bytes(Mine(p)) \in Nat
  BY <1>3, <1>4, WithNamed, BytesFacts
<1> HIDE DEF new
<1>6. /\ proc'[p].at = "idle" /\ proc'[p].root = me.root
      /\ \A q \in Processes : q # p => proc'[q] = proc[q]
  BY <1>1, <1>3 DEF Types, ProcStates
<1>7. Bytes(new) <= Bytes(Mine(p))
  BY ONLY <1>5
<1>8. Aside(p)
  BY <1>1, <1>2, <1>5, <1>6, <1>7, MineAside
<1> QED
  BY <1>1, <1>6, <1>8, IdleBudget

LEMMA RemoveInvalidBudget ==
    ASSUME IndInv, NEW p \in Processes, NEW l \in Slots, RemoveInvalid(p, l)
    PROVE  Aside(p) /\ Budget(p)'
<1> DEFINE me == proc[p]
           rest == Without(me.index, {l})
           new == [Mine(p) EXCEPT !.named = rest]
<1>1. /\ me.at = "idle" /\ SetMine(p, new)
      /\ proc' = [proc EXCEPT ![p].at = "unlink", ![p].index = rest, ![p].drop = {l},
                              ![p].then = "idle"]
      /\ retention' = retention
  BY DEF RemoveInvalid
<1>2. Safe
  BY DEF IndInv
<1>3. Types /\ Mine(p) \in RootStates /\ Mine(p).lock = p /\ me.index \in Seq(Slots)
  BY <1>1, <1>2, Owner, ProcFields
<1>4. rest \in Seq(Slots)
  BY <1>3, WithoutFacts
<1> HIDE DEF rest
<1>5. new \in RootStates /\ new.lock = p /\ Bytes(new) = Bytes(Mine(p)) /\ Bytes(Mine(p)) \in Nat
  BY <1>3, <1>4, WithNamed, BytesFacts
<1> HIDE DEF new
<1>6. /\ proc'[p].at = "unlink" /\ proc'[p].then = "idle" /\ proc'[p].root = me.root
      /\ \A q \in Processes : q # p => proc'[q] = proc[q]
  BY <1>1, <1>3 DEF Types, ProcStates
<1>7. Bytes(new) <= Bytes(Mine(p))
  BY ONLY <1>5
<1>8. Aside(p)
  BY <1>1, <1>2, <1>5, <1>6, <1>7, MineAside
<1> QED
  BY <1>1, <1>6, <1>8, IdleBudget

LEMMA SaveBudget ==
    ASSUME IndInv, NEW p \in Processes, NEW size, NEW superseded, Save(p, size, superseded)
    PROVE  Aside(p) /\ Budget(p)'
<1>1. /\ proc[p].at = "idle" /\ root' = root /\ retention' = retention
      /\ proc' = [proc EXCEPT ![p].at = "unlink", ![p].then = "reserve", ![p].incoming = size,
                    ![p].drop = Leaves \ ToSet(proc[p].index),
                    ![p].kept = Without(proc[p].index, superseded)]
  BY DEF Save
<1>2. Safe /\ Types
  BY DEF IndInv, Safe
<1>3. /\ proc'[p].at = "unlink" /\ proc'[p].then = "reserve"
      /\ \A q \in Processes : q # p => proc'[q] = proc[q]
  BY <1>1, <1>2 DEF Types, ProcStates
<1>4. Aside(p)
  BY <1>1, <1>2, <1>3, StayAside
<1> QED
  BY <1>1, <1>3, <1>4, IdleBudget

\* Its own root is not among those a process counts.
LEMMA MineSum ==
    ASSUME IndInv, Safe', NEW p \in Processes, proc[p].at # "absent",
           NEW new, new \in RootStates, new.lock = p, SetMine(p, new),
           proc'[p].root = proc[p].root, proc'[p].other = proc[p].other,
           proc'[p].bytes = proc[p].bytes,
           Uncounted(p)' = Uncounted(p), retention = p
    PROVE  Observed(p)'
<1>1. Safe /\ Types /\ Types'
  BY DEF IndInv, Safe
<1>2. \A r \in Roots : r # proc[p].root => root'[r] = root[r]
  BY <1>1, MineWritten
<1>3. ASSUME NEW r \in Roots, r \notin Uncounted(p) PROVE Bytes(root'[r]) <= Bytes(root[r])
  <2>1. r # proc[p].root
    BY <1>3 DEF Uncounted
  <2>2. root'[r] = root[r] /\ Bytes(root[r]) \in Nat
    BY <2>1, <1>1, <1>2, BytesTyped
  <2> QED
    BY <2>2
<1> QED
  BY <1>1, <1>3, SumKept

LEMMA PruneBudget ==
    ASSUME IndInv, Safe', NEW p \in Processes, Prune(p)
    PROVE  Aside(p) /\ Budget(p)'
<1> DEFINE me == proc[p]
           n == Excess(Mine(p), me.index, MaxEntries, Allowance(p), 0)
           rest == From(me.index, n)
           new == [Mine(p) EXCEPT !.named = rest]
<1>1. /\ me.at = "prune" /\ SetMine(p, new)
      /\ proc' = [proc EXCEPT ![p].at = "unlink", ![p].index = rest, ![p].kept = rest,
                              ![p].drop = Leaves \ ToSet(rest)]
      /\ retention' = retention
  BY DEF Prune
<1>2. Safe
  BY DEF IndInv
<1>3. /\ Types /\ Mine(p) \in RootStates /\ Mine(p).lock = p /\ me.index \in Seq(Slots)
      /\ Allowance(p) \in Nat /\ me.root \in Roots
  BY <1>1, <1>2, Owner, ProcFields
<1>4. n \in 0 .. Len(me.index) /\ LiveBytes(Mine(p), rest) + 0 <= Allowance(p)
  <2>1. 0 <= Allowance(p) /\ 0 \in Nat /\ MaxEntries \in Nat
    BY <1>3, LeafFacts
  <2> QED
    BY <2>1, <1>3, ExcessFacts
<1>5. rest \in Seq(Slots)
  BY <1>3, <1>4, FromFacts
<1> HIDE DEF n, rest
<1>6. /\ new \in RootStates /\ new.lock = p /\ Bytes(new) = Bytes(Mine(p))
      /\ Bytes(Mine(p)) \in Nat /\ new.leaf = Mine(p).leaf
  BY <1>3, <1>5, WithNamed, BytesFacts
<1> HIDE DEF new
<1>7. /\ proc'[p].at = "unlink" /\ proc'[p].root = me.root /\ proc'[p].index = rest
      /\ proc'[p].other = me.other /\ proc'[p].bytes = me.bytes /\ proc'[p].limit = me.limit
      /\ proc'[p].todo = me.todo
      /\ \A q \in Processes : q # p => proc'[q] = proc[q]
  BY <1>1, <1>3 DEF Types, ProcStates
<1>8. Bytes(new) <= Bytes(Mine(p))
  BY ONLY <1>6
<1>9. Aside(p)
  BY <1>1, <1>2, <1>6, <1>7, <1>8, MineAside
<1>10. /\ Mine(p)' = new
       /\ \A r \in Roots : r # proc[p].root => root'[r] = root[r]
  <2>1. /\ Safe /\ proc[p].at # "absent" /\ SetMine(p, new)
        /\ new \in RootStates /\ new.lock = p /\ proc'[p].root = proc[p].root
    BY <1>1, <1>2, <1>6, <1>7
  <2> QED
    BY <2>1, MineWritten
<1>11. Allowance(p)' = Allowance(p)
  BY <1>1, <1>7 DEF Allowance
<1>12. LiveBytes(Mine(p)', proc'[p].index) <= Allowance(p)'
  <2>1. LiveBytes(new, rest) = LiveBytes(Mine(p), rest)
    BY <1>6 DEF LiveBytes
  <2>2. LiveBytes(Mine(p), rest) \in Nat
    BY <1>3, <1>5, LiveFacts
  <2>3. LiveBytes(Mine(p), rest) <= Allowance(p)
    BY ONLY <2>2, <1>3, <1>4
  <2> QED
    BY <2>1, <2>3, <1>7, <1>10, <1>11
<1>13. ASSUME retention = p PROVE Observed(p)'
  <2>1. Uncounted(p)' = Uncounted(p)
    BY <1>1, <1>7 DEF Uncounted
  <2> QED
    BY <2>1, <1>1, <1>6, <1>7, <1>13, MineSum
<1>14. Budget(p)'
  BY <1>1, <1>12, <1>13 DEF Budget
<1> QED
  BY <1>9, <1>14

LEMMA UnlinkBudget ==
    ASSUME IndInv, Safe', NEW p \in Processes, Unlink(p)
    PROVE  Aside(p) /\ Budget(p)'
<1> DEFINE me == proc[p]
           left == me.drop \cap Present(Mine(p))
<1>1. me.at = "unlink" /\ retention' = retention
  BY DEF Unlink
<1>2. Safe /\ Budget(p)
  BY DEF IndInv
<1>3. /\ Types /\ Course(p) /\ Mine(p) \in RootStates /\ Mine(p).lock = p
      /\ me.drop \in SUBSET Leaves /\ me.index \in Seq(Slots) /\ Allowance(p) \in Nat
  BY <1>1, <1>2, Owner, ProcFields
<1>4. me.then \in {"reserve", "release", "idle"}
  BY <1>1, <1>3 DEF Course
<1>5. CASE left = {}
  <2>1. proc' = [proc EXCEPT ![p].at = me.then, ![p].drop = {}] /\ root' = root
    BY <1>5 DEF Unlink
  <2>2. /\ proc'[p].at = me.then /\ proc'[p].root = me.root /\ proc'[p].index = me.index
        /\ proc'[p].other = me.other /\ proc'[p].bytes = me.bytes /\ proc'[p].limit = me.limit
        /\ proc'[p].todo = me.todo /\ proc'[p].then = me.then
        /\ \A q \in Processes : q # p => proc'[q] = proc[q]
    BY <2>1, <1>3 DEF Types, ProcStates
  <2>3. Mine(p)' = Mine(p) /\ Allowance(p)' = Allowance(p)
    BY <1>1, <2>1, <2>2 DEF Mine, Allowance
  <2>4. Uncounted(p)' = Uncounted(p)
    BY <1>1, <1>4, <2>2 DEF Uncounted
  <2>5. Budget(p)'
    <3>1. Observed(p)' <=> Observed(p)
      BY <2>1, <2>2, <2>4 DEF Observed
    <3>2. LiveBytes(Mine(p), proc[p].index)' = LiveBytes(Mine(p), proc[p].index)
      BY <2>2, <2>3
    <3> QED
      BY <1>1, <1>2, <1>4, <2>2, <2>3, <3>1, <3>2 DEF Budget
  <2>6. Aside(p)
    BY <1>1, <1>2, <2>1, <2>2, StayAside
  <2> QED
    BY <2>5, <2>6
<1>6. CASE left # {}
  <2>1. PICK l \in left : SetMine(p, [Mine(p) EXCEPT !.leaf[l] = 0])
    BY <1>6 DEF Unlink
  <2>2. proc' = proc
    BY <1>6 DEF Unlink
  <2> DEFINE new == [Mine(p) EXCEPT !.leaf[l] = 0]
  <2>3. l \in Leaves
    BY <1>3
  <2>4. /\ new \in RootStates /\ new.lock = p /\ Bytes(new) <= Bytes(Mine(p))
        /\ \A k \in Leaves : new.leaf[k] <= Mine(p).leaf[k]
    BY <1>3, <2>3, WithoutLeaf
  <2>5. SetMine(p, new)
    BY <2>1
  <2> HIDE DEF new
  <2>6. Aside(p)
    BY <1>1, <1>2, <2>2, <2>4, <2>5, MineAside
  <2>7. Mine(p)' = new
    BY <1>1, <1>2, <2>2, <2>4, <2>5, MineWritten
  <2>8. Allowance(p)' = Allowance(p) /\ Uncounted(p)' = Uncounted(p)
    BY <1>1, <2>2 DEF Allowance, Uncounted
  <2>9. ASSUME me.then = "release" PROVE LiveBytes(Mine(p)', me.index) <= Allowance(p)'
    <3>1. LiveBytes(Mine(p), me.index) <= Allowance(p)
      BY <1>1, <1>2, <2>9 DEF Budget
    <3>2. LiveBytes(new, me.index) <= LiveBytes(Mine(p), me.index)
      BY <1>3, <2>4, LiveLe
    <3>3. LiveBytes(new, me.index) \in Nat /\ LiveBytes(Mine(p), me.index) \in Nat
      BY <1>3, <2>4, LiveFacts
    <3>4. LiveBytes(new, me.index) <= Allowance(p)
      BY ONLY <3>1, <3>2, <3>3, <1>3
    <3> QED
      BY <3>4, <2>7, <2>8
  <2>10. ASSUME retention = p PROVE Observed(p)'
    BY <2>10, <1>1, <2>2, <2>4, <2>5, <2>8, MineSum
  <2>11. Budget(p)'
    BY <1>1, <2>2, <2>9, <2>10 DEF Budget
  <2> QED
    BY <2>6, <2>11
<1> QED
  BY <1>5, <1>6

LEMMA WriteTempBudget ==
    ASSUME IndInv, Safe', NEW p \in Processes, WriteTemp(p)
    PROVE  Aside(p) /\ Budget(p)'
<1> DEFINE me == proc[p]
           new == [Mine(p) EXCEPT !.leaf[Temp] = me.incoming]
<1>1. /\ me.at = "write" /\ SetMine(p, new) /\ proc' = [proc EXCEPT ![p].at = "rename"]
      /\ retention' = retention
  BY DEF WriteTemp
<1>2. Safe
  BY DEF IndInv
<1>3. Types /\ Course(p) /\ Mine(p) \in RootStates /\ Mine(p).lock = p /\ me.incoming \in Nat
  BY <1>1, <1>2, Owner, ProcFields
<1>4. new \in RootStates /\ new.lock = p
  BY <1>3, WithTemp
<1> HIDE DEF new
<1>5. /\ proc'[p].at = "rename" /\ proc'[p].root = me.root /\ proc'[p].other = me.other /\ proc'[p].bytes = me.bytes
      /\ proc'[p].todo = me.todo /\ \A q \in Processes : q # p => proc'[q] = proc[q]
  BY <1>1, <1>3 DEF Types, ProcStates
<1>6. retention = p
  BY <1>1, <1>3 DEF Course, Reserving
<1>7. Uncounted(p)' = Uncounted(p)
  BY <1>1, <1>5 DEF Uncounted
<1>8. Aside(p)
  BY <1>1, <1>2, <1>4, <1>5, <1>6, MineAside
<1>9. Observed(p)'
  BY <1>1, <1>4, <1>5, <1>6, <1>7, MineSum
<1>10. Budget(p)'
  BY <1>5, <1>9 DEF Budget
<1> QED
  BY <1>8, <1>10

LEMMA PublishPayloadBudget ==
    ASSUME IndInv, Safe', NEW p \in Processes, PublishPayload(p)
    PROVE  Aside(p) /\ Budget(p)'
<1> DEFINE me == proc[p]
           new == Renamed(Mine(p), Spare(p), me.incoming)
<1>1. /\ me.at = "rename" /\ SetMine(p, new) /\ proc' = [proc EXCEPT ![p].at = "index"]
      /\ retention' = retention
  BY DEF PublishPayload, Renamed
<1>2. Safe
  BY DEF IndInv
<1>3. /\ Types /\ Course(p) /\ Keeps(p) /\ Mine(p) \in RootStates /\ Mine(p).lock = p
      /\ Spare(p) \in Slots /\ Allowance(p) \in Nat
  BY <1>1, <1>2, Owner
<1>4. me.incoming \in Nat \ {0}
  <2>1. me.incoming \in 1 .. Allowance(p)
    BY <1>1, <1>3 DEF Keeps
  <2> QED
    BY <2>1, <1>3
<1>5. new \in RootStates /\ new.lock = p
  BY <1>3, <1>4, WithPayload
<1> HIDE DEF new
<1>6. /\ proc'[p].at = "index" /\ proc'[p].root = me.root /\ proc'[p].other = me.other /\ proc'[p].bytes = me.bytes
      /\ proc'[p].todo = me.todo /\ \A q \in Processes : q # p => proc'[q] = proc[q]
  BY <1>1, <1>3 DEF Types, ProcStates
<1>7. retention = p
  BY <1>1, <1>3 DEF Course, Reserving
<1>8. Uncounted(p)' = Uncounted(p)
  BY <1>1, <1>6 DEF Uncounted
<1>9. Aside(p)
  BY <1>1, <1>2, <1>5, <1>6, <1>7, MineAside
<1>10. Observed(p)'
  BY <1>1, <1>5, <1>6, <1>7, <1>8, MineSum
<1>11. Budget(p)'
  BY <1>6, <1>10 DEF Budget
<1> QED
  BY <1>9, <1>11

LEMMA InstallIndexBudget ==
    ASSUME IndInv, Safe', NEW p \in Processes, InstallIndex(p)
    PROVE  Aside(p) /\ Budget(p)'
<1> DEFINE me == proc[p]
           n == Excess(Mine(p), me.kept, MaxEntries - 1, Allowance(p), me.incoming)
           k == From(me.kept, n)
           c == Append(k, Spare(p))
           new == [Mine(p) EXCEPT !.named = c]
<1>1. /\ me.at = "index" /\ SetMine(p, new)
      /\ proc' = [proc EXCEPT ![p].at = "unlink", ![p].index = c,
                              ![p].drop = ToSet(me.index) \ ToSet(c)]
      /\ retention' = retention
  BY DEF InstallIndex
<1>2. Safe
  BY DEF IndInv
<1>3. /\ Types /\ Course(p) /\ Clean(p) /\ Mine(p) \in RootStates /\ Mine(p).lock = p
      /\ Spare(p) \in Slots /\ Allowance(p) \in Nat
  BY <1>1, <1>2, Owner
<1>4. /\ c \in Seq(Slots) /\ k \in Seq(Slots)
      /\ LiveBytes(Mine(p), k) + me.incoming <= Allowance(p)
  BY <1>1, <1>2, CandidateFacts
<1>5. LiveBytes(Mine(p), c) <= Allowance(p)
  <2>1. Mine(p).leaf[Spare(p)] = me.incoming
    BY <1>1, <1>3 DEF Clean
  <2>2. LiveBytes(Mine(p), c) = LiveBytes(Mine(p), k) + Mine(p).leaf[Spare(p)]
    BY <1>3, <1>4, LiveAppend
  <2> HIDE DEF c, k
  <2> QED
    BY <2>1, <2>2, <1>4
<1> HIDE DEF c
<1>6. new \in RootStates /\ new.lock = p /\ new.leaf = Mine(p).leaf
      /\ Bytes(new) = Bytes(Mine(p)) /\ Bytes(Mine(p)) \in Nat
  BY <1>3, <1>4, WithNamed, BytesFacts
<1> HIDE DEF new
<1>7. /\ proc'[p].at = "unlink" /\ proc'[p].root = me.root /\ proc'[p].other = me.other /\ proc'[p].bytes = me.bytes
      /\ proc'[p].limit = me.limit /\ proc'[p].index = c
      /\ proc'[p].todo = me.todo /\ \A q \in Processes : q # p => proc'[q] = proc[q]
  BY <1>1, <1>3 DEF Types, ProcStates
<1>8. retention = p
  BY <1>1, <1>3 DEF Course, Reserving
<1>9. Uncounted(p)' = Uncounted(p) /\ Allowance(p)' = Allowance(p)
  BY <1>1, <1>7 DEF Uncounted, Allowance
<1>10. Aside(p)
  BY <1>1, <1>2, <1>6, <1>7, <1>8, MineAside
<1>11. Observed(p)'
  BY <1>1, <1>6, <1>7, <1>8, <1>9, MineSum
<1>12. LiveBytes(Mine(p)', proc'[p].index) <= Allowance(p)'
  <2>1. Mine(p)' = new
    <3>1. SetMine(p, new) /\ me.at # "absent" /\ proc'[p].root = me.root
      BY <1>1, <1>7
    <3> QED
      BY <3>1, <1>2, <1>6, MineWritten
  <2>2. LiveBytes(new, c) = LiveBytes(Mine(p), c)
    BY <1>6 DEF LiveBytes
  <2> QED
    BY <2>1, <2>2, <1>5, <1>7, <1>9
<1>13. Budget(p)'
  BY <1>7, <1>11, <1>12 DEF Budget
<1> QED
  BY <1>10, <1>13

LEMMA TryRetentionBudget ==
    ASSUME IndInv, Safe', NEW p \in Processes, TryRetention(p)
    PROVE  Aside(p) /\ Budget(p)'
<1> DEFINE me == proc[p]
           todo == Without(Names, {me.root})
<1>1. me.at = "reserve"
  BY DEF TryRetention
<1>2. CASE retention # Nobody
  BY <1>1, <1>2, RefuseBudget DEF TryRetention
<1>3. CASE retention = Nobody
  <2>1. /\ retention' = p /\ root' = root
        /\ proc' = [proc EXCEPT ![p].at = "measure", ![p].other = 0, ![p].todo = todo]
    BY <1>3 DEF TryRetention, Discovering
  <2>2. Safe /\ Types /\ root \in [Roots -> RootStates]
    BY DEF IndInv, Safe, Types
  <2>3. ToSet(todo) = Roots \ {me.root}
    BY NamesFacts, WithoutFacts
  <2> HIDE DEF todo
  <2>4. /\ proc'[p].at = "measure" /\ proc'[p].root = me.root /\ proc'[p].other = 0
        /\ proc'[p].todo = todo /\ proc'[p].bytes = me.bytes
        /\ \A q \in Processes : q # p => proc'[q] = proc[q]
    BY <2>1, <2>2 DEF Types, ProcStates
  <2>5. Roots \subseteq Uncounted(p)'
    BY <2>3, <2>4 DEF Uncounted
  <2>6. RootSum(me.bytes, Uncounted(p)') = 0
    BY <2>2, <2>5, ProcFields, RootSumNone
  <2>7. Budget(p)'
    BY <2>1, <2>4, <2>5, <2>6 DEF Budget, Observed, Roots
  <2>8. {retention, retention'} \subseteq {p, Nobody}
    BY <1>3, <2>1
  <2>9. Aside(p)
    BY <2>1, <2>2, <2>4, <2>8, StayAside
  <2> QED
    BY <2>7, <2>9
<1> QED
  BY <1>2, <1>3

\* A measured root is counted, once: it is either still to be measured again
\* (never, as names are distinct) or added with all its bytes.
LEMMA MeasureBudget ==
    ASSUME IndInv, Safe', NEW p \in Processes, Measure(p)
    PROVE  Aside(p) /\ Budget(p)'
<1> DEFINE me == proc[p]
           r == Head(me.todo)
           free == root[r].lock = Nobody
           bytes == Bytes(root[r])
           by == [me.bytes EXCEPT ![r] = bytes]
           held == IF free THEN me.held \cup {r} ELSE me.held
<1>1. me.at = "measure" /\ me.todo # <<>>
  BY DEF Measure
<1>2. CASE root[r].suspect
  BY <1>1, <1>2, RefuseBudget DEF Measure
<1>3. CASE ~ root[r].suspect
  <2>1. /\ root' = IF free THEN [root EXCEPT ![r] = [root[r] EXCEPT !.lock = p]] ELSE root
        /\ proc' = [proc EXCEPT ![p].todo = Tail(me.todo), ![p].other = me.other + bytes,
                                ![p].bytes = by, ![p].held = held]
        /\ retention' = retention
    BY <1>3 DEF Measure
  <2>2. Safe /\ Budget(p)
    BY DEF IndInv
  <2>3. /\ Types /\ Course(p) /\ me.todo \in Seq(Roots) /\ me.other \in Int
        /\ root \in [Roots -> RootStates] /\ root' \in [Roots -> RootStates]
    BY <1>1, <2>2, Owner, ProcFields DEF Safe, Types
  <2>4. r \in Roots /\ ToSet(me.todo) = ToSet(Tail(me.todo)) \cup {r}
    BY <1>1, <2>3, TodoSplits
  <2>5. root[r] \in RootStates /\ bytes \in Nat
    BY <2>3, <2>4, BytesTyped
  <2> DEFINE rest == Tail(me.todo)
             sum == me.other + bytes
  <2>5a. me.bytes \in [Roots -> Nat] /\ by \in [Roots -> Nat] /\ by[r] = bytes
         /\ \A s \in Roots : s # r => by[s] = me.bytes[s]
    <3>1. me.bytes \in [Roots -> Nat]
      BY <2>3, ProcFields
    <3> QED
      BY <3>1, <2>4, <2>5
  <2> HIDE DEF held, r, rest, by
  <2>6. /\ proc'[p].at = "measure" /\ proc'[p].root = me.root /\ proc'[p].todo = rest
        /\ proc'[p].other = sum /\ proc'[p].bytes = by
        /\ \A q \in Processes : q # p => proc'[q] = proc[q]
    <3>1. proc' = [proc EXCEPT ![p].todo = rest, ![p].other = sum, ![p].bytes = by,
                               ![p].held = held]
      BY <2>1 DEF rest
    <3> HIDE DEF sum
    <3> QED
      BY <3>1, <1>1, <2>3 DEF Types, ProcStates
  <2>7. /\ \A s \in Roots : s # r => root'[s] = root[s]
        /\ free => root'[r] = [root[r] EXCEPT !.lock = p]
        /\ ~ free => root' = root
    BY <2>1, <2>3, <2>4
  <2>8. \A s \in Roots : Bytes(root'[s]) = Bytes(root[s]) /\ Bytes(root[s]) \in Nat
    <3> TAKE s \in Roots
    <3> DEFINE u == [root[r] EXCEPT !.lock = p]
    <3>1. p \in Processes \cup {Nobody, Runtime}
      OBVIOUS
    <3>2. Bytes(u) = Bytes(root[r])
      BY <3>1, <2>5, WithLock
    <3>3. free => root'[r] = u
      BY <2>7
    <3> HIDE DEF u
    <3> QED
      BY <3>2, <3>3, <2>3, <2>7, BytesTyped
  <2>9. retention = p
    BY <1>1, <2>3 DEF Course, Reserving
  <2>10. \A s \in Roots : root'[s] = root[s] \/ root[s].lock \in {p, Nobody}
    BY <2>7
  <2>11. Aside(p)
    <3>1. \A s \in Roots : Bytes(root'[s]) <= Bytes(root[s])
      BY <2>8
    <3> QED
      BY <3>1, <2>1, <2>6, <2>10 DEF Aside
  <2> DEFINE U == Uncounted(p)
             V == Uncounted(p)'
  <2>12. U = ToSet(rest) \cup {r} \cup {me.root} /\ V = ToSet(rest) \cup {me.root}
    BY <1>1, <2>4, <2>6 DEF Uncounted, rest
  <2>13. /\ RootSum(me.bytes, U) <= me.other
         /\ \A s \in Native : s \notin U => Bytes(root[s]) <= me.bytes[s]
    BY <2>2, <2>9 DEF Budget, Observed
  <2> HIDE DEF U, V
  <2>14. RootSum(me.bytes, U) \in Nat /\ RootSum(by, U) \in Nat /\ RootSum(by, V) \in Nat
    BY <2>5a, RootSumFacts
  <2>15. RootSum(by, U) <= RootSum(me.bytes, U)
    <3>1. \A s \in Roots : s \notin U => by[s] <= me.bytes[s]
      BY <2>5a, <2>12
    <3> QED
      BY <3>1, <2>5a, RootSumLe
  <2>16. RootSum(by, V) <= sum
    <3>1. CASE r \in V
      <4>1. V = U
        BY <3>1, <2>12
      <4> QED
        BY <4>1, <2>3, <2>5, <2>13, <2>14, <2>15
    <3>2. CASE r \notin V
      <4>1. V \cup {r} = U
        BY <2>12
      <4>2. RootSum(by, V) = RootSum(by, V \cup {r}) + by[r]
        BY <3>2, <2>4, <2>5a, RootSumSplit
      <4>3. RootSum(by, V) = RootSum(by, U) + bytes
        BY <4>1, <4>2, <2>5a
      <4> QED
        BY ONLY <4>3, <2>3, <2>5, <2>13, <2>14, <2>15 DEF sum
    <3> QED
      BY <3>1, <3>2
  <2>17. \A s \in Native : s \notin V => Bytes(root'[s]) <= by[s]
    <3> SUFFICES ASSUME NEW s \in Native, s \notin V PROVE Bytes(root'[s]) <= by[s]
      OBVIOUS
    <3>1. s \in Roots
      BY DEF Roots
    <3>2. CASE s = r
      BY <3>1, <3>2, <2>5, <2>5a, <2>8
    <3>3. CASE s # r
      BY <3>1, <3>3, <2>5a, <2>8, <2>12, <2>13
    <3> QED
      BY <3>2, <3>3
  <2>18. Budget(p)'
    <3> HIDE DEF sum
    <3> QED
      BY <2>6, <2>16, <2>17 DEF Budget, Observed, V
  <2> QED
    BY <2>11, <2>18
<1> QED
  BY <1>2, <1>3

LEMMA ChooseRootBudget ==
    ASSUME IndInv, Safe', NEW p \in Processes, ChooseRoot(p)
    PROVE  Aside(p) /\ Budget(p)'
<1> DEFINE me == proc[p]
           r == order[Min(Clearable(p))]
<1>1. /\ me.at = "measure"
      /\ proc' = [proc EXCEPT ![p].at = "clear", ![p].target = r]
      /\ root' = root /\ retention' = retention
  BY DEF ChooseRoot
<1>2. Safe /\ Types /\ Course(p) /\ Budget(p)
  BY DEF IndInv, Safe, Sound
<1> HIDE DEF r
<1>3. /\ proc'[p].at = "clear" /\ proc'[p].root = me.root /\ proc'[p].todo = me.todo
      /\ proc'[p].other = me.other /\ proc'[p].bytes = me.bytes
      /\ \A q \in Processes : q # p => proc'[q] = proc[q]
  BY <1>1, <1>2 DEF Types, ProcStates
<1>4. Aside(p)
  BY <1>1, <1>2, <1>3, StayAside
<1>5. retention = p /\ Observed(p)
  BY <1>1, <1>2 DEF Course, Reserving, Budget
<1>6. Observed(p)'
  BY <1>1, <1>3, <1>5 DEF Observed, Uncounted
<1>7. Budget(p)'
  BY <1>3, <1>6 DEF Budget
<1> QED
  BY <1>4, <1>7

LEMMA ClearBudget ==
    ASSUME IndInv, Safe', NEW p \in Processes, Clear(p)
    PROVE  Aside(p) /\ Budget(p)'
<1> DEFINE me == proc[p]
           t == me.target
<1>1. me.at = "clear" /\ retention' = retention
  BY DEF Clear
<1>2. Safe /\ Budget(p)
  BY DEF IndInv
<1>3. /\ Types /\ Types' /\ Owns(p) /\ Course(p) /\ me.held \in SUBSET Roots /\ me.other \in Int
      /\ root \in [Roots -> RootStates]
  BY <1>1, <1>2, Owner, ProcFields DEF Types, Safe
<1>4. t \in me.held /\ t \in Roots /\ t # me.root /\ root[t].lock = p
  BY <1>1, <1>3 DEF Course, Owns
<1>5. retention = p
  BY <1>1, <1>3 DEF Course, Reserving
<1>6. CASE proc' = proc
  <2>1. PICK new \in RootStates : root' = [root EXCEPT ![t] = new]
                                  /\ Bytes(new) <= Bytes(root[t])
    BY <1>2, <1>6, ClearWrites
  <2>2. root'[t] = new /\ \A s \in Roots : s # t => root'[s] = root[s]
    BY <2>1, <1>3, <1>4
  <2>3. \A s \in Roots : Bytes(root'[s]) <= Bytes(root[s])
    <3> TAKE s \in Roots
    <3>1. CASE s = t
      BY <3>1, <2>1, <2>2
    <3>2. CASE s # t
      <4>1. root'[s] = root[s] /\ Bytes(root[s]) \in Nat
        BY <3>2, <2>2, <1>3, BytesTyped
      <4> QED
        BY <4>1
    <3> QED
      BY <3>1, <3>2
  <2>4. Aside(p)
    BY <1>1, <1>4, <1>6, <2>2, <2>3 DEF Aside
  <2>5. Uncounted(p)' = Uncounted(p)
    BY <1>6 DEF Uncounted
  <2>6. Observed(p)'
    BY <1>3, <1>5, <1>6, <2>3, <2>5, SumKept
  <2>7. Budget(p)'
    BY <1>1, <1>6, <2>6 DEF Budget
  <2> QED
    BY <2>4, <2>7
<1>7. CASE proc' # proc
  <2> DEFINE rest == me.other - me.bytes[t]
             by == [me.bytes EXCEPT ![t] = 0]
  <2>0. /\ me.bytes \in [Roots -> Nat] /\ by \in [Roots -> Nat] /\ by[t] = 0
        /\ \A s \in Roots : s # t => by[s] = me.bytes[s]
    <3>1. me.bytes \in [Roots -> Nat]
      BY <1>3, ProcFields
    <3> QED
      BY <3>1, <1>4
  <2>1. /\ proc' = [proc EXCEPT ![p].at = "measure", ![p].target = Nobody,
                               ![p].other = rest, ![p].bytes = by]
        /\ root' = root /\ Present(root[t]) = {}
    BY <1>7 DEF Clear, Cleared
  <2> HIDE DEF by
  <2>2. /\ proc'[p].at = "measure" /\ proc'[p].root = me.root /\ proc'[p].todo = me.todo
        /\ proc'[p].other = rest /\ proc'[p].bytes = by
        /\ \A q \in Processes : q # p => proc'[q] = proc[q]
    <3> HIDE DEF rest
    <3> QED
      BY <2>1, <1>3 DEF Types, ProcStates
  <2>3. Aside(p)
    BY <1>1, <1>2, <2>1, <2>2, StayAside
  <2> DEFINE U == {me.root}
             V == {me.root} \cup {t}
  <2>4. me.todo = <<>> /\ ToSet(<<>>) = {}
    BY <1>1, <1>3 DEF Course, ToSet
  <2>5. Uncounted(p) = U /\ Uncounted(p)' = U
    BY <2>2, <2>4 DEF Uncounted
  <2>6. /\ RootSum(me.bytes, U) <= me.other
        /\ \A s \in Native : s \notin U => Bytes(root[s]) <= me.bytes[s]
    BY <1>2, <1>5, <2>5 DEF Budget, Observed
  <2>7. t \notin U /\ V = U \cup {t}
    BY <1>4
  <2> HIDE DEF U, V
  <2>8. /\ RootSum(me.bytes, U) = RootSum(me.bytes, V) + me.bytes[t]
        /\ RootSum(by, U) = RootSum(by, V) + 0
    BY <1>4, <2>0, <2>7, RootSumSplit
  <2>9. RootSum(by, V) <= RootSum(me.bytes, V)
    <3>1. \A s \in Roots : s \notin V => by[s] <= me.bytes[s]
      BY <2>0, <2>7
    <3> QED
      BY <3>1, <2>0, RootSumLe
  <2>10. /\ RootSum(me.bytes, U) \in Nat /\ RootSum(me.bytes, V) \in Nat
         /\ RootSum(by, U) \in Nat /\ RootSum(by, V) \in Nat /\ me.bytes[t] \in Nat
    BY <1>4, <2>0, RootSumFacts
  <2>11. RootSum(by, U) <= rest
    BY ONLY <1>3, <2>6, <2>8, <2>9, <2>10 DEF rest
  <2>12. \A s \in Native : s \notin U => Bytes(root[s]) <= by[s]
    <3> SUFFICES ASSUME NEW s \in Native, s \notin U PROVE Bytes(root[s]) <= by[s]
      OBVIOUS
    <3>1. s \in Roots
      BY DEF Roots
    <3>2. CASE s = t
      <4>1. Bytes(root[t]) = 0
        BY <1>3, <1>4, <2>1, BytesFacts
      <4> QED
        BY <4>1, <3>2, <2>0
    <3>3. CASE s # t
      BY <3>1, <3>3, <2>0, <2>6
    <3> QED
      BY <3>2, <3>3
  <2>13. Budget(p)'
    <3> HIDE DEF rest
    <3> QED
      BY <2>1, <2>2, <2>5, <2>11, <2>12 DEF Budget, Observed
  <2> QED
    BY <2>3, <2>13
<1> QED
  BY <1>6, <1>7

LEMMA GrantBudget ==
    ASSUME IndInv, Safe', NEW p \in Processes, Grant(p)
    PROVE  Aside(p) /\ Budget(p)'
<1> DEFINE me == proc[p]
           at == IF me.incoming \in 1 .. Allowance(p) THEN "write" ELSE "prune"
<1>1. /\ me.at = "measure" /\ me.todo = <<>> /\ root' = Unlock(me.held)
      /\ proc' = [proc EXCEPT ![p].at = at, ![p].held = {}, ![p].then = "release"]
      /\ retention' = retention
  BY DEF Grant
<1>2. Safe /\ Types'
  BY DEF IndInv, Safe
<1>3. Types /\ Owns(p) /\ Course(p)
  BY <1>1, <1>2, Owner
<1>4. at \in {"write", "prune"}
  OBVIOUS
<1> HIDE DEF at
<1>5. /\ proc'[p].at = at /\ proc'[p].root = me.root /\ proc'[p].todo = me.todo
      /\ proc'[p].other = me.other /\ proc'[p].bytes = me.bytes /\ \A q \in Processes : q # p => proc'[q] = proc[q]
  BY <1>1, <1>3 DEF Types, ProcStates
<1>6. \A r \in Roots : r \in me.held => root[r].lock = p
  BY <1>3 DEF Owns
<1>7. Aside(p) /\ \A r \in Roots : Bytes(root'[r]) = Bytes(root[r])
  BY <1>1, <1>2, <1>5, <1>6, UnlockAside
<1>8. \A r \in Roots : Bytes(root'[r]) <= Bytes(root[r])
  <2> TAKE r \in Roots
  <2>1. Bytes(root'[r]) = Bytes(root[r]) /\ Bytes(root[r]) \in Nat
    BY <1>3, <1>7, BytesTyped
  <2> QED
    BY <2>1
<1>9. Uncounted(p)' = Uncounted(p)
  BY <1>1, <1>4, <1>5 DEF Uncounted
<1>10. retention = p
  BY <1>1, <1>3 DEF Course, Reserving
<1>11. Observed(p)'
  BY <1>2, <1>5, <1>8, <1>9, <1>10, SumKept
<1>12. Budget(p)'
  BY <1>4, <1>5, <1>11 DEF Budget
<1> QED
  BY <1>7, <1>12

LEMMA RuntimeTakesBudget ==
    ASSUME IndInv, Safe', NEW r \in Legacy, RuntimeTakes(r)
    PROVE  IndInv'
<1> DEFINE k == IF root[r].lock = Nobody THEN Runtime ELSE Nobody
           new == [root[r] EXCEPT !.lock = k]
<1>1. /\ root[r].lock \in {Nobody, Runtime} /\ root' = [root EXCEPT ![r] = new]
      /\ proc' = proc /\ retention' = retention
  BY DEF RuntimeTakes
<1>2. Safe /\ Types /\ Types' /\ r \in Roots /\ root[r] \in RootStates
  BY DEF IndInv, Safe, Types, Roots
<1>3. k \in Processes \cup {Nobody, Runtime}
  OBVIOUS
<1> HIDE DEF k
<1>4. Bytes(new) = Bytes(root[r])
  BY <1>2, <1>3, WithLock
<1> HIDE DEF new
<1>5. root'[r] = new /\ \A s \in Roots : s # r => root'[s] = root[s]
  BY <1>1, <1>2 DEF Types
<1>6. \A s \in Roots : Bytes(root'[s]) <= Bytes(root[s])
  <2> TAKE s \in Roots
  <2>1. Bytes(root'[s]) = Bytes(root[s]) /\ Bytes(root[s]) \in Nat
    BY <1>2, <1>4, <1>5, BytesTyped
  <2> QED
    BY <2>1
<1>7. ASSUME NEW q \in Processes PROVE Budget(q)'
  <2>1. \A s \in Roots : root[s].lock = q => root'[s] = root[s]
    BY <1>1, <1>5, NobodyElse
  <2>2. Budget(q)
    BY DEF IndInv
  <2> QED
    BY <2>1, <2>2, <1>1, <1>2, <1>6, OthersBudget DEF Roots
<1> QED
  BY <1>7 DEF IndInv

\* What a legacy server writes is in no native root.
LEMMA RuntimeWritesBudget ==
    ASSUME IndInv, Safe', NEW r \in Legacy, NEW l \in Slots, NEW size \in Sizes \cup {0},
           RuntimeWrites(r, l, size)
    PROVE  IndInv'
<1>1. Safe /\ Types /\ Types'
  BY DEF IndInv, Safe
<1>2. /\ proc' = proc /\ retention' = retention /\ r \notin Native
      /\ \A s \in Roots : s # r => root'[s] = root[s]
      /\ \A q \in Processes, s \in Roots : root[s].lock = q => root'[s] = root[s]
  BY <1>1, RuntimeWritten
<1>3. \A s \in Native : Bytes(root'[s]) <= Bytes(root[s])
  <2> TAKE s \in Native
  <2>1. s \in Roots /\ root'[s] = root[s]
    BY <1>2 DEF Roots
  <2>2. Bytes(root[s]) \in Nat
    BY <1>1, <2>1, BytesTyped
  <2> QED
    BY <2>1, <2>2
<1>4. ASSUME NEW q \in Processes PROVE Budget(q)'
  <2>1. Budget(q)
    BY DEF IndInv
  <2>2. \A s \in Roots : root[s].lock = q => root'[s] = root[s]
    BY <1>2
  <2> QED
    BY <2>1, <2>2, <1>1, <1>2, <1>3, OthersBudget
<1> QED
  BY <1>4 DEF IndInv

-----------------------------------------------------------------------------
(* The theorems *)

LEMMA InitKeeps ==
    ASSUME Init
    PROVE  IndInv
<1>1. Safe
  BY InitSafe
<1>2. ASSUME NEW p \in Processes PROVE Budget(p)
  <2>1. proc[p] = Absent /\ retention # p
    BY NobodyElse DEF Init
  <2> QED
    BY <2>1 DEF Budget, Absent
<1> QED
  BY <1>1, <1>2 DEF IndInv

LEMMA NextKeeps ==
    ASSUME IndInv, [Next]_vars
    PROVE  IndInv'
<1>0. Safe /\ Safe'
  BY NextSafe DEF IndInv
<1>1. CASE UNCHANGED vars
  <2>1. root' = root /\ proc' = proc /\ retention' = retention
    BY <1>1 DEF vars
  <2>2. ASSUME NEW q \in Processes PROVE Budget(q)'
    <3>1. \A r \in Native : Bytes(root'[r]) <= Bytes(root[r])
      <4> TAKE r \in Native
      <4>1. Bytes(root[r]) \in Nat /\ root'[r] = root[r]
        BY <1>0, <2>1, BytesTyped DEF Safe, Roots
      <4> QED
        BY <4>1
    <3>2. Budget(q) /\ Types'
      BY <1>0 DEF IndInv, Safe
    <3> QED
      BY <3>1, <3>2, <2>1, <1>0, OthersBudget
  <2> QED
    BY <2>2, <1>0 DEF IndInv
<1>2. ASSUME NEW r \in Legacy, RuntimeTakes(r) PROVE IndInv'
  BY <1>0, <1>2, RuntimeTakesBudget
<1>7. ASSUME NEW r \in Legacy, NEW l \in Slots, NEW size \in Sizes \cup {0},
             RuntimeWrites(r, l, size)
      PROVE  IndInv'
  BY <1>0, <1>7, RuntimeWritesBudget
<1>3. ASSUME NEW p \in Processes, StoreStep(p) PROVE Aside(p) /\ Budget(p)'
  <2>1. ASSUME NEW r \in Native, NEW limit \in Limits, Open(p, r, limit)
        PROVE  Aside(p) /\ Budget(p)'
    BY <2>1, OpenBudget
  <2>2. ASSUME NEW size \in Sizes, NEW superseded \in SUBSET Slots, Save(p, size, superseded)
        PROVE  Aside(p) /\ Budget(p)'
    BY <2>2, SaveBudget
  <2>3. ASSUME NEW l \in Slots, Touch(p, l) \/ RemoveInvalid(p, l)
        PROVE  Aside(p) /\ Budget(p)'
    BY <2>3, TouchBudget, RemoveInvalidBudget
  <2>4. CASE Prune(p) \/ Unlink(p)
    BY <1>0, <2>4, PruneBudget, UnlinkBudget
  <2>5. CASE WriteTemp(p) \/ PublishPayload(p) \/ InstallIndex(p) \/ Release(p)
    BY <1>0, <2>5, WriteTempBudget, PublishPayloadBudget, InstallIndexBudget, ReleaseBudget
  <2>6. CASE WriteFails(p)
    BY <2>6, RefuseBudget DEF WriteFails
  <2> QED
    BY <1>3, <2>1, <2>2, <2>3, <2>4, <2>5, <2>6 DEF StoreStep
<1>4. ASSUME NEW p \in Processes, ReserveStep(p) PROVE Aside(p) /\ Budget(p)'
  <2>1. CASE TryRetention(p) \/ Measure(p) \/ ChooseRoot(p)
    BY <1>0, <2>1, TryRetentionBudget, MeasureBudget, ChooseRootBudget
  <2>2. CASE Clear(p) \/ Grant(p)
    BY <1>0, <2>2, ClearBudget, GrantBudget
  <2>3. CASE ClearFails(p)
    BY <2>3, RefuseBudget DEF ClearFails
  <2> QED
    BY <1>4, <2>1, <2>2, <2>3 DEF ReserveStep
<1>5. ASSUME NEW p \in Processes, Die(p) PROVE Aside(p) /\ Budget(p)'
  BY <1>5, DieBudget
<1>6. ASSUME NEW p \in Processes, StoreStep(p) \/ ReserveStep(p) \/ Die(p) PROVE IndInv'
  BY <1>0, <1>3, <1>4, <1>5, <1>6, StepBudget
<1> QED
  BY <1>1, <1>2, <1>6, <1>7 DEF Next

\* However many processes share a cache base, whoever dies and between whichever
\* steps: each live process has its root and retention.lock to itself, and the
\* bytes reserve has counted bound what the other native roots hold, and what it
\* found in the legacy ones.
THEOREM Invariance == Spec => []IndInv
<1>1. Init => IndInv
  BY InitKeeps
<1>2. IndInv /\ [Next]_vars => IndInv'
  BY NextKeeps
<1> QED
  BY <1>1, <1>2, PTL DEF Spec

\* The store of a live process has on disk the index it has in memory, and every
\* payload that it names (OwnersKeep): reserve of another process clears only
\* roots whose lock it took.
THEOREM OwnersKept == Spec => []OwnersKeep
<1>1. IndInv => OwnersKeep
  <2> SUFFICES ASSUME IndInv, NEW p \in Processes, proc[p].at # "absent"
               PROVE  /\ Mine(p).lock = p /\ Mine(p).named = proc[p].index
                      /\ ToSet(proc[p].index) \subseteq Present(Mine(p))
    BY DEF OwnersKeep
  <2>1. Safe
    BY DEF IndInv
  <2> QED
    BY <2>1, Owner
<1> QED
  BY <1>1, Invariance, PTL

\* No index ever names a payload that is gone (NamedPresent): clear, prune and
\* save publish the index that no longer names it first.
THEOREM NamesBacked == Spec => []NamedPresent
<1>1. IndInv => NamedPresent
  BY DEF IndInv, Safe, RootSound, NamedPresent
<1> QED
  BY <1>1, Invariance, PTL

\* When open_managed or save returns, all roots together are within the limit of
\* the process, or it keeps nothing itself (BudgetHeld): every native root with
\* all its bytes, a legacy one without what its server added since it was
\* measured.
THEOREM BudgetKept == Spec => []BudgetHeld
<1>1. IndInv => BudgetHeld
  <2> SUFFICES ASSUME IndInv, NEW p \in Processes, proc[p].at = "release"
               PROVE  Total(p) <= proc[p].limit \/ Bytes(Mine(p)) = 0
    BY DEF BudgetHeld
  <2> DEFINE me == proc[p]
             own == Bytes(Mine(p))
             live == LiveBytes(Mine(p), me.index)
             by == [r \in Roots |-> Charged(p, r)]
             others == RootSum(by, {me.root})
             seen == RootSum(me.bytes, {me.root})
  <2>1. Safe /\ Budget(p)
    BY DEF IndInv
  <2>2. /\ Types /\ Course(p) /\ Clean(p) /\ me.root \in Roots /\ Mine(p) \in RootStates
        /\ me.index \in Seq(Slots) /\ me.other \in Int /\ me.limit \in Nat
        /\ me.root \in Native /\ me.bytes \in [Roots -> Nat]
    BY <2>1, Owner, ProcFields DEF Owns, Safe, Sound
  <2>3. retention = p /\ me.todo = <<>>
    BY <2>2 DEF Course, Reserving
  <2>4. Uncounted(p) = {me.root}
    <3>1. ToSet(<<>>) = {}
      BY DEF ToSet
    <3> QED
      BY <3>1, <2>3 DEF Uncounted
  <2>5. /\ seen <= me.other
        /\ \A r \in Native : r # me.root => Bytes(root[r]) <= me.bytes[r]
    BY <2>1, <2>3, <2>4 DEF Budget, Observed
  <2>6. live <= (IF me.other < me.limit THEN me.limit - me.other ELSE 0)
    BY <2>1, <2>3 DEF Budget, Allowance
  <2>7. own <= live /\ own \in Nat /\ live \in Nat
    <3>1. Present(Mine(p)) \subseteq ToSet(me.index)
      BY <2>2 DEF Clean, Beside
    <3> QED
      BY <3>1, <2>2, LiveCovers, BytesFacts, LiveFacts
  <2>8. \A r \in Roots : /\ Charged(p, r) \in Nat
                         /\ r # me.root => Charged(p, r) <= me.bytes[r]
    <3> TAKE r \in Roots
    <3>1. Bytes(root[r]) \in Nat /\ me.bytes[r] \in Nat
      BY <2>2, BytesTyped
    <3>2. CASE r \in Legacy /\ me.bytes[r] < Bytes(root[r])
      BY <3>1, <3>2 DEF Charged
    <3>3. CASE r \in Native /\ ~ (r \in Legacy /\ me.bytes[r] < Bytes(root[r]))
      BY <3>1, <3>3, <2>5 DEF Charged
    <3>4. CASE r \in Legacy /\ ~ (me.bytes[r] < Bytes(root[r]))
      BY <3>1, <3>4 DEF Charged
    <3> QED
      BY <3>2, <3>3, <3>4 DEF Roots
  <2>9. by \in [Roots -> Nat] /\ \A r \in Roots : by[r] = Charged(p, r)
    BY <2>8
  <2>10. by[me.root] = own
    BY <2>2, <2>9, RetentionAssumption DEF Charged, Mine
  <2> HIDE DEF by
  <2>11. Total(p) = others + own
    <3>1. Total(p) = RootSum(by, {})
      <4> DEFINE f == [i \in 0 .. Len(Names) |-> IF i = 0 THEN 0 ELSE Charged(p, Names[i])]
                 g == [i \in 0 .. Len(Names) |-> Counted(by, {}, i)]
      <4>1. Len(Names) \in Nat /\ \A i \in 1 .. Len(Names) : Names[i] \in Roots
        BY NamesFacts, LenProperties, ElementOfSeq
      <4>2. \A i \in 0 .. Len(Names) :
               (IF i = 0 THEN 0 ELSE Charged(p, Names[i])) = Counted(by, {}, i)
        <5> TAKE i \in 0 .. Len(Names)
        <5>1. i = 0 \/ i \in 1 .. Len(Names)
          BY <4>1
        <5> QED
          BY <5>1, <4>1, <2>9 DEF Counted
      <4>3. f = g
        BY <4>2
      <4> HIDE DEF f, g
      <4>4. SumTo(f, Len(Names)) = SumTo(g, Len(Names))
        BY <4>3
      <4> QED
        BY <4>4 DEF Total, RootSum, f, g
    <3>2. RootSum(by, {}) = RootSum(by, {} \cup {me.root}) + by[me.root]
      BY <2>2, <2>9, RootSumSplit
    <3>3. {} \cup {me.root} = {me.root}
      OBVIOUS
    <3> QED
      BY <3>1, <3>2, <3>3, <2>10
  <2>12. others <= seen /\ others \in Nat /\ seen \in Nat
    <3>1. \A r \in Roots : r \notin {me.root} => by[r] <= me.bytes[r]
      BY <2>8, <2>9
    <3> QED
      BY <3>1, <2>2, <2>9, RootSumLe, RootSumFacts
  <2> HIDE DEF own, live, others, seen
  <2>13. Total(p) <= me.limit \/ own = 0
    <3>1. CASE me.other < me.limit
      <4>1. live <= me.limit - me.other
        BY <2>6, <3>1
      <4> QED
        BY ONLY <4>1, <2>2, <2>5, <2>7, <2>11, <2>12
    <3>2. CASE ~ (me.other < me.limit)
      <4>1. live <= 0
        BY <2>6, <3>2
      <4> QED
        BY ONLY <4>1, <2>7
    <3> QED
      BY <3>1, <3>2
  <2> QED
    BY <2>13 DEF own
<1> QED
  BY <1>1, Invariance, PTL

=============================================================================
