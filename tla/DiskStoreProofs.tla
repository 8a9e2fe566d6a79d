---------------------------- MODULE DiskStoreProofs ----------------------------
(***************************************************************************)
(* What the indexed store of checkpoints keeps true of its directory, for  *)
(* every number of entries, every length and number of conversations, all  *)
(* limits, with and without ordered metadata, whichever system calls fail  *)
(* and whenever the process or the machine stops.                          *)
(***************************************************************************)
EXTENDS DiskStore, RetainProofs, FiniteSetTheorems

-----------------------------------------------------------------------------
(* Entries and indexes *)

\* A key holds a history of some setting, which has a length above zero.
LEMMA KeyFacts ==
    /\ \A k \in Keys : Len(k.tokens) \in Nat /\ k.tokens # <<>> /\ k.scope \in Scopes
    /\ NoKey \notin Keys
<1>1. ASSUME NEW k \in Keys PROVE Len(k.tokens) \in Nat /\ k.tokens # <<>> /\ k.scope \in Scopes
  <2>1. PICK s \in Settings : k.tokens \in s.histories
    BY DEF Keys
  <2>2. k.tokens \in Seq(Nat) /\ k.tokens # <<>>
    BY <2>1, StoreAssumption DEF IsSetting
  <2>3. k.scope \in Scopes
    BY DEF Keys
  <2> QED
    BY <2>2, <2>3
<1>2. NoKey \notin Keys
  BY <1>1 DEF NoKey
<1> QED
  BY <1>1, <1>2

LEMMA EntryFacts ==
    /\ \A e \in Entries : /\ e.slot \in Slots /\ e.key \in Keys /\ FileBytes(e) \in Nat
                          /\ e = [slot |-> e.slot, key |-> e.key]
    /\ \A s \in Slots, k \in Keys : [slot |-> s, key |-> k] \in Entries
BY KeyFacts DEF Entries, FileBytes

\* The empty index.
LEMMA EmptyFacts ==
    <<>> \in Seq(Entries) /\ ToSet(<<>>) = {} /\ ValidIndex(<<>>) /\ Len(<<>>) = 0
<1>1. <<>> \in Seq(Entries) /\ Len(<<>>) = 0 /\ DOMAIN <<>> = {}
  OBVIOUS
<1> QED
  BY <1>1, StoreAssumption DEF ToSet, ValidIndex

\* In a valid index, slot and key each identify the entry.
LEMMA Unique ==
    ASSUME NEW index \in Seq(Entries), ValidIndex(index),
           NEW e \in ToSet(index), NEW f \in ToSet(index), e.slot = f.slot \/ e.key = f.key
    PROVE  e = f
<1>1. PICK i \in DOMAIN index : index[i] = e
  BY DEF ToSet
<1>2. PICK j \in DOMAIN index : index[j] = f
  BY DEF ToSet
<1> QED
  BY <1>1, <1>2 DEF ValidIndex

LEMMA MemberFacts ==
    ASSUME NEW index \in Seq(Entries)
    PROVE  ToSet(index) \subseteq Entries /\ SlotsOf(index) \subseteq Slots /\ Len(index) \in Nat
<1>1. ToSet(index) \subseteq Entries /\ Len(index) \in Nat
  <2>1. DOMAIN index = 1 .. Len(index) /\ \A i \in 1 .. Len(index) : index[i] \in Entries
    OBVIOUS
  <2> QED
    BY <2>1 DEF ToSet
<1> QED
  BY <1>1, EntryFacts DEF SlotsOf

-----------------------------------------------------------------------------
(* live_bytes *)

Weights == [e \in Entries |-> FileBytes(e)]

LEMMA LiveFacts ==
    ASSUME NEW index \in Seq(Entries)
    PROVE  /\ LiveBytes(index) = Weigh(Weights, index)
           /\ LiveBytes(index) \in Nat
           /\ LiveBytes(<<>>) = 0
<1>1. Weights \in [Entries -> Nat]
  BY EntryFacts DEF Weights
<1>2. ASSUME NEW s \in Seq(Entries) PROVE LiveBytes(s) = Weigh(Weights, s)
  <2> DEFINE f == [i \in 0 .. Len(s) |-> IF i = 0 THEN 0 ELSE FileBytes(s[i])]
  <2>1. \A i \in 0 .. Len(s) : f[i] = IF i = 0 THEN 0 ELSE Weights[s[i]]
    <3> TAKE i \in 0 .. Len(s)
    <3>1. i # 0 => s[i] \in Entries
      <4>1. i # 0 => i \in 1 .. Len(s)
        BY LenProperties
      <4> QED
        BY <4>1
    <3> QED
      BY <3>1 DEF Weights
  <2>2. LiveBytes(s) = SumTo(f, Len(s))
    BY DEF LiveBytes
  <2> HIDE DEF f
  <2> QED
    BY <1>1, <2>1, <2>2, WeighFacts
<1>3. Weigh(Weights, index) \in Nat /\ Weigh(Weights, <<>>) = 0
  BY <1>1, EmptyFacts, WeighFacts
<1> QED
  BY <1>2, <1>3, EmptyFacts

LEMMA LiveAppend ==
    ASSUME NEW index \in Seq(Entries), NEW e \in Entries
    PROVE  /\ Append(index, e) \in Seq(Entries)
           /\ LiveBytes(Append(index, e)) = LiveBytes(index) + FileBytes(e)
           /\ Len(Append(index, e)) = Len(index) + 1
<1>1. Weights \in [Entries -> Nat] /\ Weights[e] = FileBytes(e)
  BY EntryFacts DEF Weights
<1>2. Append(index, e) \in Seq(Entries)
  OBVIOUS
<1>3. /\ Weigh(Weights, Append(index, e)) = Weigh(Weights, index) + Weights[e]
      /\ Len(Append(index, e)) = Len(index) + 1
  BY ONLY <1>1, index \in Seq(Entries), e \in Entries, WeighAppend
<1> QED
  BY <1>1, <1>2, <1>3, LiveFacts

\* An index that loses an entry has room for it.
LEMMA LiveWithout ==
    ASSUME NEW index \in Seq(Entries), NEW out, NEW e \in ToSet(index), e \in out
    PROVE  /\ Without(index, out) \in Seq(Entries)
           /\ Len(Without(index, out)) + 1 <= Len(index)
           /\ LiveBytes(Without(index, out)) + FileBytes(e) <= LiveBytes(index)
<1>1. Weights \in [Entries -> Nat] /\ Weights[e] = FileBytes(e) /\ e \in Entries
  BY EntryFacts, MemberFacts DEF Weights
<1>2. Without(index, out) \in Seq(Entries)
  BY WithoutFacts
<1>3. /\ Len(Without(index, out)) + 1 <= Len(index)
      /\ Weigh(Weights, Without(index, out)) + Weights[e] <= Weigh(Weights, index)
  BY ONLY <1>1, index \in Seq(Entries), e \in ToSet(index), e \in out, WithoutLighter
<1> QED
  BY <1>1, <1>2, <1>3, LiveFacts

\* What victims spares has room for the incoming file, and exists: without any
\* entry there is room.
LEMMA SparedFacts ==
    ASSUME NEW index \in Seq(Entries), NEW max_entries \in Nat \ {0}, NEW max_bytes \in Nat,
           NEW incoming \in Nat, incoming <= max_bytes
    PROVE  LET kept == Spared(index, max_entries, max_bytes, incoming) IN
           /\ kept \in Seq(Entries) /\ ToSet(kept) \subseteq ToSet(index)
           /\ Fits(kept, max_entries, max_bytes, incoming)
<1> DEFINE N == Len(index)
           good == {n \in 0 .. N : Fits(From(index, n), max_entries, max_bytes, incoming)}
           k == CHOOSE n \in 0 .. N : n \in good /\ \A m \in 0 .. n - 1 : m \notin good
           c == CHOOSE n \in 0 .. N :
                    /\ Fits(From(index, n), max_entries, max_bytes, incoming)
                    /\ \A m \in 0 .. n - 1 : ~ Fits(From(index, m), max_entries, max_bytes, incoming)
<1>1. N \in Nat /\ N \in 0 .. N
  OBVIOUS
<1>2. Spared(index, max_entries, max_bytes, incoming) = From(index, c)
  BY DEF Spared
<1>3. N \in good
  <2>1. From(index, N) \in Seq(Entries) /\ Len(From(index, N)) = N - N
    BY <1>1, FromFacts
  <2>2. From(index, N) = <<>>
    BY <1>1, <2>1
  <2>3. LiveBytes(<<>>) = 0 /\ Len(<<>>) = 0
    BY EmptyFacts, LiveFacts
  <2> QED
    BY <1>1, <2>2, <2>3 DEF Fits
<1>4. \E n \in 0 .. N : n \in good /\ \A m \in 0 .. n - 1 : m \notin good
  <2> HIDE DEF good, N
  <2> QED
    BY <1>1, <1>3, LeastMember
<1>5. \E n \in 0 .. N : /\ Fits(From(index, n), max_entries, max_bytes, incoming)
                        /\ \A m \in 0 .. n - 1 : ~ Fits(From(index, m), max_entries, max_bytes, incoming)
  <2>1. PICK n \in 0 .. N : n \in good /\ \A m \in 0 .. n - 1 : m \notin good
    BY <1>4
  <2>2. \A m \in 0 .. n - 1 : m \in 0 .. N
    BY <1>1
  <2> QED
    BY <2>1, <2>2
<1>6. c \in 0 .. N /\ Fits(From(index, c), max_entries, max_bytes, incoming)
  BY <1>5
<1> HIDE DEF c
<1> QED
  BY <1>2, <1>6, FromFacts

\* reconcile_and_prune leaves an index that is within what it was granted.
LEMMA PrunedFacts ==
    ASSUME NEW index \in Seq(Entries), NEW limits, limits.max_entries \in Nat, NEW max_bytes \in Nat
    PROVE  LET kept == Pruned(index, limits, max_bytes) IN
           /\ kept \in Seq(Entries) /\ ToSet(kept) \subseteq ToSet(index)
           /\ Within(kept, limits.max_entries, max_bytes)
<1> DEFINE rest == Without(index, Oversized(index, limits))
           N == Len(rest)
           good == {n \in 0 .. N : Within(From(rest, n), limits.max_entries, max_bytes)}
           c == CHOOSE n \in 0 .. N :
                    /\ Within(From(rest, n), limits.max_entries, max_bytes)
                    /\ \A m \in 0 .. n - 1 : ~ Within(From(rest, m), limits.max_entries, max_bytes)
<1>0. Pruned(index, limits, max_bytes) = From(rest, c)
  BY DEF Pruned
<1>1. rest \in Seq(Entries) /\ ToSet(rest) \subseteq ToSet(index)
  BY WithoutFacts
<1> HIDE DEF rest
<1>2. N \in Nat /\ N \in 0 .. N
  BY <1>1
<1>3. N \in good
  <2>1. From(rest, N) \in Seq(Entries) /\ Len(From(rest, N)) = N - N
    BY <1>1, <1>2, FromFacts
  <2>2. From(rest, N) = <<>>
    BY <1>2, <2>1
  <2>3. LiveBytes(<<>>) = 0 /\ Len(<<>>) = 0
    BY EmptyFacts, LiveFacts
  <2> QED
    BY <1>2, <2>2, <2>3 DEF Within
<1>4. \E n \in 0 .. N : n \in good /\ \A m \in 0 .. n - 1 : m \notin good
  <2> HIDE DEF good, N
  <2> QED
    BY <1>2, <1>3, LeastMember
<1>5. \E n \in 0 .. N : /\ Within(From(rest, n), limits.max_entries, max_bytes)
                        /\ \A m \in 0 .. n - 1 : ~ Within(From(rest, m), limits.max_entries, max_bytes)
  <2>1. PICK n \in 0 .. N : n \in good /\ \A m \in 0 .. n - 1 : m \notin good
    BY <1>4
  <2>2. \A m \in 0 .. n - 1 : m \in 0 .. N
    BY <1>2
  <2> QED
    BY <2>1, <2>2
<1>6. c \in 0 .. N /\ Within(From(rest, c), limits.max_entries, max_bytes)
  BY <1>5
<1> HIDE DEF c
<1>7. From(rest, c) \in Seq(Entries) /\ ToSet(From(rest, c)) \subseteq ToSet(rest)
  BY <1>1, <1>6, FromFacts
<1> QED
  BY <1>0, <1>1, <1>6, <1>7

\* One slot more than entries: the first spare one exists.
LEMMA SpareFacts ==
    ASSUME NEW index \in Seq(Entries), ValidIndex(index)
    PROVE  SpareSlot(index) \in Slots \ SlotsOf(index)
<1> DEFINE spare == Slots \ SlotsOf(index)
           n == Len(index)
<1>0. MaxEntries \in Nat /\ n \in Nat /\ n <= MaxEntries
  BY StoreAssumption DEF ValidIndex
<1>1. spare # {}
  <2> SUFFICES ASSUME Slots \subseteq SlotsOf(index) PROVE FALSE
    OBVIOUS
  <2> DEFINE f == [i \in 1 .. n |-> index[i].slot]
  <2>1. f \in Surjection(1 .. n, Slots)
    <3>1. \A i \in 1 .. n : index[i] \in Entries
      OBVIOUS
    <3>2. f \in [1 .. n -> Slots]
      BY <3>1, EntryFacts
    <3>3. \A s \in Slots : \E i \in 1 .. n : f[i] = s
      <4> TAKE s \in Slots
      <4>1. PICK e \in ToSet(index) : e.slot = s
        BY DEF SlotsOf
      <4>2. PICK i \in 1 .. n : index[i] = e
        BY DEF ToSet
      <4> QED
        BY <4>1, <4>2
    <3> HIDE DEF f
    <3> QED
      BY <3>2, <3>3 DEF Surjection
  <2>2. ExistsSurjection(1 .. n, Slots)
    BY <2>1 DEF ExistsSurjection
  <2> HIDE DEF f
  <2>3. IsFiniteSet(1 .. n) /\ Cardinality(1 .. n) = n
    <3>1. 1 \in Int /\ n \in Int
      BY <1>0
    <3>2. IsFiniteSet(1 .. n) /\ Cardinality(1 .. n) = IF 1 > n THEN 0 ELSE n - 1 + 1
      BY <3>1, FS_Interval
    <3> HIDE DEF n
    <3> QED
      BY <1>0, <3>2
  <2>4. Cardinality(Slots) <= n
    BY <2>2, <2>3, FS_SurjCardinalityBound
  <2>5. Cardinality(0 .. MaxEntries) = MaxEntries - 0 + 1
    <3>1. 0 \in Int /\ MaxEntries \in Int /\ ~ (0 > MaxEntries)
      BY <1>0
    <3> QED
      BY <3>1, FS_Interval
  <2> QED
    BY <1>0, <2>4, <2>5 DEF Slots
<1>2. spare \subseteq Nat
  BY <1>0 DEF Slots
<1>3. Min(spare) \in spare /\ \A t \in spare : Min(spare) <= t
  <2> HIDE DEF spare
  <2> QED
    BY <1>1, <1>2, MinMember
<1> QED
  BY <1>3 DEF SpareSlot

\* The longest of some entries of an index.
LEMMA LongestFacts ==
    ASSUME NEW index \in Seq(Entries), NEW some, some \subseteq ToSet(index), some # {}
    PROVE  Longest(some) \in some
<1> DEFINE gap(e) == LiveBytes(index) - FileBytes(e)
           gaps == {gap(e) : e \in some}
<1>1. ASSUME NEW e \in some PROVE FileBytes(e) \in Nat /\ gap(e) \in Nat
  <2>1. e \in ToSet(index) /\ e \in Entries
    BY MemberFacts
  <2>2. LiveBytes(Without(index, {e})) + FileBytes(e) <= LiveBytes(index)
        /\ Without(index, {e}) \in Seq(Entries)
    <3>1. e \in {e}
      OBVIOUS
    <3> QED
      BY <2>1, <3>1, LiveWithout
  <2>3. LiveBytes(Without(index, {e})) \in Nat /\ LiveBytes(index) \in Nat /\ FileBytes(e) \in Nat
    BY <2>1, <2>2, LiveFacts, EntryFacts
  <2> QED
    BY <2>2, <2>3
<1>2. gaps \subseteq Nat /\ gaps # {}
  BY <1>1
<1>3. Min(gaps) \in gaps /\ \A g \in gaps : Min(gaps) <= g
  <2> HIDE DEF gaps
  <2> QED
    BY <1>2, MinMember
<1>4. PICK e \in some : Min(gaps) = gap(e)
  BY <1>3
<1>5. \A other \in some : FileBytes(other) <= FileBytes(e)
  <2> TAKE other \in some
  <2>1. gap(e) <= gap(other)
    BY <1>3, <1>4
  <2>2. LiveBytes(index) \in Nat /\ FileBytes(e) \in Nat /\ FileBytes(other) \in Nat
    BY <1>1, LiveFacts
  <2> QED
    BY <2>1, <2>2
<1> QED
  BY <1>5 DEF Longest

-----------------------------------------------------------------------------
(* The directory *)

\* A change of one leaf, and of the index.
LEMMA LeafSet ==
    ASSUME NEW d \in Directories, NEW slot \in Slots, NEW leaf \in Leaves
    PROVE  LET q == SetLeaf(d, slot, leaf) IN
           /\ q \in Directories /\ q.index = d.index /\ q.payload[slot] = leaf
           /\ \A s \in Slots : s # slot => q.payload[s] = d.payload[s]
BY DEF SetLeaf, Directories

LEMMA IndexSet ==
    ASSUME NEW d \in Directories, NEW entries \in Seq(Entries)
    PROVE  LET q == SetIndex(d, entries) IN
           /\ q \in Directories /\ q.index = IndexFile(entries) /\ q.payload = d.payload
           /\ q.index.present /\ q.index.entries = entries
BY DEF SetIndex, IndexFile, Directories

LEMMA DirectoryFacts ==
    ASSUME NEW d \in Directories
    PROVE  d.index.present \in BOOLEAN /\ d.index.entries \in Seq(Entries)
           /\ \A s \in Slots : d.payload[s] \in Leaves
BY DEF Directories

LEMMA LeafKinds ==
    /\ NoLeaf \in Leaves /\ \A k \in Keys : Whole(k) \in Leaves /\ Whole(k) # NoLeaf
    /\ \A leaf \in Leaves : leaf.state = "whole" => \E k \in Keys : leaf = Whole(k)
BY DEF Leaves, NoLeaf, Whole

\* The directories that may survive the change of a leaf: each differs from one
\* of before at most there, and in order only the visible one is added.
LEMMA RenameFacts ==
    ASSUME TypeOK, NEW slot \in Slots, NEW leaf \in Leaves, Rename(slot, leaf)
    PROVE  /\ after' \subseteq Directories /\ disk' \in after' /\ disk' \in Directories
           /\ disk'.index = disk.index /\ disk'.payload[slot] = leaf
           /\ \A s \in Slots : s # slot => disk'.payload[s] = disk.payload[s]
           /\ \A q \in after' : \E d \in after :
                 /\ q.index = d.index
                 /\ \A s \in Slots : s # slot => q.payload[s] = d.payload[s]
           /\ setting.ordered => after' = after \union {disk'}
<1>1. /\ after \subseteq Directories /\ disk \in after /\ disk' = SetLeaf(disk, slot, leaf)
      /\ after' = after \union
            (IF setting.ordered THEN {disk'} ELSE {SetLeaf(d, slot, leaf) : d \in after})
  BY DEF TypeOK, Rename
<1>2. \A d \in after :
          /\ SetLeaf(d, slot, leaf) \in Directories /\ SetLeaf(d, slot, leaf).index = d.index
          /\ SetLeaf(d, slot, leaf).payload[slot] = leaf
          /\ \A s \in Slots : s # slot => SetLeaf(d, slot, leaf).payload[s] = d.payload[s]
  BY <1>1, LeafSet
<1>3. ASSUME NEW q \in after'
      PROVE  \E d \in after : q = d \/ q = SetLeaf(d, slot, leaf)
  BY <1>1
<1>4. after' \subseteq Directories
  BY <1>1, <1>2, <1>3
<1>5. disk' \in after'
  BY <1>1
<1>6. ASSUME NEW q \in after'
      PROVE  \E d \in after : /\ q.index = d.index
                              /\ \A s \in Slots : s # slot => q.payload[s] = d.payload[s]
  <2>1. PICK d \in after : q = d \/ q = SetLeaf(d, slot, leaf)
    BY <1>3
  <2> QED
    BY <2>1, <1>2
<1> QED
  BY <1>1, <1>2, <1>4, <1>5, <1>6

\* The same of the index.
LEMMA RenameIndexFacts ==
    ASSUME TypeOK, NEW entries \in Seq(Entries), RenameIndex(entries)
    PROVE  /\ after' \subseteq Directories /\ disk' \in after' /\ disk' \in Directories
           /\ disk'.index = IndexFile(entries) /\ disk'.index.present
           /\ disk'.index.entries = entries /\ disk'.payload = disk.payload
           /\ \A q \in after' : \E d \in after :
                 q.payload = d.payload /\ (q.index = d.index \/ q.index = IndexFile(entries))
           /\ setting.ordered => after' = after \union {disk'}
<1>1. /\ after \subseteq Directories /\ disk \in after /\ disk' = SetIndex(disk, entries)
      /\ after' = after \union
            (IF setting.ordered THEN {disk'} ELSE {SetIndex(d, entries) : d \in after})
  BY DEF TypeOK, RenameIndex
<1>2. \A d \in after :
          /\ SetIndex(d, entries) \in Directories /\ SetIndex(d, entries).index = IndexFile(entries)
          /\ SetIndex(d, entries).payload = d.payload
  BY <1>1, IndexSet
<1>3. ASSUME NEW q \in after'
      PROVE  \E d \in after : q = d \/ q = SetIndex(d, entries)
  BY <1>1
<1>4. after' \subseteq Directories
  BY <1>1, <1>2, <1>3
<1>5. disk' \in after' /\ IndexFile(entries).present /\ IndexFile(entries).entries = entries
  BY <1>1 DEF IndexFile
<1>6. ASSUME NEW q \in after'
      PROVE  \E d \in after :
                q.payload = d.payload /\ (q.index = d.index \/ q.index = IndexFile(entries))
  <2>1. PICK d \in after : q = d \/ q = SetIndex(d, entries)
    BY <1>3
  <2> QED
    BY <2>1, <1>2
<1> QED
  BY <1>1, <1>2, <1>4, <1>5, <1>6

-----------------------------------------------------------------------------
(* The inductive invariant *)

Opening == job.why \in {"open", "managed"}

\* An index is about to be renamed or synced, and a save is about to.
Publishing == job.at \in {"index", "index_sync"}
Filing == job.why = "save" /\ job.at \in {"payload", "payload_sync", "index", "index_sync",
                                          "undo", "undo_sync"}
Unlinking == job.at \in {"unlink", "unlink_sync"}

\* A save before its admission, and after its index is durable.
Cleaning == job.why = "save" /\ (job.at \in {"sweep", "admit"} \/ (Unlinking /\ job.then = "admit"))
Saved == job.why = "save" /\ (job.at = "end" \/ (Unlinking /\ job.then = "end"))

\* The empty index of a new directory is on its way.
Starting == Publishing /\ job.then = "scan"

\* Where each operation can be.
Course ==
    /\ Idle => job = NoJob
    /\ Opening => ~store.open
    /\ ~store.open => store.index = <<>>
    /\ job.why \in {"shrink", "save", "load", "invalid", "touch"} => store.open
    /\ store.open \/ ~Idle =>
          /\ store.limits \in LimitRecords
          /\ store.scope \in Scopes
          /\ store.managed = setting.managed
    /\ Reconciling => \/ job.at \in {"scan", "prune", "sweep", "end"}
                      \/ Publishing /\ job.then \in {"scan", "prune", "sweep"}
                      \/ Unlinking /\ job.then \in {"prune", "sweep", "end"}
    /\ job.why = "save" => /\ Cleaning \/ (Filing /\ job.then = "end") \/ Saved
                           /\ job.key \in Keys
    /\ job.why \notin {"load", "invalid"} => job.todo = {}
    /\ job.why = "load" => job.at = "try"
    /\ job.why = "invalid" => (Publishing \/ Unlinking \/ job.at = "end") /\ job.then = "end"
    /\ job.why = "touch" => (Publishing \/ job.at = "end") /\ job.then = "end" /\ job.drop = {}
    /\ Starting => job.why = "open" /\ job.index = <<>> /\ job.candidate = <<>> /\ job.drop = {}

\* A process that may have lost a rename does not write (explicit stores).
Frozen ==
    /\ job.why \in {"shrink", "save", "invalid", "touch"} => ~store.writes_disabled
    /\ job.why = "shrink" => setting.managed
    /\ uncertain /\ ~setting.managed => store.open /\ store.writes_disabled

\* What the indexes on disk, in memory and in the operation have in common.
Indexes ==
    /\ ValidIndex(store.index) /\ ValidIndex(job.index)
    /\ \A d \in after : ValidIndex(d.index.entries) /\ (~d.index.present => d.index = NoIndex)
    /\ job.at = "index_sync" =>
          ValidIndex(job.candidate) /\ disk.index = IndexFile(job.candidate)
    /\ (store.open \/ ~Idle) /\ ~Starting => disk.index.present
    /\ Opening /\ job.at # "index_sync" => disk.index.entries = job.index
    /\ job.why = "shrink" =>
          /\ ToSet(job.index) \subseteq ToSet(store.index)
          /\ job.at # "index_sync" => ToSet(disk.index.entries) \subseteq ToSet(job.index)
    /\ Reconciling => ToSet(job.candidate) \subseteq ToSet(job.index)
    /\ store.open /\ job.at # "index_sync" =>
          ToSet(disk.index.entries) \subseteq ToSet(store.index)
    /\ Cleaning => job.index = store.index
    /\ Filing =>
          /\ job.slot \notin SlotsOf(store.index)
          /\ NewEntry(job.slot) \in ToSet(job.candidate)
          /\ ToSet(job.candidate) \subseteq ToSet(store.index) \union {NewEntry(job.slot)}
    /\ Saved =>
          /\ disk.index.entries = store.index
          /\ NewEntry(job.slot) \in ToSet(store.index)
          /\ job.at = "end" => after = {disk}
    /\ job.why \in {"invalid", "touch"} /\ Publishing =>
          ToSet(job.candidate) \subseteq ToSet(store.index)
    /\ job.todo \subseteq ToSet(store.index)
    /\ job.why = "invalid" /\ Publishing => job.todo \subseteq ToSet(job.candidate)

\* What is to be unlinked is in no index that counts.
Drops ==
    /\ Publishing \/ Filing => job.drop \cap SlotsOf(job.candidate) = {}
    /\ Unlinking /\ Reconciling => job.drop \cap SlotsOf(job.index) = {}
    /\ Unlinking /\ ~Reconciling => job.drop \cap SlotsOf(store.index) = {}

\* Every directory that may survive holds entry e whole, and whatever is
\* published next names it.
Secured(e) ==
    /\ \A d \in after : e \in ToSet(d.index.entries) /\ d.payload[e.slot] = Whole(e.key)
    /\ store.open => e \in ToSet(store.index)
    /\ Reconciling => e \in ToSet(job.index)
    /\ Publishing \/ Filing => e \in ToSet(job.candidate)

Committed == \A key \in committed : \E slot \in Slots : Secured([slot |-> slot, key |-> key])

\* What is published, and what the next index is made of, is within the limits.
Fitting(index) == Within(index, store.limits.max_entries, store.limits.max_bytes)

Limited ==
    /\ store.open => Fitting(disk.index.entries) /\ Fitting(store.index)
    /\ \/ job.why \in {"managed", "shrink"}
       \/ job.why = "open" /\ job.at \in {"sweep", "end"}
       \/ job.why = "open" /\ Unlinking /\ job.then \in {"sweep", "end"}
       => Fitting(job.index)
    /\ \/ Filing
       \/ Publishing /\ (job.why # "open" \/ job.then = "sweep")
       => Fitting(job.candidate)
    /\ Reconciling => job.allowance <= store.limits.max_bytes
    /\ job.why = "save" => Len(job.key.tokens) <= store.limits.max_bytes

\* Where directory changes survive in order: whose leaf an entry names.
Owns(d, e) ==
    \/ d.payload[e.slot] = Whole(e.key)
    \/ d.payload[e.slot].state \in setting.harms
    \/ setting.managed /\ d.payload[e.slot] = NoLeaf

Owned ==
    setting.ordered =>
        /\ \A d \in after : \A e \in ToSet(d.index.entries) : Owns(d, e)
        /\ \A d \in after : ~d.index.present => \A s \in Slots : d.payload[s] = NoLeaf
        /\ \A e \in ToSet(store.index) : Owns(disk, e)
        /\ Filing /\ job.at \in {"payload_sync", "index", "index_sync"} =>
              Owns(disk, NewEntry(job.slot))

IndInv ==
    /\ TypeOK /\ Course /\ Frozen /\ Indexes /\ Drops /\ Committed /\ Limited /\ Owned

-----------------------------------------------------------------------------
(* Steps in general *)

\* What an operation in progress is.
LEMMA JobFields ==
    ASSUME TypeOK
    PROVE  /\ job.at \in Steps /\ job.then \in Steps /\ job.index \in Seq(Entries)
           /\ job.candidate \in Seq(Entries) /\ job.drop \subseteq Slots
           /\ job.key \in Keys \union {NoKey} /\ job.slot \in Slots /\ job.todo \subseteq Entries
           /\ job.allowance \in Nat
           /\ job.why \in {"none", "open", "managed", "shrink", "save", "load", "invalid", "touch"}
BY DEF TypeOK, Jobs

LEMMA StoreFields ==
    ASSUME TypeOK
    PROVE  /\ store.open \in BOOLEAN /\ store.index \in Seq(Entries)
           /\ store.dead_slots \subseteq Slots /\ store.writes_disabled \in BOOLEAN
           /\ store.restores_disabled \in BOOLEAN /\ store.scope \in Scopes \union {""}
           /\ store.managed \in BOOLEAN
           /\ store.limits \in (UNION {s.limits : s \in Settings}) \union {NoLimits}
BY DEF TypeOK, Stores

LEMMA NoJobFacts ==
    /\ NoJob \in Jobs /\ NoJob.why = "none" /\ NoJob.at = "none" /\ NoJob.then = "none"
    /\ NoJob.index = <<>> /\ NoJob.candidate = <<>> /\ NoJob.drop = {} /\ NoJob.todo = {}
    /\ NoJob.allowance = 0 /\ NoJob.slot = 0 /\ NoJob.key = NoKey
<1>1. 0 \in Slots
  BY StoreAssumption DEF Slots
<1>2. <<>> \in Seq(Entries)
  OBVIOUS
<1> QED
  BY <1>1, <1>2 DEF NoJob, Jobs, Steps

LEMMA ClosedFacts ==
    /\ Closed \in Stores /\ ~ Closed.open /\ Closed.index = <<>> /\ ~ Closed.writes_disabled
<1>1. <<>> \in Seq(Entries)
  OBVIOUS
<1> QED
  BY <1>1 DEF Closed, Stores

\* The settings a store can have.
LEMMA SettingFacts ==
    ASSUME TypeOK
    PROVE  /\ setting \in Settings /\ setting.managed \in BOOLEAN /\ setting.ordered \in BOOLEAN
           /\ setting.limits \subseteq LimitRecords
           /\ setting.harms \subseteq {"none", "short", "corrupt"}
           /\ \A l \in LimitRecords :
                 /\ l.max_entries \in Nat \ {0} /\ l.max_bytes \in Nat \ {0} /\ l.max_file \in Nat \ {0}
                 /\ l.max_entries <= MaxEntries
BY StoreAssumption DEF TypeOK, IsSetting, LimitRecords

\* Every committed checkpoint that a step leaves committed stays secured.
LEMMA StaySecured ==
    ASSUME TypeOK, Committed, committed' \subseteq committed,
           \A e \in Entries : e.key \in committed' /\ Secured(e) => Secured(e)'
    PROVE  Committed'
<1> SUFFICES ASSUME NEW key \in committed'
             PROVE  \E slot \in Slots : Secured([slot |-> slot, key |-> key])'
  BY DEF Committed
<1>1. key \in committed /\ key \in Keys
  BY DEF TypeOK
<1>2. PICK slot \in Slots : Secured([slot |-> slot, key |-> key])
  BY <1>1 DEF Committed
<1> DEFINE e == [slot |-> slot, key |-> key]
<1>3. e \in Entries /\ e.key = key
  BY <1>1, EntryFacts
<1> HIDE DEF e
<1>4. Secured(e)
  BY <1>2 DEF e
<1>5. Secured(e)'
  BY <1>3, <1>4
<1> QED
  BY <1>5 DEF e

\* What is secured, spelled out for the operation in progress.
LEMMA SecuredFacts ==
    ASSUME NEW e, Secured(e)
    PROVE  /\ \A d \in after : e \in ToSet(d.index.entries) /\ d.payload[e.slot] = Whole(e.key)
           /\ store.open => e \in ToSet(store.index)
           /\ Reconciling => e \in ToSet(job.index)
           /\ Publishing \/ Filing => e \in ToSet(job.candidate)
BY DEF Secured

\* An operation that returns, successfully or not, without a change of the
\* directory: some of the changes that were pending may be lost or kept.
LEMMA Stops ==
    ASSUME IndInv, job' = NoJob, setting' = setting, disk' \in after', after' \subseteq after,
           committed' \subseteq committed, uncertain' \in BOOLEAN,
           \/ store' = Closed /\ (uncertain' => setting.managed)
           \/ /\ store' \in Stores /\ disk' = disk
              /\ store.open /\ store'.open /\ store'.index = store.index
              /\ store'.limits = store.limits /\ store'.scope = store.scope
              /\ store'.managed = store.managed
              /\ job.at # "index_sync" \/ ToSet(disk.index.entries) \subseteq ToSet(store.index)
              /\ uncertain' /\ ~ setting.managed => store'.writes_disabled
    PROVE  IndInv'
<1>0. TypeOK /\ Course /\ Frozen /\ Indexes /\ Drops /\ Committed /\ Limited /\ Owned
  BY DEF IndInv
<1>1. /\ NoJob \in Jobs /\ job'.why = "none" /\ job'.at = "none" /\ job'.then = "none"
      /\ job'.index = <<>> /\ job'.candidate = <<>> /\ job'.drop = {} /\ job'.todo = {}
  BY NoJobFacts
<1>2. TypeOK'
  <2>1. after' \subseteq Directories /\ disk' \in after'
    BY <1>0 DEF TypeOK
  <2>2. committed' \subseteq Keys
    BY <1>0 DEF TypeOK
  <2>3. store' \in Stores
    BY ClosedFacts
  <2> QED
    BY <1>0, <1>1, <2>1, <2>2, <2>3 DEF TypeOK
<1>3. /\ ~ Opening' /\ ~ Reconciling' /\ ~ Publishing' /\ ~ Filing' /\ ~ Unlinking' /\ ~ Cleaning'
      /\ ~ Saved' /\ ~ Starting' /\ Idle'
  BY <1>1 DEF Opening, Reconciling, Publishing, Filing, Unlinking, Cleaning, Saved, Starting, Idle
<1>4. Course'
  BY <1>0, <1>1, <1>3, ClosedFacts DEF Course
<1>5. Frozen'
  BY <1>0, <1>1, ClosedFacts DEF Frozen
<1>6. Indexes'
  <2>1. ValidIndex(store'.index) /\ ValidIndex(<<>>)
    BY <1>0, EmptyFacts, ClosedFacts DEF Indexes
  <2>2. \A d \in after' : ValidIndex(d.index.entries) /\ (~ d.index.present => d.index = NoIndex)
    BY <1>0 DEF Indexes
  <2>3. ASSUME store'.open
        PROVE  disk'.index.present /\ ToSet(disk'.index.entries) \subseteq ToSet(store'.index)
    <3>1. disk' = disk /\ store.open /\ store'.index = store.index
      BY <2>3, ClosedFacts
    <3>2. ~ Starting
      BY <1>0, <3>1 DEF Course, Opening
    <3> QED
      BY <1>0, <2>3, <3>1, <3>2, ClosedFacts DEF Indexes
  <2> QED
    BY <1>1, <1>3, <2>1, <2>2, <2>3, EmptyFacts DEF Indexes
<1>7. Drops'
  BY <1>3 DEF Drops
<1>8. Committed'
  <2>1. ASSUME NEW e \in Entries, e.key \in committed', Secured(e) PROVE Secured(e)'
    <3>1. \A d \in after' : e \in ToSet(d.index.entries) /\ d.payload[e.slot] = Whole(e.key)
      BY <2>1, SecuredFacts
    <3>2. store'.open => e \in ToSet(store'.index)
      BY <2>1, SecuredFacts, ClosedFacts
    <3> QED
      BY <1>3, <3>1, <3>2 DEF Secured
  <2> QED
    BY <1>0, <2>1, StaySecured
<1>9. Limited'
  <2>1. ASSUME store'.open PROVE Fitting(disk.index.entries)' /\ Fitting(store.index)'
    <3>1. /\ disk' = disk /\ store.open /\ store'.index = store.index
          /\ store'.limits = store.limits
      BY <2>1, ClosedFacts
    <3> QED
      BY <1>0, <3>1 DEF Limited, Fitting
  <2> QED
    BY <1>1, <1>3, <2>1 DEF Limited
<1>10. Owned'
  <2> SUFFICES ASSUME setting.ordered
               PROVE  /\ \A d \in after' : \A e \in ToSet(d.index.entries) : Owns(d, e)'
                      /\ \A d \in after' : ~ d.index.present => \A s \in Slots : d.payload[s] = NoLeaf
                      /\ \A e \in ToSet(store'.index) : Owns(disk, e)'
    BY <1>3 DEF Owned
  <2>1. \A d \in after' : \A e \in ToSet(d.index.entries) : Owns(d, e)'
    BY <1>0 DEF Owned, Owns
  <2>2. \A d \in after' : ~ d.index.present => \A s \in Slots : d.payload[s] = NoLeaf
    BY <1>0 DEF Owned
  <2>3. \A e \in ToSet(store'.index) : Owns(disk, e)'
    BY <1>0, EmptyFacts, ClosedFacts DEF Owned, Owns
  <2> QED
    BY <2>1, <2>2, <2>3
<1> QED
  BY <1>2, <1>4, <1>5, <1>6, <1>7, <1>8, <1>9, <1>10 DEF IndInv

\* An error.
LEMMA Fails ==
    ASSUME IndInv, Fail, ~ Idle, job.at # "index_sync", setting' = setting,
           \/ uncertain' = uncertain
           \/ uncertain' \in BOOLEAN /\ job.why = "save" /\ job.at # "payload" /\ job.at # "admit"
    PROVE  IndInv'
<1>0. TypeOK /\ Course /\ Frozen
  BY DEF IndInv
<1>1. /\ store' = Failed /\ job' = NoJob /\ disk' = disk /\ after' = after
      /\ committed' = committed
  BY DEF Fail, Return
<1>2. disk' \in after' /\ after' \subseteq after /\ committed' \subseteq committed
  BY <1>0, <1>1 DEF TypeOK
<1>3. CASE Opening
  <2>1. store' = Closed
    BY <1>1, <1>3 DEF Failed, Opening
  <2>2. uncertain' = uncertain /\ (uncertain => setting.managed)
    BY <1>0, <1>3 DEF Frozen, Course, Opening
  <2> QED
    BY <1>1, <1>2, <2>1, <2>2, <1>0, Stops DEF TypeOK
<1>4. CASE ~ Opening /\ store.open
  <2>1. \/ store' = store
        \/ store' = [store EXCEPT !.writes_disabled = TRUE]
    BY <1>1, <1>4 DEF Failed, Opening
  <2>2. /\ store' \in Stores /\ store'.open /\ store'.index = store.index
        /\ store'.limits = store.limits /\ store'.scope = store.scope
        /\ store'.managed = store.managed
        /\ store.writes_disabled => store'.writes_disabled
    BY <1>0, <1>4, <2>1 DEF TypeOK, Stores
  <2>3. uncertain' /\ ~ setting.managed => store'.writes_disabled
    <3>1. CASE uncertain' = uncertain
      BY <1>0, <2>2, <3>1 DEF Frozen
    <3>2. CASE job.why = "save" /\ job.at # "payload" /\ job.at # "admit"
      <4>1. store' = [store EXCEPT !.writes_disabled = TRUE]
        BY <1>1, <3>2 DEF Failed
      <4> QED
        BY <4>1, <1>0 DEF TypeOK, Stores
    <3> QED
      BY <3>1, <3>2
  <2>4. uncertain' \in BOOLEAN
    BY <1>0 DEF TypeOK
  <2> QED
    BY <1>1, <1>2, <1>4, <2>2, <2>3, <2>4, Stops
<1>5. CASE ~ Opening /\ ~ store.open
  BY <1>0, <1>5, JobFields DEF Course, Opening, Idle
<1> QED
  BY <1>3, <1>4, <1>5

-----------------------------------------------------------------------------
(* Publishing an index *)

LEMMA ProceedFacts ==
    ASSUME TypeOK, NEW at \in Steps, Proceed(at)
    PROVE  /\ job' \in Jobs /\ job'.at = at /\ job'.why = job.why /\ job'.then = job.then
           /\ job'.index = job.index /\ job'.candidate = job.candidate /\ job'.drop = job.drop
           /\ job'.key = job.key /\ job'.slot = job.slot /\ job'.todo = job.todo
           /\ job'.allowance = job.allowance
BY DEF TypeOK, Jobs, Proceed

\* The rename of the index.
LEMMA RenamesIndex ==
    ASSUME IndInv, job.at = "index", ValidIndex(job.candidate), RenameIndex(job.candidate),
           Proceed("index_sync"), UNCHANGED <<store, committed, uncertain, setting>>
    PROVE  IndInv'
<1>0. TypeOK /\ Course /\ Frozen /\ Indexes /\ Drops /\ Committed /\ Limited /\ Owned
  BY DEF IndInv
<1>1. /\ job' \in Jobs /\ job'.at = "index_sync" /\ job'.why = job.why /\ job'.then = job.then
      /\ job'.index = job.index /\ job'.candidate = job.candidate /\ job'.drop = job.drop
      /\ job'.key = job.key /\ job'.slot = job.slot /\ job'.todo = job.todo
      /\ job'.allowance = job.allowance
  BY <1>0, ProceedFacts DEF Steps
<1>2. /\ job.candidate \in Seq(Entries) /\ job.index \in Seq(Entries)
      /\ store' = store /\ committed' = committed /\ uncertain' = uncertain /\ setting' = setting
  BY <1>0, JobFields
<1>3. /\ after' \subseteq Directories /\ disk' \in after' /\ disk' \in Directories
      /\ disk'.index = IndexFile(job.candidate) /\ disk'.index.present
      /\ disk'.index.entries = job.candidate /\ disk'.payload = disk.payload
      /\ \A q \in after' : \E d \in after :
            q.payload = d.payload /\ (q.index = d.index \/ q.index = IndexFile(job.candidate))
      /\ setting.ordered => after' = after \union {disk'}
  BY <1>0, <1>2, RenameIndexFacts
<1>4. /\ Opening' = Opening /\ Reconciling' = Reconciling /\ Publishing /\ Publishing' /\ Filing' = Filing
      /\ Cleaning' = Cleaning /\ Starting' = Starting /\ Idle' = Idle
      /\ ~ Unlinking /\ ~ Unlinking' /\ ~ Saved /\ ~ Saved'
  BY <1>1 DEF Opening, Reconciling, Publishing, Filing, Unlinking, Cleaning, Saved, Starting, Idle
<1>5. TypeOK'
  BY <1>0, <1>1, <1>2, <1>3 DEF TypeOK
<1>6. Course'
  <2>1. ~ Idle /\ job.why # "load"
    BY <1>0, NoJobFacts DEF Course
  <2> QED
    BY <1>0, <1>1, <1>2, <1>4, <2>1 DEF Course
<1>7. Frozen'
  BY <1>0, <1>1, <1>2 DEF Frozen
<1>8. Indexes'
  <2>1. \A q \in after' : ValidIndex(q.index.entries) /\ (~ q.index.present => q.index = NoIndex)
    <3> TAKE q \in after'
    <3>1. PICK d \in after : q.index = d.index \/ q.index = IndexFile(job.candidate)
      BY <1>3
    <3> QED
      BY <1>0, <3>1 DEF Indexes, IndexFile
  <2>2. NewEntry(job.slot)' = NewEntry(job.slot)
    BY <1>1 DEF NewEntry
  <2> QED
    BY <1>0, <1>1, <1>2, <1>3, <1>4, <2>1, <2>2 DEF Indexes
<1>9. Drops'
  BY <1>0, <1>1, <1>2, <1>4 DEF Drops
<1>10. Committed'
  <2>1. ASSUME NEW e \in Entries, e.key \in committed', Secured(e) PROVE Secured(e)'
    <3>1. e \in ToSet(job.candidate)
      BY <2>1, <1>4, SecuredFacts
    <3>2. \A q \in after' : e \in ToSet(q.index.entries) /\ q.payload[e.slot] = Whole(e.key)
      <4> TAKE q \in after'
      <4>1. PICK d \in after :
               q.payload = d.payload /\ (q.index = d.index \/ q.index = IndexFile(job.candidate))
        BY <1>3
      <4>2. e \in ToSet(d.index.entries) /\ d.payload[e.slot] = Whole(e.key)
        BY <2>1, SecuredFacts
      <4> QED
        BY <3>1, <4>1, <4>2 DEF IndexFile
    <3> QED
      BY <2>1, <1>1, <1>2, <1>4, <3>2 DEF Secured
  <2> QED
    BY <1>0, <1>2, <2>1, StaySecured
<1>11. Limited'
  <2>1. Fitting(job.candidate)' <=> Fitting(job.candidate)
    BY <1>1, <1>2 DEF Fitting
  <2>2. Fitting(job.index)' <=> Fitting(job.index)
    BY <1>1, <1>2 DEF Fitting
  <2>3. Fitting(store.index)' <=> Fitting(store.index)
    BY <1>2 DEF Fitting
  <2>4. Fitting(disk.index.entries)' <=> Fitting(job.candidate)
    BY <1>2, <1>3 DEF Fitting
  <2>5. store.open => job.why # "open"
    BY <1>0 DEF Course, Opening
  <2> QED
    BY <1>0, <1>1, <1>2, <1>4, <2>1, <2>2, <2>3, <2>4, <2>5 DEF Limited
<1>12. Owned'
  <2> SUFFICES ASSUME setting.ordered
               PROVE  /\ \A d \in after' : \A e \in ToSet(d.index.entries) : Owns(d, e)'
                      /\ \A d \in after' : ~ d.index.present => \A s \in Slots : d.payload[s] = NoLeaf
                      /\ \A e \in ToSet(store'.index) : Owns(disk, e)'
                      /\ Filing' => Owns(disk, NewEntry(job.slot))'
    BY DEF Owned
  <2>0. \A e : Owns(disk, e)' <=> Owns(disk, e)
    BY <1>2, <1>3 DEF Owns
  <2>1. NewEntry(job.slot)' = NewEntry(job.slot)
    BY <1>1 DEF NewEntry
  <2>2. Filing => Owns(disk, NewEntry(job.slot))
    BY <1>0 DEF Owned
  <2>3. \A e \in ToSet(job.candidate) : Owns(disk, e)
    <3>1. disk \in after
      BY <1>0 DEF TypeOK
    <3>2. CASE Opening
      <4>1. ToSet(job.candidate) \subseteq ToSet(disk.index.entries)
        BY <1>0, <3>2 DEF Indexes, Opening, Reconciling
      <4> QED
        BY <1>0, <3>1, <4>1 DEF Owned
    <3>3. CASE ~ Opening
      <4>1. ToSet(job.candidate) \subseteq ToSet(store.index) \union {NewEntry(job.slot)}
            /\ (~ Filing => ToSet(job.candidate) \subseteq ToSet(store.index))
        <5>1. job.why \in {"shrink", "save", "invalid", "touch"}
          BY <1>0, <3>3, <1>4, JobFields, NoJobFacts DEF Course, Opening, Publishing, Idle
        <5>2. job.why = "shrink" => ToSet(job.candidate) \subseteq ToSet(store.index)
          BY <1>0 DEF Indexes, Reconciling
        <5>3. job.why = "save" => Filing
          BY DEF Filing
        <5> QED
          BY <1>0, <1>4, <5>1, <5>2, <5>3 DEF Indexes
      <4> QED
        BY <1>0, <2>2, <4>1 DEF Owned
    <3> QED
      BY <3>2, <3>3
  <2>4. \A d \in after : /\ \A e \in ToSet(d.index.entries) : Owns(d, e)'
                         /\ ~ d.index.present => \A s \in Slots : d.payload[s] = NoLeaf
    BY <1>0, <1>2 DEF Owned, Owns
  <2>5. \A e \in ToSet(disk'.index.entries) : Owns(disk, e)'
    BY <1>3, <2>0, <2>3
  <2>6. \A e \in ToSet(store.index) : Owns(disk, e)
    BY <1>0 DEF Owned
  <2> QED
    BY <1>2, <1>3, <1>4, <2>0, <2>1, <2>2, <2>4, <2>5, <2>6
<1> QED
  BY <1>5, <1>6, <1>7, <1>8, <1>9, <1>10, <1>11, <1>12 DEF IndInv

\* The rename of the index did not happen: the payload is to be removed.
LEMMA TurnsBack ==
    ASSUME IndInv, job.at = "index", job.why = "save", Proceed("undo"),
           UNCHANGED <<disk, after, store, committed, uncertain, setting>>
    PROVE  IndInv'
<1>0. TypeOK /\ Course /\ Frozen /\ Indexes /\ Drops /\ Committed /\ Limited /\ Owned
  BY DEF IndInv
<1>1. /\ job' \in Jobs /\ job'.at = "undo" /\ job'.why = job.why /\ job'.then = job.then
      /\ job'.index = job.index /\ job'.candidate = job.candidate /\ job'.drop = job.drop
      /\ job'.key = job.key /\ job'.slot = job.slot /\ job'.todo = job.todo
      /\ job'.allowance = job.allowance
  BY <1>0, ProceedFacts DEF Steps
<1>2. /\ disk' = disk /\ after' = after /\ store' = store /\ committed' = committed
      /\ uncertain' = uncertain /\ setting' = setting
  OBVIOUS
<1>3. /\ ~ Opening /\ ~ Opening' /\ ~ Reconciling /\ ~ Reconciling' /\ Publishing /\ ~ Publishing'
      /\ Filing /\ Filing' /\ ~ Cleaning' /\ ~ Starting' /\ ~ Idle /\ ~ Idle'
      /\ ~ Unlinking /\ ~ Unlinking' /\ ~ Saved /\ ~ Saved' /\ ~ Cleaning
  BY <1>1 DEF Opening, Reconciling, Publishing, Filing, Unlinking, Cleaning, Saved, Starting, Idle
<1>4. TypeOK'
  BY <1>0, <1>1, <1>2 DEF TypeOK
<1>5. Course'
  BY <1>0, <1>1, <1>2, <1>3 DEF Course
<1>6. Frozen'
  BY <1>0, <1>1, <1>2 DEF Frozen
<1>7. Indexes'
  <2>1. NewEntry(job.slot)' = NewEntry(job.slot)
    BY <1>1 DEF NewEntry
  <2>2. ~ Starting
    BY <1>0, <1>3 DEF Course, Starting, Filing, Cleaning, Saved
  <2> QED
    BY <1>0, <1>1, <1>2, <1>3, <2>1, <2>2 DEF Indexes
<1>8. Drops'
  BY <1>0, <1>1, <1>2, <1>3 DEF Drops
<1>9. Committed'
  <2>1. ASSUME NEW e \in Entries, e.key \in committed', Secured(e) PROVE Secured(e)'
    BY <2>1, <1>1, <1>2, <1>3 DEF Secured
  <2> QED
    BY <1>0, <1>2, <2>1, StaySecured
<1>10. Limited'
  BY <1>0, <1>1, <1>2, <1>3 DEF Limited, Fitting
<1>11. Owned'
  BY <1>0, <1>1, <1>2 DEF Owned, Owns
<1> QED
  BY <1>4, <1>5, <1>6, <1>7, <1>8, <1>9, <1>10, <1>11 DEF IndInv

LEMMA PublishIndexKeeps ==
    ASSUME IndInv, NEW ok, PublishIndex(ok)
    PROVE  IndInv'
<1>1. job.at = "index" /\ UNCHANGED <<committed, uncertain, setting>>
  BY DEF PublishIndex
<1>2. ~ Idle
  BY <1>1, NoJobFacts DEF IndInv, Course
<1>3. \/ /\ ValidIndex(job.candidate) /\ RenameIndex(job.candidate) /\ Proceed("index_sync")
         /\ UNCHANGED store
      \/ job.why = "save" /\ Proceed("undo") /\ UNCHANGED <<Directory, store>>
      \/ Fail
  BY DEF PublishIndex
<1> QED
  BY <1>1, <1>2, <1>3, RenamesIndex, TurnsBack, Fails DEF Directory

\* The index is durable.
LEMMA SyncsIndex ==
    ASSUME IndInv, job.at = "index_sync", SyncAll,
           store' = IF Installing THEN [store EXCEPT !.index = job.candidate] ELSE store,
           job' = IndexInstalled, UNCHANGED <<committed, uncertain, setting>>
    PROVE  IndInv'
<1>0. TypeOK /\ Course /\ Frozen /\ Indexes /\ Drops /\ Committed /\ Limited /\ Owned
  BY DEF IndInv
<1>1. /\ disk' = disk /\ after' = {disk} /\ disk \in after
      /\ committed' = committed /\ uncertain' = uncertain /\ setting' = setting
  BY <1>0 DEF SyncAll, TypeOK
<1>2. /\ job.candidate \in Seq(Entries) /\ job.then \in Steps
      /\ ValidIndex(job.candidate) /\ disk.index = IndexFile(job.candidate)
  BY <1>0, JobFields DEF Indexes
<1>3. disk.index.entries = job.candidate /\ disk.index.present
  BY <1>2 DEF IndexFile
<1>4. /\ job' \in Jobs /\ job'.why = job.why /\ job'.then = job.then
      /\ job'.at = AfterIndex /\ job'.index = (IF Reconciling THEN job.candidate ELSE <<>>)
      /\ job'.candidate = <<>> /\ job'.drop = job.drop
      /\ job'.key = job.key /\ job'.slot = job.slot /\ job'.todo = job.todo
      /\ job'.allowance = job.allowance
  <2>1. AfterIndex \in Steps
    BY <1>2 DEF AfterIndex, Steps
  <2>2. job' = [job EXCEPT !.index = IF Reconciling THEN job.candidate ELSE <<>>,
                           !.candidate = <<>>, !.at = AfterIndex]
    BY DEF IndexInstalled
  <2>3. (IF Reconciling THEN job.candidate ELSE <<>>) \in Seq(Entries) /\ <<>> \in Seq(Entries)
    BY <1>2
  <2> HIDE DEF AfterIndex, Reconciling
  <2> QED
    BY <1>0, <2>1, <2>2, <2>3 DEF TypeOK, Jobs
<1>5. /\ Publishing /\ ~ Idle /\ job.why # "load" /\ ~ Unlinking /\ ~ Saved /\ ~ Cleaning
      /\ Opening' = Opening /\ Reconciling' = Reconciling /\ ~ Idle' /\ Installing' = Installing
  <2>1. job.why # "none" /\ job.why # "load"
    BY <1>0, NoJobFacts DEF Course, Idle
  <2> QED
    BY <1>4, <2>1 DEF Opening, Reconciling, Publishing, Filing, Unlinking, Cleaning, Saved,
                      Installing, Idle
<1>6. /\ Reconciling => job.then \in {"scan", "prune", "sweep"}
      /\ job.why = "save" => Filing /\ job.then = "end"
      /\ job.why \in {"invalid", "touch"} => job.then = "end"
  BY <1>0, <1>5 DEF Course, Unlinking, Publishing
<1>7. \/ job'.at = "unlink" /\ (job.then = "scan" => ~ Reconciling)
      \/ job.why = "save" /\ job'.at = "unlink_sync"
      \/ job.why # "save" /\ job'.at = job.then
  <2>1. job.then = "scan" => job.drop = {}
    BY <1>0, <1>5 DEF Course, Starting
  <2> QED
    BY <1>4, <2>1 DEF AfterIndex
<1>8. /\ ~ Publishing' /\ ~ Filing' /\ ~ Cleaning' /\ ~ Starting' /\ job'.at # "index_sync"
      /\ Saved' = (job.why = "save") /\ (Saved' => job'.at # "end")
  <2>1. job.why \in {"open", "managed", "shrink", "save", "invalid", "touch"}
    BY <1>0, <1>5, JobFields DEF Idle
  <2> QED
    BY <1>4, <1>6, <1>7, <2>1
       DEF Publishing, Filing, Cleaning, Starting, Saved, Unlinking, Reconciling
<1>9. Installing <=> ~ Reconciling
  BY <1>0, <1>5, JobFields DEF Installing, Reconciling, Idle
<1>10. /\ store' \in Stores /\ store'.open = store.open /\ store'.limits = store.limits
       /\ store'.scope = store.scope /\ store'.managed = store.managed
       /\ store'.writes_disabled = store.writes_disabled
       /\ store'.index = (IF Installing THEN job.candidate ELSE store.index)
  <2> HIDE DEF Installing
  <2> QED
    BY <1>0, <1>2 DEF TypeOK, Stores
<1>11. TypeOK'
  BY <1>0, <1>1, <1>4, <1>10 DEF TypeOK
<1>12. Course'
  <2>1. Reconciling => job.why \notin {"shrink", "save", "load", "invalid", "touch"} \/ job.why = "shrink"
    BY DEF Reconciling
  <2>2. ~ store.open => ~ Installing
    BY <1>0 DEF Course, Installing
  <2>3. Reconciling' => \/ job'.at \in {"scan", "prune", "sweep", "end"}
                        \/ Publishing' /\ job'.then \in {"scan", "prune", "sweep"}
                        \/ Unlinking' /\ job'.then \in {"prune", "sweep", "end"}
    BY <1>4, <1>5, <1>6, <1>7 DEF Unlinking, Reconciling
  <2>4. job.why = "invalid" => (Publishing' \/ Unlinking' \/ job'.at = "end") /\ job'.then = "end"
    BY <1>4, <1>6, <1>7 DEF Unlinking
  <2>5. job.why = "touch" => job'.at = "end" /\ job'.then = "end" /\ job'.drop = {}
    <3>1. job.why = "touch" => job.drop = {}
      BY <1>0 DEF Course
    <3> QED
      BY <1>4, <1>6, <1>7, <3>1 DEF AfterIndex
  <2> QED
    BY <1>0, <1>1, <1>4, <1>5, <1>8, <1>10, <2>2, <2>3, <2>4, <2>5 DEF Course
<1>13. Frozen'
  BY <1>0, <1>1, <1>4, <1>10 DEF Frozen
<1>14. Indexes'
  <2>1. ValidIndex(store'.index) /\ ValidIndex(job'.index)
    BY <1>0, <1>2, <1>4, <1>10, EmptyFacts DEF Indexes
  <2>2. job.why = "shrink" => ToSet(job.candidate) \subseteq ToSet(store.index)
    BY <1>0 DEF Indexes, Reconciling
  <2>3. store.open => ToSet(job.candidate) \subseteq ToSet(store'.index)
    <3>1. store.open /\ ~ Installing => job.why = "shrink"
      BY <1>0, <1>9 DEF Course, Reconciling, Opening
    <3> QED
      BY <1>10, <2>2, <3>1
  <2>4. Saved' => NewEntry(job.slot)' \in ToSet(store'.index) /\ store'.index = job.candidate
    <3>1. Saved' => Filing /\ Installing
      BY <1>6, <1>8 DEF Installing
    <3>2. NewEntry(job.slot)' = NewEntry(job.slot)
      BY <1>4 DEF NewEntry
    <3> QED
      BY <1>0, <1>10, <3>1, <3>2 DEF Indexes
  <2>5. job'.todo \subseteq ToSet(store'.index)
    <3>1. CASE job.why = "invalid"
      BY <1>0, <1>4, <1>5, <1>10, <3>1 DEF Indexes, Installing
    <3>2. CASE job.why # "invalid"
      BY <1>0, <1>4, <1>5, <3>2 DEF Course
    <3> QED
      BY <3>1, <3>2
  <2>6. Reconciling' => job'.index = job.candidate
    BY <1>4, <1>5
  <2>7. Opening => Reconciling
    BY DEF Opening, Reconciling
  <2>8. job.why = "shrink" => Reconciling /\ ~ Installing
    BY DEF Reconciling, Installing
  <2>9. ToSet(<<>>) = {}
    BY EmptyFacts
  <2> QED
    BY <1>0, <1>1, <1>2, <1>3, <1>4, <1>5, <1>8, <1>10, <2>1, <2>2, <2>3, <2>4, <2>5, <2>6, <2>7,
       <2>8, <2>9 DEF Indexes
<1>15. Drops'
  BY <1>0, <1>4, <1>5, <1>8, <1>9, <1>10 DEF Drops
<1>16. Committed'
  <2>1. ASSUME NEW e \in Entries, e.key \in committed', Secured(e) PROVE Secured(e)'
    <3>1. e \in ToSet(job.candidate) /\ disk.payload[e.slot] = Whole(e.key)
      BY <2>1, <1>1, <1>5, SecuredFacts
    <3>2. store.open => e \in ToSet(store.index)
      BY <2>1, SecuredFacts
    <3> QED
      BY <1>1, <1>3, <1>4, <1>5, <1>8, <1>10, <3>1, <3>2 DEF Secured
  <2> QED
    BY <1>0, <1>1, <2>1, StaySecured
<1>17. Limited'
  <2>1. \/ Filing
        \/ job.why # "open" \/ job.then = "sweep"
        => Fitting(job.candidate)
    BY <1>0, <1>5 DEF Limited
  <2>2. store'.open => Fitting(disk.index.entries)' /\ Fitting(store.index)'
    <3>1. Installing => job.why # "open"
      BY DEF Installing
    <3>2. store.open => Fitting(disk.index.entries) /\ Fitting(store.index)
      BY <1>0 DEF Limited
    <3> QED
      BY <1>1, <1>10, <2>1, <3>1, <3>2 DEF Fitting
  <2>3. /\ \/ job'.why \in {"managed", "shrink"}
           \/ job'.why = "open" /\ job'.at \in {"sweep", "end"}
           \/ job'.why = "open" /\ Unlinking' /\ job'.then \in {"sweep", "end"}
        => Fitting(job.index)'
    <3>1. ASSUME \/ job'.why \in {"managed", "shrink"}
                 \/ job'.why = "open" /\ job'.at \in {"sweep", "end"}
                 \/ job'.why = "open" /\ Unlinking' /\ job'.then \in {"sweep", "end"}
          PROVE  Reconciling /\ (job.why # "open" \/ job.then = "sweep")
      BY <3>1, <1>4, <1>6, <1>7 DEF Reconciling
    <3> QED
      BY <3>1, <2>1, <1>4, <1>10 DEF Fitting
  <2> QED
    BY <1>0, <1>4, <1>5, <1>8, <1>10, <2>2, <2>3 DEF Limited
<1>18. Owned'
  <2> SUFFICES ASSUME setting.ordered
               PROVE  /\ \A e \in ToSet(disk.index.entries) : Owns(disk, e)'
                      /\ \A e \in ToSet(store'.index) : Owns(disk, e)'
    BY <1>1, <1>3, <1>8 DEF Owned
  <2>1. \A e : Owns(disk, e)' <=> Owns(disk, e)
    BY <1>1 DEF Owns
  <2> QED
    BY <1>0, <1>1, <1>3, <1>10, <2>1 DEF Owned
<1> QED
  BY <1>11, <1>12, <1>13, <1>14, <1>15, <1>16, <1>17, <1>18 DEF IndInv

\* The sync failed: the index on disk may be the old or the new one; memory
\* holds the new one and stops writing, unless this was a reconciliation.
LEMMA LosesIndex ==
    ASSUME IndInv, job.at = "index_sync", Installing, UNCHANGED <<disk, after>>,
           store' = [store EXCEPT !.writes_disabled = TRUE, !.index = job.candidate],
           job' = NoJob, uncertain' \in BOOLEAN, UNCHANGED <<committed, setting>>
    PROVE  IndInv'
<1>0. TypeOK /\ Course /\ Frozen /\ Indexes /\ Drops /\ Committed /\ Limited /\ Owned
  BY DEF IndInv
<1>1. /\ disk' = disk /\ after' = after /\ disk \in after
      /\ committed' = committed /\ setting' = setting
  BY <1>0 DEF TypeOK
<1>2. /\ job.candidate \in Seq(Entries) /\ ValidIndex(job.candidate)
      /\ disk.index = IndexFile(job.candidate)
      /\ disk.index.entries = job.candidate /\ disk.index.present
  BY <1>0, JobFields DEF Indexes, IndexFile
<1>3. /\ store' \in Stores /\ store'.open = store.open /\ store.open /\ store'.limits = store.limits
      /\ store'.scope = store.scope /\ store'.managed = store.managed
      /\ store'.writes_disabled /\ store'.index = job.candidate
  <2>1. store.open
    BY <1>0 DEF Course, Installing
  <2> HIDE DEF Installing
  <2> QED
    BY <1>0, <1>2, <2>1 DEF TypeOK, Stores
<1>4. /\ NoJob \in Jobs /\ job'.why = "none" /\ job'.at = "none" /\ job'.then = "none"
      /\ job'.index = <<>> /\ job'.candidate = <<>> /\ job'.drop = {} /\ job'.todo = {}
  BY NoJobFacts
<1>5. /\ ~ Opening' /\ ~ Reconciling' /\ ~ Publishing' /\ ~ Filing' /\ ~ Unlinking' /\ ~ Cleaning'
      /\ ~ Saved' /\ ~ Starting' /\ Idle' /\ Publishing /\ job.why # "open" /\ ~ Idle
  BY <1>4 DEF Opening, Reconciling, Publishing, Filing, Unlinking, Cleaning, Saved, Starting, Idle,
              Installing
<1>6. TypeOK'
  BY <1>0, <1>1, <1>3, <1>4 DEF TypeOK
<1>7. Course'
  BY <1>0, <1>1, <1>3, <1>4, <1>5 DEF Course
<1>8. Frozen'
  BY <1>3, <1>4 DEF Frozen
<1>9. Indexes'
  BY <1>0, <1>1, <1>2, <1>3, <1>4, <1>5, EmptyFacts DEF Indexes
<1>10. Drops'
  BY <1>5 DEF Drops
<1>11. Committed'
  <2>1. ASSUME NEW e \in Entries, e.key \in committed', Secured(e) PROVE Secured(e)'
    BY <2>1, <1>1, <1>3, <1>5 DEF Secured
  <2> QED
    BY <1>0, <1>1, <2>1, StaySecured
<1>12. Limited'
  <2>1. Fitting(job.candidate)
    BY <1>0, <1>5 DEF Limited
  <2> QED
    BY <1>1, <1>2, <1>3, <1>4, <1>5, <2>1 DEF Limited, Fitting
<1>13. Owned'
  BY <1>0, <1>1, <1>2, <1>3, <1>5 DEF Owned, Owns
<1> QED
  BY <1>6, <1>7, <1>8, <1>9, <1>10, <1>11, <1>12, <1>13 DEF IndInv

LEMMA SyncIndexKeeps ==
    ASSUME IndInv, NEW ok \in BOOLEAN, SyncIndex(ok)
    PROVE  IndInv'
<1>0. TypeOK /\ Course /\ Frozen /\ Indexes
  BY DEF IndInv
<1>1. job.at = "index_sync" /\ UNCHANGED <<committed, setting>> /\ uncertain \in BOOLEAN
  BY <1>0 DEF SyncIndex, TypeOK
<1>2. ~ Idle /\ (Installing <=> ~ Reconciling)
  <2>1. job.why # "none" /\ job.why # "load"
    BY <1>0, <1>1, NoJobFacts DEF Course, Idle
  <2> QED
    BY <1>0, <2>1, JobFields DEF Idle, Installing, Reconciling
<1>3. CASE ok
  <2>1. /\ SyncAll /\ job' = IndexInstalled /\ uncertain' = uncertain
        /\ store' = IF Installing THEN [store EXCEPT !.index = job.candidate] ELSE store
    BY <1>1, <1>3 DEF SyncIndex
  <2> QED
    BY <1>1, <2>1, SyncsIndex
<1>4. CASE ~ ok
  <2>1. /\ disk' = disk /\ after' = after /\ job' = NoJob
        /\ uncertain' = (uncertain \/ store'.open)
        /\ store' = IF Installing THEN [Failed EXCEPT !.index = job.candidate] ELSE Failed
    BY <1>4 DEF SyncIndex, Directory
  <2>2. disk' \in after' /\ after' \subseteq after
    BY <1>0, <2>1 DEF TypeOK
  <2>3. CASE Installing
    <3>1. Failed = [store EXCEPT !.writes_disabled = TRUE]
      BY <1>1, <2>3 DEF Failed, Installing
    <3>2. store' = [store EXCEPT !.writes_disabled = TRUE, !.index = job.candidate]
      BY <1>0, <2>1, <2>3, <3>1 DEF TypeOK, Stores
    <3>3. uncertain' \in BOOLEAN
      BY <2>1
    <3> QED
      BY <1>1, <2>1, <2>3, <3>2, <3>3, LosesIndex
  <2>4. CASE Opening
    <3>1. store' = Closed
      BY <1>2, <2>1, <2>4 DEF Failed, Opening, Installing
    <3>2. uncertain' = uncertain /\ (uncertain => setting.managed)
      BY <1>0, <1>1, <2>1, <2>4, <3>1, ClosedFacts DEF Frozen, Course
    <3> QED
      BY <1>1, <2>1, <2>2, <3>1, <3>2, Stops
  <2>5. CASE job.why = "shrink"
    <3>1. store' = store /\ store.open /\ setting.managed
      BY <1>0, <2>1, <2>5 DEF Failed, Installing, Course, Frozen
    <3>2. ToSet(disk.index.entries) \subseteq ToSet(store.index)
      BY <1>0, <1>1, <2>5 DEF Indexes, Reconciling, IndexFile
    <3>3. store \in Stores /\ uncertain' \in BOOLEAN
      BY <1>0, <2>1 DEF TypeOK
    <3> QED
      BY <1>1, <2>1, <2>2, <3>1, <3>2, <3>3, Stops
  <2> QED
    BY <1>2, <2>3, <2>4, <2>5 DEF Opening, Reconciling
<1> QED
  BY <1>3, <1>4

-----------------------------------------------------------------------------
(* Unlinking what no index names *)

\* One leaf of those to be unlinked goes, or was not there.
LEMMA Unlinks ==
    ASSUME IndInv, job.at = "unlink", NEW slot \in job.drop,
           IF disk.payload[slot] = NoLeaf THEN UNCHANGED Directory ELSE Rename(slot, NoLeaf),
           job' = [job EXCEPT !.drop = @ \ {slot},
                              !.at = IF job.drop = {slot} THEN "unlink_sync" ELSE @],
           UNCHANGED <<store, committed, uncertain, setting>>
    PROVE  IndInv'
<1>0. TypeOK /\ Course /\ Frozen /\ Indexes /\ Drops /\ Committed /\ Limited /\ Owned
  BY DEF IndInv
<1>1. /\ job' \in Jobs /\ job'.at \in {"unlink", "unlink_sync"} /\ job'.why = job.why
      /\ job'.then = job.then /\ job'.index = job.index /\ job'.candidate = job.candidate
      /\ job'.drop \subseteq job.drop /\ job'.key = job.key /\ job'.slot = job.slot
      /\ job'.todo = job.todo /\ job'.allowance = job.allowance
  BY <1>0 DEF TypeOK, Jobs, Steps
<1>2. /\ store' = store /\ committed' = committed /\ uncertain' = uncertain /\ setting' = setting
      /\ slot \in Slots /\ disk \in after /\ disk \in Directories
  BY <1>0, JobFields DEF TypeOK
<1>3. /\ after' \subseteq Directories /\ disk' \in after' /\ disk'.index = disk.index
      /\ disk'.payload[slot] = NoLeaf
      /\ \A s \in Slots : s # slot => disk'.payload[s] = disk.payload[s]
      /\ \A q \in after' : \E d \in after :
            /\ q.index = d.index
            /\ \A s \in Slots : s # slot => q.payload[s] = d.payload[s]
      /\ setting.ordered => after' = after \union {disk'}
  <2>1. CASE disk.payload[slot] = NoLeaf
    BY <1>0, <1>2, <2>1 DEF Directory, TypeOK
  <2>2. CASE disk.payload[slot] # NoLeaf
    BY <1>0, <1>2, <2>2, LeafKinds, RenameFacts
  <2> QED
    BY <2>1, <2>2
<1>4. /\ Opening' = Opening /\ Reconciling' = Reconciling /\ Idle' = Idle /\ ~ Idle
      /\ ~ Publishing /\ ~ Publishing' /\ ~ Filing /\ ~ Filing' /\ Unlinking /\ Unlinking'
      /\ ~ Starting /\ ~ Starting' /\ Saved' = Saved /\ Cleaning' = Cleaning
  <2>1. job.why # "none"
    BY <1>0, NoJobFacts DEF Course, Idle
  <2> QED
    BY <1>1, <2>1 DEF Opening, Reconciling, Publishing, Filing, Unlinking, Cleaning, Saved, Starting,
                      Idle
<1>5. TypeOK'
  BY <1>0, <1>1, <1>2, <1>3 DEF TypeOK
<1>6. Course'
  BY <1>0, <1>1, <1>2, <1>4 DEF Course
<1>7. Frozen'
  BY <1>0, <1>1, <1>2 DEF Frozen
<1>8. Indexes'
  <2>1. \A q \in after' : ValidIndex(q.index.entries) /\ (~ q.index.present => q.index = NoIndex)
    BY <1>0, <1>3 DEF Indexes
  <2>2. NewEntry(job.slot)' = NewEntry(job.slot)
    BY <1>1 DEF NewEntry
  <2> QED
    BY <1>0, <1>1, <1>2, <1>3, <1>4, <2>1, <2>2 DEF Indexes
<1>9. Drops'
  BY <1>0, <1>1, <1>2, <1>4 DEF Drops
<1>10. Committed'
  <2>1. ASSUME NEW e \in Entries, e.key \in committed', Secured(e) PROVE Secured(e)'
    <3>1. e.slot # slot /\ e.slot \in Slots
      <4>1. CASE Reconciling
        BY <1>0, <1>4, <2>1, <4>1, EntryFacts, SecuredFacts DEF Drops, SlotsOf
      <4>2. CASE ~ Reconciling
        <5>1. store.open
          BY <1>0, <1>4, <4>2, JobFields DEF Course, Reconciling, Idle
        <5> QED
          BY <1>0, <1>4, <2>1, <4>2, <5>1, EntryFacts, SecuredFacts DEF Drops, SlotsOf
      <4> QED
        BY <4>1, <4>2
    <3>2. \A q \in after' : e \in ToSet(q.index.entries) /\ q.payload[e.slot] = Whole(e.key)
      BY <1>3, <2>1, <3>1, SecuredFacts
    <3> QED
      BY <1>1, <1>2, <1>4, <2>1, <3>2 DEF Secured
  <2> QED
    BY <1>0, <1>2, <2>1, StaySecured
<1>11. Limited'
  BY <1>0, <1>1, <1>2, <1>3, <1>4 DEF Limited, Fitting
<1>12. Owned'
  <2> SUFFICES ASSUME setting.ordered
               PROVE  /\ \A d \in after' : \A e \in ToSet(d.index.entries) : Owns(d, e)'
                      /\ \A d \in after' : ~ d.index.present => \A s \in Slots : d.payload[s] = NoLeaf
                      /\ \A e \in ToSet(store'.index) : Owns(disk, e)'
    BY <1>4 DEF Owned
  <2>1. \A d \in after : /\ \A e \in ToSet(d.index.entries) : Owns(d, e)'
                         /\ ~ d.index.present => \A s \in Slots : d.payload[s] = NoLeaf
    BY <1>0, <1>2 DEF Owned, Owns
  <2>2. ~ disk'.index.present => \A s \in Slots : disk'.payload[s] = NoLeaf
    BY <1>0, <1>2, <1>3 DEF Owned
  <2>3. ASSUME NEW e \in Entries, Owns(disk, e), e.slot # slot \/ setting.managed
        PROVE  Owns(disk, e)'
    <3>1. e.slot \in Slots
      BY EntryFacts
    <3>2. CASE e.slot # slot
      BY <1>2, <1>3, <2>3, <3>1, <3>2 DEF Owns
    <3>3. CASE setting.managed /\ e.slot = slot
      BY <1>2, <1>3, <3>3 DEF Owns
    <3> QED
      BY <2>3, <3>2, <3>3
  <2>4. /\ \A e \in ToSet(disk.index.entries) : e \in Entries /\ e.slot # slot
        /\ \A e \in ToSet(store.index) : e \in Entries /\ (e.slot # slot \/ setting.managed)
    <3>0. /\ \A e \in ToSet(disk.index.entries) : e \in Entries
          /\ \A e \in ToSet(store.index) : e \in Entries
      BY <1>0, <1>2, DirectoryFacts, StoreFields, MemberFacts
    <3>1. CASE Opening
      <4>1. store.index = <<>>
        BY <1>0, <3>1 DEF Course
      <4>2. disk.index.entries = job.index /\ Reconciling
        BY <1>0, <1>1, <1>4, <3>1 DEF Indexes, Unlinking, Publishing, Opening, Reconciling
      <4> QED
        BY <1>0, <1>4, <3>0, <4>1, <4>2, EmptyFacts DEF Drops, SlotsOf
    <3>2. CASE job.why = "shrink"
      <4>1. /\ ToSet(disk.index.entries) \subseteq ToSet(job.index) /\ Reconciling
            /\ setting.managed
        BY <1>0, <3>2 DEF Indexes, Reconciling, Frozen
      <4> QED
        BY <1>0, <1>4, <3>0, <4>1 DEF Drops, SlotsOf
    <3>3. CASE ~ Reconciling
      <4>1. store.open
        BY <1>0, <1>4, <3>3, JobFields DEF Course, Reconciling, Idle
      <4>2. ToSet(disk.index.entries) \subseteq ToSet(store.index)
        BY <1>0, <4>1 DEF Indexes
      <4> QED
        BY <1>0, <1>4, <3>0, <3>3, <4>2 DEF Drops, SlotsOf
    <3> QED
      BY <3>1, <3>2, <3>3 DEF Opening, Reconciling
  <2>5. \A e \in ToSet(disk.index.entries) : Owns(disk, e)'
    <3>1. \A e \in ToSet(disk.index.entries) : Owns(disk, e)
      BY <1>0, <1>2 DEF Owned
    <3> QED
      BY <2>3, <2>4, <3>1
  <2>6. \A e \in ToSet(store.index) : Owns(disk, e)'
    <3>1. \A e \in ToSet(store.index) : Owns(disk, e)
      BY <1>0 DEF Owned
    <3> QED
      BY <2>3, <2>4, <3>1
  <2> QED
    BY <1>2, <1>3, <2>1, <2>2, <2>5, <2>6
<1> QED
  BY <1>5, <1>6, <1>7, <1>8, <1>9, <1>10, <1>11, <1>12 DEF IndInv

LEMMA UnlinkKeeps ==
    ASSUME IndInv, NEW ok, Unlink(ok)
    PROVE  IndInv'
<1>1. job.at = "unlink" /\ UNCHANGED <<committed, uncertain, setting>>
  BY DEF Unlink
<1>2. ~ Idle
  BY <1>1, NoJobFacts DEF IndInv, Course
<1>3. \/ \E slot \in job.drop :
            /\ IF disk.payload[slot] = NoLeaf THEN UNCHANGED Directory ELSE Rename(slot, NoLeaf)
            /\ job' = [job EXCEPT !.drop = @ \ {slot},
                                  !.at = IF job.drop = {slot} THEN "unlink_sync" ELSE @]
            /\ UNCHANGED store
      \/ Fail
  BY DEF Unlink
<1> QED
  BY <1>1, <1>2, <1>3, Unlinks, Fails

\* The unlinks are durable.
LEMMA SyncsUnlinked ==
    ASSUME IndInv, job.at = "unlink_sync", SyncAll, Proceed(job.then),
           UNCHANGED <<store, committed, uncertain, setting>>
    PROVE  IndInv'
<1>0. TypeOK /\ Course /\ Frozen /\ Indexes /\ Drops /\ Committed /\ Limited /\ Owned
  BY DEF IndInv
<1>1. /\ job' \in Jobs /\ job'.at = job.then /\ job'.why = job.why /\ job'.then = job.then
      /\ job'.index = job.index /\ job'.candidate = job.candidate /\ job'.drop = job.drop
      /\ job'.key = job.key /\ job'.slot = job.slot /\ job'.todo = job.todo
      /\ job'.allowance = job.allowance
  BY <1>0, JobFields, ProceedFacts
<1>2. /\ store' = store /\ committed' = committed /\ uncertain' = uncertain /\ setting' = setting
      /\ disk' = disk /\ after' = {disk} /\ disk \in after
  BY <1>0 DEF SyncAll, TypeOK
<1>3. /\ Unlinking /\ ~ Idle /\ job.why \notin {"load", "touch"} /\ ~ Filing /\ ~ Publishing
      /\ Opening' = Opening /\ Reconciling' = Reconciling /\ ~ Idle'
  <2>1. job.why # "none" /\ job.why \notin {"load", "touch"}
    BY <1>0, NoJobFacts DEF Course, Idle, Publishing
  <2> QED
    BY <1>1, <2>1 DEF Opening, Reconciling, Publishing, Filing, Unlinking, Idle
<1>4. /\ Reconciling => job.then \in {"prune", "sweep", "end"}
      /\ job.why = "save" => (Cleaning /\ job.then = "admit") \/ (Saved /\ job.then = "end")
      /\ job.why = "invalid" => job.then = "end"
  BY <1>0, <1>3 DEF Course, Unlinking, Publishing, Filing, Cleaning, Saved
<1>5. /\ ~ Publishing' /\ ~ Filing' /\ ~ Unlinking' /\ ~ Starting' /\ job'.at # "index_sync"
      /\ Cleaning' = Cleaning /\ Saved' = Saved
  <2>1. job.why \in {"open", "managed", "shrink", "save", "invalid"}
    BY <1>0, <1>3, JobFields DEF Idle
  <2> QED
    BY <1>1, <1>4, <2>1 DEF Publishing, Filing, Unlinking, Starting, Cleaning, Saved, Reconciling
<1>6. TypeOK'
  BY <1>0, <1>1, <1>2 DEF TypeOK
<1>7. Course'
  BY <1>0, <1>1, <1>2, <1>3, <1>4, <1>5 DEF Course
<1>8. Frozen'
  BY <1>0, <1>1, <1>2 DEF Frozen
<1>9. Indexes'
  <2>1. NewEntry(job.slot)' = NewEntry(job.slot)
    BY <1>1 DEF NewEntry
  <2>2. ~ Starting
    BY <1>3 DEF Starting
  <2> QED
    BY <1>0, <1>1, <1>2, <1>3, <1>5, <2>1, <2>2 DEF Indexes
<1>10. Drops'
  BY <1>5 DEF Drops
<1>11. Committed'
  <2>1. ASSUME NEW e \in Entries, e.key \in committed', Secured(e) PROVE Secured(e)'
    BY <2>1, <1>1, <1>2, <1>3, <1>5 DEF Secured
  <2> QED
    BY <1>0, <1>2, <2>1, StaySecured
<1>12. Limited'
  BY <1>0, <1>1, <1>2, <1>3, <1>5 DEF Limited, Fitting
<1>13. Owned'
  BY <1>0, <1>1, <1>2, <1>5 DEF Owned, Owns
<1> QED
  BY <1>6, <1>7, <1>8, <1>9, <1>10, <1>11, <1>12, <1>13 DEF IndInv

LEMMA SyncUnlinkedKeeps ==
    ASSUME IndInv, NEW ok, SyncUnlinked(ok)
    PROVE  IndInv'
<1>1. job.at = "unlink_sync" /\ UNCHANGED <<committed, uncertain, setting>>
  BY DEF SyncUnlinked
<1>2. ~ Idle
  BY <1>1, NoJobFacts DEF IndInv, Course
<1>3. (SyncAll /\ Proceed(job.then) /\ UNCHANGED store) \/ Fail
  BY DEF SyncUnlinked
<1> QED
  BY <1>1, <1>2, <1>3, SyncsUnlinked, Fails

-----------------------------------------------------------------------------
(* The payload of a save *)

\* A step of a save at its own slot, which no index in force names.
LEMMA Files ==
    ASSUME IndInv, Filing, job.at # "index_sync", NEW at \in {"payload_sync", "index", "undo_sync"},
           Proceed(at), UNCHANGED <<store, committed, uncertain, setting>>,
           after' \subseteq Directories, disk' \in after', disk'.index = disk.index,
           \A s \in Slots : s # job.slot => disk'.payload[s] = disk.payload[s],
           \A q \in after' : \E d \in after :
              /\ q.index = d.index
              /\ \A s \in Slots : s # job.slot => q.payload[s] = d.payload[s],
           setting.ordered => after' \subseteq after \union {disk'},
           at = "payload_sync" => disk'.payload[job.slot] = Whole(job.key),
           at = "index" => disk' = disk /\ job.at = "payload_sync"
    PROVE  IndInv'
<1>0. TypeOK /\ Course /\ Frozen /\ Indexes /\ Drops /\ Committed /\ Limited /\ Owned
  BY DEF IndInv
<1>1. /\ job' \in Jobs /\ job'.at = at /\ job'.why = job.why /\ job'.then = job.then
      /\ job'.index = job.index /\ job'.candidate = job.candidate /\ job'.drop = job.drop
      /\ job'.key = job.key /\ job'.slot = job.slot /\ job'.todo = job.todo
      /\ job'.allowance = job.allowance
  <2>1. at \in Steps
    BY DEF Steps
  <2> QED
    BY <1>0, <2>1, ProceedFacts
<1>2. /\ store' = store /\ committed' = committed /\ uncertain' = uncertain /\ setting' = setting
      /\ disk \in after /\ disk \in Directories /\ store.open /\ job.why = "save"
  BY <1>0 DEF TypeOK, Course, Filing
<1>3. /\ ~ Opening /\ ~ Opening' /\ ~ Reconciling /\ ~ Reconciling' /\ Filing' /\ ~ Idle /\ ~ Idle'
      /\ ~ Unlinking /\ ~ Unlinking' /\ ~ Saved /\ ~ Saved' /\ ~ Cleaning /\ ~ Cleaning'
      /\ at # "index_sync"
  BY <1>1, <1>2 DEF Opening, Reconciling, Filing, Unlinking, Cleaning, Saved, Idle
<1>4. job.then = "end" /\ ~ Starting /\ ~ Starting'
  BY <1>0, <1>1, <1>2, <1>3 DEF Course, Starting
<1>5. NewEntry(job.slot)' = NewEntry(job.slot)
  BY <1>1 DEF NewEntry
<1>6. job.slot \notin SlotsOf(store.index) /\ ToSet(disk.index.entries) \subseteq ToSet(store.index)
      /\ job.slot \in Slots
  BY <1>0, <1>2, JobFields DEF Indexes
<1>7. TypeOK'
  BY <1>0, <1>1, <1>2 DEF TypeOK
<1>8. Course'
  BY <1>0, <1>1, <1>2, <1>3, <1>4 DEF Course
<1>9. Frozen'
  BY <1>0, <1>1, <1>2 DEF Frozen
<1>10. Indexes'
  <2>1. \A q \in after' : ValidIndex(q.index.entries) /\ (~ q.index.present => q.index = NoIndex)
    BY <1>0 DEF Indexes
  <2> QED
    BY <1>0, <1>1, <1>2, <1>3, <1>4, <1>5, <2>1 DEF Indexes
<1>11. Drops'
  BY <1>0, <1>1, <1>2, <1>3 DEF Drops
<1>12. Committed'
  <2>1. ASSUME NEW e \in Entries, e.key \in committed', Secured(e) PROVE Secured(e)'
    <3>1. e \in ToSet(store.index) /\ e \in ToSet(job.candidate)
      BY <1>2, <2>1, SecuredFacts
    <3>2. e.slot # job.slot /\ e.slot \in Slots
      BY <1>6, <3>1, EntryFacts DEF SlotsOf
    <3>3. \A q \in after' : e \in ToSet(q.index.entries) /\ q.payload[e.slot] = Whole(e.key)
      BY <2>1, <3>2, SecuredFacts
    <3> QED
      BY <1>1, <1>2, <1>3, <3>1, <3>3 DEF Secured
  <2> QED
    BY <1>0, <1>2, <2>1, StaySecured
<1>13. Limited'
  BY <1>0, <1>1, <1>2, <1>3 DEF Limited, Fitting
<1>14. Owned'
  <2> SUFFICES ASSUME setting.ordered
               PROVE  /\ \A d \in after' : \A e \in ToSet(d.index.entries) : Owns(d, e)'
                      /\ \A d \in after' : ~ d.index.present => \A s \in Slots : d.payload[s] = NoLeaf
                      /\ \A e \in ToSet(store'.index) : Owns(disk, e)'
                      /\ at \in {"payload_sync", "index", "index_sync"} =>
                            Owns(disk, NewEntry(job.slot))'
    BY <1>1 DEF Owned
  <2>1. \A d \in after : /\ \A e \in ToSet(d.index.entries) : Owns(d, e)'
                         /\ ~ d.index.present => \A s \in Slots : d.payload[s] = NoLeaf
    BY <1>0, <1>2 DEF Owned, Owns
  <2>2. \A e \in ToSet(store.index) : Owns(disk, e)'
    <3> TAKE e \in ToSet(store.index)
    <3>1. e.slot \in Slots /\ e.slot # job.slot
      BY <1>0, <1>6, StoreFields, MemberFacts, EntryFacts DEF SlotsOf
    <3>2. Owns(disk, e)
      BY <1>0 DEF Owned
    <3> QED
      BY <1>2, <3>1, <3>2 DEF Owns
  <2>3. \A e \in ToSet(disk.index.entries) : Owns(disk, e)'
    BY <1>6, <2>2
  <2>4. disk'.index.present
    BY <1>0, <1>2, <1>4 DEF Indexes
  <2>5. at \in {"payload_sync", "index", "index_sync"} => Owns(disk, NewEntry(job.slot))'
    <3>1. CASE at = "payload_sync"
      BY <1>1, <1>5, <3>1 DEF Owns, NewEntry
    <3>2. CASE at = "index"
      <4>1. Owns(disk, NewEntry(job.slot))
        BY <1>0, <3>2 DEF Owned
      <4> QED
        BY <1>2, <1>5, <3>2, <4>1 DEF Owns
    <3> QED
      BY <1>3, <3>1, <3>2
  <2> QED
    BY <1>2, <2>1, <2>2, <2>3, <2>4, <2>5
<1> QED
  BY <1>7, <1>8, <1>9, <1>10, <1>11, <1>12, <1>13, <1>14 DEF IndInv

\* Only a save is at these steps.
LEMMA AtPayload ==
    ASSUME IndInv, job.at \in {"payload", "payload_sync", "undo", "undo_sync"}
    PROVE  Filing /\ ~ Idle /\ job.slot \in Slots /\ job.key \in Keys
<1>1. TypeOK /\ Course
  BY DEF IndInv
<1>2. job.why = "save"
  BY <1>1, JobFields, NoJobFacts DEF Course, Idle, Reconciling, Publishing, Unlinking
<1> QED
  BY <1>1, <1>2, JobFields DEF Filing, Idle, Course

LEMMA PublishPayloadKeeps ==
    ASSUME IndInv, NEW ok, PublishPayload(ok)
    PROVE  IndInv'
<1>1. job.at = "payload" /\ UNCHANGED <<uncertain, setting>> /\ TypeOK
  BY DEF PublishPayload, IndInv
<1>2. Filing /\ ~ Idle /\ job.slot \in Slots /\ job.key \in Keys
  BY <1>1, AtPayload
<1>3. CASE Fail
  BY <1>1, <1>2, <1>3, Fails
<1>4. CASE Rename(job.slot, Whole(job.key)) /\ Proceed("payload_sync")
           /\ UNCHANGED <<store, committed>>
  <2>1. Whole(job.key) \in Leaves
    BY <1>2, LeafKinds
  <2>2. /\ after' \subseteq Directories /\ disk' \in after'
        /\ disk'.index = disk.index /\ disk'.payload[job.slot] = Whole(job.key)
        /\ \A s \in Slots : s # job.slot => disk'.payload[s] = disk.payload[s]
        /\ \A q \in after' : \E d \in after :
              /\ q.index = d.index
              /\ \A s \in Slots : s # job.slot => q.payload[s] = d.payload[s]
        /\ setting.ordered => after' \subseteq after \union {disk'}
    BY <1>1, <1>2, <1>4, <2>1, RenameFacts
  <2> QED
    BY <1>1, <1>2, <1>4, <2>2, Files
<1> QED
  BY <1>3, <1>4 DEF PublishPayload

LEMMA SyncPayloadKeeps ==
    ASSUME IndInv, NEW ok \in BOOLEAN, SyncPayload(ok)
    PROVE  IndInv'
<1>1. job.at = "payload_sync" /\ UNCHANGED setting /\ TypeOK /\ uncertain \in BOOLEAN
      /\ uncertain' = (uncertain \/ ~ ok)
  BY DEF SyncPayload, IndInv, TypeOK
<1>2. Filing /\ ~ Idle /\ job.slot \in Slots
  BY <1>1, AtPayload
<1>3. CASE ~ ok
  <2>1. Fail /\ uncertain' \in BOOLEAN /\ job.why = "save" /\ committed' = committed
    BY <1>1, <1>2, <1>3 DEF SyncPayload, Filing, Fail
  <2> QED
    BY <1>1, <1>2, <2>1, Fails
<1>4. CASE ok
  <2>1. SyncAll /\ Proceed("index") /\ UNCHANGED <<store, committed, uncertain>>
    BY <1>1, <1>4 DEF SyncPayload
  <2>2. /\ disk' = disk /\ after' = {disk} /\ disk \in after /\ after \subseteq Directories
    BY <1>1, <2>1 DEF SyncAll, TypeOK
  <2> QED
    BY <1>1, <1>2, <2>1, <2>2, Files
<1> QED
  BY <1>3, <1>4

LEMMA UndoPayloadKeeps ==
    ASSUME IndInv, NEW ok, UndoPayload(ok)
    PROVE  IndInv'
<1>1. /\ job.at = "undo" /\ Proceed("undo_sync") /\ UNCHANGED <<store, committed, uncertain, setting>>
      /\ TypeOK
  BY DEF UndoPayload, IndInv
<1>2. Filing /\ ~ Idle /\ job.slot \in Slots
  BY <1>1, AtPayload
<1>3. CASE Rename(job.slot, NoLeaf)
  <2>1. NoLeaf \in Leaves
    BY LeafKinds
  <2>2. /\ after' \subseteq Directories /\ disk' \in after' /\ disk'.index = disk.index
        /\ \A s \in Slots : s # job.slot => disk'.payload[s] = disk.payload[s]
        /\ \A q \in after' : \E d \in after :
              /\ q.index = d.index
              /\ \A s \in Slots : s # job.slot => q.payload[s] = d.payload[s]
        /\ setting.ordered => after' \subseteq after \union {disk'}
    BY <1>1, <1>2, <1>3, <2>1, RenameFacts
  <2> QED
    BY <1>1, <1>2, <2>2, Files
<1>4. CASE UNCHANGED Directory
  <2>1. disk' = disk /\ after' = after /\ disk \in after /\ after \subseteq Directories
    BY <1>1, <1>4 DEF Directory, TypeOK
  <2> QED
    BY <1>1, <1>2, <2>1, Files
<1> QED
  BY <1>3, <1>4 DEF UndoPayload

LEMMA SyncUndoneKeeps ==
    ASSUME IndInv, NEW ok, SyncUndone(ok)
    PROVE  IndInv'
<1>1. /\ job.at = "undo_sync" /\ job' = NoJob /\ UNCHANGED <<store, committed, uncertain, setting>>
      /\ TypeOK /\ Course /\ Frozen
  BY DEF SyncUndone, Return, IndInv
<1>2. Filing
  BY <1>1, AtPayload
<1>3. disk' = disk /\ disk \in after' /\ after' \subseteq after
  BY <1>1 DEF SyncUndone, SyncAll, Directory, TypeOK
<1>4. /\ store.open /\ store \in Stores /\ uncertain' \in BOOLEAN
      /\ uncertain' /\ ~ setting.managed => store'.writes_disabled
  BY <1>1, <1>2 DEF Course, Frozen, Filing, TypeOK
<1> QED
  BY <1>1, <1>3, <1>4, Stops

-----------------------------------------------------------------------------
(* Reconciling *)

\* A step of reconcile_and_prune or cleanup_unindexed in memory: it plans a new
\* index (towards `index`), finds nothing to do, or plans what to unlink.
LEMMA Reconciles ==
    ASSUME IndInv, UNCHANGED <<disk, after, store, uncertain, setting>>,
           committed' \subseteq committed, job' \in Jobs, job'.why = job.why, job'.index = job.index,
           job'.key = job.key, job'.slot = job.slot, job'.todo = job.todo,
           job'.allowance <= job.allowance,
           job.at \in {"scan", "prune", "sweep"}, Reconciling \/ Cleaning,
           \/ /\ Reconciling /\ job'.at = "index" /\ job'.then \in {"prune", "sweep"}
              /\ ToSet(job'.candidate) \subseteq ToSet(job.index)
              /\ job'.drop \cap SlotsOf(job'.candidate) = {}
              /\ job.why # "open" \/ job'.then = "sweep" => Fitting(job'.candidate)
              /\ \A e \in Entries : e.key \in committed' /\ Secured(e) => e \in ToSet(job'.candidate)
           \/ /\ Reconciling /\ job'.at \in {"prune", "sweep"} /\ job'.candidate = job.candidate
              /\ job.why = "open" /\ job'.at = "sweep" => Fitting(job.index)
           \/ /\ job.at = "sweep" /\ job'.at \in {"unlink", "unlink_sync", job'.then}
              /\ job'.then = (IF job.why = "save" THEN "admit" ELSE "end")
              /\ job'.drop \cap SlotsOf(job.index) = {} /\ job'.candidate = job.candidate
    PROVE  IndInv'
<1>0. TypeOK /\ Course /\ Frozen /\ Indexes /\ Drops /\ Committed /\ Limited /\ Owned
  BY DEF IndInv
<1>1. /\ store' = store /\ uncertain' = uncertain /\ setting' = setting /\ disk' = disk
      /\ after' = after /\ disk \in after
  BY <1>0 DEF TypeOK
<1>2. /\ ~ Publishing /\ ~ Filing /\ ~ Unlinking /\ ~ Saved /\ ~ Starting /\ ~ Idle
      /\ Reconciling' = Reconciling /\ Opening' = Opening /\ ~ Idle' /\ job'.at # "index_sync"
      /\ ~ Filing' /\ ~ Saved' /\ ~ Starting' /\ Cleaning' = Cleaning
      /\ Publishing' = (job'.at = "index") /\ (Publishing' => Reconciling)
      /\ (Reconciling => ~ Cleaning)
  BY DEF Publishing, Filing, Unlinking, Saved, Starting, Cleaning, Reconciling, Opening, Idle
<1>3. TypeOK'
  BY <1>0, <1>1 DEF TypeOK
<1>4. Course'
  <2>1. Reconciling' => \/ job'.at \in {"scan", "prune", "sweep", "end"}
                        \/ Publishing' /\ job'.then \in {"scan", "prune", "sweep"}
                        \/ Unlinking' /\ job'.then \in {"prune", "sweep", "end"}
    BY <1>2 DEF Unlinking, Reconciling
  <2>2. job.why \in {"open", "managed", "shrink", "save"}
    BY DEF Reconciling, Cleaning
  <2>3. job.why = "save" => Cleaning
    BY DEF Reconciling
  <2> QED
    BY <1>0, <1>1, <1>2, <2>1, <2>2, <2>3 DEF Course
<1>5. Frozen'
  BY <1>0, <1>1 DEF Frozen
<1>6. Indexes'
  <2>1. Reconciling => ToSet(job'.candidate) \subseteq ToSet(job.index)
    BY <1>0 DEF Indexes, Reconciling, Cleaning
  <2>2. job.why \notin {"invalid", "touch"}
    BY DEF Reconciling, Cleaning
  <2> QED
    BY <1>0, <1>1, <1>2, <2>1, <2>2 DEF Indexes
<1>7. Drops'
  <2>1. Unlinking' => job.at = "sweep" /\ job'.drop \cap SlotsOf(job.index) = {}
    BY DEF Unlinking
  <2>2. ~ Reconciling => job.index = store.index
    BY <1>0 DEF Indexes
  <2> QED
    BY <1>1, <1>2, <2>1, <2>2 DEF Drops
<1>8. Committed'
  <2>1. ASSUME NEW e \in Entries, e.key \in committed', Secured(e) PROVE Secured(e)'
    <3>1. Publishing' => e \in ToSet(job'.candidate)
      BY <1>2, <2>1
    <3> QED
      BY <1>1, <1>2, <2>1, <3>1 DEF Secured
  <2> QED
    BY <1>0, <2>1, StaySecured
<1>9. Limited'
  <2>1. job'.allowance \in Nat /\ job.allowance \in Nat
    BY <1>0, JobFields DEF Jobs
  <2>2. Reconciling => job'.allowance <= store.limits.max_bytes
    <3>1. Reconciling => job.allowance <= store.limits.max_bytes /\ store.limits.max_bytes \in Nat
      BY <1>0, <1>2, SettingFacts DEF Limited, Course
    <3> QED
      BY <2>1, <3>1
  <2>3. Publishing' /\ (job.why # "open" \/ job'.then = "sweep") => Fitting(job'.candidate)
    BY <1>2
  <2>4. \/ job.why \in {"managed", "shrink"}
        \/ job.why = "open" /\ job'.at \in {"sweep", "end"}
        \/ job.why = "open" /\ Unlinking' /\ job'.then \in {"sweep", "end"}
        => Fitting(job.index)
    BY <1>0 DEF Limited, Unlinking
  <2> QED
    BY <1>0, <1>1, <1>2, <2>2, <2>3, <2>4 DEF Limited, Fitting
<1>10. Owned'
  BY <1>0, <1>1, <1>2 DEF Owned, Owns
<1> QED
  BY <1>3, <1>4, <1>5, <1>6, <1>7, <1>8, <1>9, <1>10 DEF IndInv

\* Only a reconciliation scans and prunes, and only that or a save sweeps.
LEMMA AtReconcile ==
    ASSUME IndInv
    PROVE  /\ job.at \in {"scan", "prune"} => Reconciling
           /\ job.at = "sweep" => Reconciling \/ Cleaning
           /\ Reconciling => /\ store.limits \in LimitRecords
                             /\ job.allowance <= store.limits.max_bytes
<1>1. TypeOK /\ Course /\ Limited
  BY DEF IndInv
<1>2. /\ job.at \in {"scan", "prune"} => Reconciling
      /\ job.at = "sweep" => Reconciling \/ Cleaning
  BY <1>1, JobFields, NoJobFacts
     DEF Course, Idle, Publishing, Unlinking, Filing, Cleaning, Saved, Reconciling
<1> QED
  BY <1>1, <1>2 DEF Course, Limited, Idle, Reconciling

LEMMA ScanKeeps ==
    ASSUME IndInv, NEW ok, Scan(ok)
    PROVE  IndInv'
<1> DEFINE unfit == Unfit(job.index)
<1>0. TypeOK /\ Indexes /\ Limited
  BY DEF IndInv
<1>1. job.at = "scan" /\ UNCHANGED <<uncertain, setting>> /\ Reconciling /\ ~ Idle
  BY AtReconcile DEF Scan, Reconciling, Idle
<1>2. CASE Fail
  BY <1>1, <1>2, Fails
<1>3. CASE Proceed("prune") /\ UNCHANGED <<Directory, store, committed>>
  <2>1. /\ job' \in Jobs /\ job'.at = "prune" /\ job'.why = job.why /\ job'.then = job.then
        /\ job'.index = job.index /\ job'.candidate = job.candidate /\ job'.drop = job.drop
        /\ job'.key = job.key /\ job'.slot = job.slot /\ job'.todo = job.todo
        /\ job'.allowance = job.allowance
    <3>1. "prune" \in Steps
      BY DEF Steps
    <3> QED
      BY <1>0, <1>3, <3>1, ProceedFacts
  <2>2. job'.allowance <= job.allowance /\ UNCHANGED <<disk, after>> /\ committed' \subseteq committed
    BY <1>0, <1>3, <2>1, JobFields DEF Directory
  <2> QED
    BY <1>1, <1>3, <2>1, <2>2, Reconciles
<1>4. CASE /\ unfit # {}
           /\ job' = [job EXCEPT !.at = "index", !.then = "prune",
                                 !.drop = {e.slot : e \in unfit},
                                 !.candidate = Without(job.index, unfit)]
           /\ UNCHANGED <<Directory, store, committed>>
  <2> DEFINE c == Without(job.index, unfit)
             out == {e.slot : e \in unfit}
  <2>1. /\ job.index \in Seq(Entries) /\ ToSet(job.index) \subseteq Entries
        /\ unfit \subseteq ToSet(job.index)
    BY <1>0, JobFields, MemberFacts DEF Unfit
  <2>2. c \in Seq(Entries) /\ ToSet(c) = ToSet(job.index) \ unfit
    BY <2>1, WithoutFacts
  <2>3. out \subseteq Slots
    BY <2>1, EntryFacts
  <2>4. out \cap SlotsOf(c) = {}
    <3> SUFFICES ASSUME NEW e \in unfit, NEW f \in ToSet(c), e.slot = f.slot PROVE FALSE
      BY DEF SlotsOf
    <3> QED
      BY <1>0, <2>1, <2>2, Unique DEF Indexes
  <2>5. job.why # "open" => Fitting(c)
    <3>1. ASSUME job.why # "open" PROVE Fitting(c)
      <4>1. Fitting(job.index)
        BY <1>0, <1>1, <3>1 DEF Limited, Reconciling
      <4>2. PICK e \in unfit : TRUE
        BY <1>4
      <4>3. Len(c) + 1 <= Len(job.index) /\ LiveBytes(c) + FileBytes(e) <= LiveBytes(job.index)
        BY <2>1, <4>2, LiveWithout
      <4>4. /\ Len(c) \in Nat /\ Len(job.index) \in Nat /\ LiveBytes(c) \in Nat
            /\ LiveBytes(job.index) \in Nat /\ FileBytes(e) \in Nat
            /\ store.limits.max_entries \in Nat /\ store.limits.max_bytes \in Nat
        BY <1>0, <1>1, <2>1, <2>2, LiveFacts, MemberFacts, EntryFacts, AtReconcile, SettingFacts
      <4> HIDE DEF c, unfit
      <4> QED
        BY <4>1, <4>3, <4>4 DEF Fitting, Within
    <3> QED
      BY <3>1
  <2>6. ASSUME NEW e \in Entries, Secured(e) PROVE e \in ToSet(c)
    <3>1. e \in ToSet(job.index) /\ disk.payload[e.slot] = Whole(e.key)
      BY <1>0, <1>1, <2>6, SecuredFacts DEF TypeOK
    <3>2. LengthMatches(disk.payload[e.slot], e)
      BY <3>1 DEF LengthMatches, Whole, FileBytes
    <3> QED
      BY <2>2, <3>1, <3>2 DEF Unfit
  <2> HIDE DEF c, unfit, out
  <2>7. /\ job' \in Jobs /\ job'.at = "index" /\ job'.why = job.why /\ job'.then = "prune"
        /\ job'.index = job.index /\ job'.candidate = c /\ job'.drop = out
        /\ job'.key = job.key /\ job'.slot = job.slot /\ job'.todo = job.todo
        /\ job'.allowance = job.allowance
    BY <1>0, <1>4, <2>2, <2>3 DEF TypeOK, Jobs, Steps, c, out
  <2>8. job'.allowance <= job.allowance /\ UNCHANGED <<disk, after>> /\ committed' \subseteq committed
    BY <1>0, <1>4, <2>7, JobFields DEF Directory
  <2> QED
    BY <1>1, <1>4, <2>2, <2>4, <2>5, <2>6, <2>7, <2>8, Reconciles
<1> QED
  BY <1>2, <1>3, <1>4 DEF Scan

LEMMA PruneKeeps ==
    ASSUME IndInv, Prune
    PROVE  IndInv'
<1> DEFINE kept == Pruned(job.index, store.limits, job.allowance)
           out == SlotsOf(job.index) \ SlotsOf(kept)
<1>0. TypeOK /\ Indexes /\ Limited /\ Committed
  BY DEF IndInv
<1>1. /\ job.at = "prune" /\ Reconciling /\ UNCHANGED <<disk, after, store, uncertain, setting>>
      /\ committed' = committed \ (KeysOf(job.index) \ KeysOf(kept))
      /\ job' = IF kept = job.index
                THEN [job EXCEPT !.at = "sweep", !.allowance = 0]
                ELSE [job EXCEPT !.at = "index", !.then = "sweep", !.allowance = 0,
                                 !.drop = out, !.candidate = kept]
  BY AtReconcile DEF Prune, Directory
<1>2. /\ job.index \in Seq(Entries) /\ job.allowance \in Nat /\ job.allowance <= store.limits.max_bytes
      /\ store.limits.max_entries \in Nat /\ store.limits.max_bytes \in Nat
  BY <1>0, <1>1, JobFields, AtReconcile, SettingFacts
<1>3. /\ kept \in Seq(Entries) /\ ToSet(kept) \subseteq ToSet(job.index)
      /\ Within(kept, store.limits.max_entries, job.allowance)
  BY <1>2, PrunedFacts
<1>4. out \subseteq Slots /\ out \cap SlotsOf(kept) = {}
  BY <1>2, MemberFacts
<1> HIDE DEF kept, out
<1>5. Fitting(kept)
  <2>1. LiveBytes(kept) \in Nat
    BY <1>3, LiveFacts
  <2> QED
    BY <1>2, <1>3, <2>1 DEF Fitting, Within
<1>6. ASSUME NEW e \in Entries, e.key \in committed', Secured(e) PROVE e \in ToSet(kept)
  <2>1. e \in ToSet(job.index)
    BY <1>1, <1>6, SecuredFacts
  <2>2. e.key \in KeysOf(kept)
    BY <1>1, <1>6, <2>1 DEF KeysOf
  <2>3. PICK f \in ToSet(kept) : f.key = e.key
    BY <2>2 DEF KeysOf
  <2>4. ValidIndex(job.index) /\ f \in ToSet(job.index)
    BY <1>0, <1>3 DEF Indexes
  <2>5. e = f
    BY <1>2, <2>1, <2>3, <2>4, Unique
  <2> QED
    BY <2>5
<1>7. /\ job' \in Jobs /\ job'.why = job.why /\ job'.index = job.index /\ job'.key = job.key
      /\ job'.slot = job.slot /\ job'.todo = job.todo /\ job'.allowance = 0
      /\ \/ kept = job.index /\ job'.at = "sweep" /\ job'.candidate = job.candidate
         \/ job'.at = "index" /\ job'.then = "sweep" /\ job'.drop = out /\ job'.candidate = kept
  BY <1>0, <1>1, <1>3, <1>4 DEF TypeOK, Jobs, Steps
<1>8. committed' \subseteq committed /\ job'.allowance <= job.allowance
  BY <1>1, <1>2, <1>7
<1> QED
  BY <1>1, <1>3, <1>4, <1>5, <1>6, <1>7, <1>8, Reconciles

LEMMA SweepKeeps ==
    ASSUME IndInv, NEW temporary, Sweep(temporary)
    PROVE  IndInv'
<1> DEFINE orphans == {s \in Slots \ SlotsOf(job.index) : disk.payload[s] # NoLeaf}
           next == IF job.why = "save" THEN "admit" ELSE "end"
<1>0. TypeOK
  BY DEF IndInv
<1>1. /\ job.at = "sweep" /\ UNCHANGED <<disk, after, store, committed, uncertain, setting>>
      /\ job' = [job EXCEPT
                    !.drop = orphans,
                    !.then = next,
                    !.at = IF orphans # {} THEN "unlink"
                           ELSE IF temporary THEN "unlink_sync" ELSE next]
  BY DEF Sweep, Directory
<1>2. orphans \subseteq Slots /\ orphans \cap SlotsOf(job.index) = {}
  OBVIOUS
<1>3. next \in Steps /\ "unlink" \in Steps /\ "unlink_sync" \in Steps
  BY DEF Steps
<1> HIDE DEF orphans
<1>4. /\ job' \in Jobs /\ job'.why = job.why /\ job'.index = job.index /\ job'.key = job.key
      /\ job'.slot = job.slot /\ job'.todo = job.todo /\ job'.allowance = job.allowance
      /\ job'.candidate = job.candidate /\ job'.drop = orphans /\ job'.then = next
      /\ job'.at \in {"unlink", "unlink_sync", job'.then}
  <2> HIDE DEF next
  <2> QED
    BY <1>0, <1>1, <1>2, <1>3 DEF TypeOK, Jobs
<1>5. committed' \subseteq committed /\ job'.allowance <= job.allowance
  BY <1>0, <1>1, <1>4, JobFields
<1>6. Reconciling \/ Cleaning
  BY <1>1, AtReconcile
<1> QED
  BY <1>1, <1>2, <1>4, <1>5, <1>6, Reconciles

-----------------------------------------------------------------------------
(* Opening *)

LEMMA OpenKeeps ==
    ASSUME IndInv, NEW scope \in Scopes, NEW limits \in setting.limits,
           Open(scope, limits, setting.managed)
    PROVE  IndInv'
<1> DEFINE new == [Closed EXCEPT !.scope = scope, !.limits = limits, !.managed = setting.managed]
<1>0. TypeOK /\ Course /\ Frozen /\ Indexes /\ Drops /\ Committed /\ Limited /\ Owned
  BY DEF IndInv
<1>1. /\ ~ store.open /\ store' = new /\ disk' = disk /\ after' = after
      /\ committed' = committed /\ uncertain' = uncertain /\ setting' = setting
      /\ disk \in after /\ disk \in Directories
  BY <1>0 DEF Open, TypeOK
<1>2. /\ setting \in Settings /\ setting.managed \in BOOLEAN /\ limits \in LimitRecords
      /\ limits.max_bytes \in Nat
  BY <1>0, SettingFacts
<1>3. /\ store' \in Stores /\ ~ store'.open /\ store'.index = <<>> /\ store'.limits = limits
      /\ store'.scope = scope /\ store'.managed = setting.managed
  <2>1. Closed \in Stores /\ ~ Closed.open /\ Closed.index = <<>>
    BY ClosedFacts
  <2>2. limits \in (UNION {s.limits : s \in Settings}) \union {NoLimits}
    BY <1>2
  <2> HIDE DEF new
  <2>3. new \in Stores /\ new.open = Closed.open /\ new.index = Closed.index /\ new.limits = limits
        /\ new.scope = scope /\ new.managed = setting.managed
    BY <1>2, <2>1, <2>2 DEF new, Stores
  <2> QED
    BY <1>1, <2>1, <2>3
<1>4. disk.index.entries \in Seq(Entries)
  BY <1>1, DirectoryFacts
<1>5. /\ job' \in Jobs /\ job'.why = "open" /\ job'.candidate = <<>> /\ job'.drop = {}
      /\ job'.todo = {} /\ job'.allowance = limits.max_bytes
      /\ \/ /\ disk.index.present /\ ValidIndex(disk.index.entries)
            /\ job'.at = "scan" /\ job'.index = disk.index.entries
         \/ /\ ~ disk.index.present
            /\ job'.at = "index" /\ job'.then = "scan" /\ job'.index = <<>>
  <2> DEFINE reading == [NoJob EXCEPT !.why = "open", !.allowance = limits.max_bytes]
  <2>1. /\ reading \in Jobs /\ reading.why = "open" /\ reading.candidate = <<>> /\ reading.drop = {}
        /\ reading.todo = {} /\ reading.allowance = limits.max_bytes /\ reading.index = <<>>
    BY <1>2, NoJobFacts DEF Jobs
  <2>2. \/ /\ disk.index.present /\ ValidIndex(disk.index.entries)
           /\ job' = [reading EXCEPT !.at = "scan", !.index = disk.index.entries]
        \/ ~ disk.index.present /\ job' = [reading EXCEPT !.at = "index", !.then = "scan"]
    BY DEF Open
  <2> HIDE DEF reading
  <2> QED
    BY <1>4, <2>1, <2>2 DEF Jobs, Steps
<1>6. /\ Opening' /\ Reconciling' /\ ~ Filing' /\ ~ Unlinking' /\ ~ Saved' /\ ~ Cleaning' /\ ~ Idle'
      /\ Publishing' = (job'.at = "index") /\ Starting' = Publishing' /\ job'.at # "index_sync"
  BY <1>5 DEF Opening, Reconciling, Publishing, Filing, Unlinking, Cleaning, Saved, Starting, Idle
<1>7. ~ disk.index.present => disk.index.entries = <<>>
  BY <1>0, <1>1 DEF Indexes, NoIndex
<1>8. TypeOK'
  BY <1>0, <1>1, <1>3, <1>5 DEF TypeOK
<1>9. Course'
  BY <1>1, <1>2, <1>3, <1>5, <1>6 DEF Course
<1>10. Frozen'
  BY <1>0, <1>1, <1>5 DEF Frozen
<1>11. Indexes'
  <2>1. \A d \in after' : ValidIndex(d.index.entries) /\ (~ d.index.present => d.index = NoIndex)
    BY <1>0, <1>1 DEF Indexes
  <2> QED
    BY <1>1, <1>3, <1>5, <1>6, <1>7, <2>1, EmptyFacts DEF Indexes
<1>12. Drops'
  BY <1>5, <1>6 DEF Drops
<1>13. Committed'
  <2>1. ASSUME NEW e \in Entries, e.key \in committed', Secured(e) PROVE Secured(e)'
    <3>1. e \in ToSet(disk.index.entries)
      BY <1>1, <2>1, SecuredFacts
    <3>2. disk.index.present
      BY <1>7, <3>1, EmptyFacts
    <3>3. job'.at = "scan" /\ job'.index = disk.index.entries
      BY <1>5, <3>2
    <3> QED
      BY <1>1, <1>3, <1>6, <2>1, <3>1, <3>3 DEF Secured
  <2> QED
    BY <1>0, <1>1, <2>1, StaySecured
<1>14. Limited'
  <2>1. /\ job'.allowance <= store'.limits.max_bytes /\ job'.why # "save"
        /\ ~ (Publishing' /\ (job'.why # "open" \/ job'.then = "sweep"))
        /\ job'.why \notin {"managed", "shrink"} /\ job'.at \notin {"sweep", "end"}
    <3>1. job'.allowance <= store'.limits.max_bytes
      <4> DEFINE bytes == limits.max_bytes
      <4>1. bytes \in Nat /\ job'.allowance = bytes /\ store'.limits.max_bytes = bytes
        BY <1>2, <1>3, <1>5
      <4> HIDE DEF bytes
      <4> QED
        BY ONLY <4>1
    <3>2. ~ (Publishing' /\ (job'.why # "open" \/ job'.then = "sweep"))
      BY <1>5, <1>6
    <3> QED
      BY <1>5, <3>1, <3>2
  <2> QED
    BY <1>3, <1>6, <2>1 DEF Limited
<1>15. Owned'
  BY <1>0, <1>1, <1>3, <1>6, EmptyFacts DEF Owned, Owns
<1> QED
  BY <1>8, <1>9, <1>10, <1>11, <1>12, <1>13, <1>14, <1>15 DEF IndInv

-----------------------------------------------------------------------------
(* Saving and loading *)

\* A save begins, a load begins, or a load goes on to its next match.
LEMMA Begins ==
    ASSUME IndInv, UNCHANGED <<disk, after, committed, uncertain, setting>>,
           store.open, Idle \/ job.why = "load" \/ (job.why = "invalid" /\ job.at = "end"),
           store' \in Stores, store'.open, store'.index = store.index,
           store'.limits = store.limits, store'.scope = store.scope,
           store'.managed = store.managed, store'.writes_disabled = store.writes_disabled,
           job' \in Jobs, ValidIndex(job'.index),
           \/ /\ job'.why = "save" /\ job'.at = "sweep" /\ job'.index = store.index
              /\ job'.key \in Keys /\ Len(job'.key.tokens) <= store.limits.max_bytes
              /\ job'.todo = {} /\ ~ store.writes_disabled
           \/ job'.why = "load" /\ job'.at = "try" /\ job'.todo \subseteq ToSet(store.index)
    PROVE  IndInv'
<1>0. TypeOK /\ Course /\ Frozen /\ Indexes /\ Drops /\ Committed /\ Limited /\ Owned
  BY DEF IndInv
<1>1. /\ disk' = disk /\ after' = after /\ committed' = committed /\ uncertain' = uncertain
      /\ setting' = setting /\ disk \in after
  BY <1>0 DEF TypeOK
<1>2. job.at \in {"none", "try", "end"}
  BY <1>0, NoJobFacts DEF Course
<1>3. /\ ~ Opening' /\ ~ Reconciling' /\ ~ Publishing' /\ ~ Filing' /\ ~ Unlinking' /\ ~ Saved'
      /\ ~ Starting' /\ ~ Idle' /\ job'.at # "index_sync" /\ Cleaning' = (job'.why = "save")
      /\ ~ Starting /\ ~ Publishing
  BY <1>2 DEF Opening, Reconciling, Publishing, Filing, Unlinking, Cleaning, Saved, Starting, Idle
<1>4. TypeOK'
  BY <1>0, <1>1 DEF TypeOK
<1>5. Course'
  BY <1>0, <1>1, <1>3 DEF Course
<1>6. Frozen'
  BY <1>0, <1>1 DEF Frozen
<1>7. Indexes'
  <2>1. disk.index.present /\ ToSet(disk.index.entries) \subseteq ToSet(store.index)
    BY <1>0, <1>2, <1>3 DEF Indexes
  <2> QED
    BY <1>0, <1>1, <1>3, <2>1 DEF Indexes
<1>8. Drops'
  BY <1>3 DEF Drops
<1>9. Committed'
  <2>1. ASSUME NEW e \in Entries, e.key \in committed', Secured(e) PROVE Secured(e)'
    BY <1>1, <1>3, <2>1 DEF Secured
  <2> QED
    BY <1>0, <1>1, <2>1, StaySecured
<1>10. Limited'
  BY <1>0, <1>1, <1>3 DEF Limited, Fitting
<1>11. Owned'
  BY <1>0, <1>1, <1>3 DEF Owned, Owns
<1> QED
  BY <1>4, <1>5, <1>6, <1>7, <1>8, <1>9, <1>10, <1>11 DEF IndInv

LEMMA SaveKeeps ==
    ASSUME IndInv, NEW tokens \in setting.histories, Save(tokens)
    PROVE  IndInv'
<1> DEFINE key == [scope |-> store.scope, tokens |-> tokens]
<1>0. TypeOK /\ Course /\ Indexes
  BY DEF IndInv
<1>1. /\ store.open /\ Idle /\ ~ store.writes_disabled /\ Len(tokens) <= store.limits.max_bytes
      /\ job' = [NoJob EXCEPT !.why = "save", !.at = "sweep", !.key = key, !.index = store.index]
      /\ UNCHANGED <<disk, after, store, committed, uncertain, setting>>
  BY DEF Save, Ready
<1>2. key \in Keys
  <2>1. store.scope \in Scopes /\ setting \in Settings
    BY <1>0, <1>1 DEF Course, TypeOK
  <2> QED
    BY <2>1 DEF Keys
<1>3. key.tokens = tokens
  OBVIOUS
<1>4. store \in Stores /\ store.index \in Seq(Entries) /\ ValidIndex(store.index)
  BY <1>0, StoreFields DEF TypeOK, Indexes
<1> HIDE DEF key
<1>5. /\ job' \in Jobs /\ job'.why = "save" /\ job'.at = "sweep" /\ job'.index = store.index
      /\ job'.key = key /\ job'.todo = {}
  BY <1>1, <1>2, <1>4, NoJobFacts DEF Jobs, Steps
<1> QED
  BY <1>1, <1>2, <1>3, <1>4, <1>5, Begins

LEMMA LoadMatchKeeps ==
    ASSUME IndInv, NEW tokens, LoadMatch(tokens)
    PROVE  IndInv'
<1> DEFINE found == Matching(store.index, store.scope, tokens, store.dead_slots)
<1>0. TypeOK
  BY DEF IndInv
<1>1. /\ store.open /\ Idle
      /\ job' = [NoJob EXCEPT !.why = "load", !.at = "try", !.todo = found]
      /\ UNCHANGED <<disk, after, store, committed, uncertain, setting>>
  BY DEF LoadMatch, Ready
<1>2. found \subseteq ToSet(store.index) /\ found \subseteq Entries
  BY <1>0, StoreFields, MemberFacts DEF Matching
<1>3. store \in Stores
  BY <1>0 DEF TypeOK
<1> HIDE DEF found
<1>4. /\ job' \in Jobs /\ job'.why = "load" /\ job'.at = "try" /\ job'.index = <<>>
      /\ job'.todo = found
  BY <1>1, <1>2, NoJobFacts DEF Jobs, Steps
<1> QED
  BY <1>1, <1>2, <1>3, <1>4, EmptyFacts, Begins

\* A load publishes an index of its own: without an invalid entry, or with the
\* restored one as the newest.
LEMMA Updates ==
    ASSUME IndInv, UNCHANGED <<disk, after, committed, uncertain, setting>>,
           job.why = "load", job.at = "try", ~ store.writes_disabled,
           store' \in Stores, store'.open = store.open, store'.index = store.index,
           store'.limits = store.limits, store'.scope = store.scope,
           store'.managed = store.managed, store'.writes_disabled = store.writes_disabled,
           job' \in Jobs, job'.why \in {"invalid", "touch"}, job'.at = "index", job'.then = "end",
           ValidIndex(job'.index), ToSet(job'.candidate) \subseteq ToSet(store.index),
           Fitting(job'.candidate), job'.drop \cap SlotsOf(job'.candidate) = {},
           job'.why = "touch" => job'.drop = {} /\ job'.todo = {},
           job'.why = "invalid" => job'.todo \subseteq ToSet(job'.candidate),
           \A e \in Entries : Secured(e) => e \in ToSet(job'.candidate)
    PROVE  IndInv'
<1>0. TypeOK /\ Course /\ Frozen /\ Indexes /\ Drops /\ Committed /\ Limited /\ Owned
  BY DEF IndInv
<1>1. /\ disk' = disk /\ after' = after /\ committed' = committed /\ uncertain' = uncertain
      /\ setting' = setting /\ disk \in after /\ store.open
  BY <1>0 DEF TypeOK, Course
<1>2. /\ ~ Opening' /\ ~ Reconciling' /\ Publishing' /\ ~ Filing' /\ ~ Unlinking' /\ ~ Saved'
      /\ ~ Starting' /\ ~ Idle' /\ ~ Cleaning' /\ ~ Starting /\ ~ Publishing
  BY DEF Opening, Reconciling, Publishing, Filing, Unlinking, Cleaning, Saved, Starting, Idle
<1>3. TypeOK'
  BY <1>0, <1>1 DEF TypeOK
<1>4. Course'
  BY <1>0, <1>1, <1>2 DEF Course
<1>5. Frozen'
  BY <1>0, <1>1 DEF Frozen
<1>6. Indexes'
  <2>1. disk.index.present /\ ToSet(disk.index.entries) \subseteq ToSet(store.index)
    BY <1>0, <1>1, <1>2 DEF Indexes
  <2>2. job'.todo \subseteq ToSet(store.index)
    OBVIOUS
  <2> QED
    BY <1>0, <1>1, <1>2, <2>1, <2>2 DEF Indexes
<1>7. Drops'
  BY <1>2 DEF Drops
<1>8. Committed'
  <2>1. ASSUME NEW e \in Entries, e.key \in committed', Secured(e) PROVE Secured(e)'
    BY <1>1, <1>2, <2>1 DEF Secured
  <2> QED
    BY <1>0, <1>1, <2>1, StaySecured
<1>9. Limited'
  BY <1>0, <1>1, <1>2 DEF Limited, Fitting
<1>10. Owned'
  BY <1>0, <1>1, <1>2 DEF Owned, Owns
<1> QED
  BY <1>3, <1>4, <1>5, <1>6, <1>7, <1>8, <1>9, <1>10 DEF IndInv

\* A load works on entries of the index in memory, which is within the limits.
LEMMA AtTry ==
    ASSUME IndInv, job.at = "try"
    PROVE  /\ job.why = "load" /\ store.open /\ ~ Idle
           /\ store.index \in Seq(Entries) /\ ValidIndex(store.index) /\ ValidIndex(job.index)
           /\ job.todo \subseteq ToSet(store.index) /\ Fitting(store.index)
           /\ store.limits.max_entries \in Nat /\ store.limits.max_bytes \in Nat
<1>1. TypeOK /\ Course /\ Indexes /\ Limited
  BY DEF IndInv
<1>2. job.why = "load"
  BY <1>1, JobFields, NoJobFacts
     DEF Course, Idle, Reconciling, Publishing, Unlinking, Filing, Cleaning, Saved
<1>3. store.open /\ store.limits \in LimitRecords
  BY <1>1, <1>2 DEF Course
<1> QED
  BY <1>1, <1>2, <1>3, StoreFields, SettingFacts DEF Indexes, Limited, Idle

\* touch_after_restore
LEMMA TouchKeeps ==
    ASSUME IndInv, job.at = "try", NEW e \in job.todo, TouchAfterRestore(e),
           UNCHANGED <<disk, after, committed, uncertain, setting>>
    PROVE  IndInv'
<1>0. TypeOK /\ Frozen /\ Indexes
  BY DEF IndInv
<1>1. /\ job.why = "load" /\ store.open /\ store.index \in Seq(Entries) /\ Fitting(store.index)
      /\ e \in ToSet(store.index) /\ e \in Entries /\ store' = store /\ store \in Stores
      /\ store.limits.max_entries \in Nat /\ store.limits.max_bytes \in Nat
  BY <1>0, AtTry, MemberFacts DEF TouchAfterRestore, TypeOK
<1>2. CASE Return
  <2>1. disk' \in after' /\ after' \subseteq after /\ uncertain' \in BOOLEAN
    BY <1>0 DEF TypeOK
  <2>2. uncertain' /\ ~ setting.managed => store'.writes_disabled
    BY <1>0, <1>1 DEF Frozen
  <2> QED
    BY <1>1, <1>2, <2>1, <2>2, Stops DEF Return
<1>3. CASE /\ ~ store.writes_disabled
           /\ job' = [NoJob EXCEPT !.why = "touch", !.at = "index", !.then = "end",
                                   !.candidate = Append(Without(store.index, {e}), e)]
  <2> DEFINE w == Without(store.index, {e})
             c == Append(w, e)
  <2>1. /\ w \in Seq(Entries) /\ ToSet(w) = ToSet(store.index) \ {e}
        /\ Len(w) + 1 <= Len(store.index) /\ LiveBytes(w) + FileBytes(e) <= LiveBytes(store.index)
    <3>1. w \in Seq(Entries) /\ ToSet(w) = ToSet(store.index) \ {e}
      BY <1>1, WithoutFacts
    <3>2. /\ Len(w) + 1 <= Len(store.index)
          /\ LiveBytes(w) + FileBytes(e) <= LiveBytes(store.index)
      <4> DEFINE index == store.index
                 out == {e}
      <4>1. index \in Seq(Entries) /\ e \in ToSet(index) /\ e \in out
        BY <1>1
      <4> HIDE DEF index, out
      <4>2. /\ Len(Without(index, out)) + 1 <= Len(index)
            /\ LiveBytes(Without(index, out)) + FileBytes(e) <= LiveBytes(index)
        BY ONLY <4>1, LiveWithout
      <4> QED
        BY <4>2 DEF index, out
    <3> QED
      BY ONLY <3>1, <3>2
  <2> HIDE DEF w
  <2>2. c \in Seq(Entries) /\ ToSet(c) = ToSet(store.index)
    <3>1. w \in Seq(Entries) /\ e \in Entries
      BY <1>1, <2>1
    <3>2. c \in Seq(Entries) /\ ToSet(c) = ToSet(w) \union {e}
      BY ONLY <3>1, AppendSet
    <3> QED
      BY <1>1, <2>1, <3>2
  <2>3. Fitting(c)
    <3>1. LiveBytes(c) = LiveBytes(w) + FileBytes(e) /\ Len(c) = Len(w) + 1
      BY <1>1, <2>1, LiveAppend
    <3>2. /\ LiveBytes(c) \in Nat /\ Len(c) \in Nat
          /\ LiveBytes(store.index) \in Nat /\ Len(store.index) \in Nat
      BY <1>1, <2>2, LiveFacts, MemberFacts
    <3> HIDE DEF c
    <3> QED
      BY <1>1, <2>1, <3>1, <3>2 DEF Fitting, Within
  <2> HIDE DEF c
  <2>4. /\ job' \in Jobs /\ job'.why = "touch" /\ job'.at = "index" /\ job'.then = "end"
        /\ job'.index = <<>> /\ job'.candidate = c /\ job'.drop = {} /\ job'.todo = {}
    BY <1>3, <2>2, NoJobFacts DEF Jobs, Steps, c, w
  <2>5. \A f \in Entries : Secured(f) => f \in ToSet(c)
    BY <1>1, <2>2, SecuredFacts
  <2> QED
    BY <1>1, <1>3, <2>2, <2>3, <2>4, <2>5, EmptyFacts, Updates
<1> QED
  BY <1>2, <1>3 DEF TouchAfterRestore

\* remove_invalid
LEMMA RemoveInvalidKeeps ==
    ASSUME IndInv, job.at = "try", NEW e \in job.todo, RemoveInvalid(e),
           disk.payload[e.slot] # Whole(e.key),
           UNCHANGED <<disk, after, committed, uncertain, setting>>
    PROVE  IndInv'
<1>0. TypeOK /\ Frozen /\ Indexes
  BY DEF IndInv
<1>1. /\ job.why = "load" /\ store.open /\ store.index \in Seq(Entries) /\ Fitting(store.index)
      /\ e \in ToSet(store.index) /\ e \in Entries /\ e.slot \in Slots /\ ValidIndex(store.index)
      /\ store.limits.max_entries \in Nat /\ store.limits.max_bytes \in Nat
      /\ job.todo \subseteq ToSet(store.index) /\ ValidIndex(job.index)
  BY <1>0, AtTry, MemberFacts, EntryFacts
<1>2. /\ store' \in Stores /\ store'.open = store.open /\ store'.index = store.index
      /\ store'.limits = store.limits /\ store'.scope = store.scope
      /\ store'.managed = store.managed /\ store'.writes_disabled = store.writes_disabled
  BY <1>0, <1>1 DEF RemoveInvalid, TypeOK, Stores
<1>3. CASE job' = [job EXCEPT !.todo = @ \ {e}]
  <2>1. /\ job' \in Jobs /\ job'.why = "load" /\ job'.at = "try" /\ job'.index = job.index
        /\ job'.todo \subseteq job.todo
    BY <1>0, <1>1, <1>3 DEF TypeOK, Jobs
  <2> QED
    BY <1>1, <1>2, <2>1, Begins
<1>4. CASE /\ ~ store.writes_disabled
           /\ job' = [job EXCEPT !.todo = @ \ {e}, !.why = "invalid", !.at = "index",
                                 !.slot = e.slot, !.drop = {e.slot}, !.then = "end",
                                 !.candidate = Without(store.index, {e})]
  <2> DEFINE c == Without(store.index, {e})
  <2>1. /\ c \in Seq(Entries) /\ ToSet(c) = ToSet(store.index) \ {e}
        /\ Len(c) + 1 <= Len(store.index) /\ LiveBytes(c) + FileBytes(e) <= LiveBytes(store.index)
    <3>1. c \in Seq(Entries) /\ ToSet(c) = ToSet(store.index) \ {e}
      BY <1>1, WithoutFacts
    <3>2. /\ Len(c) + 1 <= Len(store.index)
          /\ LiveBytes(c) + FileBytes(e) <= LiveBytes(store.index)
      <4> DEFINE index == store.index
                 out == {e}
      <4>1. index \in Seq(Entries) /\ e \in ToSet(index) /\ e \in out
        BY <1>1
      <4> HIDE DEF index, out
      <4>2. /\ Len(Without(index, out)) + 1 <= Len(index)
            /\ LiveBytes(Without(index, out)) + FileBytes(e) <= LiveBytes(index)
        BY ONLY <4>1, LiveWithout
      <4> QED
        BY <4>2 DEF index, out
    <3> QED
      BY ONLY <3>1, <3>2
  <2> HIDE DEF c
  <2>2. Fitting(c)
    <3>1. /\ LiveBytes(c) \in Nat /\ Len(c) \in Nat /\ FileBytes(e) \in Nat
          /\ LiveBytes(store.index) \in Nat /\ Len(store.index) \in Nat
      BY <1>1, <2>1, LiveFacts, MemberFacts, EntryFacts
    <3> QED
      BY <1>1, <2>1, <3>1 DEF Fitting, Within
  <2>3. /\ job' \in Jobs /\ job'.why = "invalid" /\ job'.at = "index" /\ job'.then = "end"
        /\ job'.index = job.index /\ job'.candidate = c /\ job'.drop = {e.slot}
        /\ job'.todo = job.todo \ {e}
    BY <1>0, <1>1, <1>4, <2>1 DEF TypeOK, Jobs, Steps, c
  <2>4. {e.slot} \cap SlotsOf(c) = {}
    <3> SUFFICES ASSUME NEW f \in ToSet(c), f.slot = e.slot PROVE FALSE
      BY DEF SlotsOf
    <3> QED
      BY <1>1, <2>1, Unique
  <2>5. \A f \in Entries : Secured(f) => f \in ToSet(c)
    <3> SUFFICES ASSUME NEW f \in Entries, Secured(f) PROVE f \in ToSet(c)
      OBVIOUS
    <3>1. f \in ToSet(store.index) /\ disk.payload[f.slot] = Whole(f.key)
      BY <1>0, <1>1, SecuredFacts DEF TypeOK
    <3> QED
      BY <2>1, <3>1
  <2> QED
    BY <1>1, <1>2, <1>4, <2>1, <2>2, <2>3, <2>4, <2>5, Updates
<1> QED
  BY <1>3, <1>4 DEF RemoveInvalid

LEMMA TryMatchKeeps ==
    ASSUME IndInv, NEW ok, TryMatch(ok)
    PROVE  IndInv'
<1> DEFINE e == Longest(job.todo)
<1>0. TypeOK /\ Frozen
  BY DEF IndInv
<1>1. job.at = "try" /\ UNCHANGED <<disk, after, committed, uncertain, setting>>
  BY DEF TryMatch
<1>2. /\ job.why = "load" /\ store.open /\ store.index \in Seq(Entries)
      /\ job.todo \subseteq ToSet(store.index)
  BY <1>1, AtTry
<1>3. CASE Return /\ (store' = store \/ store' = [store EXCEPT !.restores_disabled = TRUE])
  <2>1. disk' \in after' /\ after' \subseteq after /\ uncertain' \in BOOLEAN
    BY <1>0, <1>1 DEF TypeOK
  <2>2. /\ store' \in Stores /\ store'.open /\ store'.index = store.index
        /\ store'.limits = store.limits /\ store'.scope = store.scope
        /\ store'.managed = store.managed /\ store'.writes_disabled = store.writes_disabled
    BY <1>0, <1>2, <1>3 DEF TypeOK, Stores
  <2>3. uncertain' /\ ~ setting.managed => store'.writes_disabled
    BY <1>0, <1>1, <2>2 DEF Frozen
  <2> QED
    BY <1>1, <1>2, <1>3, <2>1, <2>2, <2>3, Stops DEF Return
<1>4. CASE job.todo # {} /\ TouchAfterRestore(e)
  <2>1. e \in job.todo
    BY <1>2, <1>4, LongestFacts
  <2> HIDE DEF e
  <2> QED
    BY <1>1, <1>4, <2>1, TouchKeeps
<1>5. CASE job.todo # {} /\ disk.payload[e.slot] # Whole(e.key) /\ RemoveInvalid(e)
  <2>1. e \in job.todo
    BY <1>2, <1>5, LongestFacts
  <2> HIDE DEF e
  <2> QED
    BY <1>1, <1>5, <2>1, RemoveInvalidKeeps
<1> QED
  BY <1>3, <1>4, <1>5 DEF TryMatch


-----------------------------------------------------------------------------
(* Admission *)

\* Only a save is admitted, and it works on the index in memory.
LEMMA AtAdmit ==
    ASSUME IndInv, job.at = "admit"
    PROVE  /\ job.why = "save" /\ Cleaning /\ store.open /\ ~ Idle
           /\ store.limits \in LimitRecords /\ store.managed = setting.managed
           /\ store.index \in Seq(Entries) /\ ValidIndex(store.index) /\ Fitting(store.index)
           /\ job.key \in Keys /\ Len(job.key.tokens) <= store.limits.max_bytes
           /\ ~ store.writes_disabled /\ disk.index.present
           /\ ToSet(disk.index.entries) \subseteq ToSet(store.index)
<1>1. TypeOK /\ Course /\ Frozen /\ Indexes /\ Limited
  BY DEF IndInv
<1>2. job.why = "save"
  BY <1>1, JobFields, NoJobFacts DEF Course, Idle, Reconciling, Publishing, Unlinking
<1>3. Cleaning
  BY <1>1, <1>2 DEF Course, Filing, Saved, Unlinking
<1>4. store.open /\ store.limits \in LimitRecords /\ store.managed = setting.managed
      /\ job.key \in Keys
  BY <1>1, <1>2 DEF Course
<1>5. ~ Starting
  BY DEF Starting, Publishing
<1> QED
  BY <1>1, <1>2, <1>3, <1>4, <1>5, StoreFields DEF Indexes, Limited, Frozen, Idle

\* The save goes on to write its payload into a spare slot.
LEMMA Admits ==
    ASSUME IndInv, job.at = "admit", NEW slot \in Slots, slot \notin SlotsOf(store.index),
           NEW kept \in Seq(Entries), ToSet(kept) \subseteq ToSet(store.index),
           Fits(kept, store.limits.max_entries, store.limits.max_bytes, Len(job.key.tokens)),
           ValidIndex(Append(kept, NewEntry(slot))),
           job' = [job EXCEPT !.at = "payload", !.slot = slot, !.then = "end",
                              !.drop = SlotsOf(store.index) \ SlotsOf(kept),
                              !.index = <<>>, !.candidate = Append(kept, NewEntry(slot))],
           committed' = committed \ (KeysOf(store.index) \ KeysOf(kept)),
           UNCHANGED <<disk, after, store, uncertain, setting>>
    PROVE  IndInv'
<1> DEFINE new == NewEntry(slot)
           c == Append(kept, new)
           out == SlotsOf(store.index) \ SlotsOf(kept)
<1>0. TypeOK /\ Course /\ Frozen /\ Indexes /\ Drops /\ Committed /\ Limited /\ Owned
  BY DEF IndInv
<1>1. /\ job.why = "save" /\ Cleaning /\ store.open /\ ~ Idle
      /\ store.limits \in LimitRecords
      /\ store.index \in Seq(Entries) /\ ValidIndex(store.index) /\ Fitting(store.index)
      /\ job.key \in Keys /\ Len(job.key.tokens) <= store.limits.max_bytes
      /\ ~ store.writes_disabled /\ disk.index.present
      /\ ToSet(disk.index.entries) \subseteq ToSet(store.index)
  BY AtAdmit
<1>2. /\ store' = store /\ disk' = disk /\ after' = after /\ uncertain' = uncertain
      /\ setting' = setting /\ disk \in after
  BY <1>0 DEF TypeOK
<1>3. new \in Entries /\ new.slot = slot /\ new.key = job.key /\ FileBytes(new) = Len(job.key.tokens)
  BY <1>1, EntryFacts DEF NewEntry, FileBytes
<1> HIDE DEF new
<1>4. c \in Seq(Entries) /\ ToSet(c) = ToSet(kept) \union {new}
  BY ONLY <1>3, kept \in Seq(Entries), AppendSet
<1>5. out \subseteq Slots
  BY <1>1, MemberFacts
<1>6. Fitting(c)
  <2>1. LiveBytes(c) = LiveBytes(kept) + FileBytes(new) /\ Len(c) = Len(kept) + 1
    BY <1>3, LiveAppend
  <2>2. /\ LiveBytes(kept) \in Nat /\ Len(kept) \in Nat
        /\ FileBytes(new) \in Nat /\ store.limits.max_entries \in Nat
    BY <1>0, <1>1, <1>3, LiveFacts, MemberFacts, EntryFacts, SettingFacts
  <2>3. /\ Len(kept) < store.limits.max_entries
        /\ LiveBytes(kept) + FileBytes(new) <= store.limits.max_bytes
    BY <1>3 DEF Fits
  <2> HIDE DEF c
  <2> QED
    BY <2>1, <2>2, <2>3 DEF Fitting, Within
<1>7. ValidIndex(c)
  BY DEF new
<1>8. out \cap SlotsOf(c) = {}
  <2> SUFFICES ASSUME NEW e \in ToSet(c), e.slot \in out PROVE FALSE
    BY DEF SlotsOf
  <2>1. e \notin ToSet(kept) /\ e # new
    BY <1>3 DEF SlotsOf
  <2> QED
    BY <1>4, <2>1
<1> HIDE DEF c, out
<1>9. /\ job' \in Jobs /\ job'.why = "save" /\ job'.at = "payload" /\ job'.then = "end"
      /\ job'.slot = slot /\ job'.drop = out /\ job'.index = <<>> /\ job'.candidate = c
      /\ job'.key = job.key /\ job'.todo = job.todo /\ job'.allowance = job.allowance
  BY <1>0, <1>1, <1>4, <1>5, EmptyFacts DEF TypeOK, Jobs, Steps, c, out, new
<1>10. NewEntry(job.slot)' = new
  BY <1>9 DEF NewEntry, new
<1>11. /\ ~ Opening' /\ ~ Reconciling' /\ ~ Publishing' /\ Filing' /\ ~ Unlinking' /\ ~ Cleaning'
       /\ ~ Saved' /\ ~ Starting' /\ ~ Idle' /\ ~ Starting
  BY <1>9 DEF Opening, Reconciling, Publishing, Filing, Unlinking, Cleaning, Saved, Starting, Idle
<1>12. TypeOK'
  BY <1>0, <1>2, <1>9 DEF TypeOK
<1>13. Course'
  BY <1>0, <1>1, <1>2, <1>9, <1>11 DEF Course
<1>14. Frozen'
  BY <1>0, <1>1, <1>2, <1>9 DEF Frozen
<1>15. Indexes'
  <2>1. ToSet(c) \subseteq ToSet(store.index) \union {new} /\ new \in ToSet(c)
    BY <1>4
  <2>2. job.todo = {}
    BY <1>0, <1>1 DEF Course
  <2> QED
    BY <1>0, <1>1, <1>2, <1>9, <1>10, <1>11, <2>1, <2>2, EmptyFacts DEF Indexes
<1>16. Drops'
  BY <1>8, <1>9, <1>11 DEF Drops
<1>17. Committed'
  <2>1. ASSUME NEW e \in Entries, e.key \in committed', Secured(e) PROVE Secured(e)'
    <3>1. e \in ToSet(store.index)
      BY <1>1, <2>1, SecuredFacts
    <3>2. e.key \in KeysOf(kept)
      BY <2>1, <3>1 DEF KeysOf
    <3>3. PICK f \in ToSet(kept) : f.key = e.key
      BY <3>2 DEF KeysOf
    <3>4. f = e
      BY <1>1, <3>1, <3>3, Unique
    <3>5. e \in ToSet(c)
      BY <1>4, <3>3, <3>4
    <3> QED
      BY <1>2, <1>9, <1>11, <2>1, <3>1, <3>5 DEF Secured
  <2> QED
    BY <1>0, <2>1, StaySecured
<1>18. Limited'
  BY <1>0, <1>1, <1>2, <1>6, <1>9, <1>11 DEF Limited, Fitting
<1>19. Owned'
  BY <1>0, <1>2, <1>9, <1>11 DEF Owned, Owns
<1> QED
  BY <1>12, <1>13, <1>14, <1>15, <1>16, <1>17, <1>18, <1>19 DEF IndInv

\* The share is too small: a managed store reconciles down to it instead.
LEMMA Shrinks ==
    ASSUME IndInv, job.at = "admit", setting.managed, NEW allowance \in Nat,
           allowance <= store.limits.max_bytes,
           job' = [NoJob EXCEPT !.why = "shrink", !.at = "scan", !.index = store.index,
                                !.allowance = allowance],
           UNCHANGED <<disk, after, store, committed, uncertain, setting>>
    PROVE  IndInv'
<1>0. TypeOK /\ Course /\ Frozen /\ Indexes /\ Drops /\ Committed /\ Limited /\ Owned
  BY DEF IndInv
<1>1. /\ store.open /\ ~ Idle /\ store.index \in Seq(Entries) /\ ValidIndex(store.index)
      /\ Fitting(store.index) /\ ~ store.writes_disabled /\ disk.index.present
      /\ ToSet(disk.index.entries) \subseteq ToSet(store.index)
  BY AtAdmit
<1>2. /\ store' = store /\ disk' = disk /\ after' = after /\ uncertain' = uncertain
      /\ committed' = committed /\ setting' = setting /\ disk \in after
  BY <1>0 DEF TypeOK
<1>3. /\ job' \in Jobs /\ job'.why = "shrink" /\ job'.at = "scan" /\ job'.then = "none"
      /\ job'.index = store.index /\ job'.candidate = <<>> /\ job'.drop = {} /\ job'.todo = {}
      /\ job'.allowance = allowance
  BY <1>1, NoJobFacts DEF Jobs, Steps
<1>4. /\ ~ Opening' /\ Reconciling' /\ ~ Publishing' /\ ~ Filing' /\ ~ Unlinking' /\ ~ Cleaning'
      /\ ~ Saved' /\ ~ Starting' /\ ~ Idle'
  BY <1>3 DEF Opening, Reconciling, Publishing, Filing, Unlinking, Cleaning, Saved, Starting, Idle
<1>5. TypeOK'
  BY <1>0, <1>2, <1>3 DEF TypeOK
<1>6. Course'
  BY <1>0, <1>1, <1>2, <1>3, <1>4 DEF Course
<1>7. Frozen'
  BY <1>0, <1>1, <1>2, <1>3 DEF Frozen
<1>8. Indexes'
  BY <1>0, <1>1, <1>2, <1>3, <1>4, EmptyFacts DEF Indexes
<1>9. Drops'
  BY <1>4 DEF Drops
<1>10. Committed'
  <2>1. ASSUME NEW e \in Entries, e.key \in committed', Secured(e) PROVE Secured(e)'
    BY <1>1, <1>2, <1>3, <1>4, <2>1 DEF Secured
  <2> QED
    BY <1>0, <1>2, <2>1, StaySecured
<1>11. Limited'
  BY <1>0, <1>1, <1>2, <1>3, <1>4 DEF Limited, Fitting
<1>12. Owned'
  BY <1>0, <1>2, <1>4 DEF Owned, Owns
<1> QED
  BY <1>5, <1>6, <1>7, <1>8, <1>9, <1>10, <1>11, <1>12 DEF IndInv

\* What a store may be granted.
LEMMA AllowanceFacts ==
    ASSUME TypeOK, store.limits \in LimitRecords, NEW allowance \in Allowances
    PROVE  /\ allowance \in Nat /\ allowance <= store.limits.max_bytes
           /\ store.managed \/ allowance = store.limits.max_bytes
<1>1. store.limits.max_bytes \in Nat
  BY SettingFacts
<1> QED
  BY <1>1 DEF Allowances

LEMMA AdmitKeeps ==
    ASSUME IndInv, NEW allowance \in Allowances, NEW ok, Admit(allowance, ok)
    PROVE  IndInv'
<1> DEFINE slot == SpareSlot(store.index)
           kept == Kept(allowance)
           candidate == Append(kept, NewEntry(slot))
           bytes == Len(job.key.tokens)
<1>0. TypeOK
  BY DEF IndInv
<1>1. job.at = "admit" /\ UNCHANGED <<uncertain, setting>>
  BY DEF Admit
<1>2. /\ job.why = "save" /\ ~ Idle /\ store.limits \in LimitRecords
      /\ store.managed = setting.managed
      /\ store.index \in Seq(Entries) /\ ValidIndex(store.index)
      /\ job.key \in Keys /\ bytes <= store.limits.max_bytes /\ bytes \in Nat
  BY <1>1, AtAdmit, KeyFacts
<1>3. /\ allowance \in Nat /\ allowance <= store.limits.max_bytes
      /\ store.managed \/ allowance = store.limits.max_bytes
      /\ store.limits.max_bytes \in Nat /\ store.limits.max_entries \in Nat \ {0}
  BY <1>0, <1>2, AllowanceFacts, SettingFacts
<1>4. CASE Fail
  BY <1>1, <1>2, <1>4, Fails
<1>5. CASE /\ bytes > allowance
           /\ job' = [NoJob EXCEPT !.why = "shrink", !.at = "scan",
                                   !.index = store.index, !.allowance = allowance]
           /\ UNCHANGED <<Directory, store, committed>>
  <2>1. setting.managed
    <3> HIDE DEF bytes
    <3> QED
      BY <1>2, <1>3, <1>5
  <2>2. UNCHANGED <<disk, after>>
    BY <1>5 DEF Directory
  <2> QED
    BY <1>1, <1>3, <1>5, <2>1, <2>2, Shrinks
<1>6. CASE /\ bytes <= allowance /\ Publishable(slot, candidate)
           /\ job' = [job EXCEPT !.at = "payload", !.slot = slot, !.then = "end",
                                 !.drop = SlotsOf(store.index) \ SlotsOf(kept),
                                 !.index = <<>>, !.candidate = candidate]
           /\ committed' = committed \ (KeysOf(store.index) \ KeysOf(kept))
           /\ UNCHANGED <<Directory, store>>
  <2>1. slot \in Slots /\ slot \notin SlotsOf(store.index)
    BY <1>2, SpareFacts
  <2>2. /\ kept \in Seq(Entries) /\ ToSet(kept) \subseteq ToSet(store.index)
        /\ Fits(kept, store.limits.max_entries, allowance, bytes)
    <3> DEFINE older == IF store.limits.mode = "Full"
                        THEN Superseded(store.index, job.key.scope, job.key.tokens) ELSE {}
               rest == Without(store.index, older)
    <3>1. rest \in Seq(Entries) /\ ToSet(rest) \subseteq ToSet(store.index)
      <4> HIDE DEF older
      <4> QED
        BY <1>2, WithoutFacts
    <3>2. kept = Spared(rest, store.limits.max_entries, allowance, bytes)
      BY DEF Kept
    <3> HIDE DEF rest, kept, bytes
    <3> QED
      BY <1>2, <1>3, <1>6, <3>1, <3>2, SparedFacts
  <2>3. Fits(kept, store.limits.max_entries, store.limits.max_bytes, bytes)
    <3>1. LiveBytes(kept) \in Nat
      BY <2>2, LiveFacts
    <3> HIDE DEF kept, bytes
    <3> QED
      BY <1>2, <1>3, <2>2, <3>1 DEF Fits
  <2>4. ValidIndex(candidate) /\ UNCHANGED <<disk, after, store>>
    BY <1>6 DEF Publishable, Directory
  <2> HIDE DEF slot, kept
  <2> QED
    BY <1>1, <1>6, <2>1, <2>2, <2>3, <2>4, Admits
<1> QED
  BY <1>2, <1>3, <1>4, <1>5, <1>6 DEF Admit

-----------------------------------------------------------------------------
(* Returning *)

\* Where no step is left: a reconciliation, a save, an update or none.
LEMMA AtEnd ==
    ASSUME IndInv, job.at = "end"
    PROVE  /\ ~ Idle /\ job.why # "load" /\ ~ Publishing /\ ~ Filing /\ ~ Unlinking /\ ~ Cleaning
           /\ ~ Starting /\ disk.index.present
           /\ Reconciling => Fitting(job.index)
           /\ job.why = "save" => Saved
<1>1. Course /\ Indexes /\ Limited
  BY DEF IndInv
<1>2. /\ ~ Publishing /\ ~ Filing /\ ~ Unlinking /\ ~ Cleaning /\ ~ Starting
      /\ (job.why = "save" => Saved)
  BY DEF Publishing, Filing, Unlinking, Cleaning, Starting, Saved
<1>3. ~ Idle /\ job.why # "load"
  BY <1>1, NoJobFacts DEF Course
<1>4. Reconciling => Fitting(job.index)
  BY <1>1 DEF Limited, Reconciling
<1> QED
  BY <1>1, <1>2, <1>3, <1>4 DEF Indexes

\* open_managed has its share of the budget and reconciles with it.
LEMMA Grants ==
    ASSUME IndInv, job.at = "end", job.why = "open", NEW allowance \in Nat,
           allowance <= store.limits.max_bytes,
           job' = [job EXCEPT !.why = "managed", !.at = "scan", !.allowance = allowance],
           UNCHANGED <<disk, after, store, committed, uncertain, setting>>
    PROVE  IndInv'
<1>0. TypeOK /\ Course /\ Frozen /\ Indexes /\ Drops /\ Committed /\ Limited /\ Owned
  BY DEF IndInv
<1>1. /\ ~ Starting /\ disk.index.present /\ Fitting(job.index) /\ Opening /\ Reconciling
      /\ ~ Publishing /\ ~ Filing
  BY AtEnd DEF Opening, Reconciling
<1>2. /\ store' = store /\ disk' = disk /\ after' = after /\ uncertain' = uncertain
      /\ committed' = committed /\ setting' = setting /\ disk \in after
  BY <1>0 DEF TypeOK
<1>3. /\ job' \in Jobs /\ job'.why = "managed" /\ job'.at = "scan" /\ job'.then = job.then
      /\ job'.index = job.index /\ job'.candidate = job.candidate /\ job'.todo = job.todo
      /\ job'.allowance = allowance
  BY <1>0 DEF TypeOK, Jobs, Steps
<1>4. /\ Opening' /\ Reconciling' /\ ~ Publishing' /\ ~ Filing' /\ ~ Unlinking' /\ ~ Cleaning'
      /\ ~ Saved' /\ ~ Starting' /\ ~ Idle'
  BY <1>3 DEF Opening, Reconciling, Publishing, Filing, Unlinking, Cleaning, Saved, Starting, Idle
<1>5. TypeOK'
  BY <1>0, <1>2, <1>3 DEF TypeOK
<1>6. Course'
  BY <1>0, <1>1, <1>2, <1>3, <1>4 DEF Course, Idle
<1>7. Frozen'
  BY <1>0, <1>2, <1>3 DEF Frozen
<1>8. Indexes'
  BY <1>0, <1>1, <1>2, <1>3, <1>4 DEF Indexes
<1>9. Drops'
  BY <1>4 DEF Drops
<1>10. Committed'
  <2>1. ASSUME NEW e \in Entries, e.key \in committed', Secured(e) PROVE Secured(e)'
    BY <1>1, <1>2, <1>3, <1>4, <2>1 DEF Secured
  <2> QED
    BY <1>0, <1>2, <2>1, StaySecured
<1>11. Limited'
  BY <1>0, <1>1, <1>2, <1>3, <1>4 DEF Limited, Fitting
<1>12. Owned'
  BY <1>0, <1>2, <1>4 DEF Owned, Owns
<1> QED
  BY <1>5, <1>6, <1>7, <1>8, <1>9, <1>10, <1>11, <1>12 DEF IndInv

\* The index that was reconciled becomes the one in memory.
LEMMA Opens ==
    ASSUME IndInv, job.at = "end", Reconciling,
           store' = [store EXCEPT !.open = TRUE, !.index = job.index], job' = NoJob,
           UNCHANGED <<disk, after, committed, uncertain, setting>>
    PROVE  IndInv'
<1>0. TypeOK /\ Course /\ Frozen /\ Indexes /\ Drops /\ Committed /\ Limited /\ Owned
  BY DEF IndInv
<1>1. ~ Idle /\ disk.index.present /\ Fitting(job.index) /\ (Opening \/ job.why = "shrink")
  BY AtEnd DEF Opening, Reconciling
<1>2. /\ disk' = disk /\ after' = after /\ uncertain' = uncertain
      /\ committed' = committed /\ setting' = setting /\ disk \in after
  BY <1>0 DEF TypeOK
<1>3. /\ store' \in Stores /\ store'.open /\ store'.index = job.index /\ store'.limits = store.limits
      /\ store'.scope = store.scope /\ store'.managed = store.managed
      /\ store'.writes_disabled = store.writes_disabled
  BY <1>0, JobFields DEF TypeOK, Stores
<1>4. /\ NoJob \in Jobs /\ job'.why = "none" /\ job'.at = "none" /\ job'.then = "none"
      /\ job'.index = <<>> /\ job'.candidate = <<>> /\ job'.drop = {} /\ job'.todo = {}
  BY NoJobFacts
<1>5. /\ ~ Opening' /\ ~ Reconciling' /\ ~ Publishing' /\ ~ Filing' /\ ~ Unlinking' /\ ~ Cleaning'
      /\ ~ Saved' /\ ~ Starting' /\ Idle'
  BY <1>4 DEF Opening, Reconciling, Publishing, Filing, Unlinking, Cleaning, Saved, Starting, Idle
<1>6. \/ disk.index.entries = job.index
      \/ /\ store.open /\ ToSet(job.index) \subseteq ToSet(store.index)
         /\ ToSet(disk.index.entries) \subseteq ToSet(job.index)
  BY <1>0, <1>1 DEF Indexes, Course
<1>7. TypeOK'
  BY <1>0, <1>2, <1>3, <1>4 DEF TypeOK
<1>8. Course'
  BY <1>0, <1>1, <1>2, <1>3, <1>4, <1>5 DEF Course
<1>9. Frozen'
  <2>1. uncertain => setting.managed
    BY <1>0, <1>1 DEF Frozen, Course
  <2> QED
    BY <1>2, <1>4, <2>1 DEF Frozen
<1>10. Indexes'
  <2>1. ToSet(disk.index.entries) \subseteq ToSet(job.index)
    BY <1>6
  <2> QED
    BY <1>0, <1>1, <1>2, <1>3, <1>4, <1>5, <2>1, EmptyFacts DEF Indexes
<1>11. Drops'
  BY <1>5 DEF Drops
<1>12. Committed'
  <2>1. ASSUME NEW e \in Entries, e.key \in committed', Secured(e) PROVE Secured(e)'
    BY <1>2, <1>3, <1>5, <2>1 DEF Secured
  <2> QED
    BY <1>0, <1>2, <2>1, StaySecured
<1>13. Limited'
  <2>1. Fitting(disk.index.entries)
    BY <1>0, <1>1, <1>6 DEF Limited
  <2> QED
    BY <1>1, <1>2, <1>3, <1>4, <1>5, <2>1 DEF Limited, Fitting
<1>14. Owned'
  <2>1. setting.ordered => \A e \in ToSet(job.index) : Owns(disk, e)
    BY <1>0, <1>2, <1>6 DEF Owned
  <2> QED
    BY <1>0, <1>2, <1>3, <1>5, <2>1 DEF Owned, Owns
<1> QED
  BY <1>7, <1>8, <1>9, <1>10, <1>11, <1>12, <1>13, <1>14 DEF IndInv

\* save returns Ok(true): from here on its checkpoint is committed, unless the
\* leaf has come to harm meanwhile.
LEMMA Saves ==
    ASSUME IndInv, job.at = "end", job.why = "save", job' = NoJob,
           committed' = IF disk.payload[job.slot] = Whole(job.key)
                        THEN committed \union {job.key} ELSE committed,
           UNCHANGED <<disk, after, store, uncertain, setting>>
    PROVE  IndInv'
<1> DEFINE e == NewEntry(job.slot)
<1>0. TypeOK /\ Course /\ Frozen /\ Indexes /\ Drops /\ Committed /\ Limited /\ Owned
  BY DEF IndInv
<1>1. /\ store.open /\ Saved /\ disk.index.present /\ job.key \in Keys /\ job.slot \in Slots
      /\ ~ Starting
  BY <1>0, AtEnd, JobFields DEF Course
<1>2. /\ store' = store /\ disk' = disk /\ after' = after /\ uncertain' = uncertain
      /\ setting' = setting /\ disk \in after
  BY <1>0 DEF TypeOK
<1>3. /\ NoJob \in Jobs /\ job'.why = "none" /\ job'.at = "none" /\ job'.then = "none"
      /\ job'.index = <<>> /\ job'.candidate = <<>> /\ job'.drop = {} /\ job'.todo = {}
  BY NoJobFacts
<1>4. /\ ~ Opening' /\ ~ Reconciling' /\ ~ Publishing' /\ ~ Filing' /\ ~ Unlinking' /\ ~ Cleaning'
      /\ ~ Saved' /\ ~ Starting' /\ Idle'
  BY <1>3 DEF Opening, Reconciling, Publishing, Filing, Unlinking, Cleaning, Saved, Starting, Idle
<1>5. committed' \subseteq Keys
  BY <1>0, <1>1 DEF TypeOK
<1>6. TypeOK'
  BY <1>0, <1>2, <1>3, <1>5 DEF TypeOK
<1>7. Course'
  BY <1>0, <1>1, <1>2, <1>3, <1>4 DEF Course
<1>8. Frozen'
  BY <1>0, <1>2, <1>3 DEF Frozen
<1>9. Indexes'
  BY <1>0, <1>1, <1>2, <1>3, <1>4, EmptyFacts DEF Indexes
<1>10. Drops'
  BY <1>4 DEF Drops
<1>11. Committed'
  <2> SUFFICES ASSUME NEW key \in committed'
               PROVE  \E slot \in Slots : Secured([slot |-> slot, key |-> key])'
    BY DEF Committed
  <2>1. CASE key \in committed
    <3>1. PICK slot \in Slots : Secured([slot |-> slot, key |-> key])
      BY <1>0, <2>1 DEF Committed
    <3> DEFINE f == [slot |-> slot, key |-> key]
    <3>2. Secured(f)
      BY <3>1
    <3> HIDE DEF f
    <3>3. Secured(f)'
      BY <1>2, <1>4, <3>2 DEF Secured
    <3> QED
      BY <3>3 DEF f
  <2>2. CASE key = job.key /\ disk.payload[job.slot] = Whole(job.key)
    <3>1. after = {disk} /\ e \in ToSet(disk.index.entries) /\ e \in ToSet(store.index)
      BY <1>0, <1>1 DEF Indexes
    <3>2. PICK slot \in Slots : slot = job.slot
      BY <1>1
    <3> DEFINE f == [slot |-> slot, key |-> key]
    <3>3. f = e /\ f.slot = slot /\ f.key = key
      BY <2>2, <3>2 DEF NewEntry
    <3> HIDE DEF e, f
    <3>4. Secured(f)'
      BY <1>2, <1>4, <2>2, <3>1, <3>2, <3>3 DEF Secured
    <3> QED
      BY <3>4 DEF f
  <2> QED
    BY <2>1, <2>2
<1>12. Limited'
  BY <1>0, <1>1, <1>2, <1>3, <1>4 DEF Limited, Fitting
<1>13. Owned'
  BY <1>0, <1>2, <1>4 DEF Owned, Owns
<1> QED
  BY <1>6, <1>7, <1>8, <1>9, <1>10, <1>11, <1>12, <1>13 DEF IndInv

LEMMA FinishKeeps ==
    ASSUME IndInv, NEW allowance \in Allowances, NEW ok \in BOOLEAN, Finish(allowance, ok)
    PROVE  IndInv'
<1>0. TypeOK /\ Course /\ Frozen /\ Indexes
  BY DEF IndInv
<1>1. /\ job.at = "end" /\ UNCHANGED <<disk, after, uncertain, setting>>
      /\ (job.why # "save" => committed' = committed)
  BY DEF Finish
<1>2. ~ Idle /\ job.why # "load"
  BY <1>1, AtEnd
<1>3. disk' = disk /\ disk \in after' /\ after' \subseteq after /\ uncertain' \in BOOLEAN
  BY <1>0, <1>1 DEF TypeOK
<1>4. \/ ~ ok /\ job.why = "open" /\ store' = Closed /\ Return
      \/ /\ job.why = "open" /\ store.managed
         /\ job' = [job EXCEPT !.why = "managed", !.at = "scan", !.allowance = allowance]
         /\ UNCHANGED store
      \/ /\ Reconciling
         /\ store' = [store EXCEPT !.open = TRUE, !.index = job.index] /\ Return
      \/ /\ job.why = "invalid"
         /\ store' = [store EXCEPT !.dead_slots = @ \ {job.slot}]
         /\ job' = [job EXCEPT !.why = "load", !.at = "try", !.then = "none", !.slot = 0]
      \/ job.why \in {"save", "touch"} /\ Return /\ UNCHANGED store
  BY DEF Finish
<1>5. CASE job.why = "open" /\ store' = Closed /\ Return
  <2>1. job.why = "open" /\ store' = Closed /\ job' = NoJob
    BY <1>5 DEF Return
  <2>2. uncertain' => setting.managed
    BY <1>0, <1>1, <2>1 DEF Course, Frozen, Opening
  <2> QED
    BY <1>1, <1>3, <2>1, <2>2, Stops
<1>6. CASE /\ job.why = "open" /\ store.managed
           /\ job' = [job EXCEPT !.why = "managed", !.at = "scan", !.allowance = allowance]
           /\ UNCHANGED store
  <2>1. store.limits \in LimitRecords
    BY <1>0, <1>2 DEF Course
  <2>2. allowance \in Nat /\ allowance <= store.limits.max_bytes
    BY <1>0, <2>1, AllowanceFacts
  <2> QED
    BY <1>1, <1>6, <2>2, Grants
<1>7. CASE /\ Reconciling
           /\ store' = [store EXCEPT !.open = TRUE, !.index = job.index] /\ Return
  <2>1. job.why # "save"
    BY <1>7 DEF Reconciling
  <2> QED
    BY <1>1, <1>7, <2>1, Opens DEF Return
<1>8. CASE /\ job.why = "invalid"
           /\ store' = [store EXCEPT !.dead_slots = @ \ {job.slot}]
           /\ job' = [job EXCEPT !.why = "load", !.at = "try", !.then = "none", !.slot = 0]
  <2>1. store.open /\ job.slot \in Slots /\ 0 \in Slots
    BY <1>0, <1>8, JobFields, StoreAssumption DEF Course, Slots
  <2>2. /\ store' \in Stores /\ store'.open /\ store'.index = store.index
        /\ store'.limits = store.limits /\ store'.scope = store.scope
        /\ store'.managed = store.managed /\ store'.writes_disabled = store.writes_disabled
    BY <1>0, <1>8, <2>1 DEF TypeOK, Stores
  <2>3. /\ job' \in Jobs /\ job'.why = "load" /\ job'.at = "try" /\ job'.index = job.index
        /\ job'.todo = job.todo
    BY <1>0, <1>8, <2>1 DEF TypeOK, Jobs, Steps
  <2>4. ValidIndex(job.index) /\ job.todo \subseteq ToSet(store.index)
    BY <1>0 DEF Indexes
  <2> QED
    BY <1>1, <1>8, <2>1, <2>2, <2>3, <2>4, Begins
<1>9. CASE job.why \in {"save", "touch"} /\ Return /\ UNCHANGED store
  <2>1. job' = NoJob /\ store' = store
    BY <1>9 DEF Return
  <2>2. CASE job.why = "save"
    <3>1. committed' = IF disk.payload[job.slot] = Whole(job.key)
                       THEN committed \union {job.key} ELSE committed
      BY <2>2 DEF Finish
    <3> QED
      BY <1>1, <2>1, <2>2, <3>1, Saves
  <2>3. CASE job.why = "touch"
    <3>1. store \in Stores /\ store.open
      BY <1>0, <2>3 DEF TypeOK, Course
    <3>2. uncertain' /\ ~ setting.managed => store'.writes_disabled
      BY <1>0, <1>1, <2>1 DEF Frozen
    <3> QED
      BY <1>1, <1>3, <2>1, <2>3, <3>1, <3>2, Stops
  <2> QED
    BY <1>9, <2>2, <2>3
<1> QED
  BY <1>4, <1>5, <1>6, <1>7, <1>8, <1>9

-----------------------------------------------------------------------------
(* The environment *)

LEMMA ExitKeeps ==
    ASSUME IndInv, Exit
    PROVE  IndInv'
<1>1. TypeOK
  BY DEF IndInv
<1>2. /\ store' = Closed /\ job' = NoJob /\ uncertain' = FALSE /\ setting' = setting
      /\ disk' \in after' /\ after' \subseteq after /\ committed' \subseteq committed
  BY <1>1 DEF Exit, TypeOK
<1> QED
  BY <1>2, Stops

LEMMA PowerFailureKeeps ==
    ASSUME IndInv, PowerFailure
    PROVE  IndInv'
<1>1. /\ store' = Closed /\ job' = NoJob /\ uncertain' = FALSE /\ setting' = setting
      /\ disk' \in after' /\ after' \subseteq after /\ committed' \subseteq committed
  BY DEF PowerFailure
<1> QED
  BY <1>1, Stops

\* Harm to a payload, whose checkpoint is not counted as committed any more.
LEMMA DamageKeeps ==
    ASSUME IndInv, NEW slot \in Slots, NEW harm \in setting.harms, Damage(slot, harm)
    PROVE  IndInv'
<1> DEFINE leaf == [state |-> harm, key |-> NoKey]
<1>0. TypeOK /\ Course /\ Frozen /\ Indexes /\ Drops /\ Committed /\ Limited /\ Owned
  BY DEF IndInv
<1>1. leaf \in Leaves /\ leaf.state \in setting.harms
  <2>1. harm \in {"none", "short", "corrupt"}
    BY <1>0, SettingFacts
  <2> QED
    BY <2>1 DEF Leaves
<1>2. /\ store' = store /\ job' = job /\ uncertain' = uncertain /\ setting' = setting
      /\ disk' = SetLeaf(disk, slot, leaf) /\ after' = {SetLeaf(d, slot, leaf) : d \in after}
      /\ committed' = committed \ {disk.payload[slot].key}
      /\ disk.payload[slot].state = "whole"
      /\ \A d \in after : d.payload[slot] = disk.payload[slot]
      /\ disk \in after /\ after \subseteq Directories
  BY <1>0 DEF Damage, TypeOK
<1> HIDE DEF leaf
<1>3. \A d \in after :
         LET q == SetLeaf(d, slot, leaf) IN
         /\ q \in Directories /\ q.index = d.index /\ q.payload[slot] = leaf
         /\ \A s \in Slots : s # slot => q.payload[s] = d.payload[s]
  BY <1>1, <1>2, LeafSet
<1>4. /\ after' \subseteq Directories /\ disk' \in after' /\ disk'.index = disk.index
      /\ disk'.payload[slot] = leaf /\ \A s \in Slots : s # slot => disk'.payload[s] = disk.payload[s]
      /\ \A q \in after' : \E d \in after :
            /\ q.index = d.index /\ q.payload[slot] = leaf
            /\ \A s \in Slots : s # slot => q.payload[s] = d.payload[s]
      /\ after = {disk} => after' = {disk'}
  BY <1>2, <1>3
<1>5. /\ Opening' = Opening /\ Reconciling' = Reconciling /\ Publishing' = Publishing
      /\ Filing' = Filing /\ Unlinking' = Unlinking /\ Cleaning' = Cleaning /\ Saved' = Saved
      /\ Starting' = Starting /\ Idle' = Idle /\ NewEntry(job.slot)' = NewEntry(job.slot)
  BY <1>2 DEF Opening, Reconciling, Publishing, Filing, Unlinking, Cleaning, Saved, Starting, Idle,
              NewEntry
<1>6. TypeOK'
  BY <1>0, <1>2, <1>4 DEF TypeOK
<1>7. Course'
  BY <1>0, <1>2, <1>5 DEF Course
<1>8. Frozen'
  BY <1>0, <1>2 DEF Frozen
<1>9. Indexes'
  <2>1. \A q \in after' : ValidIndex(q.index.entries) /\ (~ q.index.present => q.index = NoIndex)
    BY <1>0, <1>4 DEF Indexes
  <2> QED
    BY <1>0, <1>2, <1>4, <1>5, <2>1 DEF Indexes
<1>10. Drops'
  BY <1>0, <1>2, <1>5 DEF Drops
<1>11. Committed'
  <2>1. ASSUME NEW e \in Entries, e.key \in committed', Secured(e) PROVE Secured(e)'
    <3>1. e.slot # slot /\ e.slot \in Slots
      <4>1. disk.payload[e.slot] = Whole(e.key)
        BY <1>2, <2>1, SecuredFacts
      <4>2. Whole(e.key).key = e.key
        BY DEF Whole
      <4> QED
        BY <1>2, <2>1, <4>1, <4>2, EntryFacts
    <3>2. \A q \in after' : e \in ToSet(q.index.entries) /\ q.payload[e.slot] = Whole(e.key)
      BY <1>4, <2>1, <3>1, SecuredFacts
    <3> QED
      BY <1>2, <1>5, <2>1, <3>2 DEF Secured
  <2> QED
    BY <1>0, <1>2, <2>1, StaySecured
<1>12. Limited'
  BY <1>0, <1>2, <1>4, <1>5 DEF Limited, Fitting
<1>13. Owned'
  <2> SUFFICES ASSUME setting.ordered
               PROVE  /\ \A q \in after' : \A e \in ToSet(q.index.entries) : Owns(q, e)'
                      /\ \A q \in after' : ~ q.index.present => \A s \in Slots : q.payload[s] = NoLeaf
                      /\ \A e \in ToSet(store.index) : Owns(disk, e)'
                      /\ Filing /\ job.at \in {"payload_sync", "index", "index_sync"} =>
                            Owns(disk, NewEntry(job.slot))'
    BY <1>2, <1>5 DEF Owned
  <2>1. ASSUME NEW d \in after, NEW q \in after', NEW e, e.slot \in Slots, Owns(d, e),
               q.payload[slot] = leaf, \A s \in Slots : s # slot => q.payload[s] = d.payload[s]
        PROVE  Owns(q, e)'
    BY <1>1, <1>2, <2>1 DEF Owns
  <2>2. ASSUME NEW q \in after', NEW e \in ToSet(q.index.entries) PROVE Owns(q, e)'
    <3>1. PICK d \in after : /\ q.index = d.index /\ q.payload[slot] = leaf
                             /\ \A s \in Slots : s # slot => q.payload[s] = d.payload[s]
      BY <1>4
    <3>2. Owns(d, e)
      BY <1>0, <2>2, <3>1 DEF Owned
    <3>3. e.slot \in Slots
      BY <1>4, <2>2, DirectoryFacts, MemberFacts, EntryFacts
    <3> QED
      BY <2>1, <3>1, <3>2, <3>3
  <2>3. ASSUME NEW q \in after', ~ q.index.present PROVE FALSE
    <3>1. PICK d \in after : q.index = d.index
      BY <1>4
    <3>2. d.payload[slot] = NoLeaf
      BY <1>0, <2>3, <3>1 DEF Owned
    <3> QED
      BY <1>2, <3>1, <3>2 DEF NoLeaf
  <2>4. ASSUME NEW e \in ToSet(store.index) PROVE Owns(disk, e)'
    <3>1. Owns(disk, e)
      BY <1>0 DEF Owned
    <3>2. e.slot \in Slots
      BY <1>0, StoreFields, MemberFacts, EntryFacts
    <3> QED
      BY <1>1, <1>2, <1>4, <3>1, <3>2 DEF Owns
  <2>5. ASSUME Filing, job.at \in {"payload_sync", "index", "index_sync"}
        PROVE  Owns(disk, NewEntry(job.slot))'
    <3>1. Owns(disk, NewEntry(job.slot))
      BY <1>0, <2>5 DEF Owned
    <3>2. job.slot \in Slots /\ NewEntry(job.slot).slot = job.slot
      BY <1>0, JobFields DEF NewEntry
    <3> QED
      BY <1>1, <1>2, <1>4, <1>5, <3>1, <3>2 DEF Owns
  <2> QED
    BY <2>2, <2>3, <2>4, <2>5
<1> QED
  BY <1>6, <1>7, <1>8, <1>9, <1>10, <1>11, <1>12, <1>13 DEF IndInv

-----------------------------------------------------------------------------
(* Every step *)

LEMMA InitKeeps ==
    ASSUME Init
    PROVE  IndInv
<1>1. /\ disk = [index |-> NoIndex, payload |-> [s \in Slots |-> NoLeaf]] /\ after = {disk}
      /\ store = Closed /\ job = NoJob /\ committed = {} /\ uncertain = FALSE
      /\ setting \in Settings
  BY DEF Init
<1>2. /\ disk.index = NoIndex /\ disk.payload = [s \in Slots |-> NoLeaf]
      /\ disk.index.entries = <<>> /\ ~ disk.index.present
  BY <1>1 DEF NoIndex
<1>3. disk \in Directories
  <2>1. NoIndex \in [present : BOOLEAN, entries : Seq(Entries)]
    BY EmptyFacts DEF NoIndex
  <2>2. [s \in Slots |-> NoLeaf] \in [Slots -> Leaves]
    BY LeafKinds
  <2> QED
    BY <1>1, <2>1, <2>2 DEF Directories
<1>4. /\ NoJob \in Jobs /\ job.why = "none" /\ job.at = "none" /\ job.then = "none"
      /\ job.index = <<>> /\ job.candidate = <<>> /\ job.drop = {} /\ job.todo = {}
  BY <1>1, NoJobFacts
<1>5. Closed \in Stores /\ ~ store.open /\ store.index = <<>> /\ ~ store.writes_disabled
  BY <1>1, ClosedFacts
<1>6. /\ ~ Opening /\ ~ Reconciling /\ ~ Publishing /\ ~ Filing /\ ~ Unlinking /\ ~ Cleaning
      /\ ~ Saved /\ ~ Starting /\ Idle
  BY <1>4 DEF Opening, Reconciling, Publishing, Filing, Unlinking, Cleaning, Saved, Starting, Idle
<1>7. TypeOK
  BY <1>1, <1>3, <1>4, <1>5 DEF TypeOK
<1>8. Course
  BY <1>1, <1>4, <1>5, <1>6 DEF Course
<1>9. Frozen
  BY <1>1, <1>4 DEF Frozen
<1>10. Indexes
  BY <1>1, <1>2, <1>4, <1>5, <1>6, EmptyFacts DEF Indexes
<1>11. Drops
  BY <1>6 DEF Drops
<1>12. Committed
  BY <1>1 DEF Committed
<1>13. Limited
  BY <1>4, <1>5, <1>6 DEF Limited
<1>14. Owned
  BY <1>1, <1>2, <1>5, <1>6, EmptyFacts DEF Owned
<1> QED
  BY <1>7, <1>8, <1>9, <1>10, <1>11, <1>12, <1>13, <1>14 DEF IndInv

LEMMA NextKeeps ==
    ASSUME IndInv, [Next]_vars
    PROVE  IndInv'
<1>1. Outcomes \subseteq BOOLEAN
  BY StoreAssumption
<1>2. CASE FileStep
  <2>1. PICK ok \in Outcomes :
           \/ PublishIndex(ok) \/ SyncIndex(ok) \/ Unlink(ok) \/ SyncUnlinked(ok)
           \/ PublishPayload(ok) \/ SyncPayload(ok) \/ UndoPayload(ok) \/ SyncUndone(ok)
           \/ Scan(ok) \/ TryMatch(ok)
    BY <1>2 DEF FileStep
  <2>2. ok \in BOOLEAN
    BY <1>1
  <2> QED
    BY <2>1, <2>2, PublishIndexKeeps, SyncIndexKeeps, UnlinkKeeps, SyncUnlinkedKeeps,
       PublishPayloadKeeps, SyncPayloadKeeps, UndoPayloadKeeps, SyncUndoneKeeps, ScanKeeps,
       TryMatchKeeps
<1>3. CASE StoreStep
  <2>1. CASE \E scope \in Scopes, limits \in setting.limits : Open(scope, limits, setting.managed)
    BY <2>1, OpenKeeps
  <2>2. CASE \E tokens \in setting.histories : Save(tokens) \/ LoadMatch(tokens)
    BY <2>2, SaveKeeps, LoadMatchKeeps
  <2>3. CASE Prune
    BY <2>3, PruneKeeps
  <2>4. CASE \E temporary \in BOOLEAN : Sweep(temporary)
    BY <2>4, SweepKeeps
  <2>5. CASE \E allowance \in Allowances, ok \in Outcomes :
                Admit(allowance, ok) \/ Finish(allowance, ok)
    BY <1>1, <2>5, AdmitKeeps, FinishKeeps
  <2> QED
    BY <1>3, <2>1, <2>2, <2>3, <2>4, <2>5 DEF StoreStep
<1>4. CASE Environment
  BY <1>4, ExitKeeps, PowerFailureKeeps, DamageKeeps DEF Environment
<1>5. CASE UNCHANGED vars
  <2>1. /\ disk' = disk /\ after' = after /\ store' = store /\ job' = job
        /\ committed' = committed /\ uncertain' = uncertain /\ setting' = setting
    BY <1>5 DEF vars
  <2>2. TypeOK' /\ Course' /\ Frozen'
    BY <2>1 DEF IndInv, TypeOK, Course, Frozen, Opening, Reconciling, Publishing, Filing, Unlinking,
                Cleaning, Saved, Starting, Idle
  <2>3. Indexes' /\ Drops'
    BY <2>1 DEF IndInv, Indexes, Drops, Opening, Reconciling, Publishing, Filing, Unlinking,
                Cleaning, Saved, Starting, Idle, NewEntry
  <2>4. Committed'
    BY <2>1 DEF IndInv, Committed, Secured, Reconciling, Publishing, Filing
  <2>5. Limited' /\ Owned'
    BY <2>1 DEF IndInv, Limited, Fitting, Owned, Owns, Reconciling, Publishing, Filing, Unlinking,
                NewEntry
  <2> QED
    BY <2>2, <2>3, <2>4, <2>5 DEF IndInv
<1> QED
  BY <1>2, <1>3, <1>4, <1>5 DEF Next

-----------------------------------------------------------------------------
(* Theorems *)

\* The strengthening: where each operation of the store can be (Course), what
\* the indexes on disk, in memory and in the operation have in common, and what
\* every directory that a crash may leave holds.
THEOREM Invariance == Spec => []IndInv
<1>1. Init => IndInv
  BY InitKeeps
<1>2. IndInv /\ [Next]_vars => IndInv'
  BY NextKeeps
<1> QED
  BY <1>1, <1>2, PTL DEF Spec

\* The fields of the store, of its operation and of the directories hold values
\* of their kind (DiskCheckpointStore, IndexFile, the leaves).
THEOREM TypeCorrect == Spec => []TypeOK
<1>1. IndInv => TypeOK
  BY DEF IndInv
<1> QED
  BY <1>1, Invariance, PTL

\* A checkpoint whose save returned Ok(true), and that nothing has evicted or
\* damaged since, survives every crash: save, publish_index, remove_invalid and
\* reconcile_and_prune order their renames, syncs and unlinks for it.
THEOREM CommittedSurvive == Spec => []Durable
<1>1. IndInv => Durable
  <2> SUFFICES ASSUME IndInv, NEW key \in committed, NEW d \in after
               PROVE  \E i \in DOMAIN d.index.entries :
                         /\ d.index.entries[i].key = key
                         /\ d.payload[d.index.entries[i].slot] = Whole(key)
    BY DEF Durable
  <2>1. PICK slot \in Slots : Secured([slot |-> slot, key |-> key])
    BY DEF IndInv, Committed
  <2> DEFINE e == [slot |-> slot, key |-> key]
  <2>2. e \in ToSet(d.index.entries) /\ d.payload[e.slot] = Whole(e.key)
    BY <2>1 DEF Secured
  <2>3. PICK i \in DOMAIN d.index.entries : d.index.entries[i] = e
    BY <2>2 DEF ToSet
  <2>4. e.key = key
    OBVIOUS
  <2> HIDE DEF e
  <2> QED
    BY <2>2, <2>3, <2>4
<1> QED
  BY <1>1, Invariance, PTL

\* The index an open store has published is within max_entries and max_bytes:
\* victims makes room before a save, reconcile_and_prune at every open.
THEOREM PublishedFits == Spec => []LimitsHeld
<1>1. IndInv => LimitsHeld
  BY DEF IndInv, Limited, Fitting, LimitsHeld
<1> QED
  BY <1>1, Invariance, PTL

\* Where directory changes survive in order, no surviving index names the leaf
\* of another conversation: a payload is published before its entry, and its
\* slot is reused only when no index that may survive names it.
THEOREM OwnLeavesKept == Spec => []EntriesOwnLeaves
<1>1. IndInv => EntriesOwnLeaves
  <2> SUFFICES ASSUME IndInv, setting.ordered, NEW d \in after, NEW i \in DOMAIN d.index.entries
               PROVE  \/ d.payload[d.index.entries[i].slot] = Whole(d.index.entries[i].key)
                      \/ d.payload[d.index.entries[i].slot].state \in setting.harms
                      \/ setting.managed /\ d.payload[d.index.entries[i].slot] = NoLeaf
    BY DEF EntriesOwnLeaves
  <2>1. d.index.entries[i] \in ToSet(d.index.entries)
    BY DEF ToSet
  <2> QED
    BY <2>1 DEF IndInv, Owned, Owns
<1> QED
  BY <1>1, Invariance, PTL

\* Where they do, initialize_or_read_index accepts whatever directory a crash
\* leaves: a valid index, or no index and no payload.
THEOREM AlwaysReopens == Spec => []Reopenable
<1>1. IndInv => Reopenable
  BY DEF IndInv, Indexes, Owned, Reopenable
<1> QED
  BY <1>1, Invariance, PTL

\* A store that shares no budget changes nothing in its directory once a sync
\* after a rename has failed: writes_disabled stops save, remove_invalid and
\* touch_after_restore, and a payload sync that fails ends its save.
THEOREM UncertainStops == Spec => ExplicitFrozen
<1>1. ASSUME IndInv, Next, ~ setting.managed, uncertain, uncertain', StoreActs
      PROVE  disk' = disk
  <2>1. TypeOK /\ Course /\ Frozen
    BY <1>1 DEF IndInv
  <2>2. job.why \in {"none", "load"}
    BY <1>1, <2>1, JobFields DEF Course, Frozen, Opening
  <2>3. job.at \in {"none", "try"}
    BY <2>1, <2>2, NoJobFacts DEF Course, Idle
  <2>4. CASE FileStep
    BY <2>3, <2>4 DEF FileStep, PublishIndex, SyncIndex, Unlink, SyncUnlinked, PublishPayload,
                      SyncPayload, UndoPayload, SyncUndone, Scan, TryMatch
  <2>5. CASE StoreStep
    <3>1. job.at \notin {"admit", "end", "prune", "sweep"}
      BY <2>3
    <3> QED
      BY <2>5, <3>1 DEF StoreStep, Open, Save, LoadMatch, Prune, Sweep
  <2>6. CASE Environment
    BY <1>1, <2>6 DEF Environment, Exit, PowerFailure, Damage, StoreActs
  <2> QED
    BY <1>1, <2>4, <2>5, <2>6 DEF Next
<1>2. IndInv /\ [Next]_vars
         => [~ setting.managed /\ uncertain /\ uncertain' /\ StoreActs => disk' = disk]_vars
  BY <1>1
<1> QED
  BY <1>2, Invariance, PTL DEF Spec, ExplicitFrozen

=============================================================================
