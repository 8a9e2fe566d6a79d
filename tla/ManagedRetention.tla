-------------------------- MODULE ManagedRetention --------------------------
(***************************************************************************)
(* Retention shared by the processes that keep checkpoints below one       *)
(* managed cache base: ManagedCache::reserve of                            *)
(* src/engine/snapshot/disk/store/managed.rs and its two callers, open and *)
(* save of the store.                                                      *)
(*                                                                         *)
(* Every process owns one native root, whose lock it holds while it lives. *)
(* Before it keeps or adds payload it takes the retention lock, measures   *)
(* every other root, and clears roots nobody has locked, least recently    *)
(* published first, until what it wants fits.  Locks are only tried, never *)
(* waited for, and the system releases those of a process that dies, which *)
(* it may do between any two steps.                                        *)
(*                                                                         *)
(* A leaf is its length in bytes, 0 when it does not exist.  Leaves of a   *)
(* native root are the payload slots and the temporary; of a root of the   *)
(* legacy runtime a payload, an attachment and a quarantined payload.      *)
(* Power failures and failing system calls of a store are in DiskStore.    *)
(***************************************************************************)
EXTENDS Retain

CONSTANTS
    Processes,
    Native,         \* roots below v4/disk_kv
    Legacy,         \* roots below disk_kv
    MaxEntries,     \* entries of a store; it has one more payload slot
    Sizes,          \* bytes of a checkpoint
    Limits,         \* max_payload_bytes a process may be given
    Founds,         \* sets of roots in the state the first process finds
    MaxSaves        \* bound: saves, opens and legacy writes in a behaviour

Roots == Native \cup Legacy
Nobody == "nobody"
Runtime == "legacy runtime"

ASSUME RetentionAssumption ==
    /\ Native \cap Legacy = {} /\ IsFiniteSet(Native) /\ IsFiniteSet(Legacy)
    /\ MaxEntries \in Nat \ {0} /\ MaxSaves \in Nat
    /\ Sizes \subseteq Nat \ {0} /\ Limits \subseteq Nat
    /\ {Nobody, Runtime} \cap Processes = {}

VARIABLES
    root,       \* the roots: lock holder, indexes, leaves
    order,      \* the roots, least recently published index first
    proc,       \* the processes
    retention,  \* who holds retention.lock
    spent       \* saves, opens and legacy writes so far

vars == <<root, order, proc, retention, spent>>

-----------------------------------------------------------------------------
(* Roots *)

Temp == MaxEntries + 1
Leaves == 0 .. Temp
Slots == 0 .. MaxEntries
Attachment == 1

\* named: the leaves an index names, least recently used first; attached: those
\* of the companion index.
RootStates ==
    [ lock      : Processes \cup {Nobody, Runtime},
      indexed   : BOOLEAN,           \* its index reads
      suspect   : BOOLEAN,           \* a leaf is no private regular file
      legacy    : BOOLEAN,
      named     : Seq(Slots),
      attached  : SUBSET Leaves,
      companion : BOOLEAN,
      leaf      : [Leaves -> Nat] ]

Bytes(r) == SumTo(r.leaf, Temp)
Present(r) == {l \in Leaves : r.leaf[l] > 0}

\* What earlier processes leave behind: nobody lives, and every index that reads
\* passes IndexFile::validate and names payloads that are there; attachments are
\* of the legacy runtime only.
ASSUME FoundAssumption ==
    \A found \in Founds :
        /\ found \in [Roots -> RootStates]
        /\ \A r \in Roots :
              /\ found[r].lock = Nobody
              /\ Len(found[r].named) <= MaxEntries
              /\ ToSet(found[r].named) \cup found[r].attached \subseteq Present(found[r])
              /\ r \in Native => found[r].attached = {}

\* names: the directories of each kind, sorted.
Names == SetToSeq(Native) \o SetToSeq(Legacy)

LiveBytes(r, entries) ==
    SumTo([i \in 0 .. Len(entries) |-> IF i = 0 THEN 0 ELSE r.leaf[entries[i]]], Len(entries))

\* Root::reclaimable, for a root whose lock was taken: it holds something, its
\* index reads, and a legacy root with attachments has a companion index.
Reclaimable(r) ==
    /\ Bytes(r) > 0
    /\ r.indexed
    /\ r.legacy /\ Attachment \in Present(r) => r.companion

\* victims and reconcile_and_prune: how many of the least recently used entries
\* go before the others, and `incoming` more bytes, fit.
Excess(r, entries, count, allowance, incoming) ==
    LET fits(m) == LET kept == SubSeq(entries, m + 1, Len(entries))
                   IN  Len(kept) <= count /\ LiveBytes(r, kept) + incoming <= allowance
    IN  CHOOSE n \in 0 .. Len(entries) : fits(n) /\ \A m \in 0 .. n - 1 : ~fits(m)

\* Publishing an index makes it the newest.
Newest(r) == Append(Without(order, {r}), r)

-----------------------------------------------------------------------------
(* Processes *)

Absent ==
    [ at        |-> "absent",
      root      |-> Nobody,
      limit     |-> 0,
      index     |-> <<>>,   \* the store's index
      incoming  |-> 0,      \* bytes of the checkpoint to save; 0: opening
      kept      |-> <<>>,   \* the index without the entries a save supersedes
      todo      |-> <<>>,   \* roots that reserve has not measured yet
      held      |-> {},     \* roots whose lock reserve took
      bytes     |-> [r \in Roots |-> 0], \* what reserve measured in each (Root::bytes)
      other     |-> 0,      \* bytes of the other roots
      target    |-> Nobody, \* the root being cleared
      drop      |-> {},     \* leaves of its own root to unlink
      then      |-> "none" ]

Mine(p) == root[proc[p].root]
SetMine(p, r) == root' = [root EXCEPT ![proc[p].root] = r]

Unlock(roots) == [r \in Roots |-> IF r \in roots THEN [root[r] EXCEPT !.lock = Nobody] ELSE root[r]]
FreeRetention(p) == retention' = IF retention = p THEN Nobody ELSE retention

Idling(p) == [Absent EXCEPT !.at = "idle", !.root = proc[p].root, !.limit = proc[p].limit,
                            !.index = proc[p].index]

Init ==
    /\ root \in Founds
    /\ order \in SetToSeqs(Roots)
    /\ proc = [p \in Processes |-> Absent]
    /\ retention = Nobody
    /\ spent = 0

\* The process ends, an open fails, or it is killed: the system releases its
\* locks and the directories stay as they are.
Die(p) ==
    /\ proc[p].at # "absent"
    /\ root' = Unlock(proc[p].held \cup {proc[p].root})
    /\ FreeRetention(p)
    /\ proc' = [proc EXCEPT ![p] = Absent]
    /\ UNCHANGED <<order, spent>>

\* An error fails an open as a whole and makes a save return.
Refuse(p) ==
    IF proc[p].incoming = 0 THEN Die(p)
    ELSE /\ root' = Unlock(proc[p].held)
         /\ FreeRetention(p)
         /\ proc' = [proc EXCEPT ![p] = Idling(p)]
         /\ UNCHANGED <<order, spent>>

-----------------------------------------------------------------------------
(* Opening, and the smaller updates of an open store *)

\* Take the root's lock, then read its index; one that does not read fails the
\* open, and so does a lock that somebody holds.
Open(p, r, limit) ==
    /\ proc[p].at = "absent" /\ spent < MaxSaves
    /\ root[r].lock = Nobody
    /\ root[r].indexed
    /\ root' = [root EXCEPT ![r].lock = p]
    /\ proc' = [proc EXCEPT ![p] = [Absent EXCEPT !.at = "prune", !.root = r, !.limit = limit,
                                        !.index = root[r].named, !.then = "reserve"]]
    /\ spent' = spent + 1
    /\ UNCHANGED <<order, retention>>

\* What the process may keep: its limit, or what reserve granted.
Allowance(p) ==
    IF retention # p THEN proc[p].limit
    ELSE IF proc[p].other < proc[p].limit THEN proc[p].limit - proc[p].other ELSE 0

\* reconcile_and_prune: the smaller index is published before the payloads that
\* it no longer names go, and before leaves no index names.
Prune(p) ==
    LET n == Excess(Mine(p), proc[p].index, MaxEntries, Allowance(p), 0)
        rest == From(proc[p].index, n)
    IN  /\ proc[p].at = "prune"
        /\ SetMine(p, [Mine(p) EXCEPT !.named = rest])
        /\ order' = IF n > 0 THEN Newest(proc[p].root) ELSE order
        /\ proc' = [proc EXCEPT ![p].at = "unlink", ![p].index = rest, ![p].kept = rest,
                                ![p].drop = Leaves \ ToSet(rest)]
        /\ UNCHANGED <<retention, spent>>

Unlink(p) ==
    LET left == proc[p].drop \cap Present(Mine(p)) IN
    /\ proc[p].at = "unlink"
    /\ IF left = {}
       THEN /\ proc' = [proc EXCEPT ![p].at = proc[p].then, ![p].drop = {}]
            /\ UNCHANGED root
       ELSE /\ \E l \in left : SetMine(p, [Mine(p) EXCEPT !.leaf[l] = 0])
            /\ UNCHANGED proc
    /\ UNCHANGED <<order, retention, spent>>

\* touch_after_restore and remove_invalid of a load, outside retention.
Touch(p, l) ==
    LET moved == Append(Without(proc[p].index, {l}), l) IN
    /\ proc[p].at = "idle" /\ l \in ToSet(proc[p].index)
    /\ SetMine(p, [Mine(p) EXCEPT !.named = moved])
    /\ proc' = [proc EXCEPT ![p].index = moved]
    /\ order' = Newest(proc[p].root)
    /\ UNCHANGED <<retention, spent>>

RemoveInvalid(p, l) ==
    LET rest == Without(proc[p].index, {l}) IN
    /\ proc[p].at = "idle" /\ l \in ToSet(proc[p].index)
    /\ SetMine(p, [Mine(p) EXCEPT !.named = rest])
    /\ proc' = [proc EXCEPT ![p].at = "unlink", ![p].index = rest, ![p].drop = {l},
                            ![p].then = "idle"]
    /\ order' = Newest(proc[p].root)
    /\ UNCHANGED <<retention, spent>>

-----------------------------------------------------------------------------
(* reserve *)

Discovering(p) ==
    [proc EXCEPT ![p].at = "measure", ![p].other = 0,
                 ![p].todo = Without(Names, {proc[p].root})]

\* Mutant: retention.lock does not exclude.
TryRetentionShared(p) ==
    /\ proc[p].at = "reserve"
    /\ retention' = p
    /\ proc' = Discovering(p)
    /\ UNCHANGED <<root, order, spent>>

\* The retention lock is tried once.
TryRetention(p) ==
    /\ proc[p].at = "reserve"
    /\ IF retention # Nobody THEN Refuse(p)
       ELSE /\ retention' = p
            /\ proc' = Discovering(p)
            /\ UNCHANGED <<root, order, spent>>

\* Mutant: a root that is locked is cleared as well.
MeasureLockedToo(p) ==
    /\ proc[p].at = "measure" /\ proc[p].todo # <<>>
    /\ LET r == Head(proc[p].todo)
           locked == root[r].lock = Nobody
       IN  /\ root' = IF locked THEN [root EXCEPT ![r].lock = p] ELSE root
           /\ proc' = [proc EXCEPT ![p].todo = Tail(@), ![p].other = @ + Bytes(root[r]),
                                   ![p].bytes = [@ EXCEPT ![r] = Bytes(root[r])],
                                   ![p].held = @ \cup {r}]
    /\ UNCHANGED <<order, retention, spent>>

\* native_root, legacy_root: try the lock, read the index, add up the leaves.
\* A leaf that is no private regular file ends the discovery.
Measure(p) ==
    /\ proc[p].at = "measure" /\ proc[p].todo # <<>>
    /\ LET r == Head(proc[p].todo)
           free == root[r].lock = Nobody
       IN  IF root[r].suspect THEN Refuse(p)
           ELSE /\ root' = IF free THEN [root EXCEPT ![r].lock = p] ELSE root
                /\ proc' = [proc EXCEPT ![p].todo = Tail(@), ![p].other = @ + Bytes(root[r]),
                                        ![p].bytes = [@ EXCEPT ![r] = Bytes(root[r])],
                                        ![p].held = IF free THEN @ \cup {r} ELSE @]
                /\ UNCHANGED <<order, retention, spent>>

\* Everything is measured: the next root to clear, the oldest first, as long as
\* the other roots leave too little for what the process keeps and adds.
Desired(p) ==
    LET sum == LiveBytes(Mine(p), proc[p].kept) + proc[p].incoming
    IN  IF sum < proc[p].limit THEN sum ELSE proc[p].limit

Clearable(p) ==
    {i \in 1 .. Len(order) : order[i] \in proc[p].held /\ Reclaimable(root[order[i]])}

Clears(p) == proc[p].other + Desired(p) > proc[p].limit /\ Clearable(p) # {}

ChooseRoot(p) ==
    /\ proc[p].at = "measure" /\ proc[p].todo = <<>>
    /\ Clears(p)
    /\ LET r == order[Min(Clearable(p))]
       IN  proc' = [proc EXCEPT ![p].at = "clear", ![p].target = r]
    /\ UNCHANGED <<root, order, retention, spent>>

\* What a cleared root held counts no more.
Cleared(p) ==
    [proc EXCEPT ![p].at = "measure", ![p].target = Nobody,
                 ![p].other = @ - proc[p].bytes[proc[p].target],
                 ![p].bytes = [@ EXCEPT ![proc[p].target] = 0]]

\* Mutant: the payloads go first.
ClearLeavesFirst(p) ==
    LET r == root[proc[p].target]
        Becomes(new) == root' = [root EXCEPT ![proc[p].target] = new] /\ UNCHANGED proc
    IN  /\ proc[p].at = "clear"
        /\ CASE Present(r) # {} -> \E l \in Present(r) : Becomes([r EXCEPT !.leaf[l] = 0])
             [] Present(r) = {} /\ r.named # <<>> -> Becomes([r EXCEPT !.named = <<>>])
             [] Present(r) = {} /\ r.named = <<>> /\ r.attached # {} ->
                   Becomes([r EXCEPT !.attached = {}])
             [] OTHER -> proc' = Cleared(p) /\ UNCHANGED root
        /\ UNCHANGED <<order, retention, spent>>

\* clear: publish an empty index, and an empty companion index, then unlink the
\* leaves.
Clear(p) ==
    LET r == root[proc[p].target]
        Becomes(new) == root' = [root EXCEPT ![proc[p].target] = new] /\ UNCHANGED proc
    IN  /\ proc[p].at = "clear"
        /\ CASE r.named # <<>> -> Becomes([r EXCEPT !.named = <<>>])
             [] r.named = <<>> /\ r.attached # {} -> Becomes([r EXCEPT !.attached = {}])
             [] r.named = <<>> /\ r.attached = {} /\ Present(r) # {} ->
                   \E l \in Present(r) : Becomes([r EXCEPT !.leaf[l] = 0])
             [] OTHER -> proc' = Cleared(p) /\ UNCHANGED root
        /\ order' = IF r.named # <<>> THEN Newest(proc[p].target) ELSE order
        /\ UNCHANGED <<retention, spent>>

ClearFails(p) == proc[p].at = "clear" /\ Refuse(p)

\* reserve returns: the locks of the other roots go, retention.lock stays.
Grant(p) ==
    /\ proc[p].at = "measure" /\ proc[p].todo = <<>>
    /\ ~Clears(p)
    /\ root' = Unlock(proc[p].held)
    /\ proc' = [proc EXCEPT ![p].at = IF proc[p].incoming \in 1 .. Allowance(p)
                                      THEN "write" ELSE "prune",
                            ![p].held = {}, ![p].then = "release"]
    /\ UNCHANGED <<order, retention, spent>>

-----------------------------------------------------------------------------
(* save *)

\* save, up to reserve: clean up, and leave out what the new frontier supersedes.
Save(p, size, superseded) ==
    /\ proc[p].at = "idle" /\ spent < MaxSaves
    /\ size <= proc[p].limit
    /\ superseded \subseteq ToSet(proc[p].index)
    /\ proc' = [proc EXCEPT ![p].at = "unlink", ![p].then = "reserve", ![p].incoming = size,
                    ![p].drop = Leaves \ ToSet(proc[p].index),
                    ![p].kept = Without(proc[p].index, superseded)]
    /\ spent' = spent + 1
    /\ UNCHANGED <<root, order, retention>>

Spare(p) == Min(Slots \ ToSet(proc[p].index))

WriteTemp(p) ==
    /\ proc[p].at = "write"
    /\ SetMine(p, [Mine(p) EXCEPT !.leaf[Temp] = proc[p].incoming])
    /\ proc' = [proc EXCEPT ![p].at = "rename"]
    /\ UNCHANGED <<order, retention, spent>>

WriteFails(p) == proc[p].at = "rename" /\ Refuse(p)

PublishPayload(p) ==
    /\ proc[p].at = "rename"
    /\ SetMine(p, [Mine(p) EXCEPT !.leaf[Temp] = 0, !.leaf[Spare(p)] = proc[p].incoming])
    /\ proc' = [proc EXCEPT ![p].at = "index"]
    /\ UNCHANGED <<order, retention, spent>>

\* install_index, without the superseded entries and the least recently used
\* ones that leave no room; their payloads are unlinked next.
InstallIndex(p) ==
    LET n == Excess(Mine(p), proc[p].kept, MaxEntries - 1, Allowance(p), proc[p].incoming)
        candidate == Append(From(proc[p].kept, n), Spare(p))
    IN  /\ proc[p].at = "index"
        /\ SetMine(p, [Mine(p) EXCEPT !.named = candidate])
        /\ proc' = [proc EXCEPT ![p].at = "unlink", ![p].index = candidate,
                                ![p].drop = ToSet(proc[p].index) \ ToSet(candidate)]
        /\ order' = Newest(proc[p].root)
        /\ UNCHANGED <<retention, spent>>

\* The reservation is dropped when open_managed or save returns.
Release(p) ==
    /\ proc[p].at = "release"
    /\ FreeRetention(p)
    /\ proc' = [proc EXCEPT ![p] = Idling(p)]
    /\ UNCHANGED <<root, order, spent>>

\* External: the legacy runtime takes and releases the lock of its own root.
RuntimeTakes(r) ==
    /\ root[r].lock \in {Nobody, Runtime}
    /\ root' = [root EXCEPT ![r].lock = IF @ = Nobody THEN Runtime ELSE Nobody]
    /\ UNCHANGED <<order, proc, retention, spent>>

\* External: while it has its root, the legacy runtime writes, replaces or drops
\* a payload there and asks nobody for the bytes.
RuntimeWrites(r, l, size) ==
    LET others == Without(root[r].named, {l})
    IN  /\ root[r].lock = Runtime /\ spent < MaxSaves
        /\ l # Attachment /\ size # root[r].leaf[l]
        /\ root' = [root EXCEPT
              ![r].leaf[l] = size,
              ![r].named = IF size > 0 /\ Len(others) < MaxEntries THEN Append(others, l) ELSE others,
              ![r].attached = @ \ {l}]
        /\ order' = Newest(r)
        /\ spent' = spent + 1
        /\ UNCHANGED <<proc, retention>>

-----------------------------------------------------------------------------

StoreStep(p) ==
    \/ \E r \in Native, limit \in Limits : Open(p, r, limit)
    \/ \E size \in Sizes, superseded \in SUBSET Slots : Save(p, size, superseded)
    \/ \E l \in Slots : Touch(p, l) \/ RemoveInvalid(p, l)
    \/ Prune(p) \/ Unlink(p)
    \/ WriteTemp(p) \/ WriteFails(p) \/ PublishPayload(p) \/ InstallIndex(p) \/ Release(p)

ReserveStep(p) ==
    TryRetention(p) \/ Measure(p) \/ ChooseRoot(p) \/ Clear(p) \/ ClearFails(p) \/ Grant(p)

Next ==
    \/ \E p \in Processes : StoreStep(p) \/ ReserveStep(p) \/ Die(p)
    \/ \E r \in Legacy : RuntimeTakes(r)
    \/ \E r \in Legacy, l \in Slots, size \in Sizes \cup {0} : RuntimeWrites(r, l, size)

Spec == Init /\ [][Next]_vars

-----------------------------------------------------------------------------
(* Properties *)

\* What a root counts for when p returns: a legacy root for no more than it held
\* when it was measured.
Charged(p, r) ==
    IF r \in Legacy /\ proc[p].bytes[r] < Bytes(root[r]) THEN proc[p].bytes[r] ELSE Bytes(root[r])

Total(p) ==
    SumTo([i \in 0 .. Len(Names) |-> IF i = 0 THEN 0 ELSE Charged(p, Names[i])], Len(Names))

\* When save or open_managed returns, everything below the base, the roots of
\* the other processes and what dead ones left behind included, is within the
\* limit of this process, or this process keeps nothing: no two processes grow
\* from the same allowance (reserve holds retention.lock through publication).
\* Only what a legacy server added to its root after reserve measured or cleared
\* it comes on top (docs/disk_checkpoints.md:118-120).
BudgetHeld ==
    \A p \in Processes :
        proc[p].at = "release" =>
            \/ Total(p) <= proc[p].limit
            \/ Bytes(Mine(p)) = 0

\* The store of a live process always has the index on disk that it has in
\* memory, and the payload of every entry: no other process clears a root
\* between its open and its end (lock_root, and open taking the same lock).
OwnersKeep ==
    \A p \in Processes :
        proc[p].at # "absent" =>
            /\ Mine(p).lock = p
            /\ Mine(p).named = proc[p].index
            /\ ToSet(proc[p].index) \subseteq Present(Mine(p))

\* Whoever dies, and between whichever steps, no index names a payload that is
\* gone: clear, reconcile_and_prune and save publish before they unlink.
NamedPresent ==
    \A r \in Roots : ToSet(root[r].named) \cup root[r].attached \subseteq Present(root[r])
=============================================================================
