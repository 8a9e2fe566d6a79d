------------------------------ MODULE DiskStore ------------------------------
(***************************************************************************)
(* The indexed store of prompt checkpoints on disk, DiskCheckpointStore of *)
(* src/engine/snapshot/disk/store.rs: one process owns a directory of      *)
(* payload leaves and one index file, and every change is a sequence of    *)
(* renames, unlinks and directory syncs, each of which may fail and        *)
(* between any two of which the process may be killed or the machine may   *)
(* lose power.                                                             *)
(*                                                                         *)
(* The directory.  `disk` is what the running system sees, `after` the set *)
(* of directories a power failure may leave.  A successful directory sync  *)
(* leaves only the visible one.  Until then a change may survive or not:   *)
(* independently of the others, which is all that POSIX promises, or only  *)
(* together with every earlier change, as on a file system with a metadata *)
(* journal (ordered).  File contents are synced before their rename, so no *)
(* leaf survives half written.  The temporary leaves are abstracted away:  *)
(* the code removes them before every use and never reads them.            *)
(*                                                                         *)
(* Data.  A conversation is its token sequence, prefix_hash the sequence   *)
(* itself, the file size its length.  The recency numbers of an index are  *)
(* the order of its entries, least recently used first.  The payloads that *)
(* an operation unlinks go in any order.                                   *)
(***************************************************************************)
EXTENDS Retain, Integers

CONSTANTS
    MaxEntries,     \* MAX_ENTRIES; one more payload slot than entries
    KeptAncestors,  \* nearest prefixes Full mode keeps beside a new frontier
    Scopes,         \* engine and tokenizer identities
    Settings,       \* where a store may be used, see below
    MaxImages,      \* bound: no change while more directories may survive
    Outcomes        \* system calls succeed, or may also fail

\* A setting: the token sequences conversations may have, the StoreLimits an
\* open may be given, whether it is a managed one, whether directory changes
\* survive in order, and what may happen to a payload from outside.
LimitRecords == [mode : {"Prefix", "Full"}, max_entries : 1 .. MaxEntries,
                 max_bytes : Nat \ {0}, max_file : Nat \ {0}]
IsSetting(s) ==
    /\ \A t \in s.histories : t \in Seq(Nat) /\ t # <<>>
    /\ s.limits \subseteq LimitRecords
    /\ s.managed \in BOOLEAN
    /\ s.ordered \in BOOLEAN
    /\ s.harms \subseteq {"none", "short", "corrupt"}

ASSUME StoreAssumption ==
    /\ MaxEntries \in Nat \ {0}
    /\ KeptAncestors \in Nat
    /\ Scopes \subseteq STRING
    /\ \A s \in Settings : IsSetting(s)
    /\ MaxImages \in Nat
    /\ Outcomes \subseteq BOOLEAN

VARIABLES
    disk,       \* the visible directory: index.json and the payload leaves
    after,      \* the directories a power failure may leave
    store,      \* the fields of DiskCheckpointStore
    job,        \* the operation in progress and its next step
    committed,  \* history: keys whose save succeeded and that nothing evicted
    uncertain,  \* history: a sync after a rename has failed in this process
    setting     \* which of the settings this is

vars == <<disk, after, store, job, committed, uncertain, setting>>

-----------------------------------------------------------------------------
(* Data *)

Slots == 0 .. MaxEntries
Keys == [scope : Scopes, tokens : UNION {s.histories : s \in Settings}]
Entries == [slot : Slots, key : Keys]
FileBytes(e) == Len(e.key.tokens)

\* index.json
NoIndex == [present |-> FALSE, entries |-> <<>>]
IndexFile(entries) == [present |-> TRUE, entries |-> entries]

\* payload-NN.bin
NoKey == [scope |-> "", tokens |-> <<>>]
NoLeaf == [state |-> "none", key |-> NoKey]
Whole(key) == [state |-> "whole", key |-> key]
Leaves == [state : {"none", "short", "corrupt"}, key : {NoKey}]
            \union {Whole(k) : k \in Keys}

SlotsOf(index) == {e.slot : e \in ToSet(index)}
KeysOf(index) == {e.key : e \in ToSet(index)}

\* IndexFile::validate
ValidIndex(index) ==
    /\ Len(index) <= MaxEntries
    /\ \A i, j \in DOMAIN index : i # j =>
          index[i].slot # index[j].slot /\ index[i].key # index[j].key

\* live_bytes
LiveBytes(index) ==
    SumTo([i \in 0 .. Len(index) |-> IF i = 0 THEN 0 ELSE FileBytes(index[i])], Len(index))

\* matching: the entries a request can resume from, and the order they are
\* tried in, longest first.
Matching(index, scope, tokens, dead) ==
    {e \in ToSet(index) : /\ e.key.scope = scope
                          /\ e.slot \notin dead
                          /\ IsPrefix(e.key.tokens, tokens)}

Longest(entries) == CHOOSE e \in entries : \A other \in entries : FileBytes(other) <= FileBytes(e)

\* superseded: Full mode drops all but the nearest ancestors.
Superseded(index, scope, tokens) ==
    LET found == Matching(index, scope, tokens, {})
    IN  {e \in found : Cardinality({f \in found : FileBytes(f) > FileBytes(e)}) >= KeptAncestors}

\* Mutant: the new entry is not counted.
FitsLoosely(index, max_entries, max_bytes, incoming) ==
    Len(index) <= max_entries /\ LiveBytes(index) + incoming <= max_bytes

\* victims: what is kept of an index so that one more entry, of `incoming` bytes,
\* fits.
Fits(index, max_entries, max_bytes, incoming) ==
    Len(index) < max_entries /\ LiveBytes(index) + incoming <= max_bytes

Spared(index, max_entries, max_bytes, incoming) ==
    LET fits(n) == Fits(From(index, n), max_entries, max_bytes, incoming)
    IN  From(index, CHOOSE n \in 0 .. Len(index) : fits(n) /\ \A m \in 0 .. n - 1 : ~fits(m))

\* reconcile_and_prune: entries above the file limit go first, then the least
\* recently used.
Oversized(index, limits) == {e \in ToSet(index) : FileBytes(e) > limits.max_file}

Within(index, max_entries, max_bytes) ==
    Len(index) <= max_entries /\ LiveBytes(index) <= max_bytes

Pruned(index, limits, max_bytes) ==
    LET rest == Without(index, Oversized(index, limits))
        fits(n) == Within(From(rest, n), limits.max_entries, max_bytes)
    IN  From(rest, CHOOSE n \in 0 .. Len(rest) : fits(n) /\ \A m \in 0 .. n - 1 : ~fits(m))

\* A referenced leaf whose length is the indexed one.
LengthMatches(leaf, e) ==
    \/ leaf.state = "corrupt"
    \/ leaf.state = "whole" /\ Len(leaf.key.tokens) = FileBytes(e)

-----------------------------------------------------------------------------
(* State *)

NoLimits == [mode |-> "Prefix", max_entries |-> 0, max_bytes |-> 0, max_file |-> 0]

Closed ==
    [ open              |-> FALSE,
      index             |-> <<>>,
      dead_slots        |-> {},
      writes_disabled   |-> FALSE,
      restores_disabled |-> FALSE,
      scope             |-> "",
      limits            |-> NoLimits,
      managed           |-> FALSE ]

\* why: the operation; at: its next step; then: where it goes after the unlinks
\* that follow the next publication or sweep.
NoJob ==
    [ why       |-> "none",
      at        |-> "none",
      then      |-> "none",
      index     |-> <<>>,   \* the index the operation works on
      candidate |-> <<>>,   \* the index it is about to publish
      drop      |-> {},     \* payload slots it is about to unlink
      key       |-> NoKey,  \* what is saved
      slot      |-> 0,      \* the slot saved into or found invalid
      todo      |-> {},     \* matches a load has not tried yet
      allowance |-> 0 ]     \* max_payload_bytes of this reconciliation

Directories ==
    [ index : [present : BOOLEAN, entries : Seq(Entries)], payload : [Slots -> Leaves] ]

Stores ==
    [ open              : BOOLEAN,
      index             : Seq(Entries),
      dead_slots        : SUBSET Slots,
      writes_disabled   : BOOLEAN,
      restores_disabled : BOOLEAN,
      scope             : Scopes \union {""},
      limits            : (UNION {s.limits : s \in Settings}) \union {NoLimits},
      managed           : BOOLEAN ]

Steps == {"none", "scan", "prune", "sweep", "index", "index_sync", "unlink",
          "unlink_sync", "admit", "payload", "payload_sync", "undo", "undo_sync",
          "try", "end"}

Jobs ==
    [ why       : {"none", "open", "managed", "shrink", "save", "load", "invalid", "touch"},
      at        : Steps,
      then      : Steps,
      index     : Seq(Entries),
      candidate : Seq(Entries),
      drop      : SUBSET Slots,
      key       : Keys \union {NoKey},
      slot      : Slots,
      todo      : SUBSET Entries,
      allowance : Nat ]

Idle == job.why = "none"
Ready == store.open /\ Idle

Reconciling == job.why \in {"open", "managed", "shrink"}
Installing == job.why \in {"save", "invalid", "touch"}

Init ==
    /\ disk = [index |-> NoIndex, payload |-> [s \in Slots |-> NoLeaf]]
    /\ after = {disk}
    /\ store = Closed
    /\ job = NoJob
    /\ committed = {}
    /\ uncertain = FALSE
    /\ setting \in Settings

-----------------------------------------------------------------------------
(* Directory operations *)

SetLeaf(d, slot, leaf) == [d EXCEPT !.payload[slot] = leaf]
SetIndex(d, entries) == [d EXCEPT !.index = IndexFile(entries)]

Rename(slot, leaf) ==
    /\ Cardinality(after) <= MaxImages
    /\ disk' = SetLeaf(disk, slot, leaf)
    /\ after' = after \union
          (IF setting.ordered THEN {disk'} ELSE {SetLeaf(d, slot, leaf) : d \in after})

RenameIndex(entries) ==
    /\ Cardinality(after) <= MaxImages
    /\ disk' = SetIndex(disk, entries)
    /\ after' = after \union
          (IF setting.ordered THEN {disk'} ELSE {SetIndex(d, entries) : d \in after})

SyncAll == after' = {disk} /\ UNCHANGED disk

Directory == <<disk, after>>

Proceed(at) == job' = [job EXCEPT !.at = at]
Return == job' = NoJob

-----------------------------------------------------------------------------
(* Errors *)

\* What an error at the current step does to the store.  Opening fails as a
\* whole; a reconciliation inside `save` returns with `?` and changes no field;
\* save and the two updates of a load stop further writes, except that a save
\* which has not published its payload yet may be tried again.
Failed ==
    CASE job.why \in {"open", "managed"} -> Closed
      [] job.why = "save" /\ job.at \notin {"admit", "payload"} ->
            [store EXCEPT !.writes_disabled = TRUE]
      [] job.why \in {"invalid", "touch"} -> [store EXCEPT !.writes_disabled = TRUE]
      [] OTHER -> store

Fail ==
    /\ store' = Failed
    /\ Return
    /\ UNCHANGED <<disk, after, committed>>

-----------------------------------------------------------------------------
(* Publishing an index: publish_index, install_index *)

\* After the renamed index is synced: unlink what it no longer names.
AfterIndex == IF job.drop # {} THEN "unlink"
              ELSE IF job.why = "save" THEN "unlink_sync" ELSE job.then

IndexInstalled ==
    [job EXCEPT !.index = IF Reconciling THEN job.candidate ELSE <<>>,
                !.candidate = <<>>,
                !.at = AfterIndex]

PublishIndex(ok) ==
    /\ job.at = "index"
    /\ UNCHANGED <<committed, uncertain>>
    /\ CASE ok /\ ValidIndex(job.candidate) ->
              RenameIndex(job.candidate) /\ Proceed("index_sync") /\ UNCHANGED store
         [] ~(ok /\ ValidIndex(job.candidate)) /\ job.why = "save" ->
              Proceed("undo") /\ UNCHANGED <<Directory, store>>
         [] OTHER -> Fail
    /\ UNCHANGED setting

\* Mutant: a failed sync after the rename is an ordinary error.
SyncIndexRetries(ok) ==
    /\ job.at = "index_sync"
    /\ IF ok THEN SyncAll ELSE UNCHANGED Directory
    /\ store' = IF Installing THEN [store EXCEPT !.index = job.candidate]
                ELSE IF ok THEN store ELSE Failed
    /\ job' = IF ok THEN IndexInstalled ELSE NoJob
    /\ uncertain' = (uncertain \/ (~ok /\ store'.open))
    /\ UNCHANGED committed
    /\ UNCHANGED setting

SyncIndex(ok) ==
    LET failed == IF ok THEN store ELSE Failed IN
    /\ job.at = "index_sync"
    /\ IF ok THEN SyncAll ELSE UNCHANGED Directory
    /\ store' = IF Installing THEN [failed EXCEPT !.index = job.candidate] ELSE failed
    /\ job' = IF ok THEN IndexInstalled ELSE NoJob
    /\ uncertain' = (uncertain \/ (~ok /\ store'.open))
    /\ UNCHANGED committed
    /\ UNCHANGED setting

\* unlink_leaf for one of the slots; a leaf that is not there is no error.
Unlink(ok) ==
    /\ job.at = "unlink"
    /\ UNCHANGED <<committed, uncertain>>
    /\ IF ok
       THEN \E slot \in job.drop :
            /\ IF disk.payload[slot] = NoLeaf THEN UNCHANGED Directory ELSE Rename(slot, NoLeaf)
            /\ job' = [job EXCEPT !.drop = @ \ {slot},
                                  !.at = IF job.drop = {slot} THEN "unlink_sync" ELSE @]
            /\ UNCHANGED store
       ELSE Fail
    /\ UNCHANGED setting

SyncUnlinked(ok) ==
    /\ job.at = "unlink_sync"
    /\ UNCHANGED <<committed, uncertain>>
    /\ IF ok THEN SyncAll /\ Proceed(job.then) /\ UNCHANGED store ELSE Fail
    /\ UNCHANGED setting

-----------------------------------------------------------------------------
(* Opening and reconciling *)

\* Mutant: the empty index of a new directory is left to the first save.
OpenLazily(scope, limits, managed) ==
    LET new == [Closed EXCEPT !.scope = scope, !.limits = limits, !.managed = managed] IN
    /\ ~store.open /\ Idle
    /\ job' = [NoJob EXCEPT !.why = "open", !.at = "scan", !.index = disk.index.entries,
                            !.allowance = limits.max_bytes]
    /\ store' = new
    /\ UNCHANGED <<disk, after, committed, uncertain>>
    /\ UNCHANGED setting

\* open and open_managed: take the lock, read the index or publish an empty one.
Open(scope, limits, managed) ==
    LET new == [Closed EXCEPT !.scope = scope, !.limits = limits, !.managed = managed]
        reading == [NoJob EXCEPT !.why = "open", !.allowance = limits.max_bytes]
    IN  /\ ~store.open /\ Idle
        /\ IF disk.index.present
           THEN /\ ValidIndex(disk.index.entries)
                /\ job' = [reading EXCEPT !.at = "scan", !.index = disk.index.entries]
           ELSE /\ \A s \in Slots : disk.payload[s] = NoLeaf
                /\ job' = [reading EXCEPT !.at = "index", !.then = "scan"]
        /\ store' = new
        /\ UNCHANGED <<disk, after, committed, uncertain>>
        /\ UNCHANGED setting

\* Entries whose leaf is missing or has another length.
Unfit(index) == {e \in ToSet(index) : ~LengthMatches(disk.payload[e.slot], e)}

\* reconcile_and_prune, its three parts.
Scan(ok) ==
    LET unfit == Unfit(job.index) IN
    /\ job.at = "scan"
    /\ UNCHANGED uncertain
    /\ CASE ~ok -> Fail
         [] ok /\ unfit = {} ->
              Proceed("prune") /\ UNCHANGED <<Directory, store, committed>>
         [] OTHER ->
              /\ job' = [job EXCEPT !.at = "index", !.then = "prune",
                                    !.drop = {e.slot : e \in unfit},
                                    !.candidate = Without(job.index, unfit)]
              /\ UNCHANGED <<Directory, store, committed>>
    /\ UNCHANGED setting

Prune ==
    LET kept == Pruned(job.index, store.limits, job.allowance) IN
    /\ job.at = "prune"
    /\ job' = IF kept = job.index
              THEN [job EXCEPT !.at = "sweep", !.allowance = 0]
              ELSE [job EXCEPT !.at = "index", !.then = "sweep", !.allowance = 0,
                               !.drop = SlotsOf(job.index) \ SlotsOf(kept),
                               !.candidate = kept]
    /\ committed' = committed \ (KeysOf(job.index) \ KeysOf(kept))
    /\ UNCHANGED <<Directory, store, uncertain>>
    /\ UNCHANGED setting

\* cleanup_unindexed.  `temporary`: a temporary leaf was there as well.
Sweep(temporary) ==
    LET orphans == {s \in Slots \ SlotsOf(job.index) : disk.payload[s] # NoLeaf}
        next == IF job.why = "save" THEN "admit" ELSE "end"
    IN  /\ job.at = "sweep"
        /\ job' = [job EXCEPT
                      !.drop = orphans,
                      !.then = next,
                      !.at = IF orphans # {} THEN "unlink"
                             ELSE IF temporary THEN "unlink_sync" ELSE next]
        /\ UNCHANGED <<Directory, store, committed, uncertain>>
        /\ UNCHANGED setting

\* ManagedCache::reserve grants part of the shared budget.
Allowances ==
    IF store.managed THEN 0 .. store.limits.max_bytes ELSE {store.limits.max_bytes}

-----------------------------------------------------------------------------
(* Saving *)

\* save, up to the cleanup.  Its other early returns change nothing.
Save(tokens) ==
    LET key == [scope |-> store.scope, tokens |-> tokens] IN
    /\ Ready
    /\ ~store.writes_disabled
    /\ key \notin KeysOf(store.index)
    /\ Len(tokens) <= store.limits.max_file
    /\ Len(tokens) <= store.limits.max_bytes
    /\ job' = [NoJob EXCEPT !.why = "save", !.at = "sweep",
                            !.key = key, !.index = store.index]
    /\ UNCHANGED <<disk, after, store, committed, uncertain>>
    /\ UNCHANGED setting

\* The first slot no entry of the current index has.
SpareSlot(index) ==
    CHOOSE s \in Slots \ SlotsOf(index) : \A t \in Slots \ SlotsOf(index) : s <= t

\* The entries a save keeps, and its new one.
Kept(allowance) ==
    LET older == IF store.limits.mode = "Full"
                 THEN Superseded(store.index, job.key.scope, job.key.tokens) ELSE {}
    IN  Spared(Without(store.index, older), store.limits.max_entries, allowance,
               Len(job.key.tokens))

NewEntry(slot) == [slot |-> slot, key |-> job.key]

\* The checks of a plan before the payload is written.
Publishable(slot, candidate) == disk.payload[slot] = NoLeaf /\ ValidIndex(candidate)

\* Admission: too little room left turns the save into a reconciliation.
Admit(allowance, ok) ==
    LET slot == SpareSlot(store.index)
        kept == Kept(allowance)
        candidate == Append(kept, NewEntry(slot))
    IN
    /\ job.at = "admit"
    /\ ok \/ store.managed
    /\ UNCHANGED uncertain
    /\ CASE ~ok -> Fail
         [] ok /\ Len(job.key.tokens) > allowance ->
              /\ job' = [NoJob EXCEPT !.why = "shrink", !.at = "scan",
                                      !.index = store.index, !.allowance = allowance]
              /\ UNCHANGED <<Directory, store, committed>>
         [] ok /\ Len(job.key.tokens) <= allowance /\ ~Publishable(slot, candidate) -> Fail
         [] OTHER ->
              /\ job' = [job EXCEPT !.at = "payload", !.slot = slot, !.then = "end",
                                    !.drop = SlotsOf(store.index) \ SlotsOf(kept),
                                    !.index = <<>>, !.candidate = candidate]
              /\ committed' = committed \ (KeysOf(store.index) \ KeysOf(kept))
              /\ UNCHANGED <<Directory, store>>
    /\ UNCHANGED setting

\* Write, sync and rename the payload into its slot.
PublishPayload(ok) ==
    /\ job.at = "payload"
    /\ UNCHANGED uncertain
    /\ IF ok /\ disk.payload[job.slot] = NoLeaf
       THEN /\ Rename(job.slot, Whole(job.key))
            /\ Proceed("payload_sync")
            /\ UNCHANGED <<store, committed>>
       ELSE Fail
    /\ UNCHANGED setting

SyncPayload(ok) ==
    /\ job.at = "payload_sync"
    /\ IF ok THEN SyncAll /\ Proceed("index") /\ UNCHANGED <<store, committed>> ELSE Fail
    /\ uncertain' = (uncertain \/ ~ok)
    /\ UNCHANGED setting

\* No index rename occurred: the new leaf is removed, errors are ignored.
UndoPayload(ok) ==
    /\ job.at = "undo"
    /\ IF ok THEN Rename(job.slot, NoLeaf) ELSE UNCHANGED Directory
    /\ Proceed("undo_sync")
    /\ UNCHANGED <<store, committed, uncertain>>
    /\ UNCHANGED setting

SyncUndone(ok) ==
    /\ job.at = "undo_sync"
    /\ IF ok THEN SyncAll ELSE UNCHANGED Directory
    /\ Return
    /\ UNCHANGED <<store, committed, uncertain>>
    /\ UNCHANGED setting

-----------------------------------------------------------------------------
(* Loading *)

LoadMatch(tokens) ==
    /\ Ready
    /\ ~store.restores_disabled
    /\ job' = [NoJob EXCEPT !.why = "load", !.at = "try",
                  !.todo = Matching(store.index, store.scope, tokens, store.dead_slots)]
    /\ UNCHANGED <<disk, after, store, committed, uncertain>>
    /\ UNCHANGED setting

\* Mutant: the payload goes before the entry that names it.
RemoveLeafFirst(e) ==
    /\ store' = [store EXCEPT !.dead_slots = @ \union {e.slot}]
    /\ job' = [job EXCEPT !.todo = @ \ {e}, !.why = "invalid", !.at = "unlink",
                          !.slot = e.slot, !.drop = {e.slot}, !.then = "end",
                          !.candidate = Without(store.index, {e})]

\* remove_invalid
RemoveInvalid(e) ==
    /\ store' = [store EXCEPT !.dead_slots = @ \union {e.slot}]
    /\ job' = IF store.writes_disabled
              THEN [job EXCEPT !.todo = @ \ {e}]
              ELSE [job EXCEPT !.todo = @ \ {e}, !.why = "invalid", !.at = "index",
                               !.slot = e.slot, !.drop = {e.slot}, !.then = "end",
                               !.candidate = Without(store.index, {e})]

\* touch_after_restore
TouchAfterRestore(e) ==
    /\ IF store.writes_disabled \/ e.slot \notin SlotsOf(store.index)
       THEN Return
       ELSE job' = [NoJob EXCEPT !.why = "touch", !.at = "index", !.then = "end",
                               !.candidate = Append(Without(store.index, {e}), e)]
    /\ UNCHANGED store

\* Mutant: a payload that cannot be read just now is taken for an invalid one.
TryMatchOrRemove(ok) ==
    /\ job.at = "try"
    /\ UNCHANGED <<disk, after, committed, uncertain>>
    /\ IF job.todo = {} THEN Return /\ UNCHANGED store
       ELSE LET e == Longest(job.todo) IN
            IF ok /\ disk.payload[e.slot] = Whole(e.key)
            THEN TouchAfterRestore(e) ELSE RemoveInvalid(e)
    /\ UNCHANGED setting

\* One match of load_match: open, validate and restore it.
TryMatch(ok) ==
    /\ job.at = "try"
    /\ UNCHANGED <<disk, after, committed, uncertain>>
    /\ CASE job.todo = {} -> Return /\ UNCHANGED store
         [] job.todo # {} /\ ~ok ->
              store' = [store EXCEPT !.restores_disabled = TRUE] /\ Return
         [] OTHER ->
              LET e == Longest(job.todo) IN
              IF disk.payload[e.slot] = Whole(e.key)
              THEN TouchAfterRestore(e) ELSE RemoveInvalid(e)
    /\ UNCHANGED setting

-----------------------------------------------------------------------------
(* Returning *)

\* The operation has taken all its steps.  An invalid entry is gone and the
\* load goes on; open_managed reconciles once more with what it was granted.
Finish(allowance, ok) ==
    /\ job.at = "end"
    /\ ok \/ (job.why = "open" /\ store.managed)
    /\ UNCHANGED <<disk, after, uncertain>>
    /\ committed' = IF job.why = "save" /\ disk.payload[job.slot] = Whole(job.key)
                    THEN committed \union {job.key} ELSE committed
    /\ \/ ~ok /\ store' = Closed /\ Return
       \/ /\ ok /\ job.why = "open" /\ store.managed
          /\ job' = [job EXCEPT !.why = "managed", !.at = "scan", !.allowance = allowance]
          /\ UNCHANGED store
       \/ /\ ok /\ Reconciling /\ ~(job.why = "open" /\ store.managed)
          /\ store' = [store EXCEPT !.open = TRUE, !.index = job.index]
          /\ Return
       \/ /\ job.why = "invalid"
          /\ store' = [store EXCEPT !.dead_slots = @ \ {job.slot}]
          /\ job' = [job EXCEPT !.why = "load", !.at = "try", !.then = "none", !.slot = 0]
       \/ job.why \in {"save", "touch"} /\ Return /\ UNCHANGED store
    /\ UNCHANGED setting

-----------------------------------------------------------------------------
(* The environment *)

\* The process ends; the directory stays as it is.
Exit ==
    /\ store # Closed
    /\ store' = Closed
    /\ job' = NoJob
    /\ uncertain' = FALSE
    /\ UNCHANGED <<disk, after, committed>>
    /\ UNCHANGED setting

\* Power is lost.
PowerFailure ==
    /\ disk' \in after
    /\ after' = {disk'}
    /\ store' = Closed
    /\ job' = NoJob
    /\ uncertain' = FALSE
    /\ UNCHANGED committed
    /\ UNCHANGED setting

\* A payload is removed, truncated or overwritten by something else.
Damage(slot, harm) ==
    LET leaf == [state |-> harm, key |-> NoKey] IN
    /\ disk.payload[slot].state = "whole"
    /\ \A d \in after : d.payload[slot] = disk.payload[slot]
    /\ disk' = SetLeaf(disk, slot, leaf)
    /\ after' = {SetLeaf(d, slot, leaf) : d \in after}
    /\ committed' = committed \ {disk.payload[slot].key}
    /\ UNCHANGED <<store, job, uncertain>>
    /\ UNCHANGED setting

-----------------------------------------------------------------------------

FileStep ==
    \E ok \in Outcomes :
        \/ PublishIndex(ok) \/ SyncIndex(ok)
        \/ Unlink(ok) \/ SyncUnlinked(ok)
        \/ PublishPayload(ok) \/ SyncPayload(ok)
        \/ UndoPayload(ok) \/ SyncUndone(ok)
        \/ Scan(ok) \/ TryMatch(ok)

StoreStep ==
    \/ \E scope \in Scopes, limits \in setting.limits : Open(scope, limits, setting.managed)
    \/ \E tokens \in setting.histories : Save(tokens) \/ LoadMatch(tokens)
    \/ Prune
    \/ \E temporary \in BOOLEAN : Sweep(temporary)
    \/ /\ job.at \in {"admit", "end"}
       /\ \E allowance \in Allowances, ok \in Outcomes :
            Admit(allowance, ok) \/ Finish(allowance, ok)

Environment ==
    \/ Exit
    \/ PowerFailure
    \/ \E slot \in Slots, harm \in setting.harms : Damage(slot, harm)

Next == FileStep \/ StoreStep \/ Environment

Spec == Init /\ [][Next]_vars

-----------------------------------------------------------------------------
(* Properties *)

\* What each variable can hold.
TypeOK ==
    /\ after \subseteq Directories /\ disk \in after
    /\ store \in Stores
    /\ job \in Jobs
    /\ committed \subseteq Keys
    /\ uncertain \in BOOLEAN
    /\ setting \in Settings

\* A checkpoint whose save returned Ok(true), and that neither an eviction nor
\* damage has removed since, is found by the process that opens the directory
\* after any crash: the index that survives names it, and the leaf it names
\* holds exactly that checkpoint (save, publish_*, remove_invalid and
\* reconcile_and_prune order their renames, syncs and unlinks for this).
Durable ==
    \A key \in committed, d \in after :
        \E i \in DOMAIN d.index.entries :
            /\ d.index.entries[i].key = key
            /\ d.payload[d.index.entries[i].slot] = Whole(key)

\* Whatever crash happens and wherever, every entry of the surviving index
\* names a leaf that holds its own conversation, unless something else has
\* damaged it: payloads are published before the entry that names them, and
\* unlinked or replaced only after the index has let go of them (on a file
\* system where directory changes survive in order).  A managed store that
\* fails to finish reconciling inside a save keeps entries in memory whose leaf
\* is gone, and may publish them again; the leaf is never another one's.
EntriesOwnLeaves ==
    setting.ordered => \A d \in after : \A i \in DOMAIN d.index.entries :
        LET e == d.index.entries[i]
            leaf == d.payload[e.slot]
        IN  leaf = Whole(e.key) \/ leaf.state \in setting.harms \/ (setting.managed /\ leaf = NoLeaf)

\* After any crash the directory can be opened again: the surviving index is
\* valid, and without an index there is no payload (initialize_or_read_index
\* refuses such a directory for good), if directory changes survive in order.
Reopenable ==
    setting.ordered => \A d \in after :
        IF d.index.present THEN ValidIndex(d.index.entries)
        ELSE \A s \in Slots : d.payload[s] = NoLeaf

\* An open store keeps its published index within the limits it was given.
LimitsHeld ==
    store.open =>
        Within(disk.index.entries, store.limits.max_entries, store.limits.max_bytes)

\* A step of the store, as opposed to damage from outside.
StoreActs == job' # job

\* Once a directory sync has failed after a rename, this process changes
\* nothing in the directory any more, neither saves nor LRU touches nor the
\* removal of invalid entries: both outcomes of the rename stay usable until
\* the next open.
UncertainFrozen == [][uncertain /\ uncertain' /\ StoreActs => disk' = disk]_vars

\* The same of a store that shares no budget: only save, load and open change
\* its directory, and each of them stops for good after an uncertain rename.
ExplicitFrozen ==
    [][~setting.managed /\ uncertain /\ uncertain' /\ StoreActs => disk' = disk]_vars

=============================================================================
