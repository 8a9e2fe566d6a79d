---------------------------- MODULE PrefillOverlap ----------------------------
(***************************************************************************)
(* Batched prefill through one layer's expert pool: the bounded branch of  *)
(* the batch MLP (src/mlp_batch.rs), PrefillLoadScope and the two loaders  *)
(* of BoundedExperts (src/experts.rs), over the ordered command stream of  *)
(* src/metal.rs.  A batch that demands more experts than the pool holds is *)
(* cut into groups of half the capacity, and the rows of one group are     *)
(* loaded while the device still reads those of the group before.          *)
(*                                                                         *)
(* A command is the slots it reads; the other layers' commands pass        *)
(* through the same stream and read other pools, so they are left out.     *)
(***************************************************************************)
EXTENDS ExpertPool, Sequences

CONSTANTS
    TopK,        \* distinct experts of one token
    Capacities,  \* expert capacities the engine moves between
    Outcomes     \* what reads, writes, encoders and commands may do

ASSUME PrefillAssumption ==
    /\ TopK \in Nat \ {0, 1}
    /\ Capacities \subseteq TopK .. MaxSlots /\ Capacities # {}
    /\ Outcomes \subseteq BOOLEAN /\ TRUE \in Outcomes

\* The experts one batch may select.
Demands == {d \in SUBSET Sources : Cardinality(d) >= TopK}

VARIABLES
    pool,     \* the layer's expert pool
    pc,       \* where the owner is
    plan,     \* the groups of the batch that are still to be read, in order
    demand,   \* history: the experts the batch selected
    covered,  \* history: those a reader has been encoded for
    overlap,  \* the batch goes through a PrefillLoadScope
    groups,   \* PrefillLoadScope.groups; `mark` is sequence - Stream.retired
    slot,     \* the slot being overwritten, or Absent
    active,   \* Stream.active: the readers that are not submitted
    queue,    \* Stream.pending: submitted commands, oldest first
    ran       \* commands the device has completed

owner == <<pc, plan, demand, covered, overlap, groups, slot>>
stream == <<active, queue, ran>>
vars == <<pool, owner, stream>>

Maps == UNION {[d -> 1 .. MaxSlots] : d \in SUBSET Sources}
Places == {"idle", "routing", "enter", "retire", "load", "write", "encode", "drain"}

\* What each variable can hold.
TypeOK ==
    /\ pool \in Pools
    /\ pc \in Places
    /\ \A i \in 1 .. Len(plan) : plan[i] \in SUBSET Sources
    /\ demand \in SUBSET Sources /\ covered \in SUBSET Sources
    /\ overlap \in BOOLEAN
    /\ Len(groups) <= 2
    /\ \A i \in 1 .. Len(groups) : groups[i].map \in Maps /\ groups[i].mark \in Nat
    /\ slot \in 0 .. MaxSlots
    /\ active \in SUBSET Maps
    /\ \A i \in 1 .. Len(queue) : queue[i].reads \subseteq Maps /\ queue[i].error \in BOOLEAN
    /\ ran \in 0 .. Len(queue)

Init ==
    /\ \E c \in Capacities : pool = EmptyPool(c)
    /\ pc = "idle"
    /\ plan = <<>>
    /\ demand = {} /\ covered = {}
    /\ overlap = FALSE
    /\ groups = <<>>
    /\ slot = Absent
    /\ active = {}
    /\ queue = <<>>
    /\ ran = 0

-----------------------------------------------------------------------------
(* The stream *)

Submitted(reads) == [reads |-> reads, error |-> FALSE]

\* Some encoded or unretired command holds the pool's buffers (reserved_by).
Reserved ==
    \/ active # {}
    \/ \E i \in 1 .. Len(queue) : queue[i].reads # {}

\* drain_through the first n commands.
Retirable(n) == ran >= n
Retire(n) ==
    /\ queue' = SubSeq(queue, n + 1, Len(queue))
    /\ ran' = ran - n
Failed(n) == \E i \in 1 .. n : queue[i].error

\* An error: unsubmitted work is cancelled, and what was submitted is drained
\* before the scope gives up the pool or the caller the stream.
Abort ==
    /\ pc' = "drain"
    /\ active' = {}

Drained ==
    /\ pc = "drain"
    /\ Retirable(Len(queue))
    /\ Retire(Len(queue))
    /\ pc' = "idle"
    /\ plan' = <<>>
    /\ demand' = {} /\ covered' = {}
    /\ overlap' = FALSE
    /\ groups' = <<>>
    /\ slot' = Absent
    /\ UNCHANGED <<pool, active>>

-----------------------------------------------------------------------------
(* Planning *)

\* sorted_chunks: two neighbouring groups fit the pool together.
GroupSize(capacity) == capacity \div 2

Rank(s, set) == Cardinality({t \in set : t < s})

\* Mutant: the last, incomplete group is forgotten.
PlannedRoundsDown(all, capacity) ==
    IF Cardinality(all) <= capacity THEN <<all>>
    ELSE LET size == GroupSize(capacity)
             count == Cardinality(all) \div size
         IN  [i \in 1 .. count |-> {s \in all : Rank(s, all) \div size = i - 1}]

\* planned_chunks: one group if everything fits, else source-ordered groups.
Planned(all, capacity) ==
    IF Cardinality(all) <= capacity THEN <<all>>
    ELSE LET size == GroupSize(capacity)
             count == (Cardinality(all) + size - 1) \div size
         IN  [i \in 1 .. count |-> {s \in all : Rank(s, all) \div size = i - 1}]

-----------------------------------------------------------------------------
(* The batch MLP *)

\* Encode and submit the router, behind whatever the stream still holds.
Route(all) ==
    /\ pc = "idle"
    /\ demand = {}
    /\ demand' = all
    /\ covered' = {}
    /\ queue' = Append(queue, Submitted(active))
    /\ active' = {}
    /\ pc' = "routing"
    /\ UNCHANGED <<pool, plan, overlap, groups, slot, ran>>

\* wait_through the router, read its choice and plan the groups.
Routed ==
    LET chunks == Planned(demand, pool.capacity) IN
    /\ pc = "routing"
    /\ Retirable(Len(queue))
    /\ Retire(Len(queue))
    /\ IF Failed(Len(queue)) THEN Abort /\ UNCHANGED <<plan, overlap>>
       ELSE /\ plan' = chunks
            /\ overlap' = (Len(chunks) > 1)
            /\ pc' = "enter"
            /\ UNCHANGED active
    /\ UNCHANGED <<pool, demand, covered, groups, slot>>

\* PrefillLoadScope::new, or the overwrite boundary of a single group.
EnterRefused == Reserved

Enter ==
    /\ pc = "enter"
    /\ ~EnterRefused
    /\ pc' = IF overlap THEN "retire" ELSE "load"
    /\ UNCHANGED <<pool, plan, demand, covered, overlap, groups, slot, stream>>

\* Mutant: the loader does not wait for the group before the last.
RetireNothing ==
    /\ pc = "retire"
    /\ groups' = IF Len(groups) = 2 THEN Tail(groups) ELSE groups
    /\ pc' = "load"
    /\ UNCHANGED <<pool, plan, demand, covered, overlap, slot, stream>>

\* retire_previous: of two groups the older one must have been read.
RetirePrevious ==
    /\ pc = "retire"
    /\ IF Len(groups) = 2
       THEN LET n == groups[1].mark IN
            /\ Retirable(n)
            /\ Retire(n)
            /\ IF Failed(n) THEN Abort /\ UNCHANGED groups
               ELSE /\ groups' = <<[groups[2] EXCEPT !.mark = @ - n]>>
                    /\ pc' = "load"
                    /\ UNCHANGED active
       ELSE pc' = "load" /\ UNCHANGED <<groups, stream>>
    /\ UNCHANGED <<pool, plan, demand, covered, overlap, slot>>

\* What the loader must not evict, and must not overwrite.
ReaderSources == UNION {DOMAIN groups[i].map : i \in 1 .. Len(groups)}
ReaderSlots == UNION {{groups[i].map[s] : s \in DOMAIN groups[i].map} : i \in 1 .. Len(groups)}
Protected == plan[1] \union ReaderSources

\* The next missing row has been read; a victim is chosen and unpublished.
Evict ==
    /\ pc = "load"
    /\ Missing(pool, plan[1]) # {}
    /\ Cardinality(Protected) <= pool.capacity
    /\ slot' \in ChooseSlot(pool, Protected)
    /\ pool' = Unpublish(pool, slot')
    /\ pc' = "write"
    /\ UNCHANGED <<plan, demand, covered, overlap, groups, stream>>

WriteRow ==
    /\ pc = "write"
    /\ slot \notin ReaderSlots
    /\ pool' = Publish(pool, First(Missing(pool, plan[1])), slot)
    /\ slot' = Absent
    /\ pc' = "load"
    /\ UNCHANGED <<plan, demand, covered, overlap, groups, stream>>

\* A row that cannot be read, or a write that stops half way.
LoadFails ==
    /\ pc \in {"load", "write"}
    /\ Abort
    /\ UNCHANGED <<pool, plan, demand, covered, overlap, groups, slot, queue, ran>>

\* The group is resident; its readers' slots are captured before encoding.
Captured == [s \in plan[1] |-> pool.slot_of[s]]

Loaded ==
    /\ pc = "load"
    /\ Missing(pool, plan[1]) = {}
    /\ groups' = IF overlap THEN Append(groups, [map |-> Captured, mark |-> 0]) ELSE groups
    /\ pc' = "encode"
    /\ UNCHANGED <<pool, plan, demand, covered, overlap, slot, stream>>

\* Mutant: the marker is taken and the batch is left unsubmitted.
SubmitLater ==
    /\ pc = "encode"
    /\ overlap
    /\ active' = active \union {groups[Len(groups)].map}
    /\ groups' = [groups EXCEPT ![Len(groups)].mark = Len(queue) + 1]
    /\ covered' = covered \union plan[1]
    /\ plan' = Tail(plan)
    /\ pc' = IF Len(plan) = 1 THEN "idle" ELSE "retire"
    /\ UNCHANGED <<pool, demand, overlap, slot, queue, ran>>

\* submit_group: encode the group's kernels and submit them with a marker.
SubmitGroup ==
    /\ pc = "encode"
    /\ overlap
    /\ queue' = Append(queue, Submitted(active \union {groups[Len(groups)].map}))
    /\ active' = {}
    /\ groups' = [groups EXCEPT ![Len(groups)].mark = Len(queue')]
    /\ covered' = covered \union plan[1]
    /\ plan' = Tail(plan)
    /\ pc' = IF Len(plan) = 1 THEN "idle" ELSE "retire"
    /\ UNCHANGED <<pool, demand, overlap, slot, ran>>

\* A single group is encoded and left to a later flush.
EncodeGroup ==
    /\ pc = "encode"
    /\ ~overlap
    /\ active' = active \union {Captured}
    /\ covered' = covered \union plan[1]
    /\ plan' = Tail(plan)
    /\ pc' = "idle"
    /\ UNCHANGED <<pool, demand, overlap, groups, slot, queue, ran>>

EncodeFails ==
    /\ pc = "encode"
    /\ Abort
    /\ UNCHANGED <<pool, plan, demand, covered, overlap, groups, slot, queue, ran>>

\* The MLP returns: `finish` gives up the scope, the last readers stay out.
Return ==
    /\ pc = "idle"
    /\ demand # {}
    /\ demand' = {} /\ covered' = {}
    /\ overlap' = FALSE
    /\ groups' = <<>>
    /\ UNCHANGED <<pool, pc, plan, slot, stream>>

-----------------------------------------------------------------------------
(* Between batches *)

\* Stream::wait at a control point, or the end or cancellation of the forward.
Settle(keep) ==
    /\ pc = "idle"
    /\ demand = {}
    /\ Reserved
    /\ queue' = IF keep THEN Append(queue, Submitted(active)) ELSE queue
    /\ active' = {}
    /\ pc' = "drain"
    /\ UNCHANGED <<pool, plan, demand, covered, overlap, groups, slot, ran>>

\* shrink_expert_capacity or recover_expert_capacity at a completed boundary.
Resize(target) ==
    /\ pc = "idle"
    /\ demand = {}
    /\ ~Reserved
    /\ target # pool.capacity
    /\ pool' = IF target < pool.capacity THEN Release(pool, target) ELSE Grow(pool, target)
    /\ UNCHANGED <<owner, stream>>

-----------------------------------------------------------------------------
(* The device completes one command after the other *)

GpuCompletes(ok) ==
    /\ ran < Len(queue)
    /\ ran' = ran + 1
    /\ queue' = [queue EXCEPT ![ran + 1].error = ~ok]
    /\ UNCHANGED <<pool, owner, active>>

-----------------------------------------------------------------------------

OwnerStep ==
    \/ Routed \/ Enter \/ RetirePrevious \/ Evict \/ WriteRow \/ Loaded
    \/ SubmitGroup \/ EncodeGroup \/ Return \/ Drained

OwnerFails == LoadFails \/ EncodeFails

GpuStep == \E ok \in Outcomes : GpuCompletes(ok)

Next ==
    \/ OwnerStep
    \/ GpuStep
    \/ FALSE \in Outcomes /\ OwnerFails
    \/ \E all \in Demands : Route(all)
    \/ \E keep \in BOOLEAN : Settle(keep)
    \/ \E target \in Capacities : Resize(target)

Spec == Init /\ [][Next]_vars

\* The owner runs, and the device completes what it was given.
FairSpec == Spec /\ WF_vars(OwnerStep) /\ WF_vars(GpuStep)

-----------------------------------------------------------------------------
(* Properties *)

\* At every step what the pool publishes is really there.
PoolIsSound == PoolSound(pool)

\* Until a reader has run to its end, every slot it was encoded to read holds
\* the complete row of the expert it was captured for: while the next group is
\* loaded, after the scope is gone, across failures and resizes.
ReadersIntact ==
    \A map \in active \union UNION {queue[i].reads : i \in ran + 1 .. Len(queue)} :
        \A s \in DOMAIN map : pool.bytes[map[s]] = s

\* A batch that returns without error has read every expert it selected.
BatchComplete == pc = "idle" => covered = demand

\* Every batch ends, and not by a check on the way: the pool is writable on
\* entry, each group fits beside the readers still out, a victim exists, and
\* it has no outstanding reader.  A batch that met one of these refusals
\* would be stuck here.
BatchEnds == pc # "idle" ~> pc = "idle"

=============================================================================
