--------------------------- MODULE ServingMemory ---------------------------
(***************************************************************************)
(* The life of a server's memory: parse the options, admit a capacity,     *)
(* load, construct, serve; grow and release the expert pools of every      *)
(* layer; change the prefill workspace for a long prompt; extend a session *)
(* whose cache backings double (src/src/main.rs, server.rs, engine.rs,     *)
(* engine/expert_capacity.rs, experts/chunks.rs, engine/prefill.rs,        *)
(* generation/request_resources.rs, kvarn.rs, qsa_index.rs).               *)
(*                                                                         *)
(* Live adds up what is really allocated at each step, independently of    *)
(* the estimate the admission made of it. Who decides to grow, release or  *)
(* widen is AdaptiveMemory's subject; here any of it may happen whenever   *)
(* the budget arithmetic lets it.                                          *)
(***************************************************************************)
EXTENDS ServeCommand, SequencesExt

CONSTANTS
    Commands,    \* command lines and where they run: [args, host, env, root]
    MaxChunks    \* segments one layer's storage may have

VARIABLES
    stage,       \* where the process is
    cfg,         \* the command, then the options resolved from it
    admitted,    \* the plan: estimate, plan, rows
    control,     \* ExpertCapacityControlBudget, or Refused when there is none
    wide,        \* PhasedPrefill's budget of the wide phase, or Refused
    phase,       \* PhasedPrefill: "no", "enter", "wide" or "leave"
    goal,        \* the expert capacity a phase yields to
    capacity,    \* Engine::expert_capacity
    pools,       \* each layer's storage: its chunks and what is prepared
    change,      \* a growth in progress: [target, bytes]
    width,       \* Prefill::capacity
    scratch,     \* rows of the allocated workspace, 0 when there is none
    frontier,    \* tokens of the live session
    backing,     \* each QSA layer's cache: [records, groups, old]
    step         \* the running chunk: [rows, layer]

vars == <<stage, cfg, admitted, control, wide, phase, goal, capacity, pools, change,
          width, scratch, frontier, backing, step>>

None == [none |-> TRUE]
Idle == [rows |-> 0, layer |-> 0]
Unloaded == [chunks |-> <<>>, prepared |-> <<>>, tables |-> 0]
NoBacking == [records |-> 0, groups |-> 0, old |-> 0]

-----------------------------------------------------------------------------
(* Chunked expert storage. A chunk is the interval <<first, end>> of slots *)
(* it holds.                                                               *)

\* growth_ranges: new chunks end at the next slab boundary or at the target.
RECURSIVE GrowthRanges(_, _)
GrowthRanges(from, target) ==
    IF from >= target THEN <<>>
    ELSE LET end == Min({(from \div ChunkSlots + 1) * ChunkSlots, target})
         IN <<<<from, end>>>> \o GrowthRanges(end, target)

ChunkBytes(chunks) ==
    FoldLeft(LAMBDA sum, c : sum + (c[2] - c[1]) * Cost.slot, 0, chunks)

\* FixedChunks::new, or contiguous storage for full residency.
LoadedPool(slots) ==
    [chunks |-> IF slots = FullSlots THEN <<<<0, slots>>>> ELSE GrowthRanges(0, slots),
     prepared |-> <<>>,
     tables |-> IF slots = FullSlots THEN 0 ELSE 1]

\* prepare_suffix: a release ends at an existing chunk boundary.
Releasable(pool, target) == \E i \in DOMAIN pool.chunks : pool.chunks[i][2] = target
ReleasedPool(pool, target) ==
    [pool EXCEPT !.chunks = SelectSeq(pool.chunks, LAMBDA c : c[2] <= target)]

\* quote_growth: refused for full storage, beyond the bounded extent and
\* beyond the segment limit.
Growable(pool, target) ==
    /\ pool.tables = 1
    /\ target < FullSlots
    /\ Len(pool.chunks) + Len(GrowthRanges(capacity, target)) <= MaxChunks
QuotePool(target) == ChunkBytes(GrowthRanges(capacity, target)) + Cost.table
Quote(target) == LayerCount * QuotePool(target)

\* prepare_growth: new chunks and a second address table beside the first.
PreparedPool(pool, target) ==
    [pool EXCEPT !.prepared = GrowthRanges(capacity, target), !.tables = 2]
CommittedPool(pool) ==
    [pool EXCEPT !.chunks = pool.chunks \o pool.prepared,
                 !.prepared = <<>>, !.tables = 1]
DroppedPoolKept(pool) == [pool EXCEPT !.tables = Min({pool.tables, 1})]
DroppedPool(pool) ==
    [pool EXCEPT !.prepared = <<>>, !.tables = Min({pool.tables, 1})]

-----------------------------------------------------------------------------
(* Session backings. *)

\* record_growth_target and compressed_growth_target: double, but not past
\* what the context limit can ever need, and at least what is needed now.
RecordGrowth(next, have) ==
    LET need == RecordTiles(next)
    IN IF need <= have THEN have
       ELSE Max({need, Min({2 * Max({have, 1}), RecordTiles(cfg.context)})})
GroupGrowth(next, have) ==
    LET need == next \div Ratio
    IN IF need <= have THEN have
       ELSE Max({need, Min({2 * have, cfg.context \div Ratio})})

\* zero and from_buffers: exact storage for the frontier, never an empty
\* compressed allocation.
FreshBacking(f) ==
    [records |-> RecordTiles(f), groups |-> Max({f \div Ratio, 1}), old |-> 0]

\* A replaced backing stays alive until the stream retires the copy.
GrownBacking(b, next) ==
    LET records == RecordGrowth(next, b.records)
        groups == GroupGrowth(next, b.groups)
    IN [records |-> records, groups |-> groups,
        old |-> (IF records # b.records THEN b.records * Cost.record ELSE 0)
                + (IF groups # b.groups THEN b.groups * Cost.group ELSE 0)]

BackingBytes(b) ==
    IF b = NoBacking THEN 0
    ELSE b.records * Cost.record + (b.groups + Ratio) * Cost.group + b.old

-----------------------------------------------------------------------------
(* What is allocated now. *)

SumOver(S, f(_)) == FoldSet(LAMBDA x, acc : f(x) + acc, 0, S)

PoolBytes(pool) ==
    ChunkBytes(pool.chunks) + ChunkBytes(pool.prepared)
    + pool.tables * Cost.table + (IF pool.tables > 0 THEN Cost.ready ELSE 0)

Loading == stage = "load"
Running == stage \in {"idle", "step", "grow"}

Live ==
    Direct + Cost.core + Cost.allowance
    + SumOver(Layers, LAMBDA l : PoolBytes(pools[l]))
    + (IF scratch = 0 THEN 0 ELSE Scratch(cfg.context, scratch))
    + (IF Loading \/ stage = "construct"
       THEN ReaderWorkspace(capacity) ELSE 0)
    + (IF Loading
       THEN Max({LargestDirect, (capacity + 1) * Cost.projection}) ELSE 0)
    + (IF Running
       THEN FixedSession + cfg.retained + DiskIo(cfg)
            + SumOver(QsaLayers, LAMBDA l : BackingBytes(backing[l]))
            + (IF stage = "step" THEN RuntimeWorkspace(step.rows, capacity)
               ELSE ReaderWorkspace(capacity))
       ELSE 0)

Envelope ==
    IF ~ IsRefused(control) /\ Running THEN control.budget ELSE admitted.plan.budget

-----------------------------------------------------------------------------
(* Start-up. *)

Init ==
    /\ stage = "parse"
    /\ cfg \in Commands
    /\ admitted = None /\ control = Refused /\ wide = Refused
    /\ phase = "no" /\ goal = 0
    /\ capacity = 0
    /\ pools = [l \in Layers |-> Unloaded]
    /\ change = None
    /\ width = 0 /\ scratch = 0 /\ frontier = 0
    /\ backing = [l \in QsaLayers |-> NoBacking]
    /\ step = Idle

\* run_serve before resolve_capacity: no byte of the package is read yet.
ParseCommand ==
    /\ stage = "parse"
    /\ IF IsRefused(Options(cfg))
       THEN stage' = "refused" /\ UNCHANGED cfg
       ELSE stage' = "resolve" /\ cfg' = Options(cfg)
    /\ UNCHANGED <<admitted, control, wide, phase, goal, capacity, pools, change, width,
                   scratch, frontier, backing, step>>

\* resolve_capacity without --expert-capacity, then the budget of adaptive
\* serving and its own operating envelope.
ResolvedPlan ==
    LET host == Observed(cfg.host)
        budget == IF IsRefused(host) THEN Refused
                  ELSE Clamp(AutomaticHostBudget(host), cfg.limit)
        planned == IF IsRefused(budget) THEN Refused
                   ELSE PlanOrdinaryCapacity(cfg.context, budget.bytes,
                                             cfg.retained, cfg.snapshot)
    IN IF IsRefused(planned) THEN Refused
       ELSE UpgradePrefillCapacity(cfg.context, planned, AutomaticRows)

ResolvedControl(plan) ==
    LET operating == OperatingHostBudget(cfg.host, cfg.limit)
    IN IF IsRefused(operating) THEN Refused
       ELSE WithOperatingBudget(ControlFromAdmission(plan), plan, operating.bytes)

\* Options whose plan, control budget or serving commitments do not hold
\* stop the process before anything is loaded.
Valid(plan, c, options) ==
    /\ ~ IsRefused(plan) /\ ~ IsRefused(options)
    /\ LimitsHold(options.disk)
    /\ AdaptiveEnabled(plan.plan.slots, cfg.adaptive) =>
          /\ ~ IsRefused(c)
          /\ ValidServing(c, cfg.context, plan.rows, cfg.retained, DiskIo(options))

Resolve ==
    /\ stage = "resolve" /\ cfg.fixed = 0
    /\ \E plan \in {ResolvedPlan}, options \in {PrepareRoot(cfg)} :
       \E c \in {IF IsRefused(plan) THEN Refused
                 ELSE IF AdaptiveEnabled(plan.plan.slots, cfg.adaptive)
                 THEN ResolvedControl(plan) ELSE Refused} :
         IF Valid(plan, c, options)
         THEN /\ stage' = "load"
              /\ cfg' = options
              /\ admitted' = plan
              /\ control' = c
              /\ capacity' = plan.plan.slots
         ELSE /\ stage' = "refused"
              /\ UNCHANGED <<cfg, admitted, control, capacity>>
    /\ UNCHANGED <<wide, phase, goal, pools, change, width, scratch, frontier,
                   backing, step>>

\* --expert-capacity: the slots are taken as given, without caches, memory
\* limit or control; only the wider workspace is checked against the host.
ResolveFixed ==
    LET host == Observed(cfg.host)
        budget == IF IsRefused(host) THEN Refused ELSE AutomaticHostBudget(host)
        rows == AdmittedRows(cfg.context, cfg.fixed, budget)
        e == EstimateFixed(cfg.context, cfg.fixed, rows, Cost.allowance)
    IN /\ stage = "resolve" /\ cfg.fixed # 0
       /\ stage' = "load"
       /\ admitted' = [estimate |-> e, rows |-> rows,
                       plan |-> [slots |-> cfg.fixed, budget |-> LargestPhase(e),
                                 peak |-> LargestPhase(e)]]
       /\ capacity' = cfg.fixed
       /\ UNCHANGED <<cfg, control, wide, phase, goal, pools, change, width, scratch,
                      frontier, backing, step>>

\* Engine::load: one layer's tensors and expert pool after the other.
LoadLayer ==
    /\ stage = "load"
    /\ \E l \in Layers :
         /\ pools[l] = Unloaded
         /\ \A m \in Layers : m < l => pools[m] # Unloaded
         /\ pools' = [pools EXCEPT ![l] = LoadedPool(capacity)]
    /\ UNCHANGED <<stage, cfg, admitted, control, wide, phase, goal, capacity, change,
                   width, scratch, frontier, backing, step>>

\* Prefill::new, after the load staging is gone.
ConstructPrefill ==
    /\ stage = "load"
    /\ \A l \in Layers : pools[l] # Unloaded
    /\ stage' = "construct"
    /\ width' = admitted.rows /\ scratch' = admitted.rows
    /\ UNCHANGED <<cfg, admitted, control, wide, phase, goal, capacity, pools, change,
                   frontier, backing, step>>

\* The server opens its caches, quotes the wide phase and accepts requests.
Serve ==
    LET phased == ~ IsRefused(control)
                  /\ PhasedPrefillEnabled(TRUE, width, cfg.context)
        options == OpenStore(cfg)
    IN /\ stage = "construct"
       /\ IF IsRefused(options)
          THEN stage' = "refused" /\ UNCHANGED <<cfg, wide, backing>>
          ELSE /\ stage' = "idle"
               /\ cfg' = options
               /\ wide' = IF phased
                          THEN WithPrefillWidth(control, cfg.context, AutomaticRows, MaxRows)
                          ELSE Refused
               /\ backing' = [l \in QsaLayers |-> FreshBacking(0)]
       /\ UNCHANGED <<admitted, control, phase, goal, capacity, pools, change,
                      width, scratch, frontier, step>>

-----------------------------------------------------------------------------
(* Sessions. *)

\* A request starts from an empty session or from a restored one.
StartSession ==
    /\ stage = "idle" /\ phase = "no"
    /\ \E f \in {0, cfg.context \div 2} :
         /\ f # frontier
         /\ frontier' = f
         /\ backing' = [l \in QsaLayers |-> FreshBacking(f)]
    /\ UNCHANGED <<stage, cfg, admitted, control, wide, phase, goal, capacity, pools,
                   change, width, scratch, step>>

\* A decode token, or a prompt chunk within the workspace.
BeginStep ==
    /\ stage = "idle" /\ phase \in {"no", "wide"}
    /\ \E rows \in {1, 2, scratch} :
         /\ rows > 0
         /\ rows > 1 => scratch # 0
         /\ rows <= Max({scratch, 1}) /\ frontier + rows <= cfg.context
         /\ step' = [rows |-> rows, layer |-> 1]
    /\ stage' = "step"
    /\ UNCHANGED <<cfg, admitted, control, wide, phase, goal, capacity, pools, change,
                   width, scratch, frontier, backing>>

\* One layer is encoded. Bounded execution waits for every layer that reads
\* routes or grows a backing, so only this layer's replaced storage is alive;
\* full residency queues the whole token.
EncodeLayer ==
    LET l == step.layer
        retired == [m \in QsaLayers |->
                      IF capacity < FullSlots THEN [backing[m] EXCEPT !.old = 0]
                      ELSE backing[m]]
    IN /\ stage = "step" /\ l <= LayerCount
       /\ backing' = IF l \in QsaLayers
                     THEN [retired EXCEPT ![l] =
                             GrownBacking(backing[l], frontier + step.rows)]
                     ELSE retired
       /\ step' = [step EXCEPT !.layer = l + 1]
       /\ UNCHANGED <<stage, cfg, admitted, control, wide, phase, goal, capacity, pools,
                      change, width, scratch, frontier>>

\* The stream has completed: every replaced backing is released.
FinishStep ==
    /\ stage = "step" /\ step.layer > LayerCount
    /\ stage' = "idle"
    /\ frontier' = frontier + step.rows
    /\ backing' = [m \in QsaLayers |-> [backing[m] EXCEPT !.old = 0]]
    /\ step' = Idle
    /\ UNCHANGED <<cfg, admitted, control, wide, phase, goal, capacity, pools, change,
                   width, scratch>>

-----------------------------------------------------------------------------
(* Capacity changes of all layers. *)

\* shrink_expert_capacity: every layer is checked before any is released.
Shrink(target) ==
    /\ target \in Floor..(capacity - 1) /\ target % ChunkSlots = 0
    /\ \A l \in Layers : Releasable(pools[l], target)
    /\ pools' = [l \in Layers |-> ReleasedPool(pools[l], target)]
    /\ capacity' = target

\* Pressure may take experts at any completed operation, in a phase too.
Release ==
    /\ stage = "idle" /\ phase \in {"no", "wide"} /\ ~ IsRefused(control)
    /\ \E target \in Floor..capacity : Shrink(target)
    /\ UNCHANGED <<stage, cfg, admitted, control, wide, phase, goal, change, width,
                   scratch, frontier, backing, step>>

\* recover_expert_capacity_inner: quote all layers, compare with the budget
\* the control gives, and only then start to prepare.
StartGrowth(budget, target) ==
    /\ ~ IsRefused(budget)
    /\ \A l \in Layers : Growable(pools[l], target)
    /\ Quote(target) <= budget.bytes
    /\ stage' = "grow"
    /\ change' = [target |-> target, bytes |-> budget.bytes]

Recover ==
    /\ stage = "idle" /\ phase = "no" /\ ~ IsRefused(control)
    /\ \E target \in (capacity + 1)..control.maximum :
         StartGrowth(PreparationBudget(control, capacity, target), target)
    /\ UNCHANGED <<cfg, admitted, control, wide, phase, goal, capacity, pools, width,
                   scratch, frontier, backing, step>>

PrepareLayer ==
    /\ stage = "grow"
    /\ \E l \in Layers :
         /\ pools[l].tables = 1
         /\ \A m \in Layers : m < l => pools[m].tables = 2
         /\ pools' = [pools EXCEPT ![l] = PreparedPool(pools[l], change.target)]
    /\ UNCHANGED <<stage, cfg, admitted, control, wide, phase, goal, capacity, change,
                   width, scratch, frontier, backing, step>>

\* An allocation failed: the prepared plans are dropped with their buffers.
GrowthFails ==
    /\ stage = "grow"
    /\ \E l \in Layers : pools[l].tables = 1
    /\ pools' = [l \in Layers |-> DroppedPool(pools[l])]
    /\ stage' = "idle" /\ change' = None
    /\ phase' = IF phase = "enter" THEN "leave" ELSE phase
    /\ UNCHANGED <<cfg, admitted, control, wide, goal, capacity, width, scratch,
                   frontier, backing, step>>

\* Commits cannot fail; the old tables go with them.
CommitGrowth ==
    /\ stage = "grow"
    /\ \A l \in Layers : pools[l].tables = 2
    /\ pools' = [l \in Layers |-> CommittedPool(pools[l])]
    /\ capacity' = change.target
    /\ stage' = "idle" /\ change' = None
    /\ UNCHANGED <<cfg, admitted, control, wide, phase, goal, width, scratch, frontier,
                   backing, step>>

-----------------------------------------------------------------------------
(* The wide workspace phase of a long prompt. *)

WideTarget == Min({capacity, wide.maximum})

\* transition: yield down to whole chunks of the wide ceiling.
EnterPhase ==
    /\ stage = "idle" /\ phase = "no" /\ ~ IsRefused(wide)
    /\ width = AutomaticRows /\ scratch # 0
    /\ phase' = "enter" /\ goal' = WideTarget
    /\ IF WideTarget < capacity
       THEN Shrink((WideTarget \div ChunkSlots) * ChunkSlots)
       ELSE UNCHANGED <<pools, capacity>>
    /\ UNCHANGED <<stage, cfg, admitted, control, wide, change, width, scratch,
                   frontier, backing, step>>

\* ... and back up to the ceiling itself when it is not a whole chunk.
RefillPhase ==
    /\ stage = "idle" /\ phase = "enter" /\ capacity < goal
    /\ StartGrowth(PreparationBudget(wide, capacity, goal), goal)
    /\ UNCHANGED <<cfg, admitted, control, wide, phase, goal, capacity, pools, width,
                   scratch, frontier, backing, step>>

\* replace_workspace_without_overlap: the old scratch is released before the
\* new allocation, which may fail and leave none.
ReplaceScratch(rows, budget) ==
    /\ ~ IsRefused(budget)
    /\ Scratch(cfg.context, rows) <= budget.bytes
    /\ \/ scratch' = rows /\ width' = rows
       \/ /\ ~ (rows = width /\ scratch # 0)
          /\ scratch' = 0 /\ UNCHANGED width

Widen ==
    /\ stage = "idle" /\ phase = "enter" /\ capacity = goal
    /\ ReplaceScratch(MaxRows, WorkspaceBudget(wide, cfg.context, MaxRows, capacity))
    /\ phase' = IF scratch' = 0 THEN "leave" ELSE "wide"
    /\ UNCHANGED <<stage, cfg, admitted, control, wide, goal, capacity, pools,
                   change, frontier, backing, step>>

\* finish: ordinary scratch first, then the phase is over. A failure leaves
\* the phase to the next request's Prepare.
FinishPhase ==
    /\ stage = "idle" /\ phase \in {"wide", "leave"}
    /\ ReplaceScratch(AutomaticRows,
                      WorkspaceBudget(control, cfg.context, AutomaticRows, capacity))
    /\ phase' = IF scratch' = 0 THEN "leave" ELSE "no"
    /\ goal' = IF scratch' = 0 THEN goal ELSE 0
    /\ UNCHANGED <<stage, cfg, admitted, control, wide, capacity, pools, change,
                   frontier, backing, step>>

\* The process may be stopped, and options that do not fit stop it at once.
Stopped == stage = "refused" /\ UNCHANGED vars

Next ==
    \/ ParseCommand \/ Resolve \/ ResolveFixed \/ LoadLayer \/ ConstructPrefill \/ Serve
    \/ StartSession \/ BeginStep \/ EncodeLayer \/ FinishStep
    \/ Release \/ Recover \/ PrepareLayer \/ GrowthFails \/ CommitGrowth
    \/ EnterPhase \/ RefillPhase \/ Widen \/ FinishPhase
    \/ Stopped

Spec == Init /\ [][Next]_vars

-----------------------------------------------------------------------------
(* Properties. *)

TypeOK ==
    /\ stage \in {"parse", "resolve", "refused", "load", "construct", "idle", "step", "grow"}
    /\ phase \in {"no", "enter", "wide", "leave"}
    /\ capacity \in 0..FullSlots /\ goal \in 0..FullSlots
    /\ width \in Widths \cup {0} /\ scratch \in Widths \cup {0}
    /\ Running => frontier \in 0..cfg.context
    /\ DOMAIN pools = Layers /\ DOMAIN backing = QsaLayers

\* Nothing the process allocates, from the first tensor to the second address
\* table of a growth or the doubled cache of the last layer, exceeds the
\* budget it was admitted under.
WithinBudget == admitted # None => Live <= Envelope

\* Capacity changes reach every layer or none: outside a growth no layer keeps
\* prepared storage, every layer covers exactly the engine's capacity in
\* contiguous chunks, and every whole-chunk prefix of it can be released.
LayersAgree ==
    stage \in {"construct", "idle", "step"} =>
      \A l \in Layers :
        LET chunks == pools[l].chunks
        IN /\ pools[l].prepared = <<>> /\ pools[l].tables <= 1
           /\ chunks # <<>> /\ chunks[1][1] = 0 /\ chunks[Len(chunks)][2] = capacity
           /\ \A i \in 2..Len(chunks) : chunks[i][1] = chunks[i - 1][2]
           /\ \A t \in Floor..(capacity - 1) :
                (capacity < FullSlots /\ t % ChunkSlots = 0) => Releasable(pools[l], t)

\* The control's arithmetic never promises what the engine then refuses: a
\* growth it allows covers the engine's own quote, growth past the first
\* capacity up to the operating ceiling is never refused, the wide workspace fits
\* the capacity a phase yielded to, and ordinary scratch fits again at every
\* capacity a phase can be left with.
PromisesKept ==
    /\ (stage = "idle" /\ phase = "no" /\ ~ IsRefused(control)) =>
         \A t \in (capacity + 1)..control.maximum :
           LET b == PreparationBudget(control, capacity, t)
           IN /\ ~ IsRefused(b) => Quote(t) <= b.bytes
              /\ t > control.initial => ~ IsRefused(b)
    /\ (stage = "idle" /\ phase = "enter") =>
         IF capacity < goal
         THEN LET b == PreparationBudget(wide, capacity, goal)
              IN ~ IsRefused(b) /\ Quote(goal) <= b.bytes
         ELSE LET b == WorkspaceBudget(wide, cfg.context, MaxRows, capacity)
              IN ~ IsRefused(b) /\ Scratch(cfg.context, MaxRows) <= b.bytes
    /\ phase # "no" =>
         LET b == WorkspaceBudget(control, cfg.context, AutomaticRows, capacity)
         IN ~ IsRefused(b) /\ Scratch(cfg.context, AutomaticRows) <= b.bytes
=============================================================================
