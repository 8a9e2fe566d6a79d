----------------------------- MODULE Admission -----------------------------
(***************************************************************************)
(* Memory admission: how many expert slots, which prefill width and which  *)
(* control budget a server gets from what the host shows it                *)
(* (src/src/memory.rs, host_memory.rs, prefill_capacity.rs and the         *)
(* resolution code of main.rs).                                            *)
(*                                                                         *)
(* Byte counts are abstract units: each inventory line of the code is one  *)
(* field of Cost, and every sum, maximum, subtraction and refusal is kept. *)
(* A refusal (Err) is the value Refused.                                   *)
(***************************************************************************)
EXTENDS Integers, FiniteSetsExt

CONSTANTS
    MinSlots,       \* 10: the router's top ten must fit
    Floor,          \* 64: the adaptive expert floor
    FullSlots,      \* 512: every expert resident
    ChunkSlots,     \* 16: slots of one expert slab
    LayerCount,     \* 48 decoder layers, all with routed experts
    QsaLayers,      \* the 12 of them that keep a growing cache
    DefaultRows, AutomaticRows, MaxRows,   \* 512, 2048, 4096
    Sink, ExactSuffix, Tile, Ratio,        \* the KVarN and QSA index geometry
    Cost,           \* the byte inventory of package, session and workspaces
    Reserve         \* headroom left to the system: [os, live, metal]

Widths == {DefaultRows, AutomaticRows, MaxRows}
Layers == 1..LayerCount
QsaCount == Cardinality(QsaLayers)
Refused == [refused |-> TRUE]
IsRefused(x) == "refused" \in DOMAIN x

ASSUME GeometryAssumption ==
    /\ {MinSlots, Floor, FullSlots, ChunkSlots} \subseteq Nat \ {0}
    /\ MinSlots <= Floor /\ Floor < FullSlots /\ MinSlots > 1
    /\ Floor % ChunkSlots = 0 /\ FullSlots % ChunkSlots = 0
    /\ {DefaultRows, AutomaticRows, MaxRows} \subseteq Nat \ {0}
    /\ DefaultRows < AutomaticRows /\ AutomaticRows < MaxRows
    /\ {Sink, ExactSuffix, Tile, Ratio} \subseteq Nat /\ Tile > 0 /\ Ratio > 0
    /\ LayerCount \in Nat \ {0} /\ QsaLayers \subseteq 1..LayerCount

CeilDiv(a, b) == (a + b - 1) \div b

-----------------------------------------------------------------------------
(* What a session occupies at a frontier. *)

\* kvarn::partition: sealed tiles end a whole number of tiles after the sink.
RecordTiles(frontier) ==
    LET eligible == frontier - Sink - ExactSuffix
    IN IF eligible <= 0 THEN 0 ELSE eligible \div Tile

GrowingSession(frontier) ==
    QsaCount * (RecordTiles(frontier) * Cost.record
                + (frontier \div Ratio) * Cost.group
                + (frontier % Ratio) * Cost.group)

\* Index backings keep a whole pending group and one compressed row from the
\* start; a growing backing coexists with the one it replaces, in every layer
\* when nothing retires them before the end of the token.
VecOverlapPermanentOnly(context, full) == QsaCount * (Ratio + 1) * Cost.group
VecOverlap(context, full) ==
    LET oldPair == RecordTiles(context) * Cost.record
                   + (context \div Ratio) * Cost.group
    IN QsaCount * (Ratio + 1) * Cost.group
       + (IF full THEN QsaCount ELSE 1) * oldPair

-----------------------------------------------------------------------------
(* What the package and an empty session occupy. *)

\* direct_payload: the embedding, the matrices and the small tensors, each
\* loaded on its own.
Direct == Cost.embedding + Cost.matrices + Cost.auxiliary
LargestDirect == Max({Cost.embedding, Cost.largest})

TailCapacity == ExactSuffix + Tile

\* fixed_session: recurrent and convolution state of the linear layers, sink
\* and tail rows of the others, and the history of the n-gram embedding.
FixedSession ==
    (LayerCount - QsaCount) * (Cost.recurrent + Cost.convolution)
    + QsaCount * (Sink + TailCapacity) * Cost.token
    + Cost.history

-----------------------------------------------------------------------------
(* Workspaces. *)

Scratch(context, rows) ==
    rows * Cost.scratchRow
    + (IF rows = DefaultRows THEN 1 ELSE 2) * Cost.dense
    + Max({context \div Ratio, 1}) * Cost.scoreRow

ExpertBytes(slots) == slots * Cost.slot * LayerCount

\* Chunked storage keeps one address table and one publication word a layer.
StorageMetadata(slots) ==
    IF slots = FullSlots THEN 0 ELSE LayerCount * (Cost.table + Cost.ready)

ReaderWorkspace(slots) ==
    IF slots = FullSlots THEN Cost.row ELSE Cost.row * Cost.readRows + Cost.workers

\* runtime_workspaces: the larger of the decode stage and, for more than one
\* row, the prefill stage at this width and capacity.
Workspace(metal, host) == metal + host
RuntimeWorkspace(rows, slots) ==
    LET bounded == slots < FullSlots
        decode == Workspace(QsaCount * Cost.decodeCounts,
                            ReaderWorkspace(slots)
                            + Max({Cost.decodeHead, IF bounded THEN Cost.demand ELSE 0}))
        groups == IF bounded THEN CeilDiv(FullSlots, slots \div 2) ELSE 1
        metal == QsaCount * rows * Cost.positions
                 + LayerCount * (groups * Cost.schedule
                                 + IF bounded THEN rows * Cost.pairs ELSE 0)
        host == ReaderWorkspace(slots) + rows * Cost.embeddingRow
                + Max({rows * Cost.pleRow, Cost.head,
                       IF bounded THEN rows * Cost.routes ELSE 0})
    IN IF rows = 1 THEN decode ELSE Max({decode, Workspace(metal, host)})

RuntimeAcross(rows, ceiling) ==
    Max({RuntimeWorkspace(r, c) : r \in 1..rows, c \in MinSlots..ceiling})

\* Load staging: a direct tensor, or a whole projection of one layer's pool.
StartupWorkspace(ceiling) ==
    Max({ReaderWorkspace(c) + Max({LargestDirect,
                                   (c + 1) * Cost.projection})
            : c \in {ceiling, Min({ceiling, FullSlots - 1})}})

-----------------------------------------------------------------------------
(* The estimate of one path: its three lifetime phases, each charged with  *)
(* the expert payload of the slot ceiling.                                 *)

Estimate(in, rows, ceiling, tables) ==
    LET common == Direct + ExpertBytes(ceiling) + StorageMetadata(tables)
                  + Cost.core + in.allowance
        scratch == Scratch(in.context, rows)
    IN [payload |-> ExpertBytes(ceiling),
        scratch |-> scratch,
        metadata |-> StorageMetadata(tables),
        in |-> in,
        startup |-> common + StartupWorkspace(ceiling),
        construction |-> common + scratch
                         + Max({ReaderWorkspace(ceiling),
                                ReaderWorkspace(Min({ceiling, FullSlots - 1}))}),
        serving |-> common + scratch + FixedSession
                    + GrowingSession(in.context) + in.overlap
                    + in.retained + in.snapshot
                    + RuntimeAcross(Min({in.context, rows}), ceiling)]

LargestPhase(e) == Max({e.startup, e.construction, e.serving})

\* plan_capacity: the largest pool the budget affords beside the fixed bytes.
PlanCapacity(fixed, maxSlots, budget) ==
    LET slots == Min({(budget - fixed) \div (Cost.slot * LayerCount), maxSlots})
        peak == fixed + ExpertBytes(slots)
    IN IF fixed + ExpertBytes(MinSlots) > budget THEN Refused
       ELSE [slots |-> slots, budget |-> budget, peak |-> peak]

\* plan_from_ordinary_estimate: the common expert term is taken out of the
\* largest phase and replaced by what the budget affords.
PlanFromEstimate(e, maxSlots, budget) ==
    PlanCapacity(LargestPhase(e) - e.payload, maxSlots, budget)

\* The allowances an estimate is made with.
PathInputs(context, full, retained, snapshot, allowance) ==
    [context |-> context, allowance |-> allowance, overlap |-> VecOverlap(context, full),
     retained |-> retained, snapshot |-> snapshot]

\* Full residency first; otherwise the bounded path with its own tables.
PlanOrdinaryCapacity(context, budget, retained, snapshot) ==
    LET in(full) == PathInputs(context, full, retained, snapshot, Cost.allowance)
        full == Estimate(in(TRUE), DefaultRows, FullSlots, FullSlots)
        bounded == Estimate(in(FALSE), DefaultRows, FullSlots - 1, FullSlots - 1)
        estimate == IF LargestPhase(full) <= budget THEN full ELSE bounded
        plan == PlanFromEstimate(estimate,
                    IF LargestPhase(full) <= budget THEN FullSlots ELSE FullSlots - 1,
                    budget)
    IN IF IsRefused(plan) THEN Refused
       ELSE [estimate |-> estimate, plan |-> plan, rows |-> DefaultRows]

\* finish_optional_prefill_upgrade: a wider workspace is taken only when full
\* residency survives it, or a bounded pool keeps the adaptive floor.
Widened(admitted, rows) ==
    LET p == admitted.plan
        wide == Estimate(admitted.estimate.in, rows, p.slots, p.slots)
        replanned == PlanFromEstimate(wide, p.slots, p.budget)
        take(plan) == [estimate |-> wide, plan |-> plan, rows |-> rows]
    IN IF p.slots = FullSlots
       THEN IF LargestPhase(wide) > p.budget THEN admitted
            ELSE take([p EXCEPT !.peak = LargestPhase(wide)])
       ELSE IF IsRefused(replanned) THEN admitted
            ELSE IF replanned.slots < Floor THEN admitted ELSE take(replanned)

\* Each tier keeps the previous one on refusal.
UpgradePrefillCapacity(context, admitted, requested) ==
    LET automatic == Widened(admitted, AutomaticRows)
    IN IF context <= DefaultRows \/ requested < AutomaticRows THEN admitted
       ELSE IF requested < MaxRows \/ automatic.rows # AutomaticRows THEN automatic
            ELSE Widened(automatic, MaxRows)

EstimateFixed(context, slots, rows, allowance) ==
    Estimate(PathInputs(context, slots = FullSlots, 0, 0, allowance), rows, slots, slots)

\* A fixed expert count takes the automatic width when its estimate fits.
AdmittedRows(context, slots, budget) ==
    IF /\ context > DefaultRows
       /\ ~ IsRefused(budget)
       /\ LargestPhase(EstimateFixed(context, slots, AutomaticRows, Cost.allowance))
            <= budget.bytes
    THEN AutomaticRows ELSE DefaultRows

-----------------------------------------------------------------------------
(* What the host shows. An observation is a record [ram, free, metal,      *)
(* wired] with wired = 0 when the limit is unset.                          *)

\* resolve: free pages above the installed memory are refused.
Observed(host) == IF host.ram = 0 \/ host.free > host.ram THEN Refused ELSE host

LeaveAll(pairs) ==
    IF \E p \in pairs : p[1] - p[2] <= 0 THEN Refused
    ELSE [bytes |-> Min({p[1] - p[2] : p \in pairs})]

StableSources(host) ==
    {<<host.ram, Reserve.os>>, <<host.metal, Reserve.metal>>}
    \cup (IF host.wired = 0 THEN {} ELSE {<<host.wired, Reserve.metal>>})

Clamp(budget, limit) ==
    IF IsRefused(budget) \/ limit = 0 THEN budget
    ELSE [bytes |-> Min({budget.bytes, limit})]

\* Startup also leaves headroom in what is free now; the operating envelope
\* is what the machine can give once other processes have yielded.
AutomaticHostBudget(host) ==
    LeaveAll(StableSources(host) \cup {<<host.free, Reserve.live>>})
OperatingHostBudget(host, limit) == Clamp(LeaveAll(StableSources(host)), limit)

-----------------------------------------------------------------------------
(* The control budget of adaptive serving.                                 *)

TableOverlap == LayerCount * Cost.table

\* from_admission: the serving commitments at the selected capacity.
ControlFromAdmission(admitted) ==
    LET e == admitted.estimate
    IN [initial |-> admitted.plan.slots,
        maximum |-> admitted.plan.slots,
        budget |-> admitted.plan.budget,
        peak |-> e.serving - (e.payload - ExpertBytes(admitted.plan.slots)),
        growth |-> FALSE]

Nonexpert(control) == control.peak - ExpertBytes(control.initial)

\* with_operating_budget: the serving phase alone, estimated again at the
\* largest bounded capacity, decides how far the pool may grow.
WithOperatingBudget(control, admitted, bytes) ==
    LET e == Estimate(admitted.estimate.in, admitted.rows, FullSlots - 1, FullSlots - 1)
        peak == Max({control.peak,
                     e.serving - e.payload + ExpertBytes(control.initial)})
        room == bytes - (peak - ExpertBytes(control.initial)) - TableOverlap
        affordable == IF room <= 0 THEN 0 ELSE room \div (Cost.slot * LayerCount)
    IN IF peak > bytes THEN Refused
       ELSE [control EXCEPT !.peak = peak, !.budget = bytes, !.growth = TRUE,
                            !.maximum = Max({Min({affordable, FullSlots - 1}),
                                             control.initial})]

\* with_prefill_width: the same commitments with another workspace width.
WithPrefillWidth(control, context, old, new) ==
    LET serving(rows) ==
            EstimateFixed(context, control.initial, rows, Cost.allowance).serving
        nonexpert == Nonexpert(control) + serving(new) - serving(old)
        room == control.budget - nonexpert - TableOverlap
        affordable == room \div (Cost.slot * LayerCount)
        maximum == Min({affordable, control.maximum})
        initial == Min({control.initial, maximum})
    IN IF room < 0 \/ affordable < Floor THEN Refused
       ELSE [control EXCEPT !.initial = initial, !.maximum = maximum,
                            !.peak = nonexpert + ExpertBytes(initial),
                            !.growth = TRUE]

\* validate_serving: what will really be served fits the admitted peak.
ValidServing(control, context, rows, retained, snapshot) ==
    EstimateFixed(context, control.initial, rows, Cost.allowance).serving
        + retained + snapshot <= control.peak

\* workspace_budget_after_release: room for scratch once the old one is gone.
WorkspaceBudget(control, context, rows, slots) ==
    LET bytes == control.budget
                 - (Nonexpert(control) - Scratch(context, rows) + ExpertBytes(slots))
    IN IF slots \notin Floor..control.maximum \/ bytes < 0 THEN Refused
       ELSE [bytes |-> bytes]

\* preparation_budget_bytes: room for added slots beside a second set of
\* address tables.
PreparationBudgetOneTable(control, current, target) ==
    LET room == control.budget - control.peak - ExpertBytes(current)
                + ExpertBytes(control.initial)
    IN IF \/ target \notin current..control.maximum
          \/ ExpertBytes(target - current) > room THEN Refused
       ELSE [bytes |-> room]
PreparationBudget(control, current, target) ==
    LET serving == control.peak + ExpertBytes(current) - ExpertBytes(control.initial)
        legal(c) == control.growth \/ c = control.initial \/ c % Floor = 0
    IN IF \/ current \notin MinSlots..control.maximum
          \/ target \notin current..control.maximum
          \/ ~ legal(current) \/ ~ legal(target) THEN Refused
       ELSE IF target = current THEN [bytes |-> 0]
       ELSE IF serving + ExpertBytes(target - current) + TableOverlap > control.budget
            THEN Refused
       ELSE [bytes |-> control.budget - serving]

\* adaptive_mode: full residency and pools below the floor stay static.
AdaptiveEnabled(slots, requested) ==
    slots # FullSlots /\ requested /\ slots >= Floor

PhasedPrefillEnabled(adaptive, rows, context) ==
    adaptive /\ rows = AutomaticRows /\ context >= MaxRows
=============================================================================
