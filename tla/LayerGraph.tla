----------------------------- MODULE LayerGraph -----------------------------
(***************************************************************************)
(* What one pass of the decoder dispatches to the device, layer by layer,  *)
(* and which buffer each kernel binds.                                     *)
(*                                                                         *)
(* Device memory is a function from buffers to what they hold.  A dispatch *)
(* binds inputs and outputs; an operand is a pair <<buffer, content>>: the *)
(* buffer the code binds and the value the kernel's parameter stands for.  *)
(* When every input buffer holds what its parameter stands for, the kernel *)
(* writes the right values; otherwise its outputs are garbage, and garbage *)
(* spreads to whatever reads it.  Arithmetic is left out, aliasing, reuse  *)
(* and order are kept.                                                     *)
(*                                                                         *)
(* A pass computes the rows of tokens from+1 .. Len(log), the chunk, on    *)
(* top of the first from tokens of log; sp is the record of the two.       *)
(***************************************************************************)
EXTENDS Naturals, Sequences, FiniteSets, FiniteSetsExt, SequencesExt, TLC

CONSTANTS
    Layers,         \* number of decoder layers
    QsaLayers,      \* the layers whose mixer is QSA; the others are GDN
    PleLayer,       \* the layer in front of which the PLE runs
    Sink, Exact, Tile,  \* KVarN: exact prefix, exact suffix, rows of a record
    Ratio,          \* raw rows of one compressed index group
    BlockBudget,    \* index groups a query may select
    QueryTile,      \* query rows of one attention tile (64)
    ShortTile,      \* a last tile of at most so many rows is gathered (8)
    WideRows,       \* a bounded chunk this wide overlaps its demand read (512)
    Chunks,         \* physical chunks of a bounded layer's expert slots
    AddressedRows,  \* a chunk this narrow reads them through one table (64)
    MaxContext

ASSUME GraphAssumption ==
    /\ Layers \in Nat \ {0}  /\ QsaLayers \subseteq 1..Layers
    /\ PleLayer \in 1..Layers
    /\ {Sink, Exact, Tile, Ratio, BlockBudget, QueryTile, Chunks, MaxContext} \subseteq Nat \ {0}
    /\ ShortTile \in 0..(QueryTile - 1)  /\ WideRows \in Nat  /\ AddressedRows \in Nat

GdnLayers == (1..Layers) \ QsaLayers

----------------------------------------------------------------------------
(* Contents, operands, dispatches.                                         *)

C(what, stage, sp) == <<what, stage, sp.from, sp.log>>

\* What a part of the persistent state holds once log was consumed.
Held(what, layer, log) == <<what, layer, 0, log>>

Garbage == <<"garbage", 0, 0, <<>> >>
Nothing == <<"nothing", 0, 0, <<>> >>

\* The dummy a kernel is given in place of an absent pending output.
NoBuffer == <<"dummy", 0, "dummy">>

Buf(object, field) == <<object[1], object[2], field>>
Own(object, field, stage, sp) == <<Buf(object, field), C(field, stage, sp)>>

D(in, out) == [in |-> in, out |-> out]

Holds(mem, operand) ==
    operand[1] \in DOMAIN mem /\ mem[operand[1]] = operand[2]

Dispatch(mem, d) ==
    LET right == \A o \in d.in : Holds(mem, o)
        written == [b \in {o[1] : o \in d.out} |->
                       IF right THEN (CHOOSE o \in d.out : o[1] = b)[2] ELSE Garbage]
    IN  written @@ mem

\* A submitted command batch runs its dispatches one after another.  (The
\* batch is halved and the memory between the halves is the one member of a
\* set, so that TLC evaluates it before it goes on.)
RECURSIVE Execute(_, _)
Execute(mem, batch) ==
    IF Len(batch) = 0 THEN mem
    ELSE IF Len(batch) = 1 THEN Dispatch(mem, batch[1])
    ELSE LET half == Len(batch) \div 2
         IN  CHOOSE after \in {Execute(between, SubSeq(batch, half + 1, Len(batch))) :
                                  between \in {Execute(mem, SubSeq(batch, 1, half))}} : TRUE

Old(sp) == SubSeq(sp.log, 1, sp.from)
End(sp) == Len(sp.log)
Rows(sp) == Len(sp.log) - sp.from

\* A dense projection of a chunk: partial products into the scratch that all
\* projections share, then their sum into the output.
Partials == <<"dense", 0, "partials">>
Project(in, out) ==
    << D(in, {<<Partials, out[2]>>}), D({<<Partials, out[2]>>}, {out}) >>

----------------------------------------------------------------------------
(* Residual stream.  Stage 2l-1 is the attention read of layer l, stage 2l *)
(* its MLP read, the last stage the final head.  The host carries the      *)
(* buffers of the residual and of the pending output and injection.        *)

Stage(layer) == 2 * layer - 1
HeadStage == 2 * Layers + 1

NoPending == [out |-> NoBuffer, injection |-> NoBuffer]

\* The value each residual reader stands for: the embedding in front of the
\* first layer, the PLE's result in front of its layer, else the rows the
\* last reader updated with the output that is still pending.
Reads(stage, sp) ==
    CASE stage = Stage(PleLayer) -> [value |-> C("pled", stage, sp),
                                     out |-> Nothing, injection |-> Nothing]
      [] stage = 1 /\ PleLayer # 1 -> [value |-> C("embedding", 1, sp),
                                       out |-> Nothing, injection |-> Nothing]
      [] OTHER -> [value |-> C("updated", stage - 1, sp),
                   out |-> C("output", stage - 1, sp),
                   injection |-> C("injection", stage - 1, sp)]

Residual(x, reads) ==
    {<<x.value, reads.value>>, <<x.out, reads.out>>, <<x.injection, reads.injection>>}

\* The temporaries every residual read of a chunk shares, and the two row
\* workspaces the reads of a layer alternate between.
HcWork == <<"hc", 0>>
HcRows(i) == <<"rows", i>>

\* Hyper-connection read of a chunk, into one of the two row workspaces.
HcChunk(x, stage, rows, sp) ==
    LET s(f) == Own(HcWork, f, stage, sp)
        r(f) == Own(rows, f, stage, sp)
    IN  << D(Residual(x, Reads(stage, sp)), {s("normalized"), r("updated")}) >>
        \o Project({s("normalized")}, s("projected_down"))
        \o Project({s("normalized")}, s("projected_injection"))
        \o << D({s("projected_down"), s("projected_injection")},
                {s("lowrank"), r("injection")}) >>
        \o Project({s("lowrank")}, s("projected_up"))
        \o << D({s("projected_up"), s("normalized")}, {r("mixed")}) >>

\* The same read of one row, in scratch the block owns.
HcStep(x, stage, block, sp) ==
    LET s(f) == Own(block, f, stage, sp)
    IN  << D(Residual(x, Reads(stage, sp)), {s("normalized"), s("updated")}),
           D({s("normalized")},
             {s("lowrank"), s("injection"), s("projected_down"), s("projected_injection")}),
           D({s("lowrank"), s("normalized")}, {s("mixed"), s("projected_up")}) >>

\* Fold the pending output into the residual, for the PLE to read.
Materialize(x, stage, target, sp) ==
    << D({<<x.value, C("updated", stage - 1, sp)>>, <<x.out, C("output", stage - 1, sp)>>,
          <<x.injection, C("injection", stage - 1, sp)>>},
         {<<target, C("folded", stage, sp)>>}) >>

\* What the PLE reads: the folded residual, or the embedding in front of layer 1.
PleInput(sp) ==
    IF PleLayer = 1 THEN C("embedding", 1, sp) ELSE C("folded", Stage(PleLayer), sp)

PleWork == <<"ple", 0>>
PleBlock == <<"ple", 1>>

PleChunk(value, conv, sp) ==
    LET stage == Stage(PleLayer)
        p(f) == Own(PleWork, f, stage, sp)
        hidden == <<value, PleInput(sp)>>
    IN  Project({p("embedding")}, p("key_projected"))
        \o Project({p("embedding")}, p("value"))
        \o << D({hidden, p("key_projected"), p("value")}, {p("gated"), p("normed")}),
              D({hidden, p("gated"), p("normed"), <<conv, Held("ple", 0, Old(sp))>>},
                {p("pled"), <<conv, Held("ple", 0, sp.log)>>}) >>

PleStep(value, conv, nextConv, sp) ==
    LET stage == Stage(PleLayer)
        p(f) == Own(PleBlock, f, stage, sp)
        hidden == <<value, PleInput(sp)>>
    IN  << D({p("embedding")}, {p("key_projected")}), D({p("embedding")}, {p("value")}),
           D({p("key_projected")}, {p("key")}), D({hidden}, {p("query")}),
           D({p("key"), p("query")}, {p("dot")}), D({p("dot")}, {p("gate"), p("gain")}),
           D({p("gain"), p("value")}, {p("flat")}), D({p("flat")}, {p("normalized")}),
           D({p("normalized"), p("flat"), hidden, <<conv, Held("ple", 0, Old(sp))>>},
             {p("pled"), <<nextConv, Held("ple", 0, sp.log)>>}) >>

\* The final head owns a block of its own; the logits belong to the session.
HeadBlock == <<"head", 0>>
Logits == <<"session", 0, "logits">>
Choice == <<"greedy", 0, "id">>

\* The last row's read, then its logits.
HeadRow(x, sp) ==
    HcStep(x, HeadStage, HeadBlock, sp)
    \o << D({Own(HeadBlock, "mixed", HeadStage, sp)}, {<<Logits, Held("logits", 0, sp.log)>>}) >>

\* The greedy choice: penalise the tokens seen, which the host marks, then the
\* best of every block of logits and the best of those.
Seen(sp) == Own(<<"greedy", 0>>, "seen", HeadStage, sp)
Greedy(sp) ==
    LET g(f) == Own(<<"greedy", 0>>, f, HeadStage, sp)
    IN  << D({<<Logits, Held("logits", 0, sp.log)>>, Seen(sp)}, {g("adjusted")}),
           D({g("adjusted")}, {g("logsumexp")}),
           D({g("adjusted"), g("logsumexp")}, {g("partials")}),
           D({g("partials")}, {<<Choice, Held("id", 0, sp.log)>>}) >>

----------------------------------------------------------------------------
(* GDN.  A chunk writes its convolution history beside the old one; a step *)
(* and the recurrent rows of either are updated in place.                  *)

Conv(layer, log) == Held("conv", layer, log)
Recurrent(layer, log) == Held("recurrent", layer, log)

\* One chunk workspace for all GDN layers; a step's scratch is the layer's own.
GdnWork == <<"gdn", 0>>
GdnBlock(layer) == <<"gdn", layer>>

GdnTail(layer, work, recurrent, sp) ==
    LET g(f) == Own(work, f, Stage(layer), sp)
    IN  << D({g("query"), g("key"), g("value"), g("decay"), g("beta"),
              <<recurrent, Recurrent(layer, Old(sp))>>},
             {g("recurrence"), <<recurrent, Recurrent(layer, sp.log)>>}),
           D({g("recurrence"), g("gate")}, {g("norm_gate")}) >>

GdnChunk(layer, hidden, conv, nextConv, recurrent, sp) ==
    LET g(f) == Own(GdnWork, f, Stage(layer), sp)
    IN  Project({hidden}, g("qkv")) \o Project({hidden}, g("gate"))
        \o Project({hidden}, g("beta_logits")) \o Project({hidden}, g("decay_logits"))
        \o << D({g("qkv"), <<conv, Conv(layer, Old(sp))>>},
                {g("conv"), g("activated"), <<nextConv, Conv(layer, sp.log)>>}),
              D({g("activated"), g("beta_logits"), g("decay_logits")},
                {g("query"), g("key"), g("value"), g("beta"), g("decay")}) >>
        \o GdnTail(layer, GdnWork, recurrent, sp)
        \o Project({g("norm_gate")}, g("output"))

\* The four input projections of a step in one dispatch.
StackedFront(layer, hidden, sp) ==
    << D({hidden}, {Own(GdnBlock(layer), f, Stage(layer), sp) :
                       f \in {"qkv", "gate", "beta_logits", "decay_logits"}}) >>

GdnStep(layer, hidden, conv, recurrent, sp) ==
    LET g(f) == Own(GdnBlock(layer), f, Stage(layer), sp)
    IN  StackedFront(layer, hidden, sp)
        \o << D({g("qkv"), g("beta_logits"), g("decay_logits"), <<conv, Conv(layer, Old(sp))>>},
                {g("query"), g("key"), g("value"), g("beta"), g("decay"),
                 <<conv, Conv(layer, sp.log)>>}) >>
        \o GdnTail(layer, GdnBlock(layer), recurrent, sp)
        \o << D({g("norm_gate")}, {g("output")}) >>

----------------------------------------------------------------------------
(* KVarN rows of a QSA layer: the first Sink rows and a ring of the last   *)
(* ones are exact, whole tiles in between are sealed into packed records.  *)

Ring == Exact + Tile
Records(frontier) ==
    IF frontier <= Sink + Exact THEN 0 ELSE (frontier - Sink - Exact) \div Tile

SinkSlot(layer, row) == <<"sink", layer, row>>
RingSlot(layer, row) == <<"ring", layer, (row - Sink) % Ring>>
Slot(layer, row) == IF row < Sink THEN SinkSlot(layer, row) ELSE RingSlot(layer, row)
Record(layer, gen, i) == <<IF gen = 0 THEN "records" ELSE "records+", layer, i>>

Row(layer, log, row) == Held("row", layer, SubSeq(log, 1, row + 1))
Packed(layer, log, i) == Held("record", layer, SubSeq(log, 1, Sink + (i + 1) * Tile))
TileRows(i) == (Sink + i * Tile)..(Sink + (i + 1) * Tile - 1)

\* Where the rows below frontier are found, and what must be there.
Stored(layer, gen, log, frontier) ==
    LET sealed == Sink + Records(frontier) * Tile
    IN  {<<Slot(layer, row), Row(layer, log, row)>> :
            row \in {r \in 0..(frontier - 1) : r < Sink \/ r >= sealed}}
        \cup {<<Record(layer, gen, i), Packed(layer, log, i)>> : i \in 0..(Records(frontier) - 1)}

\* Capacity of the records backing that holds needed records; growing doubles.
GrownTo(capacity, needed, maximum, floor) ==
    IF needed <= capacity THEN capacity
    ELSE Max({needed, Min({2 * Max({capacity, floor}), maximum})})

\* The encoder all layers seal with; keys and values are balanced in the same
\* scratch, one after the other.
Encoder == <<"encoder", 0>>
Balanced(rows) == <<Buf(Encoder, "balanced"), rows[2]>>
Balance(rows) == << D({rows}, {Balanced(rows)}) >>

Seal(layer, gen, i, sp) ==
    LET e(f) == <<Buf(Encoder, f), Held(f, i, Packed(layer, sp.log, i)[4])>>
    IN  << D({<<RingSlot(layer, row), Row(layer, sp.log, row)>> : row \in TileRows(i)},
             {e("keys"), e("values")}) >>
        \o Balance(e("keys"))
        \o << D({Balanced(e("keys"))}, {e("packed_keys")}) >>
        \o Balance(e("values"))
        \o << D({Balanced(e("values")), e("packed_keys")},
                {<<Record(layer, gen, i), Packed(layer, sp.log, i)>>}) >>

\* Append a row of the chunk; the tile it completes is sealed first.
Append1(layer, gen, rows, row, sp) ==
    LET write == << D(rows, {<<Slot(layer, row), Row(layer, sp.log, row)>>}) >>
    IN  IF Records(row + 1) > Records(row)
        THEN Seal(layer, gen, Records(row), sp) \o write
        ELSE write

\* old and gen are the backings before and after this chunk's growth.
RecordGrowth(layer, old, gen, sp) ==
    LET records(g) == {<<Record(layer, g, i), Packed(layer, sp.log, i)>> :
                          i \in 0..(Records(sp.from) - 1)}
    IN  IF old # gen /\ Records(sp.from) > 0 THEN << D(records(old), records(gen)) >> ELSE << >>

AppendRows(layer, old, gen, rows, sp) ==
    RecordGrowth(layer, old, gen, sp)
    \o FlattenSeq([k \in 1..Rows(sp) |-> Append1(layer, gen, rows, sp.from + k - 1, sp)])

----------------------------------------------------------------------------
(* QSA index: whole groups of Ratio raw rows are compressed, the rows of   *)
(* the unfinished group wait in the pending slots.                         *)

Groups(frontier) == frontier \div Ratio
GroupSlot(layer, gen, g) == <<IF gen = 0 THEN "compressed" ELSE "compressed+", layer, g>>
PendingSlot(layer, row) == <<"pending", layer, row % Ratio>>
RawRow(layer, log, row) == Held("raw", layer, SubSeq(log, 1, row + 1))
Group(layer, log, g) == Held("group", layer, SubSeq(log, 1, (g + 1) * Ratio))

GroupsHeld(layer, gen, log, count) ==
    {<<GroupSlot(layer, gen, g), Group(layer, log, g)>> : g \in 0..(count - 1)}
PendingHeld(layer, log, rows) ==
    {<<PendingSlot(layer, row), RawRow(layer, log, row)>> : row \in rows}

IndexGrowth(layer, old, gen, sp) ==
    IF old # gen /\ Groups(sp.from) > 0
    THEN << D(GroupsHeld(layer, old, sp.log, Groups(sp.from)),
              GroupsHeld(layer, gen, sp.log, Groups(sp.from))) >>
    ELSE << >>

\* As IndexUpdate, but the unfinished rows are kept before the groups are compressed.
IndexUpdateTailFirst(layer, gen, raw, sp) ==
    LET done == Groups(sp.from)
        now == Groups(End(sp))
        compress == << D({raw} \cup PendingHeld(layer, sp.log, (done * Ratio)..(sp.from - 1)),
                         {<<GroupSlot(layer, gen, g), Group(layer, sp.log, g)>> : g \in done..(now - 1)}) >>
        tail == << D({raw}, PendingHeld(layer, sp.log,
                                        Max({sp.from, now * Ratio})..(End(sp) - 1))) >>
    IN  (IF End(sp) % Ratio > 0 THEN tail ELSE << >>)
        \o (IF now > done THEN compress ELSE << >>)

\* Compress the groups the chunk completes from pending and projected rows,
\* then keep the rows of the group it leaves unfinished.
IndexUpdate(layer, gen, raw, sp) ==
    LET done == Groups(sp.from)
        now == Groups(End(sp))
        compress == << D({raw} \cup PendingHeld(layer, sp.log, (done * Ratio)..(sp.from - 1)),
                         {<<GroupSlot(layer, gen, g), Group(layer, sp.log, g)>> : g \in done..(now - 1)}) >>
        tail == << D({raw}, PendingHeld(layer, sp.log,
                                        Max({sp.from, now * Ratio})..(End(sp) - 1))) >>
    IN  (IF now > done THEN compress ELSE << >>)
        \o (IF End(sp) % Ratio > 0 THEN tail ELSE << >>)

\* Score, select and expand for one tile of query rows.  Up to BlockBudget
\* groups every row is selected and nothing is scored.
IndexSelect(layer, gen, q, shape, t, sp) ==
    LET stage == Stage(layer) + 100 * t
        x(f) == Own(<<"index", q[1][2]>>, f, stage, sp)
        sparse == Groups(End(sp)) > BlockBudget
    IN  (IF sparse
         THEN << D({q} \cup shape \cup GroupsHeld(layer, gen, sp.log, Groups(End(sp))),
                   {x("scores")}),
                 D({x("scores")} \cup shape, {x("selected_groups")}) >>
         ELSE << >>)
        \o << D(shape \cup (IF sparse THEN {x("selected_groups")} ELSE {}),
                {<<<<"selection", q[1][2], t>>, C("selection", stage, sp)>>}) >>

\* The index of a chunk: grow, update, and select for every query tile.
Tiles(sp) == 0..((Rows(sp) - 1) \div QueryTile)
EveryTile(tiles) == FlattenSeq([k \in 1..Cardinality(DOMAIN tiles) |-> tiles[k - 1]])

IndexChunk(layer, old, gen, raw, q, sp) ==
    IndexGrowth(layer, old, gen, sp) \o IndexUpdate(layer, gen, raw, sp)
    \o EveryTile([t \in Tiles(sp) |-> IndexSelect(layer, gen, q, {}, t, sp)])

\* What the host tells the index of a step: the position, the slot and the
\* number of groups.
IndexShape(layer, sp) == Own(<<"index", layer>>, "shape", Stage(layer), sp)

\* The index of a step completes a group or adds a pending row.
IndexStep(layer, old, gen, raw, q, sp) ==
    LET x(f) == Own(<<"index", layer>>, f, Stage(layer), sp)
        shape == IndexShape(layer, sp)
        group == Groups(sp.from)
        complete == << D({shape}, {x("cosine"), x("sine")}),
                       D({raw, shape, x("cosine"), x("sine")}
                             \cup PendingHeld(layer, sp.log, (group * Ratio)..(sp.from - 1)),
                         {<<GroupSlot(layer, gen, group), Group(layer, sp.log, group)>>}) >>
        wait == << D({raw, shape}, PendingHeld(layer, sp.log, {sp.from})) >>
    IN  IndexGrowth(layer, old, gen, sp)
        \o (IF Groups(End(sp)) > group THEN complete ELSE wait)
        \o IndexSelect(layer, gen, q, {shape}, 0, sp)

Selection(object, layer, t, sp) ==
    <<<<"selection", object, t>>, C("selection", Stage(layer) + 100 * t, sp)>>

----------------------------------------------------------------------------
(* QSA attention of a chunk: the rows of the chunk are read from the       *)
(* projections, earlier ones from the KVarN state, which is still the one  *)
(* before the append.                                                      *)

SelectedWidth == BlockBudget * Ratio + Ratio - 1
ProjectedFields == {"index_queries", "raw_index_key", "queries", "query_gate", "keys"}
ProjectionFields == {"index_projection", "query_projection", "key_projection", "cosine", "sine"}

\* One chunk workspace for all QSA layers; a step's scratch is the layer's own.
QsaWork == <<"qsa", 0>>
QsaBlock(layer) == <<"qsa", layer>>

\* Rotary factors of the rows' positions, then norms and rotation.
QsaFields(layer, work, fields, sp) == {Own(work, f, Stage(layer), sp) : f \in fields}
RopeFactors(layer, work, positions, sp) ==
    << D(positions, QsaFields(layer, work, {"cosine", "sine"}, sp)) >>
Rotate(layer, work, sp) ==
    << D(QsaFields(layer, work, ProjectionFields, sp), QsaFields(layer, work, ProjectedFields, sp)) >>
Preparation(layer, sp) == RopeFactors(layer, QsaWork, {}, sp) \o Rotate(layer, QsaWork, sp)

QsaProjectChunk(layer, hidden, sp) ==
    LET p(f) == Own(QsaWork, f, Stage(layer), sp)
    IN  Project({hidden}, p("index_projection")) \o Project({hidden}, p("query_projection"))
        \o Project({hidden}, p("key_projection")) \o Project({hidden}, p("values"))
        \o Preparation(layer, sp)

QsaProjectStep(layer, hidden, sp) ==
    LET p(f) == Own(QsaBlock(layer), f, Stage(layer), sp)
    IN  RopeFactors(layer, QsaBlock(layer), {p("positions")}, sp)
        \o << D({hidden}, {p("index_projection")}), D({hidden}, {p("query_projection")}),
              D({hidden}, {p("key_projection")}), D({hidden}, {p("values")}) >>
        \o Rotate(layer, QsaBlock(layer), sp)

TileOf(t, sp) == (t * QueryTile)..(Min({(t + 1) * QueryTile, Rows(sp)}) - 1)
TailRows(sp) == Rows(sp) % QueryTile
IsShort(t, sp) == Cardinality(TileOf(t, sp)) <= ShortTile

\* Every row is rebuilt once when the scratch holds them all and gathering
\* would copy more.
Rebuilds(sp) ==
    LET indexed == Rows(sp) - (IF TailRows(sp) \in 1..ShortTile THEN TailRows(sp) ELSE 0)
    IN  /\ End(sp) <= QueryTile * SelectedWidth
        /\ End(sp) <= indexed * SelectedWidth

\* The one tile of gathered keys and values all tiles and layers share.
Selected == Buf(QsaWork, "selected")
Projected(f, layer, sp) == Own(QsaWork, f, Stage(layer), sp)
OfTile(f, layer, t, sp) == Own(QsaWork, f, Stage(layer) + 100 * t, sp)
Guarded(layer, t, sp) ==
    {OfTile("effective_valid", layer, t, sp), OfTile("safe_counts", layer, t, sp)}
Gated(layer, rows, sp) == {<<<<"gated", 0, row>>, C("gated", Stage(layer), sp)>> : row \in rows}
Rebuilt(layer, sp) == <<Selected, C("rebuilt", Stage(layer), sp)>>
Gathered(layer, t, sp) == <<Selected, C("gathered", Stage(layer) + 100 * t, sp)>>
Overlaid(layer, t, sp) == <<Selected, C("overlaid", Stage(layer) + 100 * t, sp)>>

\* The selected rows are checked before anything is addressed with them.
SelectionGuard(layer, t, sp) == << D({Selection(0, layer, t, sp)}, Guarded(layer, t, sp)) >>

\* Gather the committed rows of a tile, then lay the chunk's own rows over them.
GatherTile(layer, stored, t, sp) ==
    LET ids == Selection(0, layer, t, sp)
        guarded == Guarded(layer, t, sp)
    IN  SelectionGuard(layer, t, sp)
        \o << D(stored \cup {ids} \cup guarded, {Gathered(layer, t, sp)}),
              D({Projected("keys", layer, sp), Projected("values", layer, sp), ids,
                 Gathered(layer, t, sp)} \cup guarded, {Overlaid(layer, t, sp)}) >>

Reconstruct(layer, stored, sp) ==
    IF Rebuilds(sp)
    THEN << D(stored \cup {Projected("keys", layer, sp), Projected("values", layer, sp)},
              {Rebuilt(layer, sp)}) >>
    ELSE << >>

\* Attention of a gathered tile: a short one row by row over shared partials.
AttendOnline(layer, t, sp) ==
    LET guarded == Guarded(layer, t, sp)
        queries == Projected("queries", layer, sp)
        gate == Projected("query_gate", layer, sp)
        partial(row) == <<Buf(QsaWork, "online_partials"),
                          C("partial", Stage(layer) + 100 * t + 1000 * row, sp)>>
        attendRow(row) ==
            << D({queries, Overlaid(layer, t, sp)} \cup guarded, {partial(row)}),
               D({partial(row), gate} \cup guarded, Gated(layer, {row}, sp)) >>
    IN  IF IsShort(t, sp)
        THEN FlattenSeq([k \in 1..Cardinality(TileOf(t, sp)) |-> attendRow(t * QueryTile + k - 1)])
        ELSE << D({queries, gate, Overlaid(layer, t, sp)} \cup guarded,
                  Gated(layer, TileOf(t, sp), sp)) >>

AttendReconstructed(layer, t, sp) ==
    << D({Projected("queries", layer, sp), Projected("query_gate", layer, sp), Rebuilt(layer, sp),
          Selection(0, layer, t, sp)} \cup Guarded(layer, t, sp),
         Gated(layer, TileOf(t, sp), sp)) >>

AttendTile(layer, stored, t, sp) ==
    IF Rebuilds(sp) /\ ~IsShort(t, sp)
    THEN SelectionGuard(layer, t, sp) \o AttendReconstructed(layer, t, sp)
    ELSE GatherTile(layer, stored, t, sp) \o AttendOnline(layer, t, sp)

QsaOutput(layer, sp) ==
    Project(Gated(layer, 0..(Rows(sp) - 1), sp), Projected("output", layer, sp))

\* st: the layer's backings before (cmp, rec) and after (cmpNext, recNext)
\* the growth this chunk needs.
QsaChunk(layer, hidden, st, sp) ==
    LET p(f) == Projected(f, layer, sp)
        stored == Stored(layer, st.rec, sp.log, sp.from)
    IN  QsaProjectChunk(layer, hidden, sp)
        \o IndexChunk(layer, st.cmp, st.cmpNext, p("raw_index_key"), p("index_queries"), sp)
        \o Reconstruct(layer, stored, sp)
        \o EveryTile([t \in Tiles(sp) |-> AttendTile(layer, stored, t, sp)])
        \o QsaOutput(layer, sp)
        \o AppendRows(layer, st.rec, st.recNext, {p("keys"), p("values")}, sp)

\* Attention of a step reads the stored rows where they are.
AttendStep(layer, stored, sp) ==
    LET p(f) == Own(QsaBlock(layer), f, Stage(layer), sp)
        ids == Selection(layer, layer, 0, sp)
        guarded == {p("valid"), p("online_count")}
    IN  << D({ids}, guarded),
           D(stored \cup {p("queries"), p("keys"), p("values"), ids} \cup guarded,
             {p("online_partials")}),
           D({p("online_partials"), p("query_gate")} \cup guarded, {p("gated")}),
           D({p("gated")}, {p("output")}) >>

QsaStep(layer, hidden, st, sp) ==
    LET p(f) == Own(QsaBlock(layer), f, Stage(layer), sp)
    IN  QsaProjectStep(layer, hidden, sp)
        \o IndexStep(layer, st.cmp, st.cmpNext, p("raw_index_key"), p("index_queries"), sp)
        \o AttendStep(layer, Stored(layer, st.rec, sp.log, sp.from), sp)
        \o AppendRows(layer, st.rec, st.recNext, {p("keys"), p("values")}, sp)

----------------------------------------------------------------------------
(* MLP.  The router's choices are on the device; a bounded pool has the    *)
(* host read them and upload the demand it planned before the experts run. *)

MlpWork == <<"mlp", 0>>
MlpBlock(layer) == <<"mlp", layer>>
MlpObject(layer, step) == IF step THEN MlpBlock(layer) ELSE MlpWork
Mlp(object, f, layer, sp) == Own(object, f, 2 * layer, sp)

RouterChunk(layer, hidden, sp) ==
    LET m(f) == Mlp(MlpWork, f, layer, sp)
    IN  Project({hidden}, m("logits")) \o << D({m("logits")}, {m("ids"), m("scores")}) >>

\* A step's router is told the residency map by the host.
RouterStep(layer, hidden, sp) ==
    LET m(f) == Mlp(MlpBlock(layer), f, layer, sp)
    IN  << D({hidden}, {m("logits")}), D({m("logits"), m("map")}, {m("ids"), m("scores")}) >>

RouteOrder(layer, sp) ==
    << D({Mlp(MlpWork, "ids", layer, sp)}, {Mlp(MlpWork, "route_order", layer, sp)}) >>

SharedChunk(layer, hidden, sp) ==
    LET m(f) == Mlp(MlpWork, f, layer, sp)
    IN  Project({hidden}, m("gate")) \o Project({hidden}, m("up"))
        \o Project({hidden}, m("scalar")) \o << D({m("gate"), m("up")}, {m("activation")}) >>
        \o Project({m("activation")}, m("down")) \o << D({hidden}, {m("x_half")}) >>

\* Gate, up and scalar of the shared expert of a step in one dispatch.
StackedSharedFront(layer, hidden, sp) ==
    << D({hidden}, {Mlp(MlpBlock(layer), f, layer, sp) : f \in {"gate", "up", "scalar"}}) >>

SharedStep(layer, hidden, sp) ==
    LET m(f) == Mlp(MlpBlock(layer), f, layer, sp)
    IN  StackedSharedFront(layer, hidden, sp)
        \o << D({m("gate"), m("up")}, {m("activation")}), D({m("activation")}, {m("down")}) >>

\* The pairs of one set of expert slots.  The schedule is made from the routes
\* and, where the host planned the demand, rewritten in place: the order to the
\* original pairs, the schedule to physical slots.
Child(f, layer, child, sp) == Own(MlpWork, f, 2 * layer + 100 * child, sp)
PackedDown(layer, child, sp) ==
    <<<<"packed_down", 0, child>>, C("packed_down", 2 * layer + 100 * child, sp)>>
PackedChunk(layer, routes, child, mapped, sp) ==
    LET k(f) == Child(f, layer, child, sp)
        pairs == <<k("order")[1], C("pair_order", 2 * layer + 100 * child, sp)>>
        slots == <<k("schedule")[1], C("slot_schedule", 2 * layer + 100 * child, sp)>>
        plan == {k("total")} \cup IF mapped THEN {pairs, slots} ELSE {k("order"), k("schedule")}
    IN  << D({routes}, {k("order"), k("schedule"), k("total")}) >>
        \o (IF mapped
            THEN << D({k("order"), routes}, {pairs}),
                    D({k("schedule"), k("total"), routes}, {slots}) >>
            ELSE << >>)
        \o << D({Mlp(MlpWork, "x_half", layer, sp)} \cup plan, {k("packed")}),
              D({k("packed")} \cup plan, {PackedDown(layer, child, sp)}) >>

\* The children a demand is split into: one per physical chunk of the slots,
\* or a single one when a table of addresses spans them.
Children(sp) == IF Rows(sp) <= AddressedRows THEN 1..1 ELSE 1..Chunks

PackedGroup(layer, demand, sp) ==
    FlattenSeq([c \in Children(sp) |-> PackedChunk(layer, demand, c, TRUE, sp)])

\* Every pair was written once; sum the pairs of a row in the order of its routes.
ReduceRoutes(layer, children, sp) ==
    LET m(f) == Mlp(MlpWork, f, layer, sp)
    IN  << D({PackedDown(layer, c, sp) : c \in children} \cup {m("scores"), m("route_order")},
             {m("routed")}) >>

\* The selectors of a step: slots, scores and order of its ten routes.
SelectorFields == {"slots", "route_scores", "order"}
Selectors(layer, sp) == {Mlp(MlpBlock(layer), f, layer, sp) : f \in SelectorFields}

\* Every expert is resident: the device makes the selectors from its own routes.
ResidentRoutes(layer, sp) ==
    << D({Mlp(MlpBlock(layer), "ids", layer, sp), Mlp(MlpBlock(layer), "scores", layer, sp)},
         Selectors(layer, sp)) >>

\* A step exports its routes to the owner, who writes the selectors behind the
\* publication the experts wait for (module DecodeEvents).
ServedRoutes(layer, sp) ==
    LET m(f) == Mlp(MlpBlock(layer), f, layer, sp)
    IN  << D({m("ids"), m("scores")}, {m("mailbox")}), D({m("mailbox")}, Selectors(layer, sp)) >>

SelectedExperts(layer, hidden, sp) ==
    LET m(f) == Mlp(MlpBlock(layer), f, layer, sp)
    IN  << D({hidden}, {m("hidden")}),
           D({m("hidden"), m("slots"), m("order")}, {m("expert_activation")}),
           D({m("expert_activation")} \cup Selectors(layer, sp), {m("routed")}) >>

MlpFinish(object, layer, sp) ==
    LET m(f) == Mlp(object, f, layer, sp)
    IN  << D({m("routed"), m("down"), m("scalar")}, {m("shared"), m("output")}) >>
=============================================================================
