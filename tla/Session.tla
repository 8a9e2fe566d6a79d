------------------------------- MODULE Session -------------------------------
(***************************************************************************)
(* An engine consuming the tokens of a session: the host encodes a pass    *)
(* layer by layer into the open batch of a stream, submits batches, waits  *)
(* where it must read a result, and publishes the new state only after the *)
(* whole pass completed.  The device runs submitted batches in order.      *)
(*                                                                         *)
(* The state of a session is updated while a pass is under way: the        *)
(* recurrent rows, the KVarN ring and the PLE history in place, the        *)
(* convolution histories by exchanging buffers with the workspace.  A pass *)
(* that stops part way leaves all of it half advanced, which is why the    *)
(* session is invalid from the first write to the commit.                  *)
(***************************************************************************)
EXTENDS CheckpointFile

CONSTANTS
    Widths,         \* numbers of tokens a pass may consume: 1 is a step
    MaxTokens,      \* bound: tokens computed in a behaviour
    RestartCost,    \* bound: what every further session takes off MaxTokens
    MaxSessions,    \* bound: sessions started or restored
    Modes           \* "full": every expert is resident; "bounded": a pool

VARIABLES
    mem,        \* device memory
    open,       \* dispatches encoded into the batch that is not submitted
    submitted,  \* submitted batches, the first one running
    session,    \* the live session, or None
    work,       \* the pass under way, or None
    spare,      \* histories the engine holds to exchange with a session's
    saved,      \* a snapshot of a session, the file of one, or None
    mode,
    spent,      \* tokens computed so far
    started,    \* sessions started so far
    refused     \* the host touched a buffer the device still had reserved, or
                \* wrote a file of another length than it had computed

vars == <<mem, open, submitted, session, work, spare, saved, mode, spent, started, refused>>

None == [none |-> TRUE]

ASSUME SessionAssumption ==
    /\ Widths \cup {MaxTokens, MaxSessions} \subseteq Nat \ {0}
    /\ RestartCost \in Nat
    /\ Modes \subseteq {"full", "bounded"}

----------------------------------------------------------------------------
(* The buffers of a session.                                               *)

ConvBuffer(id) == <<"conv", id, "conv">>
RecurrentBuffer(layer) == <<"session", layer, "recurrent">>
PleBuffer(id) == <<"history", id, "ple">>

ConvIds == 1..(Cardinality(GdnLayers) + 1)
PleIds == {1, 2}

SessionBuffer(b) ==
    \/ b[1] \in {"session", "sink", "ring", "records", "records+",
                 "compressed", "compressed+", "pending"}
    \/ b[1] = "conv" /\ b[2] # spare.conv
    \/ b[1] = "history" /\ b[2] # spare.ple

\* A new session allocates every buffer of its own.
FreshConv(layer) ==
    SetToSortSeq(ConvIds \ {spare.conv}, <)[Cardinality({k \in GdnLayers : k <= layer})]
FreshPle == CHOOSE id \in PleIds : id # spare.ple

LayerAt(layer, frontier) ==
    [conv |-> IF layer \in GdnLayers THEN FreshConv(layer) ELSE 0,
     cmp |-> 0, cmpCap |-> Max({1, Groups(frontier)}),
     rec |-> 0, recCap |-> Records(frontier),
     frontier |-> frontier, valid |-> TRUE]

\* The PLE hashes the last two tokens; an empty history stands in for them.
Context(log) == <<IF Len(log) > 1 THEN log[Len(log) - 1] ELSE 0,
                  IF log # << >> THEN log[Len(log)] ELSE 0>>

SessionAt(log) ==
    [log |-> log, valid |-> TRUE,
     layers |-> [l \in 1..Layers |-> LayerAt(l, Len(log))],
     choice |-> Nothing,    \* the last greedy choice
     row |-> Nothing,       \* the logits the host keeps once it has read them
     ple |-> [conv |-> FreshPle, context |-> Context(log), offset |-> Len(log)]]

\* Every part of the session's state, under the name a snapshot gives it, and
\* the buffer that holds it.
Parts(s) ==
    LET f == Len(s.log)
    IN  {<< <<"conv", l>>, ConvBuffer(s.layers[l].conv)>> : l \in GdnLayers}
        \cup {<< <<"recurrent", l>>, RecurrentBuffer(l)>> : l \in GdnLayers}
        \cup {<< <<"ple", 0>>, PleBuffer(s.ple.conv)>>, << <<"logits", 0>>, Logits>>}
        \cup UNION {{<<SinkSlot(l, r), SinkSlot(l, r)>> : r \in 0..(Sink - 1)}
                    \cup {<<RingSlot(l, Sink + r), RingSlot(l, Sink + r)>> : r \in 0..(Ring - 1)}
                    \cup {<<Record(l, 0, i), Record(l, s.layers[l].rec, i)>> : i \in 0..(Records(f) - 1)}
                    \cup {<<GroupSlot(l, 0, g), GroupSlot(l, s.layers[l].cmp, g)>> : g \in 0..(Groups(f) - 1)}
                    \cup {<<PendingSlot(l, r), PendingSlot(l, r)>> : r \in 0..((f % Ratio) - 1)}
                    : l \in QsaLayers}

Names(s) == {p[1] : p \in Parts(s)}
Zero(s) == [part \in Names(s) |->
    IF part[1] \in {"conv", "recurrent", "ple", "logits"} THEN Held(part[1], part[2], << >>) ELSE Nothing]

\* Device memory with the buffers of session s allocated and filled from parts.
Allocated(s, content) ==
    [b \in {p[2] : p \in Parts(s)} |-> content[(CHOOSE p \in Parts(s) : p[2] = b)[1]]]
    @@ [b \in {x \in DOMAIN mem : ~SessionBuffer(x)} |-> mem[b]]

Init ==
    /\ mem = (NoBuffer :> Nothing)
    /\ open = << >> /\ submitted = << >>
    /\ session = None /\ work = None /\ saved = None
    /\ spare = [conv |-> 1, ple |-> 1]
    /\ mode \in Modes
    /\ spent = 0 /\ started = 0
    /\ refused = FALSE

Idle == work = None
Working == work # None

\* Bound: a snapshot is forgotten when no further session could use it.
Kept(snapshot) == IF started + 1 < MaxSessions THEN snapshot ELSE None

\* start_session: an empty session.
StartSession ==
    /\ Idle /\ session = None /\ started < MaxSessions
    /\ session' = SessionAt(<< >>)
    /\ mem' = Allocated(SessionAt(<< >>), Zero(SessionAt(<< >>)))
    /\ started' = started + 1
    /\ saved' = Kept(saved)
    /\ UNCHANGED <<open, submitted, work, spare, mode, spent, refused>>

\* Every layer and the PLE agree with the session's frontier.
Agreed(s) ==
    /\ s.ple.offset = Len(s.log)
    /\ \A l \in 1..Layers : s.layers[l].valid /\ s.layers[l].frontier = Len(s.log)

Bytes(b) == IF b \in DOMAIN mem THEN mem[b] ELSE Nothing

\* last_logits_bf16: read once, then kept.
LastLogits(s) == IF s.row = Nothing THEN Bytes(Logits) ELSE s.row

\* read_buffer of each part.
DeviceParts(s) == [n \in Names(s) |-> Bytes((CHOOSE p \in Parts(s) : p[1] = n)[2])]

\* snapshot_inner: copy every part of the session to host memory.
ReadParts(s) == [DeviceParts(s) EXCEPT ![<<"logits", 0>>] = LastLogits(s)]

\* validate_snapshot_source
Committed == session # None /\ session.valid /\ Agreed(session) /\ session.log # << >>

\* snapshot: a copy of a committed session in host memory.
Snapshot ==
    /\ Idle /\ Committed
    /\ saved = None /\ started < MaxSessions   \* bound: one that can be restored
    /\ saved' = [log |-> session.log, parts |-> ReadParts(session), context |-> session.ple.context,
                 frontiers |-> [l \in 1..Layers |-> session.layers[l].frontier]]
    /\ session' = [session EXCEPT !.row = LastLogits(session)]
    /\ UNCHANGED <<mem, open, submitted, work, spare, mode, spent, started, refused>>

\* restore: a session of its own from a snapshot, which it does not consume.
Restored(log, parts, row, context) ==
    LET content == [part \in Names(SessionAt(log)) |->
                       IF part \in DOMAIN parts THEN parts[part] ELSE Nothing]
    IN  /\ session' = [SessionAt(log) EXCEPT !.row = row, !.ple.context = context]
        /\ mem' = Allocated(SessionAt(log), content)
        /\ started' = started + 1
        /\ saved' = Kept(saved)

\* validate_metadata: the parts of a snapshot are of one frontier.
MetadataHolds(snapshot) ==
    /\ Len(snapshot.log) \in 1..MaxContext
    /\ snapshot.context = Context(snapshot.log)
    /\ \A l \in 1..Layers : snapshot.frontiers[l] = Len(snapshot.log)

InMemory == saved # None /\ "parts" \in DOMAIN saved
InFile == saved # None /\ "body" \in DOMAIN saved

Restore ==
    /\ Idle /\ session = None /\ InMemory /\ started < MaxSessions
    /\ MetadataHolds(saved)
    /\ Restored(saved.log, saved.parts, saved.parts[<<"logits", 0>>], saved.context)
    /\ UNCHANGED <<open, submitted, work, spare, mode, spent, refused>>

\* save: the file replaces the slot only when it is complete.
WriteSession ==
    /\ Idle /\ Committed
    /\ saved = None /\ started < MaxSessions   \* bound: one that can be restored
    /\ ExpectedLayout(Len(session.log)).rows <= MaxFileRows
    /\ LET file == WriteFile(session.log, DeviceParts(session))
       IN  /\ saved' = IF WrittenAsPlanned(file) THEN file ELSE None
           /\ refused' = (refused \/ ~WrittenAsPlanned(file))
    /\ UNCHANGED <<mem, open, submitted, session, work, spare, mode, spent, started>>

\* The disk changes the file while no session is live.  Bound: once, and a file
\* whose ring has wrapped, so that every section holds something.
DiskFails ==
    /\ Idle /\ session = None /\ InFile /\ DigestHolds(saved) /\ saved.header.scope = Scope
    /\ saved.header.frontier > Sink + Ring
    /\ saved' \in Damaged(saved)
    /\ UNCHANGED <<mem, open, submitted, session, work, spare, mode, spent, started, refused>>

\* A prompt that goes on where the file ends, one that ends before, and another.
Requests(file) ==
    LET log == file.header.prefix
    IN  {Append(log, 0), SubSeq(log, 1, Len(log) - 1), [log EXCEPT ![1] = 0]}

\* load_match: a session only when every check holds; unusable files are removed.
ReadSession(requested) ==
    /\ Idle /\ session = None /\ InFile /\ started < MaxSessions
    /\ ReadFile(saved, requested) = "session"
    /\ Restored(SubSeq(requested, 1, saved.header.frontier), FileParts(saved),
                Nothing, Context(saved.header.prefix))
    /\ UNCHANGED <<open, submitted, work, spare, mode, spent, refused>>

RemoveInvalid(requested) ==
    /\ Idle /\ session = None /\ InFile
    /\ ReadFile(saved, requested) = "invalid"
    /\ saved' = None
    /\ UNCHANGED <<mem, open, submitted, session, work, spare, mode, spent, started, refused>>

\* The request is over; its session is dropped.
EndSession ==
    /\ Idle /\ session # None
    /\ session' = None
    /\ UNCHANGED <<mem, open, submitted, work, spare, saved, mode, spent, started, refused>>

----------------------------------------------------------------------------
(* Starting a pass.                                                        *)

RowsA == HcRows(0)
RowsB == HcRows(1)
GraphInput == <<"graph", 0, "input">>
Embedded(step) == IF step THEN GraphInput ELSE Buf(RowsB, "updated")

Reserved == UNION {{o[1] : o \in submitted[i][j].in \cup submitted[i][j].out} :
                      <<i, j>> \in UNION {{i} \X DOMAIN submitted[i] : i \in DOMAIN submitted}}
            \cup UNION {{o[1] : o \in open[j].in \cup open[j].out} : j \in DOMAIN open}

\* A token of its own for every session, so that what an earlier session left
\* in a buffer differs from what this one would put there.
Tokens(n) == [k \in 1..n |-> started]

\* prefill_chunk for several tokens, step for one.
BeginPass(n) ==
    /\ Idle /\ session # None /\ session.valid /\ Agreed(session)
    /\ Len(session.log) + n <= MaxContext
    /\ spent + n + (started - 1) * RestartCost <= MaxTokens
    /\ LET sp == [from |-> Len(session.log), log |-> session.log \o Tokens(n)]
           step == n = 1
       IN  /\ work' = [sp |-> sp, step |-> step, layer |-> 1, at |-> "encode", allow |-> 0,
                       x |-> [value |-> Embedded(step), out |-> NoBuffer, injection |-> NoBuffer],
                       pled |-> FALSE]
           /\ mem' = (Embedded(step) :> C("embedding", 1, sp)) @@ mem
           /\ refused' = (refused \/ Embedded(step) \in Reserved)
    /\ session' = [session EXCEPT !.valid = FALSE]
    /\ spent' = spent + n
    /\ UNCHANGED <<open, submitted, spare, saved, mode, started>>

----------------------------------------------------------------------------
(* Encoding a layer.                                                       *)

\* Backings of a QSA layer after the growth this pass needs; a grown backing
\* is a new buffer and the old one is only read from.
Grown(st, sp) ==
    LET cmpCap == GrownTo(st.cmpCap, Groups(End(sp)), Groups(MaxContext), 0)
        recCap == GrownTo(st.recCap, Records(End(sp)), Records(MaxContext), 1)
    IN  [cmpNext |-> IF cmpCap = st.cmpCap THEN st.cmp ELSE 1 - st.cmp, cmpCap |-> cmpCap,
         recNext |-> IF recCap = st.recCap THEN st.rec ELSE 1 - st.rec, recCap |-> recCap]

\* decode_backing_growth: a step that grows a backing retires every layer.
Grows(s) ==
    \E l \in QsaLayers :
        LET sp == [from |-> Len(s.log), log |-> s.log \o Tokens(1)]
            g == Grown(s.layers[l], sp)
        IN  g.cmpCap # s.layers[l].cmpCap \/ g.recCap # s.layers[l].recCap

\* The residual with its pending output folded in, for the PLE to read.
Folded(w, target) ==
    IF w.x.out = NoBuffer THEN [value |-> w.x.value, graph |-> << >>]
    ELSE [value |-> target, graph |-> Materialize(w.x, Stage(PleLayer), target, w.sp)]

\* The PLE of a chunk advances its history in place, that of a step exchanges it.
PleChunkPart(w) ==
    LET folded == Folded(w, Buf(RowsA, "updated"))
    IN  folded.graph \o PleChunk(folded.value, PleBuffer(session.ple.conv), w.sp)

PleStepPart(w) ==
    LET folded == Folded(w, <<"graph", 0, "materialized">>)
    IN  folded.graph
        \o PleStep(folded.value, PleBuffer(session.ple.conv), PleBuffer(spare.ple), w.sp)

PleObject(w) == IF w.step THEN PleBlock ELSE PleWork
PleUpload(w) ==
    (Buf(PleObject(w), "embedding") :>
        IF session.ple.context = Context(Old(w.sp)) /\ session.ple.offset = w.sp.from
        THEN C("embedding", Stage(PleLayer), w.sp) ELSE Garbage)

AttentionRows(w) == IF w.step THEN <<"attention", w.layer>> ELSE RowsA
MlpRows(w) == IF w.step THEN <<"mlp_read", w.layer>> ELSE RowsB
Mixed(rows, stage, sp) == Own(rows, "mixed", stage, sp)

MixerOutput(w) ==
    LET qsa == IF w.step THEN QsaBlock(w.layer) ELSE QsaWork
        gdn == IF w.step THEN GdnBlock(w.layer) ELSE GdnWork
    IN  Buf(IF w.layer \in QsaLayers THEN qsa ELSE gdn, "output")

Backing(w) ==
    LET st == session.layers[w.layer]
        g == Grown(st, w.sp)
    IN  [cmp |-> st.cmp, cmpNext |-> g.cmpNext, rec |-> st.rec, recNext |-> g.recNext]

\* What the first and the second residual read of a layer are given.
FirstRead(w) ==
    IF w.layer = PleLayer THEN NoPending @@ [value |-> Buf(PleObject(w), "pled")] ELSE w.x
SecondRead(w) ==
    [value |-> Buf(AttentionRows(w), "updated"), out |-> MixerOutput(w),
     injection |-> Buf(AttentionRows(w), "injection")]

\* Everything a layer of a chunk encodes in front of its MLP.
ChunkMixer(w, hidden) ==
    IF w.layer \in QsaLayers THEN QsaChunk(w.layer, hidden, Backing(w), w.sp)
    ELSE GdnChunk(w.layer, hidden, ConvBuffer(session.layers[w.layer].conv), ConvBuffer(spare.conv),
                  RecurrentBuffer(w.layer), w.sp)

ChunkFront(w) ==
    (IF w.layer = PleLayer THEN PleChunkPart(w) ELSE << >>)
    \o HcChunk(FirstRead(w), Stage(w.layer), AttentionRows(w), w.sp)
    \o ChunkMixer(w, Mixed(AttentionRows(w), Stage(w.layer), w.sp))
    \o HcChunk(SecondRead(w), 2 * w.layer, MlpRows(w), w.sp)

\* The same for one token: a GDN block, or a QSA one.
GdnBlockStep(w) ==
    HcStep(FirstRead(w), Stage(w.layer), AttentionRows(w), w.sp)
    \o GdnStep(w.layer, Mixed(AttentionRows(w), Stage(w.layer), w.sp),
               ConvBuffer(session.layers[w.layer].conv), RecurrentBuffer(w.layer), w.sp)
    \o HcStep(SecondRead(w), 2 * w.layer, MlpRows(w), w.sp)

QsaBlockStep(w) ==
    HcStep(FirstRead(w), Stage(w.layer), AttentionRows(w), w.sp)
    \o QsaStep(w.layer, Mixed(AttentionRows(w), Stage(w.layer), w.sp), Backing(w), w.sp)
    \o HcStep(SecondRead(w), 2 * w.layer, MlpRows(w), w.sp)

StepFront(w) ==
    (IF w.layer = PleLayer THEN PleStepPart(w) ELSE << >>)
    \o (IF w.layer \in QsaLayers THEN QsaBlockStep(w) ELSE GdnBlockStep(w))

\* The layer's state while the pass is unpublished.
Staged(st, w) ==
    LET g == Grown(st, w.sp)
    IN  IF w.layer \in QsaLayers
        THEN [st EXCEPT !.cmp = g.cmpNext, !.cmpCap = g.cmpCap,
                        !.rec = g.recNext, !.recCap = g.recCap, !.valid = FALSE]
        ELSE [st EXCEPT !.conv = IF w.step THEN @ ELSE spare.conv, !.valid = FALSE]

StagedPle(w) ==
    [conv |-> IF w.step THEN spare.ple ELSE session.ple.conv,
     context |-> Context(w.sp.log), offset |-> session.ple.offset + Rows(w.sp)]

\* What a layer leaves for the next one to read.
Leaves(w) ==
    [value |-> Buf(MlpRows(w), "updated"),
     out |-> Buf(MlpObject(w.layer, w.step), "output"),
     injection |-> Buf(MlpRows(w), "injection")]

\* A full pool routes on the device, and so does a step whose demand the
\* owner serves while the stream runs; the others wait for the routes.
Waits(w) == mode = "bounded" /\ (~w.step \/ Grows([session EXCEPT !.valid = TRUE, !.log = Old(w.sp)]))
Overlaps(w) == Waits(w) /\ (w.step \/ Rows(w.sp) >= WideRows)

Hidden(w) == Mixed(MlpRows(w), 2 * w.layer, w.sp)
Ids(w) == Mlp(MlpObject(w.layer, w.step), "ids", w.layer, w.sp)
Demand(w) == Mlp(MlpWork, "demand", w.layer, w.sp)

\* As ChunkRoutes, but the order of the routes is computed in the second batch.
ChunkRoutesOrderLate(w) ==
    LET router == open \o ChunkFront(w) \o RouterChunk(w.layer, Hidden(w), w.sp)
        shared == SharedChunk(w.layer, Hidden(w), w.sp)
    IN  IF Overlaps(w) THEN <<router, shared \o RouteOrder(w.layer, w.sp)>>
        ELSE <<router \o shared \o RouteOrder(w.layer, w.sp)>>

\* What a chunk encodes in front of its experts.  A wide one submits the routes
\* and their order first and the shared expert behind them.
ChunkRoutes(w) ==
    LET router == open \o ChunkFront(w) \o RouterChunk(w.layer, Hidden(w), w.sp)
        shared == SharedChunk(w.layer, Hidden(w), w.sp)
    IN  IF Overlaps(w) THEN <<router \o RouteOrder(w.layer, w.sp), shared>>
        ELSE <<router \o shared \o RouteOrder(w.layer, w.sp)>>

\* What a step encodes in front of its experts.
StepRoutes(w) ==
    LET router == open \o StepFront(w) \o RouterStep(w.layer, Hidden(w), w.sp)
        shared == SharedStep(w.layer, Hidden(w), w.sp)
    IN  CASE Waits(w) -> <<router, shared>>
          [] mode = "bounded" /\ ~Waits(w) -> <<router \o ServedRoutes(w.layer, w.sp) \o shared>>
          [] OTHER -> <<router \o ResidentRoutes(w.layer, w.sp)>>

\* A chunk's experts: from the routes on the device, or the demand of the host.
ChunkExperts(w) ==
    IF mode = "full"
    THEN PackedChunk(w.layer, Ids(w), 0, FALSE, w.sp) \o ReduceRoutes(w.layer, {0}, w.sp)
    ELSE PackedGroup(w.layer, Demand(w), w.sp) \o ReduceRoutes(w.layer, Children(w.sp), w.sp)

\* A step's experts; with every expert resident its shared part comes after them.
StepExperts(w) ==
    SelectedExperts(w.layer, Hidden(w), w.sp)
    \o (IF mode = "full" THEN SharedStep(w.layer, Hidden(w), w.sp) ELSE << >>)

Experts(w) ==
    (IF w.step THEN StepExperts(w) ELSE ChunkExperts(w))
    \o MlpFinish(MlpObject(w.layer, w.step), w.layer, w.sp)

Upload(operands) == [b \in {o[1] : o \in operands} |-> (CHOOSE o \in operands : o[1] = b)[2]]

\* What the host writes while it encodes a step: the positions of a QSA layer,
\* the shape of its index and the residency map of the router.
StepUploads(w) ==
    (IF w.layer \in QsaLayers
     THEN {Own(QsaBlock(w.layer), "positions", Stage(w.layer), w.sp), IndexShape(w.layer, w.sp)}
     ELSE {})
    \cup {Mlp(MlpBlock(w.layer), "map", w.layer, w.sp)}

\* The demand the host wrote: uploaded for a chunk, selectors in place for a step.
RouteUploads(w) ==
    Upload({<<o[1], IF Holds(mem, Ids(w)) THEN o[2] ELSE Garbage>> :
               o \in IF w.step THEN Selectors(w.layer, w.sp) ELSE {Demand(w)}})

Ready(w) == w.at = "encode" \/ (w.at = "boundary" /\ submitted = << >>)

\* Submit the batches of a layer that waits for its routes.
WaitForRoutes(batches) ==
    /\ submitted' = submitted \o batches
    /\ open' = << >>
    /\ work' = [work EXCEPT !.at = "routes", !.pled = @ \/ work.layer = PleLayer,
                            !.allow = Len(batches) - 1]

\* Go on with the next layer; flush hands the open batch to the device.
GoOn(encoded, flush) ==
    /\ submitted' = IF flush THEN Append(submitted, encoded) ELSE submitted
    /\ open' = IF flush THEN << >> ELSE encoded
    /\ work' = [work EXCEPT !.at = "encode", !.layer = @ + 1, !.x = Leaves(work),
                            !.pled = @ \/ work.layer = PleLayer]

Uploaded(writes) ==
    /\ mem' = writes @@ mem
    /\ refused' = (refused \/ DOMAIN writes \cap Reserved # {})

StageLayer ==
    session' = [session EXCEPT
        !.layers[work.layer] = Staged(@, work),
        !.ple = IF work.layer = PleLayer THEN StagedPle(work) ELSE @]

\* encode_layer of a chunk.  The convolution histories are exchanged as soon as
\* the dispatches that write them are encoded.
EncodeLayer ==
    /\ Working /\ Ready(work) /\ ~work.step /\ work.layer <= Layers
    /\ StageLayer
    /\ spare' = IF work.layer \in GdnLayers
                THEN [spare EXCEPT !.conv = session.layers[work.layer].conv] ELSE spare
    /\ Uploaded(IF work.layer = PleLayer THEN PleUpload(work) ELSE << >>)
    /\ IF Waits(work) THEN WaitForRoutes(ChunkRoutes(work))
       ELSE GoOn(ChunkRoutes(work)[1] \o Experts(work), mode = "full" /\ work.layer = 2)
    /\ UNCHANGED <<saved, mode, spent, started>>

\* A layer of a step; here the PLE's histories are exchanged.
StepLayer ==
    /\ Working /\ Ready(work) /\ work.step /\ work.layer <= Layers
    /\ StageLayer
    /\ spare' = IF work.layer = PleLayer THEN [spare EXCEPT !.ple = session.ple.conv] ELSE spare
    /\ Uploaded((IF work.layer = PleLayer THEN PleUpload(work) ELSE << >>)
                @@ Upload(StepUploads(work)))
    /\ IF Waits(work) THEN WaitForRoutes(StepRoutes(work))
       ELSE GoOn(StepRoutes(work)[1] \o Experts(work), mode = "bounded" \/ work.layer = 2)
    /\ UNCHANGED <<saved, mode, spent, started>>

\* The routes were computed: read them, load the experts, encode the rest.
EncodeExperts ==
    /\ Working /\ work.at = "routes" /\ Len(submitted) <= work.allow
    /\ mem' = RouteUploads(work) @@ mem
    /\ open' = open \o Experts(work)
    /\ refused' = (refused \/ Ids(work)[1] \in Reserved
                           \/ (work.step /\ DOMAIN RouteUploads(work) \cap Reserved # {}))
    /\ work' = [work EXCEPT !.at = "encode", !.layer = @ + 1, !.x = Leaves(work)]
    /\ UNCHANGED <<submitted, session, spare, saved, mode, spent, started>>

\* After a layer of a chunk a bounded engine may let its owner act: it first
\* completes what is queued.
Boundary ==
    /\ Working /\ work.at = "encode" /\ work.layer > 1 /\ ~work.step
    /\ mode = "bounded" /\ open # << >>
    /\ submitted' = Append(submitted, open)
    /\ open' = << >>
    /\ work' = [work EXCEPT !.at = "boundary"]
    /\ UNCHANGED <<mem, session, spare, saved, mode, spent, started, refused>>

\* The final head and the greedy choice; the stream is completed.
QueueHead ==
    /\ submitted' = Append(submitted, open \o HeadRow(work.x, work.sp) \o Greedy(work.sp))
    /\ open' = << >>
    /\ Uploaded(Upload({Seen(work.sp)}))
    /\ work' = [work EXCEPT !.at = "head"]
    /\ UNCHANGED <<session, spare, saved, mode, spent, started>>

\* A chunk makes sure that its PLE ran before the head, a step before the commit.
EncodeHead ==
    /\ Working /\ Ready(work) /\ ~work.step /\ work.layer > Layers
    /\ work.pled
    /\ QueueHead

StepHead ==
    /\ Working /\ Ready(work) /\ work.step /\ work.layer > Layers
    /\ QueueHead

\* Everything completed: publish every layer and commit the tokens.
Published(st, sp) == [st EXCEPT !.valid = TRUE, !.frontier = @ + Rows(sp)]

\* commit_device_output: the logits row the host kept is forgotten.
CommitOutput(s, sp) == [s EXCEPT !.valid = TRUE, !.log = sp.log, !.row = Nothing]

Commit ==
    /\ Working /\ work.at = "head" /\ submitted = << >>
    /\ LET layers == [l \in 1..Layers |-> Published(session.layers[l], work.sp)]
           published == [session EXCEPT !.layers = layers, !.choice = mem[Choice]]
       IN  /\ \A l \in 1..Layers : layers[l].frontier = End(work.sp)
           /\ work.pled /\ session.ple.offset = End(work.sp)
           /\ session' = CommitOutput(published, work.sp)
    /\ work' = None
    /\ UNCHANGED <<mem, open, submitted, spare, saved, mode, spent, started, refused>>

\* sample_committed: choose from the logits of a session that was restored.
SampleCommitted ==
    /\ Idle /\ session # None /\ session.valid /\ session.log # << >>
    /\ session.choice = Nothing
    /\ LET sp == [from |-> Len(session.log), log |-> session.log]
       IN  /\ work' = [sp |-> sp, at |-> "sample"]
           /\ submitted' = Append(submitted, Greedy(sp))
           /\ Uploaded(Upload({Seen(sp)}))
    /\ UNCHANGED <<open, session, spare, saved, mode, spent, started>>

ReadChoice ==
    /\ Working /\ work.at = "sample" /\ submitted = << >>
    /\ session' = [session EXCEPT !.choice = mem[Choice]]
    /\ work' = None
    /\ UNCHANGED <<mem, open, submitted, spare, saved, mode, spent, started, refused>>

\* The owner cancels between layers, or an encoding, a device command or a
\* finiteness check fails: unsubmitted work is dropped, submitted work drained,
\* and the session is never valid again.
Abort ==
    /\ Working /\ work.at # "abort"
    /\ open' = << >>
    /\ work' = [work EXCEPT !.at = "abort"]
    /\ UNCHANGED <<mem, submitted, session, spare, saved, mode, spent, started, refused>>

Drained ==
    /\ Working /\ work.at = "abort" /\ submitted = << >>
    /\ work' = None
    /\ session' = None
    /\ UNCHANGED <<mem, open, submitted, spare, saved, mode, spent, started, refused>>

\* The device completes its oldest batch.
DeviceRuns ==
    /\ submitted # << >>
    /\ mem' = Execute(mem, submitted[1])
    /\ submitted' = Tail(submitted)
    /\ UNCHANGED <<open, session, work, spare, saved, mode, spent, started, refused>>

Next ==
    \/ StartSession \/ Snapshot \/ Restore \/ EndSession
    \/ WriteSession \/ DiskFails
    \/ InFile /\ \E requested \in Requests(saved) : ReadSession(requested) \/ RemoveInvalid(requested)
    \/ \E n \in Widths : BeginPass(n)
    \/ EncodeLayer \/ StepLayer \/ EncodeExperts \/ Boundary \/ EncodeHead \/ StepHead
    \/ SampleCommitted \/ ReadChoice
    \/ Commit \/ Abort \/ Drained \/ DeviceRuns

Spec == Init /\ [][Next]_vars

----------------------------------------------------------------------------
(* Properties.                                                             *)

\* Whenever a session is valid, every part of its state is exactly what its
\* token log says: convolution and recurrent state, each KVarN row wherever it
\* is stored, each index group and pending row, PLE history and context, the
\* logits, the row of them the host keeps and the choice made from them; and
\* every layer is at the same frontier.  A pass that shares, swaps or grows a
\* buffer wrongly or stops part way, and a checkpoint that loses or mixes up a
\* row or is restored although it was damaged, show here.
CommittedState ==
    (session # None /\ session.valid) =>
        LET log == session.log
            f == Len(log)
        IN  /\ Agreed(session)
            /\ session.ple.context = Context(log)
            /\ Holds(mem, <<PleBuffer(session.ple.conv), Held("ple", 0, log)>>)
            /\ Holds(mem, <<Logits, Held("logits", 0, log)>>)
            /\ session.row \in {Nothing, Held("logits", 0, log)}
            /\ session.choice \in {Nothing, Held("id", 0, log)}
            /\ \A l \in GdnLayers :
                  /\ Holds(mem, <<ConvBuffer(session.layers[l].conv), Conv(l, log)>>)
                  /\ Holds(mem, <<RecurrentBuffer(l), Recurrent(l, log)>>)
            /\ \A l \in QsaLayers :
                  /\ \A o \in Stored(l, session.layers[l].rec, log, f) : Holds(mem, o)
                  /\ \A o \in GroupsHeld(l, session.layers[l].cmp, log, Groups(f)) : Holds(mem, o)
                  /\ \A o \in PendingHeld(l, log, (Groups(f) * Ratio)..(f - 1)) : Holds(mem, o)

\* No check the host makes of its own work fails: it never writes or reads a
\* buffer that a queued command binds, which Metal would refuse (read_bytes,
\* write_bytes), and a checkpoint has the length its layout promised.
NeverReserved == ~refused
=============================================================================
