----------------------------- MODULE DecodeEvents -----------------------------
(***************************************************************************)
(* Decode tokens and their expert demands: Engine::step_inner              *)
(* (src/engine.rs), the MLP of each layer (src/mlp.rs), its DecodeHandoff  *)
(* (src/decode_handoff.rs), its expert pool (src/experts.rs) and the       *)
(* ordered command stream (src/metal.rs), against the GPU.                 *)
(*                                                                         *)
(* The owner enqueues a window of layers, each as one command that routes, *)
(* exports the chosen experts, signals `ready`, waits for `publication`    *)
(* and then multiplies by the expert rows if the layer's flag says they    *)
(* were published.  It then serves each layer: it waits for the routes,    *)
(* loads the missing rows into the pool, writes the selectors and the flag *)
(* and releases the publication event.  A token for which a cache backing  *)
(* must grow instead retires the router of each layer before it loads.     *)
(* The GPU runs commands in order.  Kernels that read no expert storage    *)
(* are left out, and so is the work between two layers.                    *)
(***************************************************************************)
EXTENDS ExpertPool, Sequences

CONSTANTS
    NumLayers,  \* layers of the model
    Window,     \* EVENT_SERVICE_WINDOW
    TopK,       \* routes of a token in one layer
    MaxToken,   \* bound on the tokens considered
    Outcomes    \* what fallible calls and the device may do: succeed, or fail

ASSUME DecodeAssumption ==
    /\ NumLayers \in Nat \ {0} /\ Window \in Nat \ {0}
    /\ TopK \in 1 .. MaxSlots
    /\ MaxToken \in Nat
    /\ Outcomes \subseteq BOOLEAN /\ TRUE \in Outcomes

Layers == 1 .. NumLayers
Routes == {r \in SUBSET Sources : Cardinality(r) = TopK}

VARIABLES
    pool,         \* the expert pool of each layer
    selectors,    \* Scratch.slots of each layer: the slot of each route
    epoch,        \* DecodeHandoff.epoch
    flag,         \* DecodeHandoff.flag
    mailbox,      \* DecodeHandoff.mailbox: the exported routes
    ready,        \* value of the ready event
    publication,  \* value of the publication event
    pc,           \* where the owner is
    at,           \* the layer it is at
    served,       \* layers served in this token
    wanted,       \* routes read from the mailbox
    slot,         \* the slot being overwritten, or Absent
    active,       \* Stream.active: what is encoded and not submitted
    gates,        \* Stream.publication_gates: layers with a registered point
    queue,        \* Stream.pending: submitted commands, oldest first
    token,        \* history: number of the token
    valid,        \* the session's last step was committed
    ran,          \* commands the GPU has finished
    phase,        \* of the command it is at
    used          \* history: the token for which each layer last used its rows

handoff == <<epoch, flag, mailbox, ready, publication>>
owner == <<pc, at, served, wanted, slot, token, valid>>
stream == <<active, gates, queue>>
device == <<ran, phase, used>>
vars == <<pool, selectors, handoff, owner, stream, device>>

Places == {"idle", "enqueue", "read", "load", "write", "publish",
           "route", "routed", "encode", "wait", "drain"}
Phases == {"start", "gate", "kernel", "skip"}
Commands == [layer : Layers, kind : {"event", "route", "rows"}, error : BOOLEAN]
Command(l, kind) == [layer |-> l, kind |-> kind, error |-> FALSE]
Selectors == UNION {[r -> 1 .. MaxSlots] : r \in Routes \union {{}}}

\* What each variable can hold.
TypeOK ==
    /\ pool \in [Layers -> Pools]
    /\ selectors \in [Layers -> Selectors]
    /\ epoch \in [Layers -> 0 .. MaxToken]
    /\ flag \in [Layers -> {0, 1}]
    /\ mailbox \in [Layers -> Routes \union {{}}]
    /\ ready \in [Layers -> 0 .. MaxToken]
    /\ publication \in [Layers -> 0 .. MaxToken]
    /\ pc \in Places
    /\ at \in 0 .. NumLayers
    /\ served \in 0 .. NumLayers
    /\ wanted \in Routes \union {{}}
    /\ slot \in 0 .. MaxSlots
    /\ gates \subseteq Layers
    /\ queue \in Seq(Commands)
    /\ active \in Seq(Commands)
    /\ token \in 0 .. MaxToken
    /\ valid \in BOOLEAN
    /\ ran \in 0 .. Len(queue)
    /\ phase \in Phases
    /\ used \in [Layers -> 0 .. MaxToken]

Init ==
    /\ pool = [l \in Layers |-> EmptyPool(MaxSlots)]
    /\ selectors = [l \in Layers |-> [s \in {} |-> Absent]]
    /\ epoch = [l \in Layers |-> 0]
    /\ flag = [l \in Layers |-> 0]
    /\ mailbox = [l \in Layers |-> {}]
    /\ ready = [l \in Layers |-> 0]
    /\ publication = [l \in Layers |-> 0]
    /\ pc = "idle" /\ at = 0 /\ served = 0 /\ wanted = {} /\ slot = Absent
    /\ active = <<>>
    /\ gates = {}
    /\ queue = <<>>
    /\ token = 0
    /\ valid = TRUE
    /\ ran = 0 /\ phase = "start"
    /\ used = [l \in Layers |-> 0]

\* The event point of the layer's current demand.
Reached(event, l) == event[l] >= epoch[l]

\* A batch or an unretired command still holds the layer's expert buffers.
Holds(commands, l) ==
    \E i \in 1 .. Len(commands) : commands[i].layer = l /\ commands[i].kind # "route"
Reserved(l) == Holds(active, l) \/ Holds(queue, l)

-----------------------------------------------------------------------------
(* Leaving a token *)

\* Mutant: the stream drops its gates without opening them.
AbortSilently ==
    /\ pc' = "drain"
    /\ gates' = {}
    /\ active' = <<>>
    /\ UNCHANGED publication

\* Any error leaves step_inner, and dropping the stream aborts it: every
\* registered point is released, unsubmitted work is cancelled, and the
\* submitted commands are waited for.
Abort ==
    /\ pc' = "drain"
    /\ gates' = {}
    /\ active' = <<>>
    /\ publication' = [l \in Layers |->
            IF l \in gates /\ ~Reached(publication, l) THEN epoch[l] ELSE publication[l]]

Failure ==
    /\ Abort
    /\ UNCHANGED <<pool, selectors, epoch, flag, mailbox, ready, at, served, wanted, slot,
                   token, valid, queue, device>>

\* drain_through the last command: all have completed, their buffers are free.
RetireAll ==
    /\ ran = Len(queue)
    /\ queue' = <<>>
    /\ ran' = 0
    /\ UNCHANGED <<phase, used>>

BackToIdle == pc' = "idle" /\ at' = 0 /\ served' = 0 /\ wanted' = {} /\ slot' = Absent

Drained ==
    /\ pc = "drain"
    /\ RetireAll
    /\ BackToIdle
    /\ UNCHANGED <<pool, selectors, handoff, token, valid, active, gates>>

-----------------------------------------------------------------------------
(* step_inner *)

\* A step of a valid session, which is a new one after a failure.
BeginToken(grows) ==
    /\ pc = "idle"
    /\ token < MaxToken
    /\ token' = token + 1
    /\ valid' = FALSE
    /\ pc' = IF grows THEN "route" ELSE "enqueue"
    /\ at' = 1
    /\ UNCHANGED <<pool, selectors, handoff, served, wanted, slot, stream, device>>

\* Mutant: the flag of an earlier demand survives.
BeginKeepsFlag(l) ==
    /\ flag' = flag
    /\ epoch' = [epoch EXCEPT ![l] = @ + 1]

\* DecodeHandoff::begin: a new epoch, not yet published.
Begin(l) ==
    /\ flag' = [flag EXCEPT ![l] = 0]
    /\ epoch' = [epoch EXCEPT ![l] = @ + 1]

\* begin refuses while an earlier demand or an earlier reader is outstanding.
BeginRefused(l) == ~Reached(publication, l) \/ Reserved(l)

\* The layers of one window are enqueued before any of them is served.
WindowEnds(l) == l = NumLayers \/ l % Window = 0

\* enqueue_device: begin and register the gate, then encode and submit.
Enqueue ==
    /\ pc = "enqueue"
    /\ ~BeginRefused(at)
    /\ Begin(at)
    /\ gates' = gates \union {at}
    /\ queue' = Append(queue, Command(at, "event"))
    /\ IF WindowEnds(at)
       THEN pc' = "read" /\ at' = served + 1
       ELSE pc' = pc /\ at' = at + 1
    /\ UNCHANGED <<pool, selectors, mailbox, ready, publication, served, wanted, slot,
                   token, valid, active, device>>

\* An error before the gate is registered.
EnqueueRefused == pc = "enqueue" /\ Failure

\* An error in the encoding that follows: the gate is released with the rest.
EncodingFails ==
    /\ pc = "enqueue"
    /\ ~BeginRefused(at)
    /\ Begin(at)
    /\ pc' = "drain"
    /\ gates' = {}
    /\ active' = <<>>
    /\ publication' = [l \in Layers |->
            IF l \in gates \union {at} THEN epoch'[l] ELSE publication[l]]
    /\ UNCHANGED <<pool, selectors, mailbox, ready, at, served, wanted, slot, token, valid,
                   queue, device>>

-----------------------------------------------------------------------------
(* service_demand *)

\* DecodeHandoff::read, once the device has signalled.
Read ==
    /\ pc = "read"
    /\ Reached(ready, at)
    /\ wanted' = mailbox[at]
    /\ pc' = "load"
    /\ UNCHANGED <<pool, selectors, handoff, at, served, slot, token, valid, stream, device>>

\* The ten second deadline passes first.
ReadTimesOut == pc = "read" /\ ~Reached(ready, at) /\ Failure

\* The exported routes or the device status are not valid.
RoutesInvalid == pc = "read" /\ Reached(ready, at) /\ Failure

\* ensure_with_gate: the next missing row has been read and a victim is chosen.
Evict ==
    /\ pc = "load"
    /\ Missing(pool[at], wanted) # {}
    /\ slot' \in ChooseSlot(pool[at], wanted)
    /\ pool' = [pool EXCEPT ![at] = Unpublish(@, slot')]
    /\ pc' = "write"
    /\ UNCHANGED <<selectors, handoff, at, served, wanted, token, valid, stream, device>>

\* The projections are written, the row is published in the maps.
WriteRow ==
    /\ pc = "write"
    /\ pool' = [pool EXCEPT ![at] = Publish(@, First(Missing(@, wanted)), slot)]
    /\ slot' = Absent
    /\ pc' = "load"
    /\ UNCHANGED <<selectors, handoff, at, served, wanted, token, valid, stream, device>>

\* A row that cannot be read, or a write that stops half way.
LoadFails == pc \in {"load", "write"} /\ Failure

\* write_selectors; `gates` tells the two kinds of token apart.
WriteSelectors ==
    /\ pc = "load"
    /\ Missing(pool[at], wanted) = {}
    /\ selectors' = [selectors EXCEPT ![at] = [s \in wanted |-> pool[at].slot_of[s]]]
    /\ pc' = IF at \in gates THEN "publish" ELSE "encode"
    /\ UNCHANGED <<pool, handoff, at, served, wanted, slot, token, valid, stream, device>>

\* Mutant: the flag is set and the event is forgotten.
PublishOnly(l) ==
    /\ flag' = [flag EXCEPT ![l] = 1]
    /\ UNCHANGED publication

\* DecodeHandoff::publish: the flag, then the event.
PublishDemand(l) ==
    /\ flag' = [flag EXCEPT ![l] = 1]
    /\ publication' = [publication EXCEPT ![l] = epoch[l]]

\* The next layer of the window, the next window, or the end of the token.
Served ==
    /\ pc = "publish"
    /\ PublishDemand(at)
    /\ served' = at
    /\ wanted' = {}
    /\ \/ /\ ~WindowEnds(at)
          /\ pc' = "read" /\ at' = at + 1
       \/ /\ WindowEnds(at) /\ at < NumLayers
          /\ pc' = "enqueue" /\ at' = at + 1
       \/ /\ at = NumLayers
          /\ pc' = "wait" /\ at' = 0
    /\ UNCHANGED <<pool, selectors, epoch, mailbox, ready, slot, token, valid, stream, device>>

-----------------------------------------------------------------------------
(* run_device: one layer after the other, without events *)

\* The marked flush submits the router behind the kernels of the layer before.
RouteLayer ==
    /\ pc = "route"
    /\ queue' = queue \o active \o <<Command(at, "route")>>
    /\ active' = <<>>
    /\ pc' = "routed"
    /\ UNCHANGED <<pool, selectors, handoff, at, served, wanted, slot, token, valid, gates, device>>

\* wait_through: everything up to the router has completed.
Routed ==
    /\ pc = "routed"
    /\ RetireAll
    /\ \A i \in 1 .. Len(queue) : ~queue[i].error
    /\ wanted' = mailbox[at]
    /\ pc' = "load"
    /\ UNCHANGED <<pool, selectors, handoff, at, served, slot, token, valid, active, gates>>

RouteFails ==
    /\ pc = "routed"
    /\ RetireAll
    /\ \E i \in 1 .. Len(queue) : queue[i].error
    /\ BackToIdle
    /\ UNCHANGED <<pool, selectors, handoff, token, valid, active, gates>>

\* encode_routed_device: the kernels wait in the active batch.
EncodeRows ==
    /\ pc = "encode"
    /\ active' = <<Command(at, "rows")>>
    /\ wanted' = {}
    /\ at' = IF at = NumLayers THEN at ELSE at + 1
    /\ pc' = IF at = NumLayers THEN "wait" ELSE "route"
    /\ UNCHANGED <<pool, selectors, handoff, served, slot, token, valid, gates, queue, device>>

-----------------------------------------------------------------------------
(* The end of the token *)

\* Stream::wait submits what is left.
Flush ==
    /\ pc = "wait"
    /\ active # <<>>
    /\ queue' = queue \o active
    /\ active' = <<>>
    /\ UNCHANGED <<pool, selectors, handoff, owner, gates, device>>

\* Mutant: only the wait counts, not what the commands reported.
CommitAnyway ==
    /\ pc = "wait"
    /\ active = <<>>
    /\ \A l \in gates : Reached(publication, l)
    /\ RetireAll
    /\ BackToIdle
    /\ gates' = {}
    /\ valid' = TRUE
    /\ UNCHANGED <<pool, selectors, handoff, token, active>>

\* Then it retires everything; the session is committed unless one failed (a
\* device status that is not clean counts as a failed command).
\* (With a point that nobody released it would abort: NeverRefused.)
Commit ==
    /\ pc = "wait"
    /\ active = <<>>
    /\ \A l \in gates : Reached(publication, l)
    /\ RetireAll
    /\ BackToIdle
    /\ gates' = {}
    /\ valid' = \A i \in 1 .. Len(queue) : ~queue[i].error
    /\ UNCHANGED <<pool, selectors, handoff, token, active>>

-----------------------------------------------------------------------------
(* Between tokens *)

\* check_expert_quiescent and check_resize_idle, for every layer.
Quiescent == \A l \in Layers : Reached(publication, l) /\ ~Reserved(l)

\* Engine::shrink_expert_capacity and recover_expert_capacity: all pools or none.
Resize(target) ==
    /\ pc = "idle"
    /\ token < MaxToken
    /\ Quiescent
    /\ target # pool[1].capacity
    /\ pool' = [l \in Layers |->
            IF target < pool[l].capacity THEN Release(pool[l], target) ELSE Grow(pool[l], target)]
    /\ UNCHANGED <<selectors, handoff, owner, stream, device>>

\* The bound: no token beyond MaxToken is considered.
Finished == pc = "idle" /\ token = MaxToken /\ UNCHANGED vars

-----------------------------------------------------------------------------
(* The GPU: one command after the other *)

Running == queue[ran + 1]
Busy == ran < Len(queue)

\* The router; in an event command also the export of its choice.
GpuRoute(routes) ==
    /\ Busy /\ phase = "start"
    /\ Running.kind \in {"event", "route"}
    /\ mailbox' = [mailbox EXCEPT ![Running.layer] = routes]
    /\ IF Running.kind = "event"
       THEN /\ ready' = [ready EXCEPT ![Running.layer] = epoch[Running.layer]]
            /\ phase' = "gate"
            /\ UNCHANGED ran
       ELSE ran' = ran + 1 /\ UNCHANGED <<ready, phase>>
    /\ UNCHANGED <<pool, selectors, epoch, flag, publication, owner, stream, used>>

\* The bounded kernels read the flag before they address a slot.
KernelMode(l) == IF flag[l] = 1 THEN "kernel" ELSE "skip"

GpuKernel ==
    /\ Busy
    /\ \/ /\ phase = "gate"
          /\ Reached(publication, Running.layer)
          /\ phase' = KernelMode(Running.layer)
       \/ /\ phase = "start"
          /\ Running.kind = "rows"
          /\ phase' = "kernel"
    /\ UNCHANGED <<pool, selectors, handoff, owner, stream, ran, used>>

GpuFinish ==
    /\ Busy /\ phase \in {"kernel", "skip"}
    /\ ran' = ran + 1
    /\ phase' = "start"
    /\ used' = IF phase = "skip" THEN used ELSE [used EXCEPT ![Running.layer] = token]
    /\ UNCHANGED <<pool, selectors, handoff, owner, stream>>

\* The command ends with an error; what it had not done stays undone.
GpuFails ==
    /\ Busy
    /\ queue' = [queue EXCEPT ![ran + 1].error = TRUE]
    /\ ran' = ran + 1
    /\ phase' = "start"
    /\ UNCHANGED <<pool, selectors, handoff, owner, active, gates, used>>

-----------------------------------------------------------------------------

OwnerStep ==
    \/ Enqueue \/ Read \/ ReadTimesOut \/ Evict \/ WriteRow \/ WriteSelectors \/ Served
    \/ RouteLayer \/ Routed \/ RouteFails \/ EncodeRows
    \/ Flush \/ Commit \/ Drained

OwnerFails == EnqueueRefused \/ EncodingFails \/ RoutesInvalid \/ LoadFails

GpuStep == (\E routes \in Routes : GpuRoute(routes)) \/ GpuKernel \/ GpuFinish

Next ==
    \/ \E grows \in BOOLEAN : BeginToken(grows)
    \/ \E target \in TopK .. MaxSlots : Resize(target)
    \/ Finished
    \/ OwnerStep
    \/ GpuStep
    \/ FALSE \in Outcomes /\ (OwnerFails \/ GpuFails)

Spec == Init /\ [][Next]_vars

\* The owner runs, its deadline passes, and the device executes a command that
\* nothing holds back.
FairSpec ==
    /\ Spec
    /\ WF_vars(OwnerStep)
    /\ WF_vars(GpuStep)

-----------------------------------------------------------------------------
(* Properties *)

\* A kernel that addresses expert slots reads complete rows of exactly the
\* experts its own router chose, from start to end, whatever the owner does
\* meanwhile to this or another layer, and also while it aborts.
KernelReadsRows ==
    phase = "kernel" =>
        LET l == Running.layer IN
        /\ DOMAIN selectors[l] = mailbox[l]
        /\ \A s \in DOMAIN selectors[l] : pool[l].bytes[selectors[l][s]] = s

\* Nothing an earlier token left behind, committed or aborted, is ever in the
\* way: begin, the plain loader, wait and a resize are not refused, and a served
\* route always finds a slot.
NeverRefused ==
    /\ pc = "enqueue" => ~BeginRefused(at)
    /\ pc = "load" =>
          /\ at \notin gates => ~Reserved(at)
          /\ at \in gates => ~Reached(publication, at)
          /\ Missing(pool[at], wanted) # {} => ChooseSlot(pool[at], wanted) # {}
    /\ pc = "wait" => \A l \in gates : Reached(publication, l)
    /\ pc = "idle" => Quiescent

\* A token is committed only if every layer multiplied by the rows published
\* for that very token.
CommitComplete ==
    pc = "idle" /\ valid => \A l \in Layers : used[l] = token

\* Every token ends: neither the device nor the owner waits for ever, on a
\* point nobody will release or on routes that will never come.
TokenEnds == pc # "idle" ~> pc = "idle"

=============================================================================
