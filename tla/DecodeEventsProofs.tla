--------------------------- MODULE DecodeEventsProofs ---------------------------
(***************************************************************************)
(* Machine-checked proofs about DecodeEvents, for every number of layers,  *)
(* window, pool size, set of experts and number of tokens: a kernel reads  *)
(* the rows its router chose, nothing a token leaves behind refuses the    *)
(* next, and only a token whose layers all used their rows is committed.   *)
(*                                                                         *)
(* The inductive invariant says what the stream holds at each place of the *)
(* owner, which demands are published, and that the selectors of a layer   *)
(* whose kernel is still to run are what its pool publishes for the routes *)
(* in its mailbox.                                                         *)
(***************************************************************************)
EXTENDS DecodeEvents, ExpertPoolProofs, FiniteSetTheorems, SequenceTheorems

\* The pools are sound and have room for the routes of one token.
PoolsSane == \A l \in Layers : Sane(pool[l]) /\ pool[l].capacity >= TopK

\* No event is ahead of its epoch, and a layer has one epoch for each token
\* at most.
Bounds ==
    \A l \in Layers : /\ publication[l] <= epoch[l] /\ ready[l] <= epoch[l]
                      /\ epoch[l] <= token /\ used[l] <= token

\* The demand of layer l is published, or was never made.
Settled(l) == publication[l] = epoch[l]

\* The selectors of layer l are what its pool publishes for its routes.
RowsHeld(l) ==
    /\ DOMAIN selectors[l] = mailbox[l]
    /\ \A s \in mailbox[l] : pool[l].slot_of[s] # Absent /\ selectors[l][s] = pool[l].slot_of[s]

\* What the device may be doing.
Device ==
    /\ phase # "start" => Busy
    /\ phase = "gate" => Running.kind = "event" /\ ready[Running.layer] = epoch[Running.layer]
    /\ phase = "kernel" =>
          \/ Running.kind = "rows"
          \/ Running.kind = "event" /\ flag[Running.layer] = 1
    /\ phase = "skip" => Running.kind = "event" /\ pc = "drain"

\* A token with events, and one that retires each router.
EventToken ==
    \/ pc \in {"enqueue", "read", "publish"}
    \/ pc \in {"load", "write", "wait"} /\ gates # {}
RouteToken ==
    \/ pc \in {"route", "routed", "encode"}
    \/ pc \in {"load", "write", "wait"} /\ gates = {}

\* The commands of an event token: one for each layer from the first on, whose
\* routes are not exported before it runs, and whose rows are there once the
\* flag is set.
EventQueue ==
    \A i \in 1 .. Len(queue) :
        /\ queue[i].layer = i /\ queue[i].kind = "event"
        /\ i > ran + 1 \/ (i = ran + 1 /\ phase = "start") => ready[i] < epoch[i]
        /\ flag[i] = 1 => ready[i] = epoch[i] /\ RowsHeld(i)

Events ==
    EventToken =>
        /\ EventQueue
        /\ active = <<>>
        /\ gates = 1 .. Len(queue)
        /\ served <= Len(queue)
        /\ \A l \in 1 .. served : Settled(l) /\ flag[l] = 1
        /\ \A l \in served + 1 .. Len(queue) : publication[l] < epoch[l] /\ flag[l] = 0
        /\ \A l \in Len(queue) + 1 .. NumLayers : Settled(l) /\ epoch[l] < token
        /\ \A l \in 1 .. ran : queue[l].error \/ used[l] = token

\* Where the owner is in the window.
Places_Event ==
    /\ pc = "enqueue" =>
          /\ at = Len(queue) + 1 /\ at <= NumLayers
          /\ \A l \in served + 1 .. Len(queue) : ~WindowEnds(l)
    /\ EventToken /\ pc \in {"read", "load", "write", "publish"} =>
          /\ at = served + 1 /\ at <= Len(queue)
          /\ WindowEnds(Len(queue))
          /\ \A l \in at .. Len(queue) - 1 : ~WindowEnds(l)
    /\ EventToken /\ pc = "wait" => served = NumLayers /\ Len(queue) = NumLayers
    /\ EventToken /\ pc \in {"load", "write", "publish"} => ready[at] = epoch[at]

\* The commands of the other kind of token, and the layers it is through with.
Routing ==
    RouteToken =>
        /\ gates = {}
        /\ at \in Layers
        /\ \A l \in Layers : Settled(l)
        /\ \A l \in 1 .. at - 2 : used[l] = token
        /\ pc \in {"load", "write", "encode"} =>
              /\ queue = <<>> /\ active = <<>>
              /\ at > 1 => used[at - 1] = token
        /\ pc \in {"route", "routed"} /\ at > 1 => RowsHeld(at - 1)
        /\ pc = "route" =>
              /\ queue = <<>>
              /\ active = IF at = 1 THEN <<>> ELSE <<Command(at - 1, "rows")>>
        /\ pc = "routed" =>
              /\ active = <<>>
              /\ Len(queue) = IF at = 1 THEN 1 ELSE 2
              /\ queue[Len(queue)].layer = at /\ queue[Len(queue)].kind = "route"
              /\ at > 1 =>
                    /\ queue[1].layer = at - 1 /\ queue[1].kind = "rows"
                    /\ ran >= 1 => queue[1].error \/ used[at - 1] = token
        /\ pc = "wait" =>
              /\ at = NumLayers /\ RowsHeld(at)
              /\ at > 1 => used[at - 1] = token
              /\ \/ queue = <<>> /\ active = <<Command(at, "rows")>>
                 \/ /\ active = <<>> /\ Len(queue) = 1
                    /\ queue[1].layer = at /\ queue[1].kind = "rows"
                    /\ ran = 1 => queue[1].error \/ used[at] = token

\* Loading rows for the routes of the layer.
Loading ==
    /\ pc \in {"load", "write"} => wanted = mailbox[at]
    /\ pc = "write" =>
          /\ slot \in Slots(pool[at].capacity)
          /\ pool[at].expert_at[slot] = Absent
          /\ Missing(pool[at], wanted) # {}
    /\ pc \in {"publish", "encode"} => RowsHeld(at)

\* After an abort every demand is released and the stream only runs out.
Leaving ==
    /\ pc = "drain" => EventQueue
    /\ pc = "idle" => queue = <<>> /\ served = 0
    /\ pc \in {"idle", "drain"} => active = <<>> /\ gates = {} /\ \A l \in Layers : Settled(l)
    /\ pc # "idle" => ~valid

IndInv ==
    /\ TypeOK /\ PoolsSane /\ Bounds /\ Device /\ Events /\ Places_Event /\ Routing
    /\ Loading /\ Leaving /\ CommitComplete

-----------------------------------------------------------------------------
(* Consequences of the types *)

LEMMA TypeFacts ==
    ASSUME TypeOK
    PROVE  /\ NumLayers \in Nat /\ NumLayers >= 1 /\ MaxToken \in Nat
           /\ epoch \in [Layers -> Nat] /\ ready \in [Layers -> Nat]
           /\ publication \in [Layers -> Nat] /\ used \in [Layers -> Nat]
           /\ flag \in [Layers -> {0, 1}]
           /\ queue \in Seq(Commands) /\ active \in Seq(Commands)
           /\ Len(queue) \in Nat /\ ran \in Nat /\ ran <= Len(queue)
           /\ at \in Nat /\ at <= NumLayers
           /\ served \in Nat /\ served <= NumLayers
           /\ token \in Nat /\ token <= MaxToken
           /\ \A i \in 1 .. Len(queue) : queue[i] \in Commands /\ queue[i].layer \in Layers
<1>1. \A i \in 1 .. Len(queue) : queue[i] \in Commands /\ queue[i].layer \in Layers
  <2>1. queue \in Seq(Commands)
    BY DEF TypeOK
  <2> TAKE i \in 1 .. Len(queue)
  <2>2. queue[i] \in Commands
    BY <2>1
  <2> QED
    BY <2>2 DEF Commands
<1>2. /\ NumLayers \in Nat /\ NumLayers >= 1 /\ MaxToken \in Nat
  BY DecodeAssumption
<1>3. /\ epoch \in [Layers -> Nat] /\ ready \in [Layers -> Nat]
      /\ publication \in [Layers -> Nat] /\ used \in [Layers -> Nat]
      /\ flag \in [Layers -> {0, 1}]
  BY DEF TypeOK
<1>4. /\ queue \in Seq(Commands) /\ active \in Seq(Commands)
      /\ Len(queue) \in Nat /\ ran \in Nat /\ ran <= Len(queue)
      /\ at \in Nat /\ at <= NumLayers
      /\ served \in Nat /\ served <= NumLayers
      /\ token \in Nat /\ token <= MaxToken
  BY <1>2 DEF TypeOK
<1> QED
  BY <1>1, <1>2, <1>3, <1>4

\* The demands of a stream without commands: no layer is held.
LEMMA EmptyStream ==
    ASSUME queue = <<>>
    PROVE  Len(queue) = 0
BY EmptySeq

-----------------------------------------------------------------------------
(* The initial state *)

LEMMA InitInv == Init => IndInv
<1> SUFFICES ASSUME Init PROVE IndInv
  OBVIOUS
<1> USE DecodeAssumption, PoolAssumption DEF Init
<1>1. Len(queue) = 0 /\ <<>> \in Seq(Commands)
  BY EmptySeq
<1>2. ASSUME NEW l \in Layers PROVE Sane(pool[l]) /\ pool[l].capacity = MaxSlots
  BY EmptySane
<1>3. TypeOK
  <2>1. pool \in [Layers -> Pools]
    <3>1. EmptyPool(MaxSlots) \in Pools
      BY EmptySane DEF Sane
    <3> QED
      BY <3>1
  <2>2. selectors \in [Layers -> Selectors]
    <3>1. [s \in {} |-> Absent] \in [{} -> 1 .. MaxSlots]
      OBVIOUS
    <3>2. [s \in {} |-> Absent] \in Selectors
      BY <3>1 DEF Selectors
    <3> QED
      BY <3>2
  <2>3. at \in 0 .. NumLayers /\ served \in 0 .. NumLayers /\ slot \in 0 .. MaxSlots
        /\ token \in 0 .. MaxToken /\ ran \in 0 .. Len(queue)
    BY <1>1 DEF Absent
  <2>4. /\ epoch \in [Layers -> 0 .. MaxToken] /\ ready \in [Layers -> 0 .. MaxToken]
        /\ publication \in [Layers -> 0 .. MaxToken] /\ used \in [Layers -> 0 .. MaxToken]
    OBVIOUS
  <2> QED
    BY <1>1, <2>1, <2>2, <2>3, <2>4 DEF TypeOK, Places, Phases
<1>4. PoolsSane
  BY <1>2 DEF PoolsSane
<1>5. Bounds /\ \A l \in Layers : Settled(l)
  BY DEF Bounds, Settled
<1>6. Device /\ Events /\ Places_Event /\ Routing /\ Loading
  BY DEF Device, Events, EventToken, Places_Event, Routing, RouteToken, Loading
<1>7. Leaving /\ CommitComplete
  BY <1>5 DEF Leaving, CommitComplete
<1> QED
  BY <1>3, <1>4, <1>5, <1>6, <1>7 DEF IndInv

-----------------------------------------------------------------------------
(* Beginning and leaving a token *)

\* A token begins: every layer's demand is settled and older than the token.
LEMMA BeginTokenKeeps ==
    ASSUME IndInv, NEW grows \in BOOLEAN, BeginToken(grows)
    PROVE  IndInv'
<1> USE DEF IndInv, BeginToken, handoff, stream, device
<1>1. pc = "idle" /\ pc' \in {"route", "enqueue"} /\ at' = 1 /\ token' = token + 1
  OBVIOUS
<1>2. /\ queue = <<>> /\ Len(queue) = 0 /\ active = <<>> /\ gates = {} /\ served = 0
      /\ \A l \in Layers : Settled(l)
  BY EmptyStream DEF Leaving
<1>3. ran = 0 /\ phase = "start"
  BY <1>2, TypeFacts DEF Device, Busy
<1>4. TypeOK'
  <2>1. at' \in 0 .. NumLayers /\ token' \in 0 .. MaxToken
    BY TypeFacts
  <2>2. pc' \in Places /\ valid' \in BOOLEAN
    BY <1>1 DEF Places
  <2> QED
    BY <2>1, <2>2 DEF TypeOK
<1>5. PoolsSane'
  BY DEF PoolsSane
<1>6. Bounds' /\ \A l \in Layers : epoch[l] < token'
  BY TypeFacts DEF Bounds
<1>7. Device'
  BY <1>3 DEF Device
<1>8. Events'
  BY <1>1, <1>2, <1>3, <1>6, TypeFacts DEF Events, EventToken, EventQueue, Settled, Layers
<1>9. Places_Event'
  BY <1>1, <1>2, TypeFacts DEF Places_Event, EventToken
<1>10. Routing'
  BY <1>1, <1>2, TypeFacts DEF Routing, RouteToken, Settled, Layers
<1>11. Loading' /\ Leaving' /\ CommitComplete'
  BY <1>1 DEF Loading, Leaving, CommitComplete
<1> QED
  BY <1>4, <1>5, <1>6, <1>7, <1>8, <1>9, <1>10, <1>11

\* Outside the two quiet places every command in the stream is an event, or
\* the stream holds none when the owner loads.
LEMMA AbortQueue ==
    ASSUME IndInv, pc \in {"enqueue", "read", "load", "write"}
    PROVE  EventQueue /\ active = <<>>
<1> USE DEF IndInv
<1>1. CASE EventToken
  BY <1>1 DEF Events
<1>2. CASE ~EventToken
  <2>1. pc \in {"load", "write"} /\ gates = {}
    BY <1>2 DEF EventToken
  <2>2. queue = <<>> /\ active = <<>> /\ Len(queue) = 0
    BY <2>1, EmptyStream DEF Routing, RouteToken
  <2> QED
    BY <2>2 DEF EventQueue
<1> QED
  BY <1>1, <1>2

\* An error leaves step_inner: every registered point is released.
LEMMA FailureKeeps ==
    ASSUME IndInv, pc \in {"enqueue", "read", "load", "write"}, Failure
    PROVE  IndInv'
<1> USE DEF IndInv, Failure, Abort, device
<1>1. /\ pc' = "drain" /\ gates' = {} /\ active' = <<>> /\ queue' = queue
      /\ EventQueue /\ active = <<>>
  BY AbortQueue
<1>2. \A l \in Layers : l \in gates \/ Settled(l)
  <2>1. CASE EventToken
    BY <2>1, TypeFacts DEF Events, Layers
  <2>2. CASE ~EventToken
    BY <2>2 DEF EventToken, RouteToken, Routing
  <2> QED
    BY <2>1, <2>2
<1>3. /\ publication' \in [Layers -> 0 .. MaxToken]
      /\ \A l \in Layers : publication'[l] = epoch[l]
  <2>1. \A l \in Layers : publication'[l] = epoch[l]
    BY <1>2, TypeFacts DEF Reached, Bounds, Settled
  <2> QED
    BY <2>1 DEF TypeOK
<1>4. TypeOK'
  BY <1>1, <1>3 DEF TypeOK, Places
<1>5. PoolsSane' /\ Bounds'
  BY <1>3, TypeFacts DEF PoolsSane, Bounds
<1>6. EventQueue'
  BY <1>1 DEF EventQueue, RowsHeld
<1>7. Device'
  BY <1>1 DEF Device, Running, Busy
<1>8. Events' /\ Places_Event' /\ Routing' /\ Loading'
  BY <1>1 DEF Events, EventToken, Places_Event, Routing, RouteToken, Loading
<1>9. Leaving' /\ CommitComplete'
  BY <1>1, <1>3, <1>6 DEF Leaving, Settled, CommitComplete
<1> QED
  BY <1>4, <1>5, <1>7, <1>8, <1>9

\* The same when the layer's own demand has just begun.
LEMMA EncodingFailsKeeps ==
    ASSUME IndInv, EncodingFails
    PROVE  IndInv'
<1> USE DEF IndInv, EncodingFails, Begin, device
<1>1. /\ pc = "enqueue" /\ pc' = "drain" /\ gates' = {} /\ active' = <<>> /\ queue' = queue
      /\ EventQueue /\ active = <<>>
  BY AbortQueue
<1>2. /\ at = Len(queue) + 1 /\ at \in Layers
      /\ gates = 1 .. Len(queue)
      /\ epoch[at] < token
      /\ \A l \in Layers : l \in gates \/ Settled(l)
  BY <1>1, TypeFacts DEF Places_Event, Events, EventToken, Layers
<1>3. /\ \A l \in Layers : epoch'[l] = IF l = at THEN epoch[l] + 1 ELSE epoch[l]
      /\ \A l \in Layers : flag'[l] = IF l = at THEN 0 ELSE flag[l]
      /\ flag' \in [Layers -> {0, 1}]
      /\ epoch' \in [Layers -> 0 .. MaxToken]
  <2>1. /\ \A l \in Layers : epoch'[l] = IF l = at THEN epoch[l] + 1 ELSE epoch[l]
        /\ \A l \in Layers : flag'[l] = IF l = at THEN 0 ELSE flag[l]
        /\ flag' \in [Layers -> {0, 1}]
    BY <1>2, TypeFacts
  <2>2. epoch[at] + 1 \in 0 .. MaxToken
    BY <1>2, TypeFacts
  <2>3. epoch' \in [Layers -> 0 .. MaxToken]
    BY <1>2, <2>2 DEF TypeOK
  <2> QED
    BY <2>1, <2>3
<1>4. /\ publication' \in [Layers -> 0 .. MaxToken]
      /\ \A l \in Layers : publication'[l] = epoch'[l]
  <2>1. \A l \in Layers : publication'[l] = epoch'[l]
    BY <1>2, <1>3 DEF Settled
  <2> QED
    BY <1>3, <2>1 DEF TypeOK
<1>5. TypeOK'
  BY <1>1, <1>3, <1>4 DEF TypeOK, Places
<1>6. PoolsSane' /\ Bounds'
  BY SMTT(15), <1>2, <1>3, <1>4, TypeFacts DEF PoolsSane, Bounds
<1>7. EventQueue'
  <2>1. \A i \in 1 .. Len(queue) : i \in Layers /\ i # at /\ epoch'[i] = epoch[i] /\ flag'[i] = flag[i]
    BY <1>2, <1>3, TypeFacts DEF Layers
  <2> QED
    BY <1>1, <2>1 DEF EventQueue, RowsHeld
<1>8. Device'
  <2>1. Busy => Running.layer = ran + 1 /\ ran + 1 # at /\ ran + 1 \in Layers
    BY <1>1, <1>2, TypeFacts DEF EventQueue, Busy, Running, Layers
  <2> QED
    BY <1>1, <1>3, <2>1 DEF Device, Running, Busy
<1>9. Events' /\ Places_Event' /\ Routing' /\ Loading'
  BY <1>1 DEF Events, EventToken, Places_Event, Routing, RouteToken, Loading
<1>10. Leaving' /\ CommitComplete'
  BY <1>1, <1>4, <1>7 DEF Leaving, Settled, CommitComplete
<1> QED
  BY <1>5, <1>6, <1>8, <1>9, <1>10

-----------------------------------------------------------------------------
(* Retiring commands *)

\* When all commands have completed the device is between commands.
LEMMA NothingRuns ==
    ASSUME IndInv, ran = Len(queue)
    PROVE  phase = "start"
BY TypeFacts DEF IndInv, Device, Busy

\* A stream that is retired in full and a session that goes on or not.
LEMMA RetiredKeeps ==
    ASSUME IndInv, RetireAll, BackToIdle, active' = <<>>, gates' = {},
           UNCHANGED <<pool, selectors, handoff, token>>,
           valid' \in BOOLEAN,
           \A l \in Layers : Settled(l),
           valid' => \A l \in Layers : used[l] = token
    PROVE  IndInv'
<1> USE DEF IndInv, RetireAll, BackToIdle, handoff
<1>1. phase' = "start" /\ ran' = 0 /\ queue' = <<>> /\ Len(queue') = 0 /\ pc' = "idle"
  BY NothingRuns, EmptySeq
<1>2. TypeOK'
  <2>1. <<>> \in Seq(Commands) /\ 0 \in 0 .. Len(queue')
    BY <1>1, EmptySeq
  <2>2. 0 \in 0 .. NumLayers /\ Absent \in 0 .. MaxSlots
    BY TypeFacts, PoolAssumption DEF Absent
  <2> QED
    BY <1>1, <2>1, <2>2 DEF TypeOK, Places
<1>3. PoolsSane' /\ Bounds'
  BY DEF PoolsSane, Bounds
<1>4. Device' /\ Events' /\ Places_Event' /\ Routing' /\ Loading'
  BY <1>1 DEF Device, Events, EventToken, Places_Event, Routing, RouteToken, Loading
<1>5. Leaving' /\ CommitComplete'
  BY <1>1 DEF Leaving, CommitComplete, Settled
<1> QED
  BY <1>2, <1>3, <1>4, <1>5

\* The end of an aborted token.
LEMMA DrainedKeeps ==
    ASSUME IndInv, Drained
    PROVE  IndInv'
<1>1. /\ active' = <<>> /\ gates' = {} /\ ~valid'
      /\ \A l \in Layers : Settled(l)
  BY DEF Drained, IndInv, Leaving
<1>2. valid' \in BOOLEAN
  BY DEF Drained, IndInv, TypeOK
<1>3. UNCHANGED <<pool, selectors, handoff, token>> /\ RetireAll /\ BackToIdle
  BY DEF Drained
<1> QED
  BY <1>1, <1>2, <1>3, RetiredKeeps

\* A router that failed ends the token.
LEMMA RouteFailsKeeps ==
    ASSUME IndInv, RouteFails
    PROVE  IndInv'
<1>1. /\ active' = <<>> /\ gates' = {} /\ ~valid'
      /\ \A l \in Layers : Settled(l)
  BY DEF RouteFails, IndInv, Leaving, Routing, RouteToken
<1>2. valid' \in BOOLEAN
  BY DEF RouteFails, IndInv, TypeOK
<1>3. UNCHANGED <<pool, selectors, handoff, token>> /\ RetireAll /\ BackToIdle
  BY DEF RouteFails
<1> QED
  BY <1>1, <1>2, <1>3, RetiredKeeps

\* The end of a token: it is committed when no command failed, and then each
\* layer has used its rows.
LEMMA CommitKeeps ==
    ASSUME IndInv, Commit
    PROVE  IndInv'
<1> USE DEF IndInv, Commit
<1>1. \A l \in Layers : Settled(l)
  <2>1. CASE EventToken
    <3>1. gates = 1 .. Len(queue) /\ Len(queue) = NumLayers
      BY <2>1 DEF Events, Places_Event
    <3>2. \A l \in Layers : publication[l] >= epoch[l]
      BY <3>1 DEF Reached, Layers
    <3> QED
      BY <3>2, TypeFacts DEF Bounds, Settled
  <2>2. CASE ~EventToken
    BY <2>2 DEF EventToken, RouteToken, Routing
  <2> QED
    BY <2>1, <2>2
<1>2. ASSUME \A i \in 1 .. Len(queue) : ~queue[i].error
      PROVE  \A l \in Layers : used[l] = token
  <2>1. CASE EventToken
    BY <1>2, <2>1, TypeFacts DEF Events, Places_Event, RetireAll, Layers
  <2>2. CASE ~EventToken
    <3>1. RouteToken
      BY <2>2 DEF EventToken, RouteToken
    <3>2. /\ at = NumLayers /\ \A l \in 1 .. at - 2 : used[l] = token
          /\ at > 1 => used[at - 1] = token
      BY <3>1 DEF Routing
    <3>3. used[at] = token
      <4>1. \/ queue = <<>> /\ active = <<Command(at, "rows")>>
            \/ Len(queue) = 1 /\ (ran = 1 => queue[1].error \/ used[at] = token)
        BY <3>1 DEF Routing
      <4>2. Len(queue) = 1 /\ (ran = 1 => queue[1].error \/ used[at] = token)
        BY <4>1
      <4>3. ran = 1 /\ ~queue[1].error
        BY <1>2, <4>2 DEF RetireAll
      <4> QED
        BY <4>2, <4>3
    <3> QED
      BY SMTT(15), <3>2, <3>3, TypeFacts DEF Layers
  <2> QED
    BY <2>1, <2>2
<1>3. valid' \in BOOLEAN /\ (valid' => \A l \in Layers : used[l] = token)
  BY <1>2
<1> QED
  BY <1>1, <1>3, RetiredKeeps

\* wait_through: the router has completed without an error, so the kernels of
\* the layer before it have used their rows.
LEMMA RoutedKeeps ==
    ASSUME IndInv, Routed
    PROVE  IndInv'
<1> USE DEF IndInv, Routed, RetireAll, handoff
<1>1. /\ phase' = "start" /\ ran' = 0 /\ queue' = <<>> /\ Len(queue') = 0
      /\ pc = "routed" /\ pc' = "load"
  BY NothingRuns, EmptySeq
<1>2. /\ RouteToken /\ gates = {} /\ active = <<>> /\ at \in Layers
      /\ \A l \in Layers : Settled(l)
      /\ \A l \in 1 .. at - 2 : used[l] = token
      /\ Len(queue) = IF at = 1 THEN 1 ELSE 2
      /\ at > 1 /\ ran >= 1 => queue[1].error \/ used[at - 1] = token
  BY <1>1 DEF RouteToken, Routing
<1>3. at > 1 => used[at - 1] = token
  BY <1>2, TypeFacts
<1>4. TypeOK'
  <2>1. <<>> \in Seq(Commands) /\ 0 \in 0 .. Len(queue')
    BY <1>1, EmptySeq
  <2>2. wanted' \in Routes \union {{}}
    BY <1>2 DEF TypeOK
  <2> QED
    BY <1>1, <2>1, <2>2 DEF TypeOK, Places
<1>5. PoolsSane' /\ Bounds'
  BY DEF PoolsSane, Bounds
<1>6. Device' /\ Events' /\ Places_Event'
  BY <1>1, <1>2 DEF Device, Events, EventToken, Places_Event
<1>7. Routing'
  BY <1>1, <1>2, <1>3 DEF Routing, RouteToken, Settled
<1>8. Loading' /\ Leaving' /\ CommitComplete'
  BY <1>1 DEF Loading, Leaving, CommitComplete
<1> QED
  BY <1>4, <1>5, <1>6, <1>7, <1>8

-----------------------------------------------------------------------------
(* Loading rows *)

\* A loading step leaves the stream and the events alone.
LEMMA LoadPlaces ==
    ASSUME IndInv, pc \in {"load", "write"}
    PROVE  /\ at \in Layers
           /\ EventToken => flag[at] = 0 /\ at \in gates
           /\ ~EventToken => RouteToken /\ gates = {} /\ queue = <<>> /\ active = <<>>
<1> USE DEF IndInv
<1>1. CASE EventToken
  <2>1. at = served + 1 /\ at <= Len(queue) /\ gates = 1 .. Len(queue)
        /\ \A l \in served + 1 .. Len(queue) : flag[l] = 0
    BY <1>1 DEF Places_Event, Events
  <2>2. at \in 1 .. Len(queue)
    BY <2>1, TypeFacts
  <2>3. queue[at].layer = at
    BY <1>1, <2>2 DEF Events, EventQueue
  <2> QED
    BY <1>1, <2>1, <2>2, <2>3, TypeFacts
<1>2. CASE ~EventToken
  BY <1>2 DEF EventToken, RouteToken, Routing
<1> QED
  BY <1>1, <1>2

\* A pool change at the layer being served disturbs no row a kernel will read.
LEMMA PoolStepKeeps ==
    ASSUME IndInv, pc \in {"load", "write"}, pc' \in {"load", "write"},
           NEW p, pool' = [pool EXCEPT ![at] = p],
           Sane(p), p.capacity = pool[at].capacity,
           slot' \in 0 .. MaxSlots,
           pc' = "write" => /\ slot' \in Slots(p.capacity)
                            /\ p.expert_at[slot'] = Absent
                            /\ Missing(p, wanted) # {},
           UNCHANGED <<selectors, handoff, at, served, wanted, token, valid, stream, device>>
    PROVE  IndInv'
<1> USE DEF IndInv, handoff, stream, device
<1>1. /\ at \in Layers /\ (EventToken => flag[at] = 0)
      /\ ~EventToken => RouteToken /\ gates = {} /\ queue = <<>> /\ active = <<>>
      /\ (EventToken' <=> EventToken) /\ (RouteToken' <=> RouteToken)
  BY LoadPlaces DEF EventToken, RouteToken
<1>2. /\ pool \in [Layers -> Pools] /\ pool' \in [Layers -> Pools]
      /\ pool'[at] = p
      /\ \A l \in Layers : l # at => pool'[l] = pool[l]
  BY <1>1 DEF TypeOK, Sane
<1>3. \A l \in Layers : l # at => (RowsHeld(l)' <=> RowsHeld(l))
  BY <1>2 DEF RowsHeld
<1>4. TypeOK'
  BY <1>2 DEF TypeOK, Places
<1>5. PoolsSane' /\ Bounds'
  BY <1>1, <1>2 DEF PoolsSane, Bounds
<1>6. Device'
  BY DEF Device, Running, Busy
<1>7. Events'
  <2> SUFFICES ASSUME EventToken PROVE Events'
    BY <1>1 DEF Events
  <2>1. \A i \in 1 .. Len(queue) : i \in Layers
    BY TypeFacts DEF Events, EventQueue
  <2>2. EventQueue'
    BY <1>1, <1>3, <2>1 DEF Events, EventQueue
  <2> QED
    BY <2>2 DEF Events, Settled
<1>8. Places_Event'
  BY <1>1 DEF Places_Event
<1>9. Routing'
  BY <1>1 DEF Routing, Settled
<1>10. Loading'
  BY <1>1, <1>2 DEF Loading
<1>11. Leaving' /\ CommitComplete'
  BY DEF Leaving, CommitComplete
<1> QED
  BY <1>4, <1>5, <1>6, <1>7, <1>8, <1>9, <1>10, <1>11

\* ensure_with_gate chooses a victim.
LEMMA EvictKeeps ==
    ASSUME IndInv, Evict
    PROVE  IndInv'
<1> USE DEF IndInv, Evict
<1> DEFINE p == pool[at]
           q == Unpublish(p, slot')
<1>1. at \in Layers
  BY LoadPlaces
<1>2. p \in Pools /\ PoolSound(p)
  BY <1>1 DEF PoolsSane, Sane
<1>3. slot' \in Slots(p.capacity)
  BY <1>2, ChosenSlot
<1>4. /\ Sane(q) /\ q.capacity = p.capacity /\ q.expert_at[slot'] = Absent
      /\ \A s \in Sources : q.slot_of[s] = IF p.slot_of[s] = slot' THEN Absent ELSE p.slot_of[s]
  BY <1>2, <1>3, UnpublishSane
<1> HIDE DEF q
<1>5. Missing(q, wanted) # {}
  BY <1>4 DEF Missing, Resident
<1>6. slot' \in 0 .. MaxSlots
  BY <1>2, <1>3, PoolFields, PoolAssumption DEF Slots
<1>7. pool' = [pool EXCEPT ![at] = q]
  BY DEF q
<1> QED
  BY <1>3, <1>4, <1>5, <1>6, <1>7, PoolStepKeeps

\* The projections are written and the row is published.
LEMMA WriteRowKeeps ==
    ASSUME IndInv, WriteRow
    PROVE  IndInv'
<1> USE DEF IndInv, WriteRow
<1> DEFINE p == pool[at]
           source == First(Missing(p, wanted))
           q == Publish(p, source, slot)
<1>1. at \in Layers
  BY LoadPlaces
<1>2. p \in Pools /\ PoolSound(p)
  BY <1>1 DEF PoolsSane, Sane
<1>3. slot \in Slots(p.capacity) /\ p.expert_at[slot] = Absent /\ Missing(p, wanted) # {}
  BY DEF Loading
<1>4. wanted \subseteq Sources
  BY DEF TypeOK, Routes
<1>5. source \in Missing(p, wanted)
  BY <1>3, <1>4, FirstMember, PoolAssumption DEF Missing
<1>6. source \in Sources \ Resident(p)
  BY <1>4, <1>5 DEF Missing
<1> HIDE DEF source
<1>7. Sane(q) /\ q.capacity = p.capacity
  BY <1>2, <1>3, <1>6, PublishSane
<1>8. pool' = [pool EXCEPT ![at] = q]
  BY DEF q, source
<1> HIDE DEF q
<1>9. slot' \in 0 .. MaxSlots
  BY PoolAssumption DEF Absent
<1> QED
  BY <1>7, <1>8, <1>9, PoolStepKeeps

\* write_selectors: the selectors are what the pool publishes for the routes.
LEMMA WriteSelectorsKeeps ==
    ASSUME IndInv, WriteSelectors
    PROVE  IndInv'
<1> USE DEF IndInv, WriteSelectors, handoff, stream, device
<1> DEFINE map == [s \in wanted |-> pool[at].slot_of[s]]
<1>1. /\ at \in Layers /\ (EventToken => flag[at] = 0 /\ at \in gates)
      /\ ~EventToken => RouteToken /\ gates = {} /\ queue = <<>> /\ active = <<>>
      /\ (EventToken' <=> EventToken) /\ (RouteToken' <=> RouteToken)
      /\ pc' \in {"publish", "encode"} /\ (pc' = "publish" <=> EventToken)
  BY LoadPlaces DEF EventToken, RouteToken
<1>2. wanted \subseteq Sources /\ wanted = mailbox[at] /\ wanted \in Routes \union {{}}
  BY DEF TypeOK, Routes, Loading
<1>3. \A s \in wanted : pool[at].slot_of[s] # Absent
  BY <1>2 DEF Missing, Resident
<1>4. pool[at] \in Pools
  BY <1>1 DEF TypeOK
<1>5. \A s \in wanted : pool[at].slot_of[s] \in 1 .. MaxSlots
  BY <1>2, <1>3, <1>4, PoolFields, PoolAssumption DEF SlotMaps, Absent
<1>6. map \in [wanted -> 1 .. MaxSlots]
  BY <1>5
<1>7. map \in Selectors
  BY <1>2, <1>6 DEF Selectors
<1>8. /\ selectors' \in [Layers -> Selectors] /\ selectors'[at] = map
      /\ \A l \in Layers : l # at => selectors'[l] = selectors[l]
  BY <1>1, <1>7 DEF TypeOK
<1>9. RowsHeld(at)'
  BY <1>2, <1>3, <1>8 DEF RowsHeld
<1>10. \A l \in Layers : l # at => (RowsHeld(l)' <=> RowsHeld(l))
  BY <1>8 DEF RowsHeld
<1> HIDE DEF map
<1>11. TypeOK'
  BY <1>1, <1>8 DEF TypeOK, Places
<1>12. PoolsSane' /\ Bounds' /\ Device'
  BY DEF PoolsSane, Bounds, Device, Running, Busy
<1>13. Events'
  <2> SUFFICES ASSUME EventToken PROVE Events'
    BY <1>1 DEF Events
  <2>1. \A i \in 1 .. Len(queue) : i \in Layers
    BY TypeFacts DEF Events, EventQueue
  <2>2. EventQueue'
    BY <1>1, <1>10, <2>1 DEF Events, EventQueue
  <2> QED
    BY <2>2 DEF Events, Settled
<1>14. Places_Event'
  BY <1>1 DEF Places_Event
<1>15. Routing'
  BY <1>1 DEF Routing, Settled, EventToken, RouteToken
<1>16. Loading' /\ Leaving' /\ CommitComplete'
  BY <1>1, <1>9 DEF Loading, Leaving, CommitComplete
<1> QED
  BY <1>11, <1>12, <1>13, <1>14, <1>15, <1>16

\* DecodeHandoff::read: the routes are those of this demand.
LEMMA ReadKeeps ==
    ASSUME IndInv, Read
    PROVE  IndInv'
<1> USE DEF IndInv, Read, handoff, stream, device
<1>1. /\ EventToken /\ pc = "read" /\ pc' = "load" /\ at = served + 1 /\ at <= Len(queue)
      /\ gates = 1 .. Len(queue)
  BY DEF EventToken, Places_Event, Events
<1>2. at \in 1 .. Len(queue) /\ at \in Layers /\ gates # {}
  <2>1. at \in 1 .. Len(queue)
    BY <1>1, TypeFacts
  <2>2. queue[at].layer = at
    BY <1>1, <2>1 DEF Events, EventQueue
  <2> QED
    BY <1>1, <2>1, <2>2, TypeFacts
<1>3. EventToken' /\ ~RouteToken'
  BY <1>1, <1>2 DEF EventToken, RouteToken
<1>4. ready[at] = epoch[at]
  BY <1>2, TypeFacts DEF Reached, Bounds
<1>5. TypeOK'
  BY <1>1, <1>2 DEF TypeOK, Places
<1>6. PoolsSane' /\ Bounds' /\ Device'
  BY DEF PoolsSane, Bounds, Device, Running, Busy
<1>7. Events'
  BY <1>1 DEF Events, EventQueue, RowsHeld, Settled
<1>8. Places_Event'
  BY <1>1, <1>4 DEF Places_Event
<1>9. Routing' /\ Loading' /\ Leaving' /\ CommitComplete'
  BY <1>1, <1>3 DEF Routing, Loading, Leaving, CommitComplete
<1> QED
  BY <1>5, <1>6, <1>7, <1>8, <1>9

-----------------------------------------------------------------------------
(* Tokens with events *)

\* The layers of the commands of an event token are its first layers.
LEMMA EventLayers ==
    ASSUME IndInv, EventToken
    PROVE  /\ Len(queue) <= NumLayers
           /\ \A i \in 1 .. Len(queue) : i \in Layers
<1> USE DEF IndInv
<1>1. \A i \in 1 .. Len(queue) : i \in Layers
  BY TypeFacts DEF Events, EventQueue
<1>2. Len(queue) = 0 \/ Len(queue) \in 1 .. Len(queue)
  BY TypeFacts
<1> QED
  BY <1>1, <1>2, TypeFacts DEF Layers

\* enqueue_device: the demand begins and its command is behind the others.
LEMMA EnqueueKeeps ==
    ASSUME IndInv, Enqueue
    PROVE  IndInv'
<1> USE DEF IndInv, Enqueue, Begin, device
<1>1. /\ pc = "enqueue" /\ EventToken /\ EventToken' /\ ~RouteToken'
      /\ pc' \in {"enqueue", "read"}
  BY DEF EventToken, RouteToken
<1>2. /\ at = Len(queue) + 1 /\ at \in Layers
      /\ gates = 1 .. Len(queue)
      /\ epoch[at] < token /\ publication[at] = epoch[at]
      /\ EventQueue /\ active = <<>> /\ served <= Len(queue)
      /\ \A l \in 1 .. Len(queue) : l # at /\ l \in Layers
  BY <1>1, TypeFacts, EventLayers DEF Places_Event, Events, Layers, Settled
<1>3. /\ \A l \in Layers : epoch'[l] = IF l = at THEN epoch[l] + 1 ELSE epoch[l]
      /\ \A l \in Layers : flag'[l] = IF l = at THEN 0 ELSE flag[l]
      /\ flag' \in [Layers -> {0, 1}]
      /\ epoch' \in [Layers -> 0 .. MaxToken]
  <2>1. /\ \A l \in Layers : epoch'[l] = IF l = at THEN epoch[l] + 1 ELSE epoch[l]
        /\ \A l \in Layers : flag'[l] = IF l = at THEN 0 ELSE flag[l]
        /\ flag' \in [Layers -> {0, 1}]
    BY <1>2, TypeFacts
  <2>2. epoch[at] + 1 \in 0 .. MaxToken
    BY <1>2, TypeFacts
  <2>3. epoch' \in [Layers -> 0 .. MaxToken]
    BY <1>2, <2>2 DEF TypeOK
  <2> QED
    BY <2>1, <2>3
<1>4. /\ queue' \in Seq(Commands) /\ Len(queue') = at
      /\ \A i \in 1 .. Len(queue) : queue'[i] = queue[i]
      /\ queue'[at].layer = at /\ queue'[at].kind = "event"
  <2>1. Command(at, "event") \in Commands
    BY <1>2 DEF Command, Commands
  <2>2. /\ queue' \in Seq(Commands) /\ Len(queue') = at
        /\ \A i \in 1 .. Len(queue) : queue'[i] = queue[i]
        /\ queue'[at] = Command(at, "event")
    BY <1>2, <2>1, AppendProperties, TypeFacts
  <2> QED
    BY <2>2 DEF Command
<1>5. /\ at' \in 0 .. NumLayers
      /\ pc' = "enqueue" => ~WindowEnds(at) /\ at' = at + 1 /\ at' <= NumLayers
      /\ pc' = "read" => WindowEnds(at) /\ at' = served + 1
  BY <1>1, <1>2, TypeFacts DEF WindowEnds, Layers
<1>6. TypeOK'
  <2>1. gates' \subseteq Layers
    BY <1>2 DEF TypeOK
  <2>2. ran' \in 0 .. Len(queue')
    BY <1>2, <1>4, TypeFacts
  <2> QED
    BY <1>1, <1>3, <1>4, <1>5, <2>1, <2>2 DEF TypeOK, Places
<1>7. PoolsSane' /\ Bounds'
  BY <1>2, <1>3, TypeFacts DEF PoolsSane, Bounds
<1>8. Device'
  <2>1. ASSUME phase # "start"
        PROVE  /\ Busy' /\ Running' = Running
               /\ Running.layer \in Layers /\ Running.layer # at
    <3>1. Busy /\ ran + 1 \in 1 .. Len(queue) /\ ran < at
      BY <1>2, <2>1, TypeFacts DEF Device, Busy
    <3> QED
      BY <1>2, <1>4, <3>1 DEF Busy, Running, EventQueue
  <2> QED
    BY <1>1, <1>2, <1>3, <2>1 DEF Device
<1>9. EventQueue'
  <2> SUFFICES ASSUME NEW i \in 1 .. at
               PROVE  /\ queue'[i].layer = i /\ queue'[i].kind = "event"
                      /\ (i > ran + 1 \/ (i = ran + 1 /\ phase = "start") => ready[i] < epoch'[i])
                      /\ (flag'[i] = 1 => ready[i] = epoch'[i] /\ RowsHeld(i)')
    BY <1>4 DEF EventQueue
  <2>1. CASE i = at
    <3>1. ready[at] <= epoch[at] /\ epoch'[at] = epoch[at] + 1 /\ flag'[at] = 0
      BY <1>2, <1>3 DEF Bounds
    <3>2. ready[at] < epoch'[at]
      BY <1>2, <3>1, TypeFacts
    <3> QED
      BY <1>4, <2>1, <3>1, <3>2
  <2>2. CASE i # at
    <3>1. i \in 1 .. Len(queue)
      BY <1>2, <2>2, TypeFacts
    <3>2. epoch'[i] = epoch[i] /\ flag'[i] = flag[i] /\ queue'[i] = queue[i]
          /\ (RowsHeld(i)' <=> RowsHeld(i))
      BY <1>2, <1>3, <1>4, <3>1 DEF RowsHeld
    <3> QED
      BY <1>2, <3>1, <3>2 DEF EventQueue
  <2> QED
    BY <2>1, <2>2
<1>10. Events'
  <2>1. gates' = 1 .. Len(queue') /\ served <= Len(queue')
    BY SMTT(15), <1>2, <1>4, TypeFacts
  <2>2. \A l \in 1 .. served : Settled(l)' /\ flag'[l] = 1
    BY SMTT(15), <1>1, <1>2, <1>3, TypeFacts DEF Events, Settled
  <2>3. \A l \in served + 1 .. Len(queue') : publication[l] < epoch'[l] /\ flag'[l] = 0
    <3> TAKE l \in served + 1 .. Len(queue')
    <3>1. CASE l = at
      BY <1>2, <1>3, <3>1, TypeFacts
    <3>2. CASE l # at
      <4>1. l \in served + 1 .. Len(queue) /\ l \in 1 .. Len(queue)
        BY <1>2, <1>4, <3>2, TypeFacts
      <4> QED
        BY <1>1, <1>2, <1>3, <4>1 DEF Events
    <3> QED
      BY <3>1, <3>2
  <2>4. \A l \in Len(queue') + 1 .. NumLayers : Settled(l)' /\ epoch'[l] < token
    BY <1>1, <1>2, <1>3, <1>4, TypeFacts DEF Events, Settled, Layers
  <2>5. \A l \in 1 .. ran : queue'[l].error \/ used[l] = token
    BY <1>1, <1>4, TypeFacts DEF Events
  <2>6. active' = <<>> /\ EventQueue'
    BY <1>2, <1>9
  <2> QED
    BY <2>1, <2>2, <2>3, <2>4, <2>5, <2>6 DEF Events
<1>11. Places_Event'
  <2>1. \A l \in served + 1 .. Len(queue) : ~WindowEnds(l)
    BY <1>1 DEF Places_Event
  <2>2. CASE pc' = "enqueue"
    <3>1. \A l \in served + 1 .. Len(queue') : ~WindowEnds(l)
      BY <1>2, <1>4, <1>5, <2>1, <2>2, TypeFacts
    <3> QED
      BY <1>4, <1>5, <2>2, <3>1 DEF Places_Event, WindowEnds
  <2>3. CASE pc' = "read"
    <3>1. at' <= Len(queue') /\ \A l \in at' .. Len(queue') - 1 : ~WindowEnds(l)
      BY <1>2, <1>4, <1>5, <2>1, <2>3, TypeFacts
    <3> QED
      BY <1>4, <1>5, <2>3, <3>1 DEF Places_Event, WindowEnds
  <2> QED
    BY <1>1, <2>2, <2>3
<1>12. Routing' /\ Loading' /\ Leaving' /\ CommitComplete'
  BY <1>1 DEF Routing, Loading, Leaving, CommitComplete
<1> QED
  BY <1>6, <1>7, <1>8, <1>10, <1>11, <1>12

\* The layers up to the one after the served ones, and the others.
LEMMA ServedSplit ==
    ASSUME NEW a \in Nat, NEW s \in Nat, NEW n \in Nat, NEW m \in Nat,
           a = s + 1, a <= n, n <= m
    PROVE  /\ \A l \in 1 .. a : l \in 1 .. n /\ (l = a \/ l \in 1 .. s)
           /\ \A l \in a + 1 .. n : l \in 1 .. n /\ l # a /\ l \in s + 1 .. n
           /\ a # n => a \in a .. n - 1 /\ a + 1 <= n
           /\ \A l \in a + 1 .. n - 1 : l \in a .. n - 1
           /\ a \in 0 .. m /\ (a < m => a + 1 \in 0 .. m) /\ 0 \in 0 .. m
           /\ (a = m => n = m) /\ (a # n => a < m)
OBVIOUS

\* DecodeHandoff::publish, and where the owner goes from there.
LEMMA ServedKeeps ==
    ASSUME IndInv, Served
    PROVE  IndInv'
<1> USE DEF IndInv, Served, PublishDemand, stream, device
<1>1. /\ pc = "publish" /\ EventToken
      /\ at = served + 1 /\ at <= Len(queue) /\ WindowEnds(Len(queue))
      /\ \A l \in at .. Len(queue) - 1 : ~WindowEnds(l)
      /\ ready[at] = epoch[at] /\ RowsHeld(at)
      /\ gates = 1 .. Len(queue) /\ EventQueue /\ active = <<>>
  BY DEF EventToken, Places_Event, Events, Loading
<1>2. /\ Len(queue) <= NumLayers /\ at \in 1 .. Len(queue) /\ at \in Layers /\ gates # {}
      /\ \A i \in 1 .. Len(queue) : i \in Layers
  <2>1. at \in 1 .. Len(queue)
    BY <1>1, TypeFacts
  <2> QED
    BY <1>1, <2>1, EventLayers
<1>3. /\ flag' \in [Layers -> {0, 1}] /\ publication' \in [Layers -> 0 .. MaxToken]
      /\ \A l \in Layers : flag'[l] = IF l = at THEN 1 ELSE flag[l]
      /\ \A l \in Layers : publication'[l] = IF l = at THEN epoch[l] ELSE publication[l]
  <2>1. epoch[at] \in 0 .. MaxToken
    BY <1>2 DEF TypeOK
  <2>2. publication \in [Layers -> 0 .. MaxToken]
    BY DEF TypeOK
  <2> QED
    BY <1>2, <2>1, <2>2, TypeFacts
<1>4. /\ pc' \in {"read", "enqueue", "wait"} /\ EventToken' /\ ~RouteToken'
      /\ pc' = "read" => ~WindowEnds(at) /\ at' = at + 1
      /\ pc' = "enqueue" => WindowEnds(at) /\ at < NumLayers /\ at' = at + 1
      /\ pc' = "wait" => at = NumLayers /\ at' = 0
  BY <1>2 DEF EventToken, RouteToken
<1>5. /\ \A l \in 1 .. at : l \in 1 .. Len(queue) /\ (l = at \/ l \in 1 .. served)
      /\ \A l \in at + 1 .. Len(queue) : l \in 1 .. Len(queue) /\ l # at /\ l \in served + 1 .. Len(queue)
      /\ at # Len(queue) => at \in at .. Len(queue) - 1 /\ at + 1 <= Len(queue)
      /\ \A l \in at + 1 .. Len(queue) - 1 : l \in at .. Len(queue) - 1
      /\ at \in 0 .. NumLayers /\ (at < NumLayers => at + 1 \in 0 .. NumLayers)
      /\ 0 \in 0 .. NumLayers
      /\ (at = NumLayers => Len(queue) = NumLayers) /\ (at # Len(queue) => at < NumLayers)
  <2>1. at \in Nat /\ served \in Nat /\ Len(queue) \in Nat /\ NumLayers \in Nat
    BY TypeFacts
  <2>2. at = served + 1 /\ at <= Len(queue) /\ Len(queue) <= NumLayers
    BY <1>1, <1>2
  <2> HIDE DEF IndInv, Served, PublishDemand, stream, device
  <2> QED
    BY ONLY <2>1, <2>2, ServedSplit, SMT
<1>6. /\ pc' = "read" => at' <= Len(queue) /\ \A l \in at' .. Len(queue) - 1 : ~WindowEnds(l)
      /\ pc' = "enqueue" => at = Len(queue)
      /\ pc' = "wait" => Len(queue) = NumLayers
  <2>1. pc' = "read" => at # Len(queue)
    BY <1>1, <1>4
  <2>2. pc' = "enqueue" => at \notin at .. Len(queue) - 1
    BY <1>1, <1>4
  <2>3. at # Len(queue) => at \in at .. Len(queue) - 1 /\ at + 1 <= Len(queue)
    BY <1>5
  <2>4. \A l \in at + 1 .. Len(queue) - 1 : ~WindowEnds(l)
    BY <1>1, <1>5
  <2> QED
    BY <1>4, <1>5, <2>1, <2>2, <2>3, <2>4
<1>7. TypeOK'
  <2>1. at' \in 0 .. NumLayers /\ served' \in 0 .. NumLayers
    <3>1. pc' \in {"read", "enqueue"} => at < NumLayers
      BY <1>1, <1>4, <1>5
    <3> QED
      BY <1>4, <1>5, <3>1
  <2> QED
    BY <1>3, <1>4, <2>1 DEF TypeOK, Places
<1>8. PoolsSane' /\ Bounds'
  BY <1>3, TypeFacts DEF PoolsSane, Bounds
<1>9. Device'
  <2>1. Busy => Running.layer \in Layers
    BY TypeFacts DEF Busy, Running
  <2> QED
    BY <1>1, <1>3, <2>1 DEF Device, Running, Busy
<1>10. EventQueue'
  BY <1>1, <1>2, <1>3 DEF EventQueue, RowsHeld
<1>11. Events'
  <2>1. \A l \in 1 .. at : Settled(l)' /\ flag'[l] = 1
    <3> TAKE l \in 1 .. at
    <3>1. l \in Layers /\ (l = at \/ l \in 1 .. served)
      BY <1>2, <1>5
    <3> QED
      BY <1>1, <1>3, <3>1 DEF Events, Settled
  <2>2. \A l \in at + 1 .. Len(queue) : publication'[l] < epoch[l] /\ flag'[l] = 0
    <3> TAKE l \in at + 1 .. Len(queue)
    <3>1. l \in Layers /\ l # at /\ l \in served + 1 .. Len(queue)
      BY <1>2, <1>5
    <3> QED
      BY <1>1, <1>3, <3>1 DEF Events
  <2>3. \A l \in Len(queue) + 1 .. NumLayers : Settled(l)' /\ epoch[l] < token
    <3> TAKE l \in Len(queue) + 1 .. NumLayers
    <3>1. l \in Layers /\ l # at
      BY <1>2, TypeFacts DEF Layers
    <3> QED
      BY <1>1, <1>3, <3>1 DEF Events, Settled
  <2> QED
    BY <1>1, <1>2, <1>10, <2>1, <2>2, <2>3 DEF Events
<1>12. Places_Event'
  <2>1. CASE pc' = "read"
    BY <1>1, <1>4, <1>6, <2>1 DEF Places_Event, WindowEnds
  <2>2. CASE pc' = "enqueue"
    <3>1. at' = Len(queue') + 1 /\ at' <= NumLayers
      BY <1>2, <1>4, <1>6, <2>2, TypeFacts
    <3>2. served' + 1 .. Len(queue') = {}
      BY <1>6, <2>2, TypeFacts
    <3> QED
      BY <2>2, <3>1, <3>2 DEF Places_Event
  <2>3. CASE pc' = "wait"
    BY <1>4, <1>6, <2>3 DEF Places_Event
  <2> QED
    BY <1>4, <2>1, <2>2, <2>3
<1>13. Routing' /\ Loading' /\ Leaving' /\ CommitComplete'
  BY <1>1, <1>4 DEF Routing, Loading, Leaving, CommitComplete
<1> QED
  BY <1>7, <1>8, <1>9, <1>11, <1>12, <1>13

-----------------------------------------------------------------------------
(* Tokens that retire each router *)

\* When the stream is empty the device is between commands.
LEMMA EmptyDevice ==
    ASSUME IndInv, queue = <<>>
    PROVE  Len(queue) = 0 /\ ran = 0 /\ phase = "start"
BY EmptyStream, TypeFacts DEF IndInv, Device, Busy

\* What the marked flush submits, without and with kernels before the router.
LEMMA FlushedRouter ==
    ASSUME NEW S, NEW c \in S
    PROVE  LET q == <<>> \o <<>> \o <<c>> IN q \in Seq(S) /\ Len(q) = 1 /\ q[1] = c
<1>1. <<>> \o <<>> \o <<c>> = <<c>>
  <2>1. <<>> \o <<>> = <<>>
    BY ConcatEmptySeq, EmptySeq
  <2>2. <<c>> \in Seq(S)
    OBVIOUS
  <2> QED
    BY <2>1, <2>2, ConcatEmptySeq
<1> QED
  BY <1>1

LEMMA FlushedKernels ==
    ASSUME NEW S, NEW c \in S, NEW d \in S
    PROVE  LET q == <<>> \o <<d>> \o <<c>>
           IN  q \in Seq(S) /\ Len(q) = 2 /\ q[1] = d /\ q[2] = c
<1>1. <<>> \o <<d>> = <<d>>
  <2>1. <<d>> \in Seq(S)
    OBVIOUS
  <2> QED
    BY <2>1, ConcatEmptySeq
<1>2. <<d>> \in Seq(S) /\ <<c>> \in Seq(S) /\ Len(<<d>>) = 1 /\ Len(<<c>>) = 1
  OBVIOUS
<1> DEFINE q == <<d>> \o <<c>>
<1>3. q \in Seq(S) /\ Len(q) = 2 /\ q[1] = d /\ q[2] = c
  BY <1>2
<1> QED
  BY <1>1, <1>3

\* The marked flush: the router is behind the kernels of the layer before.
LEMMA RouteLayerKeeps ==
    ASSUME IndInv, RouteLayer
    PROVE  IndInv'
<1> USE DEF IndInv, RouteLayer, handoff, device
<1>1. /\ pc = "route" /\ pc' = "routed" /\ RouteToken /\ RouteToken' /\ ~EventToken'
      /\ gates = {} /\ at \in Layers
      /\ \A l \in Layers : Settled(l)
      /\ \A l \in 1 .. at - 2 : used[l] = token
      /\ at > 1 => RowsHeld(at - 1)
      /\ queue = <<>>
      /\ active = IF at = 1 THEN <<>> ELSE <<Command(at - 1, "rows")>>
  BY DEF Routing, RouteToken, EventToken
<1>2. Len(queue) = 0 /\ ran = 0 /\ phase = "start"
  BY <1>1, EmptyDevice
<1>3. Command(at, "route") \in Commands
  BY <1>1 DEF Command, Commands
<1>4. /\ queue' \in Seq(Commands) /\ Len(queue') = IF at = 1 THEN 1 ELSE 2
      /\ queue'[Len(queue')].layer = at /\ queue'[Len(queue')].kind = "route"
      /\ at > 1 => queue'[1].layer = at - 1 /\ queue'[1].kind = "rows"
  <2>1. CASE at = 1
    <3>1. queue' = <<>> \o <<>> \o <<Command(at, "route")>>
      BY <1>1, <2>1
    <3>2. queue' \in Seq(Commands) /\ Len(queue') = 1 /\ queue'[1] = Command(at, "route")
      BY ONLY <1>3, <3>1, FlushedRouter
    <3> QED
      BY <2>1, <3>2 DEF Command
  <2>2. CASE at # 1
    <3>1. Command(at - 1, "rows") \in Commands
      BY <1>1, <2>2, TypeFacts DEF Command, Commands, Layers
    <3>2. queue' = <<>> \o <<Command(at - 1, "rows")>> \o <<Command(at, "route")>>
      BY <1>1, <2>2
    <3>3. /\ queue' \in Seq(Commands) /\ Len(queue') = 2
          /\ queue'[1] = Command(at - 1, "rows") /\ queue'[2] = Command(at, "route")
      BY ONLY <1>3, <3>1, <3>2, FlushedKernels
    <3> QED
      BY <2>2, <3>3 DEF Command
  <2> QED
    BY <2>1, <2>2
<1>5. TypeOK'
  <2>1. <<>> \in Seq(Commands) /\ ran' \in 0 .. Len(queue')
    BY <1>2, <1>4, EmptySeq
  <2> QED
    BY <1>1, <1>4, <2>1 DEF TypeOK, Places
<1>6. PoolsSane' /\ Bounds' /\ Device'
  BY <1>2 DEF PoolsSane, Bounds, Device
<1>7. Events' /\ Places_Event'
  BY <1>1 DEF Events, Places_Event
<1>8. Routing'
  BY <1>1, <1>2, <1>4 DEF Routing, Settled, RowsHeld
<1>9. Loading' /\ Leaving' /\ CommitComplete'
  BY <1>1 DEF Loading, Leaving, CommitComplete
<1> QED
  BY <1>5, <1>6, <1>7, <1>8, <1>9

\* encode_routed_device: the kernels are in the active batch.
LEMMA EncodeRowsKeeps ==
    ASSUME IndInv, EncodeRows
    PROVE  IndInv'
<1> USE DEF IndInv, EncodeRows, handoff, device
<1>1. /\ pc = "encode" /\ pc' \in {"wait", "route"} /\ RouteToken
      /\ gates = {} /\ at \in Layers
      /\ \A l \in Layers : Settled(l)
      /\ \A l \in 1 .. at - 2 : used[l] = token
      /\ at > 1 => used[at - 1] = token
      /\ queue = <<>> /\ RowsHeld(at)
  BY DEF Routing, RouteToken, Loading
<1>2. RouteToken' /\ ~EventToken'
  BY <1>1 DEF RouteToken, EventToken
<1>3. Len(queue) = 0 /\ ran = 0 /\ phase = "start"
  BY <1>1, EmptyDevice
<1>4. active' \in Seq(Commands)
  <2>1. Command(at, "rows") \in Commands
    BY <1>1 DEF Command, Commands
  <2> QED
    BY <2>1
<1>5. /\ at' \in Layers /\ at' \in 0 .. NumLayers
      /\ pc' = "wait" => at' = at /\ at = NumLayers
      /\ pc' = "route" => at' = at + 1 /\ at' - 1 = at /\ at' # 1
  BY <1>1, TypeFacts DEF Layers
<1>6. TypeOK'
  <2>1. {} \in Routes \union {{}}
    OBVIOUS
  <2> QED
    BY <1>1, <1>4, <1>5, <2>1 DEF TypeOK, Places
<1>7. PoolsSane' /\ Bounds' /\ Device'
  BY <1>3 DEF PoolsSane, Bounds, Device
<1>8. Events' /\ Places_Event'
  BY <1>1, <1>2 DEF Events, Places_Event
<1>9. Routing'
  <2>1. CASE pc' = "wait"
    BY <1>1, <1>2, <1>5, <2>1 DEF Routing, Settled, RowsHeld
  <2>2. CASE pc' = "route"
    <3>1. \A l \in 1 .. at' - 2 : used[l] = token
      <4>1. \A l \in 1 .. at' - 2 : l \in 1 .. at - 2 \/ (at > 1 /\ l = at - 1)
        <5>1. at \in Nat /\ at' = at + 1
          BY <1>5, <2>2, TypeFacts
        <5> QED
          BY ONLY <5>1
      <4> QED
        BY <1>1, <4>1
    <3>2. RowsHeld(at - 1)'
      BY <1>1, <1>5, <2>2 DEF RowsHeld
    <3> QED
      BY <1>1, <1>2, <1>5, <2>2, <3>1, <3>2 DEF Routing, Settled, RowsHeld
  <2> QED
    BY <1>1, <2>1, <2>2
<1>10. Loading' /\ Leaving' /\ CommitComplete'
  BY <1>1 DEF Loading, Leaving, CommitComplete
<1> QED
  BY <1>6, <1>7, <1>8, <1>9, <1>10

\* Stream::wait submits the last kernels.
LEMMA FlushKeeps ==
    ASSUME IndInv, Flush
    PROVE  IndInv'
<1> USE DEF IndInv, Flush, handoff, owner, device
<1>1. /\ pc = "wait" /\ pc' = "wait" /\ RouteToken /\ RouteToken' /\ ~EventToken'
      /\ gates = {} /\ at \in Layers
      /\ at = NumLayers /\ RowsHeld(at)
      /\ queue = <<>> /\ active = <<Command(at, "rows")>>
  <2>1. RouteToken /\ gates = {}
    BY DEF Events, EventToken, RouteToken
  <2> QED
    BY <2>1 DEF Routing, RouteToken, EventToken
<1>2. Len(queue) = 0 /\ ran = 0 /\ phase = "start"
  BY <1>1, EmptyDevice
<1>3. /\ queue' \in Seq(Commands) /\ Len(queue') = 1
      /\ queue'[1].layer = at /\ queue'[1].kind = "rows"
  <2>1. Command(at, "rows") \in Commands
    BY <1>1 DEF Command, Commands
  <2>2. queue' = <<Command(at, "rows")>>
    BY <1>1, ConcatEmptySeq, TypeFacts
  <2> QED
    BY <2>1, <2>2 DEF Command
<1>4. TypeOK'
  <2>1. <<>> \in Seq(Commands) /\ ran' \in 0 .. Len(queue')
    BY <1>2, <1>3, EmptySeq
  <2> QED
    BY <1>1, <1>3, <2>1 DEF TypeOK, Places
<1>5. PoolsSane' /\ Bounds' /\ Device'
  BY <1>2 DEF PoolsSane, Bounds, Device
<1>6. Events' /\ Places_Event'
  BY <1>1 DEF Events, Places_Event
<1>7. Routing'
  BY <1>1, <1>2, <1>3 DEF Routing, Settled, RowsHeld
<1>8. Loading' /\ Leaving' /\ CommitComplete'
  BY <1>1 DEF Loading, Leaving, CommitComplete
<1> QED
  BY <1>4, <1>5, <1>6, <1>7, <1>8

\* A resize between tokens keeps the pools sound and large enough.
LEMMA ResizeKeeps ==
    ASSUME IndInv, NEW target \in TopK .. MaxSlots, Resize(target)
    PROVE  IndInv'
<1> USE DEF IndInv, Resize, handoff, owner, stream, device
<1>1. TopK \in Nat /\ TopK >= 1 /\ MaxSlots \in Nat /\ target \in 1 .. MaxSlots /\ target >= TopK
  BY DecodeAssumption, PoolAssumption
<1>2. ASSUME NEW l \in Layers
      PROVE  Sane(pool'[l]) /\ pool'[l].capacity = target
  <2>1. pool[l] \in Pools /\ PoolSound(pool[l])
    BY DEF PoolsSane, Sane
  <2>2. pool[l].capacity \in Nat
    BY <2>1, PoolFields, PoolAssumption
  <2>3. CASE target < pool[l].capacity
    BY <1>1, <2>1, <2>3, ReleaseSane
  <2>4. CASE ~(target < pool[l].capacity)
    BY <1>1, <2>1, <2>2, <2>4, GrowSane
  <2> QED
    BY <2>3, <2>4
<1>3. pool' \in [Layers -> Pools]
  BY <1>2 DEF Sane
<1>4. PoolsSane'
  BY <1>1, <1>2 DEF PoolsSane
<1>5. TypeOK'
  BY <1>3 DEF TypeOK
<1>6. Bounds' /\ CommitComplete'
  BY DEF Bounds, CommitComplete
<1>7. Device'
  BY DEF Device, Running, Busy
<1>8. Events' /\ Places_Event' /\ Routing' /\ Loading'
  BY DEF Events, EventToken, Places_Event, Routing, RouteToken, Loading
<1>9. Leaving'
  BY DEF Leaving, Settled
<1> QED
  BY <1>4, <1>5, <1>6, <1>7, <1>8, <1>9

-----------------------------------------------------------------------------
(* The device *)

\* A token's kind is one of two, unless it is over or leaving.
LEMMA Kinds ==
    ASSUME TypeOK
    PROVE  /\ ~(EventToken /\ RouteToken)
           /\ EventToken \/ RouteToken \/ pc \in {"idle", "drain"}
           /\ EventToken \/ RouteToken => pc \notin {"idle", "drain"}
BY DEF TypeOK, Places, EventToken, RouteToken

\* Which command the device can be at.
OfEvents == (EventToken \/ pc = "drain") /\ EventQueue
            /\ Running.layer = ran + 1 /\ Running.kind = "event"
OfRows == RouteToken /\ pc = "routed" /\ at > 1 /\ ran = 0 /\ Len(queue) = 2
          /\ Running.layer = at - 1 /\ Running.kind = "rows"
OfRouter == RouteToken /\ pc = "routed" /\ ran + 1 = Len(queue)
            /\ Running.layer = at /\ Running.kind = "route"
OfLast == RouteToken /\ pc = "wait" /\ ran = 0 /\ Len(queue) = 1 /\ at = NumLayers
          /\ Running.layer = at /\ Running.kind = "rows"

LEMMA RunningFacts ==
    ASSUME IndInv, Busy
    PROVE  /\ ran + 1 \in 1 .. Len(queue)
           /\ Running \in Commands /\ Running.layer \in Layers
           /\ OfEvents \/ OfRows \/ OfRouter \/ OfLast
<1> USE DEF IndInv
<1>1. ran + 1 \in 1 .. Len(queue) /\ Len(queue) # 0
  BY TypeFacts DEF Busy
<1>2. Running \in Commands /\ Running.layer \in Layers
  BY <1>1, TypeFacts DEF Running
<1>3. CASE EventToken \/ pc = "drain"
  <2>1. EventQueue
    BY <1>3 DEF Events, Leaving
  <2>2. Running.layer = ran + 1 /\ Running.kind = "event"
    BY <1>1, <2>1 DEF EventQueue, Running
  <2> QED
    BY <1>1, <1>2, <1>3, <2>1, <2>2 DEF OfEvents
<1>4. CASE RouteToken
  <2>1. queue # <<>>
    BY <1>1, EmptySeq
  <2>2. pc \in {"routed", "wait"}
    BY <1>4, <2>1 DEF Routing, RouteToken
  <2>3. CASE pc = "routed"
    <3>1. /\ Len(queue) = IF at = 1 THEN 1 ELSE 2
          /\ queue[Len(queue)].layer = at /\ queue[Len(queue)].kind = "route"
          /\ at > 1 => queue[1].layer = at - 1 /\ queue[1].kind = "rows"
          /\ at \in Layers
      BY <1>4, <2>3 DEF Routing
    <3>2. (ran = 0 /\ at > 1) \/ ran + 1 = Len(queue)
      BY <1>1, <3>1, TypeFacts DEF Layers
    <3>3. CASE ran + 1 = Len(queue)
      BY <1>1, <1>2, <1>4, <2>3, <3>1, <3>3 DEF OfRouter, Running
    <3>4. CASE ran = 0 /\ at > 1
      BY <1>1, <1>2, <1>4, <2>3, <3>1, <3>4 DEF OfRows, Running
    <3> QED
      BY <3>2, <3>3, <3>4
  <2>4. CASE pc = "wait"
    <3>1. /\ at = NumLayers /\ Len(queue) = 1
          /\ queue[1].layer = at /\ queue[1].kind = "rows"
      BY <1>4, <2>1, <2>4 DEF Routing
    <3>2. ran = 0
      BY <1>1, <3>1, TypeFacts
    <3> QED
      BY <1>1, <1>2, <1>4, <2>4, <3>1, <3>2 DEF OfLast, Running
  <2> QED
    BY <2>2, <2>3, <2>4
<1>5. pc # "idle"
  BY <1>1, EmptyStream DEF Leaving
<1> QED
  BY <1>3, <1>4, <1>5, Kinds

\* The router of an event command: the routes of a demand that was not read.
LEMMA GpuExportKeeps ==
    ASSUME IndInv, NEW routes \in Routes, GpuRoute(routes), Running.kind = "event"
    PROVE  IndInv'
<1> USE DEF IndInv, GpuRoute, owner, stream
<1> DEFINE l == Running.layer
<1>1. /\ OfEvents /\ l \in Layers /\ l = ran + 1 /\ l \in 1 .. Len(queue) /\ EventQueue
      /\ phase = "start" /\ phase' = "gate" /\ ran' = ran /\ Busy' /\ Running' = Running
      /\ EventToken \/ pc = "drain"
  BY RunningFacts DEF OfEvents, OfRows, OfRouter, OfLast, Busy, Running
<1>2. ready[l] < epoch[l] /\ flag[l] # 1
  <2>1. ready[l] < epoch[l]
    BY <1>1 DEF EventQueue
  <2> QED
    BY <1>1, <2>1, TypeFacts DEF EventQueue
<1>3. /\ ready' \in [Layers -> 0 .. MaxToken] /\ mailbox' \in [Layers -> Routes \union {{}}]
      /\ \A m \in Layers : ready'[m] = IF m = l THEN epoch[m] ELSE ready[m]
      /\ \A m \in Layers : m # l => mailbox'[m] = mailbox[m]
  <2>1. epoch[l] \in 0 .. MaxToken
    BY <1>1 DEF TypeOK
  <2>2. ready' = [ready EXCEPT ![l] = epoch[l]] /\ mailbox' = [mailbox EXCEPT ![l] = routes]
    OBVIOUS
  <2>3. ready \in [Layers -> 0 .. MaxToken] /\ mailbox \in [Layers -> Routes \union {{}}]
    BY DEF TypeOK
  <2> HIDE DEF l, IndInv, GpuRoute
  <2> QED
    BY <1>1, <2>1, <2>2, <2>3
<1> HIDE DEF l
<1>4. \A m \in Layers : m # l => (RowsHeld(m)' <=> RowsHeld(m))
  BY <1>3 DEF RowsHeld
<1>5. TypeOK'
  BY <1>1, <1>3 DEF TypeOK, Phases
<1>6. PoolsSane' /\ Bounds'
  <2>1. \A m \in Layers : epoch[m] \in Nat /\ ready[m] <= epoch[m]
    BY TypeFacts DEF Bounds
  <2>2. \A m \in Layers : ready'[m] <= epoch[m]
    BY ONLY <1>3, <2>1
  <2> QED
    BY <2>2 DEF PoolsSane, Bounds
<1>7. Device'
  <2>1. ready'[l] = epoch'[l] /\ Running'.kind = "event" /\ Running'.layer = l
    BY <1>1, <1>3 DEF l
  <2> QED
    BY <1>1, <2>1 DEF Device
<1>8. EventQueue'
  <2> SUFFICES ASSUME NEW i \in 1 .. Len(queue)
               PROVE  /\ queue[i].layer = i /\ queue[i].kind = "event"
                      /\ (i > ran + 1 => ready'[i] < epoch[i])
                      /\ (flag[i] = 1 => ready'[i] = epoch[i] /\ RowsHeld(i)')
    BY <1>1 DEF EventQueue
  <2>1. queue[i].layer = i /\ i \in Layers
    BY <1>1, TypeFacts DEF EventQueue
  <2>2. CASE i = l
    BY SMTT(15), <1>1, <1>2, <2>1, <2>2, TypeFacts DEF EventQueue
  <2>3. CASE i # l
    <3>1. ready'[i] = ready[i] /\ (RowsHeld(i)' <=> RowsHeld(i))
      BY <1>3, <1>4, <2>1, <2>3
    <3> QED
      BY <1>1, <3>1 DEF EventQueue
  <2> QED
    BY <2>2, <2>3
<1>9. EventToken /\ pc \in {"load", "write", "publish"}
        => at # l /\ ready'[at] = epoch[at] /\ at \in Layers
  <2> SUFFICES ASSUME EventToken, pc \in {"load", "write", "publish"}
               PROVE  at # l /\ ready'[at] = epoch[at] /\ at \in Layers
    OBVIOUS
  <2>1. ready[at] = epoch[at] /\ at = served + 1 /\ at <= Len(queue)
    BY DEF Places_Event
  <2>2. at \in 1 .. Len(queue)
    BY <2>1, TypeFacts
  <2>3. at \in Layers /\ at # l
    BY <1>2, <2>1, <2>2, EventLayers, TypeFacts
  <2> QED
    BY <1>3, <2>1, <2>3
<1>10. Events'
  BY <1>1, <1>8 DEF Events, EventToken, Settled
<1>11. Places_Event'
  BY <1>9 DEF Places_Event, EventToken, WindowEnds
<1>12. Routing'
  BY <1>1, Kinds DEF Routing, RouteToken, EventToken
<1>13. Loading'
  <2>1. pc \in {"load", "write", "publish", "encode"} => EventToken /\ pc # "encode"
    BY <1>1, Kinds DEF EventToken
  <2>2. pc \in {"load", "write"} => mailbox'[at] = mailbox[at]
    BY <1>3, <1>9, <2>1
  <2>3. pc = "publish" => RowsHeld(at)'
    BY <1>4, <1>9, <2>1 DEF Loading
  <2> QED
    BY <2>1, <2>2, <2>3 DEF Loading
<1>14. Leaving' /\ CommitComplete'
  BY <1>1, <1>8, Kinds DEF Leaving, Settled, CommitComplete
<1> QED
  BY <1>5, <1>6, <1>7, <1>10, <1>11, <1>12, <1>13, <1>14

\* The router of a token that waits for it.
LEMMA GpuRouterKeeps ==
    ASSUME IndInv, NEW routes \in Routes, GpuRoute(routes), Running.kind # "event"
    PROVE  IndInv'
<1> USE DEF IndInv, GpuRoute, owner, stream
<1>1. /\ OfRouter /\ at \in Layers /\ Running.layer = at /\ ran + 1 = Len(queue)
      /\ phase = "start" /\ phase' = "start" /\ ran' = ran + 1 /\ ready' = ready
      /\ RouteToken /\ RouteToken' /\ ~EventToken' /\ pc = "routed"
  BY RunningFacts, Kinds DEF OfEvents, OfRows, OfRouter, OfLast, RouteToken, EventToken
<1>2. /\ mailbox' \in [Layers -> Routes \union {{}}]
      /\ \A m \in Layers : m # at => mailbox'[m] = mailbox[m]
  BY <1>1 DEF TypeOK
<1>3. at > 1 => (RowsHeld(at - 1)' <=> RowsHeld(at - 1))
  <2>1. at > 1 => at - 1 \in Layers /\ at - 1 # at
    BY <1>1, TypeFacts DEF Layers
  <2> QED
    BY <1>2, <2>1 DEF RowsHeld
<1>4. TypeOK'
  <2>1. ran' \in 0 .. Len(queue')
    BY <1>1, TypeFacts
  <2> QED
    BY <1>1, <1>2, <2>1 DEF TypeOK
<1>5. PoolsSane' /\ Bounds' /\ Device'
  BY <1>1 DEF PoolsSane, Bounds, Device
<1>6. Events' /\ Places_Event'
  BY <1>1 DEF Events, Places_Event
<1>7. Routing'
  <2>1. /\ gates = {} /\ active = <<>>
        /\ \A m \in Layers : Settled(m)
        /\ \A m \in 1 .. at - 2 : used[m] = token
        /\ at > 1 => RowsHeld(at - 1)
        /\ Len(queue) = IF at = 1 THEN 1 ELSE 2
        /\ queue[Len(queue)].layer = at /\ queue[Len(queue)].kind = "route"
        /\ at > 1 =>
              /\ queue[1].layer = at - 1 /\ queue[1].kind = "rows"
              /\ ran >= 1 => queue[1].error \/ used[at - 1] = token
    BY <1>1 DEF Routing
  <2>2. at > 1 => ran >= 1
    BY <1>1, <2>1, TypeFacts
  <2> QED
    BY <1>1, <1>3, <2>1, <2>2 DEF Routing, Settled
<1>8. Loading' /\ Leaving' /\ CommitComplete'
  BY <1>1 DEF Loading, Leaving, CommitComplete
<1> QED
  BY <1>4, <1>5, <1>6, <1>7, <1>8

\* The kernels begin: behind the publication event, or behind their router.
LEMMA GpuKernelKeeps ==
    ASSUME IndInv, GpuKernel
    PROVE  IndInv'
<1> USE DEF IndInv, GpuKernel, handoff, owner, stream
<1>1. /\ ran + 1 \in 1 .. Len(queue) /\ Running.layer \in Layers /\ Busy
      /\ OfEvents \/ OfRows \/ OfRouter \/ OfLast
      /\ Running' = Running /\ Busy' /\ phase' \in {"kernel", "skip"}
  BY RunningFacts DEF Busy, Running, KernelMode
<1>2. TypeOK' /\ PoolsSane' /\ Bounds'
  BY <1>1 DEF TypeOK, Phases, PoolsSane, Bounds
<1>3. EventQueue => EventQueue'
  BY <1>1 DEF EventQueue, RowsHeld
<1>4. Device'
  <2>1. CASE phase = "gate"
    <3>1. Running.kind = "event" /\ phase' = KernelMode(Running.layer)
      BY <2>1 DEF Device
    <3>2. OfEvents
      BY <1>1, <3>1 DEF OfRows, OfRouter, OfLast
    <3>3. CASE flag[Running.layer] = 1
      BY <1>1, <3>1, <3>3 DEF Device, KernelMode
    <3>4. CASE flag[Running.layer] # 1
      <4>1. phase' = "skip"
        BY <3>1, <3>4 DEF KernelMode
      <4>2. pc = "drain"
        <5> SUFFICES ASSUME EventToken PROVE FALSE
          BY <3>2 DEF OfEvents
        <5> DEFINE l == Running.layer
        <5>1. l \in 1 .. Len(queue) /\ publication[l] >= epoch[l]
          BY <1>1, <2>1, <3>2 DEF OfEvents, Reached
        <5>2. l \in 1 .. served \/ l \in served + 1 .. Len(queue)
          BY <5>1, TypeFacts
        <5>3. l \in served + 1 .. Len(queue)
          BY <3>4, <5>2 DEF Events
        <5>4. publication[l] < epoch[l]
          BY <5>3 DEF Events
        <5>5. publication[l] \in Nat /\ epoch[l] \in Nat
          BY <1>1, TypeFacts
        <5> QED
          BY ONLY <5>1, <5>4, <5>5
      <4> QED
        BY <1>1, <3>1, <4>1, <4>2 DEF Device
    <3> QED
      BY <3>3, <3>4
  <2>2. CASE phase = "start" /\ Running.kind = "rows"
    BY <1>1, <2>2 DEF Device
  <2> QED
    BY <2>1, <2>2
<1>5. Events'
  BY <1>3 DEF Events, EventToken, Settled
<1>6. Places_Event' /\ Loading' /\ CommitComplete'
  BY DEF Places_Event, EventToken, Loading, RowsHeld, CommitComplete
<1>7. Routing'
  BY DEF Routing, RouteToken, Settled, RowsHeld
<1>8. Leaving'
  BY <1>3 DEF Leaving, Settled
<1> QED
  BY <1>2, <1>4, <1>5, <1>6, <1>7, <1>8

\* A command completes, with an error or without one.  In the second case its
\* layer has used its rows unless the token is leaving.
LEMMA CompletedKeeps ==
    ASSUME IndInv, Busy,
           ran' = ran + 1, phase' = "start",
           queue' \in Seq(Commands), Len(queue') = Len(queue),
           \A i \in 1 .. Len(queue) :
              /\ queue'[i].layer = queue[i].layer /\ queue'[i].kind = queue[i].kind
              /\ queue[i].error => queue'[i].error,
           \/ used' = [used EXCEPT ![Running.layer] = token]
           \/ used' = used /\ (pc = "drain" \/ queue'[ran + 1].error),
           UNCHANGED <<pool, selectors, handoff, owner, active, gates>>
    PROVE  IndInv'
<1> USE DEF IndInv, handoff, owner
<1>1. /\ ran + 1 \in 1 .. Len(queue) /\ Running.layer \in Layers
      /\ OfEvents \/ OfRows \/ OfRouter \/ OfLast
  BY RunningFacts
<1>2. /\ used' \in [Layers -> 0 .. MaxToken]
      /\ \A l \in Layers : used'[l] = used[l] \/ used'[l] = token
      /\ pc = "drain" \/ queue'[ran + 1].error \/ used'[Running.layer] = token
      /\ \A l \in Layers : used[l] = token => used'[l] = token
  <2>1. used \in [Layers -> 0 .. MaxToken] /\ token \in 0 .. MaxToken
    BY DEF TypeOK
  <2> QED
    BY <1>1, <2>1
<1>3. TypeOK'
  <2>1. ran' \in 0 .. Len(queue')
    BY <1>1, TypeFacts
  <2> QED
    BY <1>2, <2>1 DEF TypeOK, Phases
<1>4. PoolsSane' /\ Bounds' /\ Device'
  <2>1. \A l \in Layers : used'[l] <= token
    <3>1. \A l \in Layers : used[l] <= token /\ used[l] \in Nat /\ token \in Nat
      BY TypeFacts DEF Bounds
    <3> QED
      BY ONLY <1>2, <3>1
  <2> QED
    BY <2>1 DEF PoolsSane, Bounds, Device
<1>5. (EventToken' <=> EventToken) /\ (RouteToken' <=> RouteToken)
  BY DEF EventToken, RouteToken
<1>6. EventQueue => EventQueue'
  <2> SUFFICES ASSUME EventQueue, NEW i \in 1 .. Len(queue)
               PROVE  /\ queue'[i].layer = i /\ queue'[i].kind = "event"
                      /\ (i > ran + 1 => ready[i] < epoch[i])
                      /\ (flag[i] = 1 => ready[i] = epoch[i] /\ RowsHeld(i))
    <3>1. ran \in Nat
      BY TypeFacts
    <3>2. \A i \in 1 .. Len(queue) : i > ran' + 1 \/ (i = ran' + 1 /\ phase' = "start") => i > ran + 1
      BY <3>1
    <3> QED
      BY <3>2 DEF EventQueue, RowsHeld
  <2> QED
    BY DEF EventQueue
<1>7. Events'
  <2> SUFFICES ASSUME EventToken PROVE Events'
    BY <1>5 DEF Events
  <2>1. OfEvents /\ pc # "drain"
    BY <1>1, Kinds DEF OfRows, OfRouter, OfLast
  <2>2. \A l \in 1 .. ran' : queue'[l].error \/ used'[l] = token
    <3> TAKE l \in 1 .. ran'
    <3>1. l \in 1 .. ran \/ l = ran + 1
      BY TypeFacts
    <3>2. l \in 1 .. Len(queue) /\ l \in Layers
      <4>1. ran \in Nat /\ Len(queue) \in Nat /\ ran + 1 <= Len(queue)
        BY <1>1, TypeFacts
      <4>2. l \in 1 .. Len(queue)
        BY ONLY <3>1, <4>1
      <4> QED
        BY <4>2, EventLayers
    <3>3. CASE l \in 1 .. ran
      BY <1>2, <3>2, <3>3 DEF Events
    <3>4. CASE l = ran + 1
      BY <1>2, <2>1, <3>4 DEF OfEvents
    <3> QED
      BY <3>1, <3>3, <3>4
  <2> QED
    BY <1>6, <2>1, <2>2 DEF Events, Settled
<1>8. Places_Event'
  BY <1>5 DEF Places_Event, WindowEnds
<1>9. Routing'
  <2> SUFFICES ASSUME RouteToken PROVE Routing'
    BY <1>5 DEF Routing
  <2>1. pc # "drain" /\ ~OfEvents
    BY Kinds DEF OfEvents
  <2>2. at \in Layers /\ \A l \in 1 .. at - 2 : used'[l] = token
    BY SMTT(15), <1>2, TypeFacts DEF Routing, Layers
  <2>3. at > 1 => at - 1 \in Layers
    BY <2>2, TypeFacts DEF Layers
  <2>4. CASE OfRows
    <3>1. queue'[1].error \/ used'[at - 1] = token
      BY <1>2, <2>1, <2>4 DEF OfRows
    <3> QED
      BY <1>5, <2>2, <2>4, <3>1 DEF OfRows, Routing, Settled, RowsHeld
  <2>5. CASE OfRouter
    <3>1. at > 1 => queue'[1].error \/ used'[at - 1] = token
      <4> SUFFICES ASSUME at > 1 PROVE queue'[1].error \/ used'[at - 1] = token
        OBVIOUS
      <4>1. Len(queue) = 2 /\ (ran >= 1 => queue[1].error \/ used[at - 1] = token)
        BY <2>5, TypeFacts DEF OfRouter, Routing
      <4>2. ran >= 1 /\ 1 \in 1 .. Len(queue)
        BY <2>5, <4>1, TypeFacts DEF OfRouter
      <4> QED
        BY <1>2, <2>3, <4>1, <4>2
    <3> QED
      BY <1>5, <2>2, <2>5, <3>1 DEF OfRouter, Routing, Settled, RowsHeld
  <2>6. CASE OfLast
    <3>1. queue'[1].error \/ used'[at] = token
      BY <1>2, <2>1, <2>6 DEF OfLast
    <3>2. queue # <<>>
      <4>1. Len(queue) = 1
        BY <2>6 DEF OfLast
      <4> QED
        BY ONLY <4>1, EmptySeq
    <3>3. at > 1 => used'[at - 1] = token
      BY <1>2, <2>3, <2>6 DEF OfLast, Routing
    <3> QED
      BY <1>5, <2>2, <2>6, <3>1, <3>2, <3>3 DEF OfLast, Routing, Settled, RowsHeld
  <2> QED
    BY <1>1, <2>1, <2>4, <2>5, <2>6
<1>10. Loading'
  BY DEF Loading, RowsHeld
<1>11. Leaving' /\ CommitComplete'
  <2>1. pc # "idle"
    BY <1>1, Kinds DEF OfEvents, OfRows, OfRouter, OfLast, EventToken, RouteToken
  <2> QED
    BY <1>6, <2>1 DEF Leaving, Settled, CommitComplete
<1> QED
  BY <1>3, <1>4, <1>7, <1>8, <1>9, <1>10, <1>11

LEMMA GpuFinishKeeps ==
    ASSUME IndInv, GpuFinish
    PROVE  IndInv'
<1>1. /\ Busy /\ ran' = ran + 1 /\ phase' = "start" /\ queue' = queue
      /\ UNCHANGED <<pool, selectors, handoff, owner, active, gates>>
  BY DEF GpuFinish, stream
<1>2. \/ used' = [used EXCEPT ![Running.layer] = token]
      \/ used' = used /\ pc = "drain"
  BY DEF GpuFinish, IndInv, Device
<1>3. queue' \in Seq(Commands)
  BY <1>1, TypeFacts DEF IndInv
<1> QED
  BY <1>1, <1>2, <1>3, CompletedKeeps

LEMMA GpuFailsKeeps ==
    ASSUME IndInv, GpuFails
    PROVE  IndInv'
<1>1. /\ Busy /\ ran' = ran + 1 /\ phase' = "start" /\ used' = used
      /\ UNCHANGED <<pool, selectors, handoff, owner, active, gates>>
  BY DEF GpuFails
<1> DEFINE failed == [Running EXCEPT !.error = TRUE]
<1>2. ran + 1 \in 1 .. Len(queue) /\ Running \in Commands /\ queue \in Seq(Commands)
  BY <1>1, RunningFacts, TypeFacts DEF IndInv
<1>3. failed \in Commands /\ failed.layer = Running.layer /\ failed.kind = Running.kind /\ failed.error
  BY <1>2 DEF Commands
<1>4. queue' = [queue EXCEPT ![ran + 1] = failed]
  BY DEF GpuFails, Running
<1> HIDE DEF failed
<1>5. /\ queue' \in Seq(Commands) /\ Len(queue') = Len(queue)
      /\ \A i \in 1 .. Len(queue) : queue'[i] = IF i = ran + 1 THEN failed ELSE queue[i]
  BY <1>2, <1>3, <1>4, ExceptSeq
<1>6. /\ queue'[ran + 1].error
      /\ \A i \in 1 .. Len(queue) :
            /\ queue'[i].layer = queue[i].layer /\ queue'[i].kind = queue[i].kind
            /\ queue[i].error => queue'[i].error
  BY <1>2, <1>3, <1>5 DEF Running
<1> QED
  BY <1>1, <1>5, <1>6, CompletedKeeps

-----------------------------------------------------------------------------
(* The invariant *)

LEMMA StutterKeeps ==
    ASSUME IndInv, UNCHANGED vars
    PROVE  IndInv'
<1> USE DEF IndInv, vars, handoff, owner, stream, device
<1>1. TypeOK' /\ PoolsSane' /\ Bounds' /\ CommitComplete'
  BY DEF TypeOK, PoolsSane, Bounds, CommitComplete
<1>2. Device' /\ (EventQueue => EventQueue')
  BY DEF Device, Running, Busy, EventQueue, RowsHeld
<1>3. Events' /\ Places_Event'
  BY <1>2 DEF Events, EventToken, Settled, Places_Event
<1>4. Routing' /\ Loading' /\ Leaving'
  BY <1>2 DEF Routing, RouteToken, Settled, RowsHeld, Loading, Leaving
<1> QED
  BY <1>1, <1>2, <1>3, <1>4

LEMMA StepKeeps ==
    ASSUME IndInv, [Next]_vars
    PROVE  IndInv'
<1>1. CASE \E grows \in BOOLEAN : BeginToken(grows)
  BY <1>1, BeginTokenKeeps
<1>2. CASE \E target \in TopK .. MaxSlots : Resize(target)
  BY <1>2, ResizeKeeps
<1>3. CASE Finished \/ UNCHANGED vars
  BY <1>3, StutterKeeps DEF Finished
<1>4. CASE OwnerStep
  <2>1. CASE Enqueue \/ Read \/ Evict \/ WriteRow \/ WriteSelectors \/ Served
    BY <2>1, EnqueueKeeps, ReadKeeps, EvictKeeps, WriteRowKeeps, WriteSelectorsKeeps, ServedKeeps
  <2>2. CASE ReadTimesOut
    BY <2>2, FailureKeeps DEF ReadTimesOut
  <2>3. CASE RouteLayer \/ Routed \/ RouteFails \/ EncodeRows
    BY <2>3, RouteLayerKeeps, RoutedKeeps, RouteFailsKeeps, EncodeRowsKeeps
  <2>4. CASE Flush \/ Commit \/ Drained
    BY <2>4, FlushKeeps, CommitKeeps, DrainedKeeps
  <2> QED
    BY <1>4, <2>1, <2>2, <2>3, <2>4 DEF OwnerStep
<1>5. CASE GpuStep
  <2>1. CASE \E routes \in Routes : GpuRoute(routes)
    BY <2>1, GpuExportKeeps, GpuRouterKeeps
  <2> QED
    BY <1>5, <2>1, GpuKernelKeeps, GpuFinishKeeps DEF GpuStep
<1>6. CASE OwnerFails
  <2>1. CASE EnqueueRefused \/ RoutesInvalid \/ LoadFails
    BY <2>1, FailureKeeps DEF EnqueueRefused, RoutesInvalid, LoadFails
  <2> QED
    BY <1>6, <2>1, EncodingFailsKeeps DEF OwnerFails
<1>7. CASE GpuFails
  BY <1>7, GpuFailsKeeps
<1> QED
  BY <1>1, <1>2, <1>3, <1>4, <1>5, <1>6, <1>7 DEF Next

\* The inductive invariant holds in every reachable state of the handoff
\* between step_inner, the demand service and the device.
THEOREM Invariance == Spec => []IndInv
<1>1. Init => IndInv
  BY InitInv
<1>2. IndInv /\ [Next]_vars => IndInv'
  BY StepKeeps
<1> QED
  BY <1>1, <1>2, PTL DEF Spec

\* Every variable of the owner, the handoff, the stream and the device keeps
\* its type.
THEOREM TypeCorrect == Spec => []TypeOK
<1>1. IndInv => TypeOK
  BY DEF IndInv
<1> QED
  BY <1>1, Invariance, PTL

-----------------------------------------------------------------------------
(* What the kernels read *)

LEMMA RowsRead ==
    ASSUME IndInv
    PROVE  KernelReadsRows
<1> USE DEF IndInv
<1> SUFFICES ASSUME phase = "kernel"
             PROVE  LET l == Running.layer IN
                    /\ DOMAIN selectors[l] = mailbox[l]
                    /\ \A s \in DOMAIN selectors[l] : pool[l].bytes[selectors[l][s]] = s
  BY DEF KernelReadsRows
<1> DEFINE l == Running.layer
<1>1. Busy /\ (Running.kind = "rows" \/ (Running.kind = "event" /\ flag[l] = 1))
  BY DEF Device
<1>2. ran + 1 \in 1 .. Len(queue) /\ l \in Layers /\ (OfEvents \/ OfRows \/ OfRouter \/ OfLast)
  BY <1>1, RunningFacts
<1>3. RowsHeld(l)
  <2>1. CASE OfEvents
    BY <1>1, <1>2, <2>1 DEF OfEvents, EventQueue
  <2>2. CASE OfRows
    BY <2>2 DEF OfRows, Routing
  <2>3. CASE OfLast
    BY <2>3 DEF OfLast, Routing
  <2>4. ~OfRouter
    BY <1>1 DEF OfRouter
  <2> QED
    BY <1>2, <2>1, <2>2, <2>3, <2>4
<1> HIDE DEF l
<1>4. mailbox[l] \subseteq Sources
  BY <1>2 DEF TypeOK, Routes
<1>5. pool[l] \in Pools /\ PoolSound(pool[l])
  BY <1>2 DEF PoolsSane, Sane
<1>6. ASSUME NEW s \in mailbox[l]
      PROVE  pool[l].bytes[selectors[l][s]] = s
  <2> DEFINE p == pool[l]
             n == p.slot_of[s]
  <2>1. s \in Sources /\ s # Absent /\ n # Absent /\ selectors[l][s] = n
    BY <1>3, <1>4, <1>6, PoolAssumption DEF RowsHeld, Absent
  <2>2. n \in 1 .. MaxSlots
    BY <1>5, <2>1, PoolFields, PoolAssumption DEF SlotMaps, Absent
  <2>3. p.expert_at[n] = s
    BY <1>5, <2>1 DEF PoolSound, Resident
  <2>4. p.bytes[n] = s
    BY <1>5, <2>1, <2>2, <2>3 DEF PoolSound
  <2> QED
    BY <2>1, <2>4
<1> QED
  BY <1>3, <1>6 DEF RowsHeld, l

\* A kernel that addresses expert slots reads complete rows of exactly the
\* experts its router chose, whatever service_demand, an abort or another
\* layer does meanwhile.
THEOREM RowsIntact == Spec => []KernelReadsRows
<1>1. IndInv => KernelReadsRows
  BY RowsRead
<1> QED
  BY <1>1, Invariance, PTL

\* Only a token whose layers all multiplied by the rows published for it
\* leaves the session committed.
THEOREM CommittedWhole == Spec => []CommitComplete
<1>1. IndInv => CommitComplete
  BY DEF IndInv
<1> QED
  BY <1>1, Invariance, PTL

-----------------------------------------------------------------------------
(* What a token finds *)

\* choose_slot has a slot for each route of a token: the capacity is at least
\* the number of routes, and one of them is not resident.
LEMMA SlotFound ==
    ASSUME NEW p, Sane(p), p.capacity >= TopK,
           NEW routes \in Routes \union {{}}, Missing(p, routes) # {}
    PROVE  ChooseSlot(p, routes) # {}
<1> SUFFICES ASSUME ChooseSlot(p, routes) = {} PROVE FALSE
  OBVIOUS
<1> DEFINE held == routes \intersect Resident(p)
           f == [s \in held |-> p.slot_of[s]]
<1>1. p \in Pools /\ PoolSound(p)
  BY DEF Sane
<1>2. routes \in Routes /\ routes \subseteq Sources /\ Cardinality(routes) = TopK
  BY DEF Missing, Routes
<1>3. IsFiniteSet(routes) /\ IsFiniteSet(held)
  BY <1>2, FS_Subset, PoolAssumption
<1>4. p.capacity \in Nat /\ p.capacity >= 1 /\ p.capacity <= MaxSlots /\ TopK \in Nat
  BY <1>1, PoolFields, PoolAssumption, DecodeAssumption
<1>5. \A n \in 1 .. p.capacity : p.expert_at[n] # Absent /\ p.expert_at[n] \in routes
  BY DEF ChooseSlot, Slots
<1>6. \A s \in held : p.slot_of[s] \in 1 .. p.capacity
  BY <1>1, <1>2, <1>4, PoolFields, PoolAssumption DEF PoolSound, Resident, SlotMaps, Absent
<1>7. \A n \in 1 .. p.capacity : \E s \in held : p.slot_of[s] = n
  <2> TAKE n \in 1 .. p.capacity
  <2>1. n \in 1 .. MaxSlots /\ n # Absent
    BY <1>4, PoolAssumption DEF Absent
  <2>2. p.slot_of[p.expert_at[n]] = n /\ p.expert_at[n] \in routes
    BY <1>1, <1>5, <2>1 DEF PoolSound
  <2>3. p.expert_at[n] \in held
    BY <1>2, <2>1, <2>2 DEF Resident
  <2> QED
    BY <2>2, <2>3
<1>8. f \in Surjection(held, 1 .. p.capacity)
  <2>1. f \in [held -> 1 .. p.capacity]
    BY <1>6
  <2>2. \A n \in 1 .. p.capacity : \E s \in held : f[s] = n
    BY <1>7
  <2> HIDE DEF f, held
  <2> QED
    BY <2>1, <2>2 DEF Surjection
<1>9. p.capacity <= Cardinality(held)
  <2>1. Cardinality(1 .. p.capacity) = p.capacity
    BY <1>4, FS_Interval
  <2> HIDE DEF f, held
  <2>2. Cardinality(1 .. p.capacity) <= Cardinality(held)
    BY <1>3, <1>8, FS_Surjection
  <2> QED
    BY <2>1, <2>2
<1>10. held \subseteq routes /\ held # routes
  BY DEF Missing
<1>11. Cardinality(held) <= TopK /\ Cardinality(held) # TopK
  BY <1>2, <1>3, <1>10, FS_Subset
<1>12. Cardinality(held) \in Nat
  BY <1>3, FS_CardinalityType
<1> QED
  BY ONLY <1>4, <1>9, <1>11, <1>12, p.capacity >= TopK

LEMMA Unhindered ==
    ASSUME IndInv
    PROVE  NeverRefused
<1> USE DEF IndInv
<1>1. ASSUME pc = "enqueue" PROVE ~BeginRefused(at)
  <2>1. /\ EventToken /\ EventQueue /\ active = <<>>
        /\ at = Len(queue) + 1 /\ at <= NumLayers
        /\ \A l \in Len(queue) + 1 .. NumLayers : Settled(l)
    BY <1>1 DEF EventToken, Events, Places_Event
  <2>2. at \in Len(queue) + 1 .. NumLayers /\ at \in Layers
    BY <2>1, TypeFacts DEF Layers
  <2>3. Reached(publication, at)
    BY <2>1, <2>2, TypeFacts DEF Reached, Settled
  <2>4. ~Holds(queue, at)
    BY <2>1, TypeFacts DEF Holds, EventQueue
  <2>5. ~Holds(active, at)
    BY <2>1, EmptySeq DEF Holds
  <2> QED
    BY <2>3, <2>4, <2>5 DEF BeginRefused, Reserved
<1>2. ASSUME pc = "load"
      PROVE  /\ at \notin gates => ~Reserved(at)
             /\ at \in gates => ~Reached(publication, at)
             /\ Missing(pool[at], wanted) # {} => ChooseSlot(pool[at], wanted) # {}
  <2>1. /\ at \in Layers
        /\ EventToken => at \in gates
        /\ ~EventToken => gates = {} /\ queue = <<>> /\ active = <<>>
    BY <1>2, LoadPlaces
  <2>2. at \notin gates => ~Reserved(at)
    BY <2>1, EmptySeq DEF Reserved, Holds
  <2>3. ASSUME at \in gates PROVE ~Reached(publication, at)
    <3>1. EventToken
      BY <2>1, <2>3
    <3>2. at = served + 1 /\ at <= Len(queue)
      BY <1>2, <3>1 DEF Places_Event
    <3>3. at \in served + 1 .. Len(queue)
      BY <3>2, TypeFacts
    <3>4. publication[at] < epoch[at] /\ publication[at] \in Nat /\ epoch[at] \in Nat
      BY <2>1, <3>1, <3>3, TypeFacts DEF Events
    <3> QED
      BY <3>4 DEF Reached
  <2>4. Missing(pool[at], wanted) # {} => ChooseSlot(pool[at], wanted) # {}
    <3>1. Sane(pool[at]) /\ pool[at].capacity >= TopK /\ wanted \in Routes \union {{}}
      BY <2>1 DEF PoolsSane, TypeOK
    <3> QED
      BY <3>1, SlotFound
  <2> QED
    BY <2>2, <2>3, <2>4
<1>3. ASSUME pc = "wait", NEW l \in gates PROVE Reached(publication, l)
  <2>1. EventToken
    BY <1>3 DEF EventToken
  <2>2. l \in 1 .. served /\ l \in Layers
    BY <1>3, <2>1 DEF Events, Places_Event, TypeOK
  <2>3. publication[l] = epoch[l] /\ epoch[l] \in Nat
    BY <2>1, <2>2, TypeFacts DEF Events, Settled
  <2> QED
    BY <2>3 DEF Reached
<1>4. ASSUME pc = "idle" PROVE Quiescent
  <2>1. queue = <<>> /\ active = <<>> /\ \A l \in Layers : Settled(l)
    BY <1>4 DEF Leaving
  <2>2. \A l \in Layers : ~Reserved(l)
    BY <2>1, EmptySeq DEF Reserved, Holds
  <2>3. \A l \in Layers : Reached(publication, l)
    BY <2>1, TypeFacts DEF Reached, Settled
  <2> QED
    BY <2>2, <2>3 DEF Quiescent
<1> QED
  BY <1>1, <1>2, <1>3, <1>4 DEF NeverRefused

\* Nothing a token leaves behind refuses the next one: DecodeHandoff::begin,
\* the plain loader, Stream::wait and a resize succeed, and choose_slot finds a
\* slot for every served route.
THEOREM NothingRefused == Spec => []NeverRefused
<1>1. IndInv => NeverRefused
  BY Unhindered
<1> QED
  BY <1>1, Invariance, PTL

=============================================================================
