------------------------------ MODULE Serving ------------------------------
(***************************************************************************)
(* The server: an HTTP dispatcher thread, one inference owner thread, the  *)
(* bounded queue between them, the published health snapshot, and the      *)
(* owner's generation of one response at a time over the two prompt cache  *)
(* tiers (server.rs, generation.rs, engine/prefix_cache.rs).  Clients may  *)
(* hang up, the memory controller may change the expert capacity at every  *)
(* boundary, and "faults" bounds the errors injected where the code        *)
(* handles one.                                                            *)
(***************************************************************************)
EXTENDS PrefixCache, ResponseShaper, ChatProtocol, TokenSampler, TLC

CONSTANTS
    Workloads,             \* sequence of what clients may send and which tiers are on
    MaxRequests,           \* requests of the largest workload
    MaxQueued,             \* MAX_QUEUED_REQUESTS
    MaxContext,            \* context limit in tokens
    PrefillWidth,          \* tokens of a full prefill chunk
    Stride, WriteDepth,    \* policy of the disk anchors
    Capacities,            \* expert capacities the controller moves between
    TextOf,                \* text of each token
    Render(_),             \* prompt tokens of the messages, <<>> when refused
    Defaults               \* the package's sampling options

VARIABLES
    work, inbox, queue, dispatcher, owner, away, answer,
    memory, disk, capacity, health, faults

vars == <<work, inbox, queue, dispatcher, owner, away, answer,
          memory, disk, capacity, health, faults>>
transport == <<inbox, queue, dispatcher, away>>
caches == <<memory, disk>>

Requests == 1..MaxRequests
Workload == Workloads[work]
Req(r) == Workload.requests[r]
Known == DOMAIN Workload.requests
Unblock == 0               \* tiny_http's wake-up message

Blank == [reasoning |-> <<>>, content |-> <<>>, calls |-> <<>>]
Unanswered == [state |-> "none", status |-> "none", shown |-> Blank]

NoInput == [prompt |-> <<>>, stream |-> FALSE, thinking |-> FALSE, tools |-> FALSE, max |-> 0]
Idle ==
    [pc |-> "idle", r |-> 0, input |-> NoInput, session |-> <<>>, initial |-> 0, source |-> "cold",
     memoryOn |-> FALSE, diskOn |-> FALSE, clean |-> TRUE,
     generated |-> <<>>, selected |-> "none", withheld |-> <<>>,
     shaper |-> NewShaper(FALSE, FALSE), cancelled |-> FALSE,
     result |-> "none", phase |-> "none", credited |-> FALSE]

Init ==
    /\ work \in DOMAIN Workloads
    /\ inbox = <<>> /\ queue = <<>> /\ dispatcher = "up"
    /\ owner = Idle
    /\ away = {}
    /\ answer = [r \in Requests |-> Unanswered]
    /\ memory = <<>> /\ disk = [saved |-> {}, readable |-> TRUE]
    /\ capacity = Workload.start /\ health = capacity
    /\ faults = Workload.faults

-----------------------------------------------------------------------------
(* Errors, cancellation and the capacity controller.                       *)

Fault(kinds) == {"none"} \cup (IF faults > 0 THEN kinds ELSE {})
Spend(fault) == faults' = IF fault = "none" THEN faults ELSE faults - 1

(* A streamed request notices that its client is gone when a delta or the  *)
(* once-a-second comment cannot be written.  An operation polls n times;   *)
(* the result is the first poll that reports cancellation, n + 1 if none.  *)
Streaming == owner.input.stream
MayLose == Streaming /\ owner.r \in away
Notices(n) == IF owner.cancelled THEN {1} ELSE IF MayLose THEN 1..(n + 1) ELSE {n + 1}
WriteFails == IF MayLose THEN BOOLEAN ELSE {FALSE}

Prompt == owner.input.prompt

(* check_boundary and the phase hook: the engine's capacity may change,    *)
(* and is published at once unless the step failed.                        *)
Boundary(failed) ==
    /\ capacity' \in IF Workload.adaptive THEN Capacities ELSE {capacity}
    /\ health' = IF failed THEN health ELSE capacity'

(* Mutant: a refused admission returns before it publishes. *)
AdaptUnpublished(failed) ==
    /\ capacity' \in IF Workload.adaptive THEN Capacities ELSE {capacity}
    /\ health' = IF failed THEN health ELSE capacity'
(* adapt_at_request_boundary publishes whatever happened.                  *)
Adapt(failed) ==
    /\ capacity' \in IF Workload.adaptive THEN Capacities ELSE {capacity}
    /\ health' = capacity'

Closed(r, status) == [answer EXCEPT ![r].state = "closed", ![r].status = status]

-----------------------------------------------------------------------------
(* Clients and the dispatcher.                                             *)

Send(r) ==
    /\ r \in Known /\ answer[r].status = "none"
    /\ owner.pc # "gone" \/ dispatcher = "up"
    /\ inbox' = Append(inbox, r)
    /\ answer' = [answer EXCEPT ![r].status = "sent"]
    /\ UNCHANGED <<work, queue, dispatcher, owner, away, caches, capacity, health, faults>>

HangUp(r) ==
    /\ Workload.hangups /\ r \in Known \ away /\ Stream(Req(r).body)
    /\ answer[r].status = "sent" \/ answer[r].state = "open"
    /\ away' = away \cup {r}
    /\ UNCHANGED <<work, inbox, queue, dispatcher, owner, answer, caches,
                   capacity, health, faults>>

(* Mutant: a request that finds the queue full is left waiting. *)
DispatchOrWait(r) ==
    \/ /\ Req(r).kind # "chat"
       /\ answer' = Closed(r, Req(r).kind) /\ queue' = queue
    \/ /\ Req(r).kind = "chat"
       /\ queue' = IF Len(queue) < MaxQueued THEN Append(queue, r) ELSE queue
       /\ answer' = answer
(* Mutant: a refused request stays in the queue. *)
DispatchRefusedToo(r) ==
    /\ queue' = IF Req(r).kind = "chat" THEN Append(queue, r) ELSE queue
    /\ answer' = IF Req(r).kind # "chat" THEN Closed(r, Req(r).kind)
                 ELSE IF Len(queue) >= MaxQueued THEN Closed(r, "queue full") ELSE answer
(* Routes of one request: health and transport errors are answered here,   *)
(* chat completions enter the queue or are refused when it is full.        *)
DispatchRequest(r) ==
    \/ /\ Req(r).kind # "chat"
       /\ answer' = Closed(r, Req(r).kind) /\ queue' = queue
    \/ /\ Req(r).kind = "chat" /\ Len(queue) < MaxQueued
       /\ queue' = Append(queue, r) /\ answer' = answer
    \/ /\ Req(r).kind = "chat" /\ Len(queue) >= MaxQueued
       /\ answer' = Closed(r, "queue full") /\ queue' = queue

Dispatch ==
    /\ dispatcher = "up" /\ inbox # <<>> /\ inbox[1] # Unblock
    /\ DispatchRequest(inbox[1])
    /\ inbox' = Tail(inbox)
    /\ UNCHANGED <<work, dispatcher, owner, away, caches, capacity, health, faults>>

(* The dispatcher is woken when the owner is gone, or fails itself.        *)
DispatcherEnds ==
    /\ dispatcher = "up"
    /\ \/ inbox # <<>> /\ inbox[1] = Unblock /\ faults' = faults
       \/ faults > 0 /\ faults' = faults - 1
    /\ dispatcher' = "gone"
    /\ UNCHANGED <<work, inbox, queue, owner, away, answer, caches, capacity, health>>

-----------------------------------------------------------------------------
(* The inference owner's loop and admission.                               *)

(* A quiet second: recv_timeout expires.                                   *)
IdleObserve ==
    /\ owner.pc = "idle" /\ queue = <<>> /\ dispatcher = "up" /\ Workload.adaptive
    /\ Adapt(FALSE)
    /\ UNCHANGED <<work, transport, owner, answer, caches, faults>>

TakeRequest ==
    /\ owner.pc = "idle" /\ queue # <<>>
    /\ queue' = Tail(queue)
    /\ \E fault \in Fault({"pressure"}) :
          /\ Spend(fault) /\ Adapt(fault # "none")
          /\ IF fault = "none"
             THEN /\ owner' = [Idle EXCEPT !.pc = "admit", !.r = queue[1]]
                  /\ answer' = answer
             ELSE owner' = owner /\ answer' = Closed(queue[1], "503")
    /\ UNCHANGED <<work, inbox, dispatcher, away, caches>>

(* read_body and read_json: a body of more than 1 MiB, or not JSON.        *)
Unreadable(body) == body.is \in {"oversized", "broken"}
Refusal(body) == IF body.is = "oversized" THEN "413" ELSE "400"

Input(request) ==
    LET chat == parse_chat(request, Workload.thinking, Defaults)
    IN  [prompt |-> Render(chat.messages), stream |-> chat.stream,
         thinking |-> chat.thinking, tools |-> chat.tools, max |-> chat.max]
Fits(input) == Len(input.prompt) + input.max <= MaxContext

(* The operating system is asked for a seed only when the request gives    *)
(* none and the response is sampled.                                       *)
Drawn(chat) == ~chat.seeded /\ chat.sampling["temperature"] # 0

(* A request that was read and fits: the second admission check, the seed, *)
(* the sampler, and the first bytes of a stream.                           *)
Open(chat, input) ==
    LET r == owner.r
        job == [owner EXCEPT !.pc = "lookup", !.input = input, !.credited = TRUE,
                   !.memoryOn = Workload.memory > 0, !.diskOn = Workload.disk # "off",
                   !.shaper = NewShaper(input.thinking, input.tools)]
    IN  \E fault \in Fault({"pressure"} \cup IF Drawn(chat) THEN {"seed"} ELSE {}) :
          /\ Spend(fault) /\ Adapt(fault = "pressure")
          /\ IF fault # "none" \/ ~SamplingValid(chat.sampling)
             THEN /\ answer' = Closed(r, CASE fault = "pressure" -> "503"
                                           [] fault = "seed" -> "500"
                                           [] OTHER -> "400")
                  /\ owner' = Idle
             ELSE \E lost \in IF input.stream /\ r \in away THEN BOOLEAN ELSE {FALSE} :
                    IF lost
                    THEN answer' = Closed(r, "cut") /\ owner' = Idle
                    ELSE /\ owner' = job
                         /\ answer' = IF input.stream
                                      THEN [answer EXCEPT ![r].state = "open"]
                                      ELSE answer

(* handle_chat up to the first response byte of a stream.                  *)
AdmitRequest ==
    /\ owner.pc = "admit"
    /\ LET body == Req(owner.r).body
           held == ~Unreadable(body) /\ RequestHolds(body)
           input == Input(body)
       IN  IF held /\ input.prompt # <<>> /\ Fits(input)
           THEN Open(parse_chat(body, Workload.thinking, Defaults), input)
           ELSE /\ answer' = Closed(owner.r, Refusal(body)) /\ owner' = Idle
                /\ UNCHANGED <<capacity, health, faults>>
    /\ UNCHANGED <<work, transport, caches>>

(* A panic on the owner unwinds: its request is dropped and the dispatcher *)
(* is sent the wake-up message.                                            *)
OwnerUnwinds ==
    /\ owner.pc \notin {"idle", "gone"} /\ faults > 0
    /\ faults' = faults - 1
    /\ answer' = Closed(owner.r, "cut")
    /\ owner' = [Idle EXCEPT !.pc = "gone"]
    /\ inbox' = Append(inbox, Unblock)
    /\ UNCHANGED <<work, queue, dispatcher, away, caches, capacity, health>>

(* Every sender is gone and the queue is drained: the loop ends.           *)
OwnerStops ==
    /\ owner.pc = "idle" /\ queue = <<>> /\ dispatcher = "gone"
    /\ owner' = [owner EXCEPT !.pc = "gone"]
    /\ UNCHANGED <<work, transport, answer, caches, capacity, health, faults>>

(* The process ends; requests still queued are dropped with their sockets. *)
Exit ==
    /\ owner.pc = "gone" /\ dispatcher = "gone"
    /\ \E r \in Known : answer[r].status = "sent" /\ answer[r].state # "closed"
    /\ answer' = [r \in Requests |->
                    IF answer[r].status = "sent" /\ answer[r].state # "closed"
                    THEN [answer[r] EXCEPT !.state = "closed", !.status = "cut"]
                    ELSE answer[r]]
    /\ inbox' = <<>> /\ queue' = <<>>
    /\ UNCHANGED <<work, dispatcher, owner, away, caches, capacity, health, faults>>

-----------------------------------------------------------------------------
(* Generation: lookup in the two cache tiers (generate_inner_with_phases). *)

(* The controller's request ends and health is published, whatever the     *)
(* result was.                                                             *)
Ended(job, result) ==
    [job EXCEPT !.pc = "respond", !.result = result, !.credited = FALSE]

Matches(saved) == {tokens \in saved : ExactPrefixMatch(tokens, Prompt)}
Longest(S) == CHOOSE tokens \in S : \A other \in S : Len(other) <= Len(tokens)

(* DiskCheckpointStore::load_match as the owner sees it: the longest match *)
(* that is intact; an invalid payload is removed and the next one tried,   *)
(* an unreadable one ends restores for good.                               *)
AfterLoad(fault) ==
    [disk EXCEPT !.saved = IF fault = "invalid" THEN @ \ {Longest(Matches(@))} ELSE @,
                 !.readable = @ /\ fault # "read"]
Loaded(job, fault, minimum) ==
    LET found == Matches(AfterLoad(fault).saved)
    IN  IF fault = "read" THEN [job EXCEPT !.diskOn = FALSE, !.clean = FALSE]
        ELSE IF found = {} \/ Len(Longest(found)) < minimum THEN job
        ELSE [job EXCEPT !.session = Longest(found), !.source = "disk"]

(* Mutant: any memory hit ends the search. *)
DeeperNever(length) == FALSE
(* Is the disk worth reading although memory already has a prefix?         *)
Deeper(length) ==
    /\ length > 0 /\ length < Len(Prompt)
    /\ Workload.disk # "off" /\ disk.readable
    /\ \E tokens \in Matches(disk.saved) : Len(tokens) > length

FindDeeper ==
    /\ owner.pc = "lookup"
    /\ LET hit == BestMatch(memory, Prompt)
           length == IF hit = 0 THEN 0 ELSE Len(memory[hit].tokens)
           next == [owner EXCEPT !.pc = "memory"]
       IN  \E notice \in Notices(2), fault \in Fault({"workspace", "read", "invalid"}) :
             /\ Spend(fault)
             /\ IF fault = "workspace" \/ notice = 1
                THEN /\ fault \in {"none", "workspace"}
                     /\ owner' = Ended([owner EXCEPT !.cancelled = fault = "none"],
                                       IF fault = "none" THEN "cancelled" ELSE "error")
                     /\ health' = capacity
                     /\ UNCHANGED caches
                ELSE /\ memory' = IF hit = 0 THEN memory ELSE Touched(memory, hit)
                     /\ health' = health
                     /\ fault # "none" => Deeper(length) /\ notice = 3
                     /\ notice = 2 => length \in 1..(Len(Prompt) - 1)
                     /\ IF Deeper(length) /\ notice = 3
                        THEN /\ disk' = AfterLoad(fault)
                             /\ owner' = Loaded(next, fault, length + 1)
                        ELSE /\ disk' = disk
                             /\ owner' = [next EXCEPT !.cancelled = notice = 2]
    /\ UNCHANGED <<work, transport, answer, capacity>>

RestoreMemory ==
    /\ owner.pc = "memory"
    /\ LET hit == BestMatch(memory, Prompt)
           wanted == owner.source = "cold" /\ hit # 0
           next == [owner EXCEPT !.pc = "disk"]
       IN  \E fault \in IF wanted THEN Fault({"restore"}) ELSE {"none"} :
             /\ Spend(fault)
             /\ memory' = IF wanted THEN Touched(memory, hit) ELSE memory
             /\ owner' = IF ~wanted THEN next
                         ELSE IF fault # "none"
                         THEN [next EXCEPT !.memoryOn = FALSE, !.clean = FALSE]
                         ELSE [next EXCEPT !.session = memory[hit].tokens,
                                           !.source = "memory"]
    /\ UNCHANGED <<work, transport, answer, disk, capacity, health>>

RestoreDisk ==
    /\ owner.pc = "disk"
    /\ \E notice \in IF owner.source = "cold" /\ owner.diskOn THEN Notices(1) ELSE {2} :
         LET wanted == owner.source = "cold" /\ owner.diskOn /\ notice = 2
                         /\ disk.readable /\ Matches(disk.saved) # {}
             next == [owner EXCEPT !.pc = "start", !.cancelled = @ \/ notice = 1]
         IN  \E fault \in IF wanted THEN Fault({"read", "invalid"}) ELSE {"none"} :
               /\ Spend(fault)
               /\ disk' = IF wanted THEN AfterLoad(fault) ELSE disk
               /\ owner' = IF wanted THEN Loaded(next, fault, 0) ELSE next
    /\ UNCHANGED <<work, transport, answer, memory, capacity, health>>

(* A complete disk hit fills memory; then the session starts and the       *)
(* request takes its prefill workspace.                                    *)
StartSession ==
    /\ owner.pc = "start"
    /\ \E notice \in Notices(1), fault \in Fault({"offer", "session", "phase"}) :
         LET fills == owner.source = "disk" /\ owner.session = Prompt /\ owner.memoryOn
             started == [owner EXCEPT
                            !.pc = IF owner.session = Prompt THEN "sample" ELSE "prefill",
                            !.initial = Len(owner.session),
                            !.memoryOn = @ /\ fault # "offer",
                            !.phase = IF Workload.adaptive THEN "prefill" ELSE "none"]
         IN  /\ Spend(fault)
             /\ fault = "offer" => fills
             /\ fault = "session" => owner.source = "cold"
             /\ fault = "phase" => Workload.adaptive
             /\ disk' = disk
             /\ IF notice = 1
                THEN /\ fault = "none"
                     /\ owner' = Ended([owner EXCEPT !.cancelled = TRUE], "cancelled")
                     /\ memory' = memory /\ capacity' = capacity /\ health' = capacity
                ELSE /\ memory' \in IF ~fills THEN {memory}
                                    ELSE OfferPrompt(memory, owner.session, Prompt,
                                                     Workload.memory, fault = "offer")
                     /\ IF fault \in {"session", "phase"}
                        THEN /\ IF fault = "phase" THEN Adapt(TRUE)
                                ELSE capacity' = capacity /\ health' = capacity
                             /\ owner' = Ended(owner, "error")
                        ELSE /\ Boundary(FALSE)
                             /\ owner' = started
    /\ UNCHANGED <<work, transport, answer>>

-----------------------------------------------------------------------------
(* run_loop: prefill chunks, sampling, emission and single-token steps.    *)

Finishing(job, result) == [job EXCEPT !.pc = "finish", !.result = result]

(* The token an operation selects: drawn from any row of logits the model  *)
(* may produce there, with every token so far as history, or any of the    *)
(* request's tokens where the workload leaves the logits open.             *)
History == Prompt \o owner.generated
Sampler == Sampling(Req(owner.r).body, Defaults)
NextTokens ==
    IF Req(owner.r).rows = {} THEN Req(owner.r).tokens \cup {"stop"}
    ELSE {SampleCommitted(row, History, Sampler, unit) :
              row \in Req(owner.r).rows, unit \in Units}

OfferMemoryAt(frontier) ==
    LET aligned == (Len(Prompt) \div PrefillWidth) * PrefillWidth
    IN  frontier = Len(Prompt) \/ (aligned > 0 /\ frontier = aligned)

(* A full chunk that crosses a stride boundary within the write depth.     *)
DiskWriteEligible(frontier, tokens) ==
    /\ tokens = PrefillWidth
    /\ frontier <= WriteDepth
    /\ frontier \div Stride > (frontier - tokens) \div Stride

Saved(tokens) == [disk EXCEPT !.saved = @ \cup {tokens}]
SavesFinal == Workload.disk = "full"

(* One chunk: the engine consumes it (polling and adapting at its layer    *)
(* boundaries), then the boundary, the decode phase after the last chunk,  *)
(* and the checkpoint offers of both tiers.                                *)
PrefillChunk ==
    /\ owner.pc = "prefill"
    /\ \E notice \in Notices(4),
         fault \in Fault({"engine", "boundary", "phase", "offer", "save"}),
         token \in IF Len(Prompt) - Len(owner.session) > PrefillWidth THEN {"none"} ELSE NextTokens :
         LET done == Len(owner.session)
             count == IF Len(Prompt) - done < PrefillWidth
                      THEN Len(Prompt) - done ELSE PrefillWidth
             frontier == done + count
             session == owner.session \o SubSeq(Prompt, done + 1, frontier)
             last == frontier = Len(Prompt)
             fails == fault \in {"engine", "boundary", "phase"} \/ token = NoToken
             offers == owner.memoryOn /\ notice > 3 /\ OfferMemoryAt(frontier)
             saves == /\ owner.diskOn /\ notice > 4
                      /\ \/ last /\ SavesFinal
                         \/ DiskWriteEligible(frontier, count)
             job == [owner EXCEPT !.cancelled = notice <= 4, !.session = session,
                                  !.memoryOn = @ /\ fault # "offer",
                                  !.diskOn = @ /\ fault # "save",
                                  !.phase = IF last /\ @ = "prefill" THEN "decode" ELSE @]
         IN  /\ Spend(fault)
             /\ notice <= 2 => fault = "none"
             /\ fault = "phase" => last /\ Workload.adaptive
             /\ fault = "offer" => offers
             /\ fault = "save" => saves
             /\ IF notice <= 2
                THEN /\ owner' = Finishing([owner EXCEPT !.cancelled = TRUE], "cancelled")
                     /\ IF notice = 1 THEN UNCHANGED <<capacity, health>> ELSE Boundary(FALSE)
                     /\ UNCHANGED caches
                ELSE IF fails
                THEN owner' = Finishing(job, "error") /\ Boundary(TRUE) /\ UNCHANGED caches
                ELSE /\ Boundary(FALSE)
                     /\ memory' \in IF ~offers THEN {memory}
                                    ELSE OfferPrompt(memory, session, Prompt,
                                                     Workload.memory, fault = "offer")
                     /\ disk' = IF saves /\ fault # "save" THEN Saved(session) ELSE disk
                     /\ owner' = IF last THEN [job EXCEPT !.pc = "emit", !.selected = token]
                                 ELSE job
    /\ UNCHANGED <<work, transport, answer>>

(* A complete hit samples from the saved logits of its last token.         *)
SampleCurrent ==
    /\ owner.pc = "sample"
    /\ \E notice \in Notices(1), fault \in Fault({"engine", "boundary", "phase"}),
         token \in NextTokens :
         /\ Spend(fault)
         /\ notice = 1 => fault = "none"
         /\ IF notice = 1
            THEN /\ owner' = Finishing([owner EXCEPT !.cancelled = TRUE], "cancelled")
                 /\ UNCHANGED <<capacity, health>>
            ELSE /\ Boundary(fault # "none" \/ token = NoToken)
                 /\ owner' = IF fault # "none" \/ token = NoToken THEN Finishing(owner, "error")
                             ELSE [owner EXCEPT
                                 !.pc = "emit", !.selected = token,
                                 !.phase = IF @ = "prefill" THEN "decode" ELSE @]
    /\ UNCHANGED <<work, transport, answer, caches>>

(* Text handed to the response: shaped, and written at once when streamed. *)
Pushed(job, text) == [job EXCEPT !.shaper = ShaperPush(@, text), !.withheld = <<>>]
Sent(job, lost) ==
    IF Streaming /\ ~lost
    THEN [answer EXCEPT ![job.r].shown = Shown(job.shaper)] ELSE answer

(* What ends the loop after a token was emitted.                           *)
Verdict(job) ==
    IF Len(job.generated) = job.input.max THEN "max"
    ELSE IF Len(job.session) = MaxContext THEN "context" ELSE "none"

(* The selected token: a stop ends the response; otherwise the incremental *)
(* decoder returns the text so far or withholds an incomplete suffix.      *)
EmitToken ==
    /\ owner.pc = "emit"
    /\ \E notice \in Notices(1), withhold \in BOOLEAN, lost \in WriteFails,
         fault \in Fault({"decode"}) :
         LET token == owner.selected
             text == owner.withheld \o TextOf[token]
             said == [owner EXCEPT !.generated = Append(@, token), !.selected = "none"]
             job == IF withhold THEN [said EXCEPT !.withheld = text] ELSE Pushed(said, text)
         IN  /\ Spend(fault)
             /\ (notice = 1 \/ token = "stop") => fault = "none" /\ ~withhold /\ ~lost
             /\ (withhold \/ fault # "none") => ~lost
             /\ fault # "none" => ~withhold
             /\ IF notice = 1
                THEN /\ owner' = Finishing([owner EXCEPT !.cancelled = TRUE], "cancelled")
                     /\ answer' = answer
                ELSE IF token = "stop"
                THEN /\ owner' = Finishing([owner EXCEPT !.selected = "none"], "stop")
                     /\ answer' = answer
                ELSE IF lost \/ fault # "none"
                THEN /\ owner' = Finishing([said EXCEPT !.cancelled = lost], "error")
                     /\ answer' = answer
                ELSE /\ answer' = Sent(job, withhold)
                     /\ owner' = IF Verdict(job) # "none"
                                 THEN Finishing(job, Verdict(job))
                                 ELSE [job EXCEPT !.pc = "consume"]
    /\ UNCHANGED <<work, transport, caches, capacity, health>>

(* The emitted token is consumed and the next one selected.                *)
ConsumeToken ==
    /\ owner.pc = "consume"
    /\ \E notice \in Notices(2), fault \in Fault({"engine", "boundary"}), token \in NextTokens :
         LET fails == fault # "none" \/ token = NoToken
             job == [owner EXCEPT !.pc = "emit", !.selected = token,
                        !.session = Append(@, owner.generated[Len(owner.generated)])]
         IN  /\ Spend(fault)
             /\ notice <= 2 => fault = "none"
             /\ IF notice = 1 THEN UNCHANGED <<capacity, health>> ELSE Boundary(fails)
             /\ IF notice <= 2
                THEN owner' = Finishing([owner EXCEPT !.cancelled = TRUE], "cancelled")
                ELSE owner' = IF fails THEN Finishing(owner, "error") ELSE job
    /\ UNCHANGED <<work, transport, answer, caches>>

(* The request's workspace is given back on every path; a response that    *)
(* was not cancelled then publishes its withheld text and its checkpoints. *)
FinishGeneration ==
    /\ owner.pc = "finish"
    /\ \E lost \in WriteFails, fault \in Fault({"cleanup", "decode", "offer", "save"}) :
         LET back == [owner EXCEPT !.phase = "none"]
             whole == owner.result \notin {"cancelled", "error"}
             job == Pushed(back, owner.withheld)
             tail == owner.withheld # <<>>
         IN  /\ Spend(fault)
             /\ lost => whole /\ tail /\ fault = "none"
             /\ fault \in {"decode", "offer", "save"} => whole
             /\ fault = "cleanup" => Workload.adaptive
             /\ fault = "offer" => owner.memoryOn
             /\ fault = "save" => owner.diskOn /\ SavesFinal
             /\ Adapt(FALSE)
             /\ IF fault \in {"cleanup", "decode"} \/ lost \/ ~whole
                THEN /\ owner' = Ended([back EXCEPT !.cancelled = @ \/ lost],
                                       IF owner.result = "cancelled" /\ fault = "none"
                                       THEN "cancelled" ELSE "error")
                     /\ answer' = answer
                     /\ UNCHANGED caches
                ELSE /\ owner' = Ended(IF tail THEN job ELSE back, owner.result)
                     /\ answer' = IF tail THEN Sent(job, FALSE) ELSE answer
                     /\ memory' \in IF ~owner.memoryOn THEN {memory}
                                    ELSE OfferGenerated(memory, owner.session, Prompt,
                                                        Workload.memory, fault = "offer")
                     /\ disk' = IF owner.diskOn /\ SavesFinal /\ fault # "save"
                                THEN Saved(owner.session) ELSE disk
    /\ UNCHANGED <<work, transport>>

Truncated == owner.result \in {"max", "context"}

(* json_chat and the end of stream_chat.                                   *)
Respond ==
    /\ owner.pc = "respond"
    /\ \E lost \in WriteFails :
         LET r == owner.r
             shaper == ShaperFinish(owner.shaper, Truncated)
             status == IF owner.result = "cancelled" \/ (owner.result = "error" /\ owner.cancelled)
                       THEN "cut"
                       ELSE IF owner.result = "error"
                       THEN (IF Streaming THEN "error" ELSE "500")
                       ELSE IF lost THEN "cut" ELSE "200"
         IN  answer' = [answer EXCEPT ![r].state = "closed", ![r].status = status,
                                      ![r].shown = IF status = "200" THEN Shown(shaper) ELSE @]
    /\ owner' = [Idle EXCEPT !.phase = owner.phase, !.credited = owner.credited]
    /\ UNCHANGED <<work, transport, caches, capacity, health, faults>>

Next ==
    \/ \E r \in Requests : Send(r) \/ HangUp(r)
    \/ Dispatch \/ DispatcherEnds \/ IdleObserve \/ OwnerUnwinds \/ Exit
    \/ TakeRequest \/ AdmitRequest \/ OwnerStops
    \/ FindDeeper \/ RestoreMemory \/ RestoreDisk \/ StartSession
    \/ PrefillChunk \/ SampleCurrent \/ EmitToken \/ ConsumeToken
    \/ FinishGeneration \/ Respond

Spec == Init /\ [][Next]_vars

(* Both threads keep running while they have something to do, and a        *)
(* process whose threads are gone ends.  This is weak fairness of the      *)
(* dispatcher's, the owner's and the exit steps, stated with the condition *)
(* under which each is enabled instead of with ENABLED.                    *)
Waiting == dispatcher = "up" /\ inbox # <<>>
Dispatched == Len(inbox') < Len(inbox) \/ dispatcher' = "gone"
Busy == owner.pc # "gone" /\ (owner.pc # "idle" \/ queue # <<>> \/ dispatcher = "gone")
Worked == owner' # owner \/ Len(queue') < Len(queue)
Over ==
    /\ owner.pc = "gone" /\ dispatcher = "gone"
    /\ \E r \in Known : answer[r].status = "sent" /\ answer[r].state # "closed"

FairSpec ==
    /\ Spec
    /\ []<>~Waiting \/ []<><<Dispatched>>_vars
    /\ []<>~Busy \/ []<><<Worked>>_vars
    /\ []<>~Over \/ []<><<Exit>>_vars

-----------------------------------------------------------------------------
(* What clients are promised (RequestService), for every interleaving of   *)
(* dispatcher, owner and clients, every error path and an unwinding owner: *)
(* one answer per request, one streamed answer at a time, nothing taken    *)
(* back, nothing after the end.                                            *)
Service == INSTANCE RequestService WITH
    Requests <- Requests,
    reply <- [r \in Requests |-> [state |-> answer[r].state, shown |-> answer[r].shown]]
OneAnswer == Service!Spec

(* Every request that reached the server is answered or its socket closed, *)
(* although the queue is bounded, the owner serves one request at a time   *)
(* and either thread may die.                                              *)
Answered ==
    \A r \in Requests : (answer[r].status = "sent") ~> (answer[r].state = "closed")

(* However the decoder and the transport cut the generated text, a         *)
(* complete answer is one the protocol supports and shows exactly the      *)
(* reference split of the whole text in the channels its client asked for  *)
(* ("asks" is the client's intent, stated beside its body); only a block   *)
(* that outgrew MAX_TOOL_BLOCK is passed through as content.               *)
SaidText == LET text[n \in 0..Len(owner.generated)] ==
                  IF n = 0 THEN <<>> ELSE text[n - 1] \o TextOf[owner.generated[n]]
            IN  text[Len(owner.generated)]
ShapedText ==
    (owner.pc = "respond" /\ owner.result \in {"stop", "max", "context"}) =>
        LET shaper == ShaperFinish(owner.shaper, Truncated)
            asks == Req(owner.r).asks
            wanted == Reference(SaidText, asks.thinking, asks.tools, Truncated)
        IN  asks.supported /\ (shaper.tools.overflowed \/ Shown(shaper) = wanted)

(* A tool call is executed by the client.  One is reported only from a     *)
(* block the model ended itself, or from one that was left open when the   *)
(* response stopped of its own accord; and only in a <tool_call> left open *)
(* may a closer be missing: in every other block that became a call, the   *)
(* model closed the function and each parameter, by name or not, whichever *)
(* stages of repair it went through.                                       *)
CallsMeant ==
    owner.pc = "respond" /\ owner.result \in {"stop", "max", "context"} =>
        \A block \in Range(Shown(ShaperFinish(owner.shaper, Truncated)).calls) :
            LET naked == ~IsPrefix(TOOL_OPEN, block)
                ended == IsSuffix(IF naked THEN FUNCTION_CLOSE ELSE TOOL_CLOSE, block)
                closed(opens, closes) ==
                    \A i \in DOMAIN block : block[i] \in opens =>
                        \E j \in (i + 1)..Len(block) : block[j] \in closes
            IN  /\ ended \/ ~Truncated
                /\ ended \/ naked => /\ closed({"function"}, {"/function", "/function="})
                                     /\ closed(ParameterOpens, {"/param", "/param="})

(* The next token is always chosen from a session that has consumed        *)
(* exactly the prompt and the tokens emitted so far, whichever tier the    *)
(* session was restored from and however prefill was cut into chunks; and  *)
(* it is the token that the sampling policy draws from that row with that  *)
(* history, for every row and every draw of the generator.                 *)
SampledAtFrontier ==
    owner.pc = "emit" =>
        /\ owner.session = History
        /\ \A row \in Req(owner.r).rows, unit \in Units :
              SampleCommitted(row, History, Sampler, unit)
                  = ReferenceSample(row, History, Sampler, unit)

(* When nothing failed, no tier holds a longer prefix of the prompt than   *)
(* the one the session was restored from.                                  *)
LongestRestored ==
    (owner.pc \in {"prefill", "sample"} /\ Len(owner.session) = owner.initial
        /\ owner.clean /\ ~owner.cancelled) =>
        /\ \A i \in DOMAIN memory : ExactPrefixMatch(memory[i].tokens, Prompt) =>
               Len(memory[i].tokens) <= owner.initial
        /\ disk.readable => \A tokens \in Matches(disk.saved) : Len(tokens) <= owner.initial

(* The memory tier stays within its budget and its entry count, counts     *)
(* what allocation really took, and holds each history once.               *)
CacheBounded ==
    /\ RetainedBytes(memory) <= Workload.memory /\ Len(memory) <= MaxEntries
    /\ \A i, j \in DOMAIN memory : memory[i].tokens = memory[j].tokens => i = j

(* A completed prompt leaves memory only while another completed prompt is *)
(* offered, whether that one is then retained, declined or fails to copy:  *)
(* anchors and generated frontiers, of this or another conversation, never *)
(* displace it.  And it is given up last: it is a prefix of the prompt     *)
(* that replaces it, or no anchor and no generated frontier is left.       *)
PromptsKept ==
    [][\A e \in Range(memory) : e.kind = "prompt" /\ e \notin Range(memory') =>
         /\ owner.pc \in {"start", "prefill"} /\ owner'.session = Prompt
         /\ \/ IsPrefix(e.tokens, Prompt)
            \/ \A left \in Range(memory') : left.kind = "prompt"]_memory

(* Between requests the workspace phase is closed, the controller has no   *)
(* open request and health shows the capacity of the engine, whichever     *)
(* path ended the last request.                                            *)
IdleClean ==
    owner.pc = "idle" => /\ owner.phase = "none" /\ ~owner.credited
                         /\ health = capacity
=============================================================================
