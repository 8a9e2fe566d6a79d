# A TLA+ verification of MoEspresso

MoEspresso serves one large mixture-of-experts language model on an Apple
Silicon machine whose memory holds only part of the experts.  One inference
owner runs everything that touches the model; around it are a loopback HTTP
dispatcher, reader threads that fetch expert rows from the SSD, the GPU, and
other processes that share the disk cache.  This directory holds TLA+ models of
the parts of the system whose correctness depends on order, failure, limits or
time, the TLC runs that check them on small instances, and TLAPS proofs for the
parts that are proved for every instance.

## Inventory

| Component | Source | State | Operations | What is hard | What makes it correct |
|---|---|---|---|---|---|
| Adaptive capacity | `adaptive_memory.rs` | policy record of 28 fields: capacity, earned target, trial, credits, ages, latches, phase | sample and act at an owner boundary, begin and end a request, begin, synchronise and finish a workspace phase | the fields are written by six paths that may follow each other in any order; time passes between any two | trial, capacity, credit and phase stay consistent; storage is earned by work; the pools come back |
| Workspace phases | `generation/request_resources.rs` | `active` | enter (shrink, regrow, replace scratch), finish (replace scratch, observe, restore) | every step can fail; cleanup can fail too | a phase always has an owner that closes it; growth is frozen meanwhile |
| Expert capacity | `engine/expert_capacity.rs`, `experts/chunks.rs` | chunks of every layer's pool | quote, prepare, commit, release | many layers; allocations fail; old and new tables coexist | all layers or none, within the budget |
| Memory admission | `memory.rs`, `host_memory.rs`, `prefill_capacity.rs`, `main.rs` | the plan and the control budget | estimate, plan, widen, quote | rounding, overlaps and phase peaks | nothing allocated later exceeds the plan; what the plan promises is not refused |
| Serve command | `main.rs`, `disk_config.rs`, `server.rs` | options | parse, resolve, check | repeated, conflicting and missing options | every accepted command line leads to a server within its limits, or to a refusal before serving |
| Disk store | `engine/snapshot/disk/store.rs` | index, payload leaves, dead slots, two disable flags | open, reconcile, save, load, remove invalid, touch | a kill or a power failure between any two renames, unlinks and syncs; each may fail | a saved checkpoint survives; no entry names another's payload; the directory opens again; limits hold |
| Managed retention | `store/managed.rs` | locks on roots below one base | reserve, measure, reclaim, clear | several processes that may die | the sum of the roots stays within the budget; nobody clears a live root |
| Checkpoint file | `engine/snapshot/disk.rs`, `disk/stream.rs` | header, sections, digest | write a session, read it back | ring rows at any frontier; damaged, cut and foreign files | what is restored is what was committed, or the file is refused |
| Expert pool | `experts.rs` | slot tables, recency, frequency | load a group, replace, grow, release, gated publication | the GPU reads slots while the host replaces others | no enqueued reader sees a replaced slot |
| Read-ahead | `package/prefill_reader.rs` | workers, job and reply channels, pending queue | start, complete, drain | worker death, failed reads, early drop | rows arrive in order, each once |
| Decode handoff | `decode_handoff.rs`, `mlp.rs` | demand and publication flags | enqueue, serve a demand, abort | device waits for the host | nobody waits for ever; an aborted publication is seen as such |
| Metal stream | `metal.rs` | open batch, in-flight buffers, reservations, publication leases | flush, wait, abort, drain | errors with work in flight; host access to bound buffers | buffers outlive their commands; the host never touches a reserved one |
| Engine and sessions | `engine.rs`, `engine/prefill.rs`, `engine/snapshot.rs` | layer states, frontiers, logits, workspace buffers | start, prefill, step, sample, commit, snapshot, restore | state updated in place by passes that may stop; scratch shared by layers | a valid session is exactly what its tokens say |
| Layers | `gdn*.rs`, `kvarn*.rs`, `qsa_*.rs`, `ple*.rs`, `hc*.rs`, `dense_batch.rs`, `mlp*.rs`, `decoder.rs` | recurrent rows, KVarN ring and records, index groups, PLE history | encode a chunk or a step | aliasing and order of dispatches | each kernel reads what its parameter stands for |
| Generation | `generation.rs` | session, frontier, caches | restore, consume, sample, emit, finish | cancellation and failure at each operation | each token is chosen at the frontier of the text before it |
| Sampling | `sampling.rs`, `engine/device_greedy.rs` | workspace, generator | penalise, filter, draw; reduce on the device | two implementations and the device must agree on ties | the token served is the policy's |
| Prefix cache | `engine/prefix_cache.rs` | snapshots in recency order | match, offer | budget and eviction order | within budget, prompts kept, longest prefix found |
| Server | `server.rs`, `server/protocol.rs` | bounded queue, health snapshot | dispatch, admit, generate, answer | dispatcher and owner are threads, clients hang up | every request is answered once |
| Response shaping | `server/stream.rs` | parser state | push fragment, finish, repair | markers split over fragments | the same result for every split; no call the model did not make |
| Kernels and formats | `kernels/`, `iqk.rs`, `kquant.rs`, `routing.rs` | tensors | GPU arithmetic | floating point | not a question for a model checker |

Components call each other synchronously on the owner thread, except: the
dispatcher hands requests over a `sync_channel(8)`, reader threads answer over
channels, the GPU follows its stream, and processes meet in the file system.

## Modules

| Module | Models |
|---|---|
| `AdaptivePolicy` | `Policy` of `adaptive_memory.rs`: one operator per method, from a policy record to a policy record |
| `AdaptiveMemory` | `Controller`, `PhasedPrefill` and the points of `server.rs` and `generation.rs` that call them |
| `AdaptiveCredit` | `AdaptiveMemory` with history variables for the time each extent has really served |
| `Admission` | estimates, capacity planning and control budgets, as operators |
| `ServeCommand` | the command line of `serve` and the options resolved from it; extends `Admission` |
| `ServingMemory` | what a server allocates from its first tensor to the growth of every layer's pool; extends `ServeCommand` |
| `DiskStore` | `DiskCheckpointStore` on a directory that can lose power; extends `Retain`, like `ManagedRetention` |
| `Retain` | the loops over index entries of the checkpoint stores: `retain` and `try_fold` as recursive functions, repeated `remove(0)` |
| `ManagedRetention` | `ManagedCache::reserve` and its callers in several processes |
| `RowCursor` | what the expert loader is promised: the rows of one group, in order, each complete |
| `ReadAhead` | the prefill reader, owner and reader threads; implements `RowCursor` |
| `ExpertPool` | `BoundedExperts` of `experts.rs` as operators on a pool record |
| `DecodeEvents` | decode tokens: `step_inner`, the decode MLP, `DecodeHandoff`, one `ExpertPool` per layer, the command stream and the GPU |
| `PrefillOverlap` | batched prefill of one layer: demand groups, `PrefillLoadScope`, one `ExpertPool`, the command stream and the GPU |
| `LayerGraph` | what each kind of pass dispatches for each kind of layer, and the buffers bound |
| `CheckpointFile` | the layout, writing and reading of one checkpoint; extends `LayerGraph` |
| `Session` | an engine consuming tokens: encoding, submission, waits, commit, invalidation, snapshot and restore; extends `CheckpointFile` |
| `PrefixCache` | `PromptPrefixCache`, as operators on a sequence of entries |
| `ResponseShaper` | `ResponseShaper` of `server/stream.rs` and a reference split of the whole text |
| `ChatProtocol` | the checks and the reading of a request body |
| `TokenSampler` | both samplers and the device's greedy reduction |
| `RequestService` | what clients are promised |
| `Serving` | dispatcher, queue, owner, generation loop, caches and answers; extends the four before `RequestService`, implements `RequestService` |
| `AdaptiveMemoryProofs`, `DiskStoreProofs`, `ManagedRetentionProofs`, `ReadAheadProofs`, `DecodeEventsProofs`, `PrefillOverlapProofs` | theorems |
| `ExpertPoolProofs`, `RetainProofs` | lemmas about the operators that those modules share |
| `MC*` | values for the constants |

### AdaptivePolicy, AdaptiveMemory

`policy` is the record of `Policy`'s fields.  Moments in time are kept as their
age: `None` (-1), or a number of ticks up to `AgeCap`, above which no condition
of the code tells ages apart; `Tick` makes all of them older.  The VM counters
of an observation are the verdict they lead to (`quiet`, `busy`, `churn`,
`reset`, `missing`).  Credits are numbers of ticks, saturating at
`ActiveValidation` as in the code.  `pressure_release_epoch` is compared only
with its value at the start of a phase, so the phase record keeps whether a
release has happened since (`released`).

`expert_capacity` is the engine's.  `stage` follows one request through
`handle_request`, `handle_chat`, `generate_request`,
`generate_with_cache_owned` and its loop; `doomed` is the request's result;
`scratch` and `active` belong to the workspace phase; `finishing` splits
`PhasedPrefill::finish` into the three steps between which time passes.  Every
observation point is one action that samples when a sample is due, decides and
applies the decision (`CheckBoundary`).  The boolean `ok` of an action says
whether the engine accepts the capacity change.

### Admission, ServeCommand, ServingMemory

Byte counts are small abstract units: each inventory line of `memory.rs` is a
field of `Cost`, and every sum, maximum, overlap, rounding and refusal is kept.
`ServingMemory` parses one of 94 command lines, resolves the options, plans,
loads, constructs the server and then serves: sessions whose cache backings
double, growth and release of every layer's chunks step by step, the exchange
of the prefill workspace for a long prompt, failing allocations and the
rollback they cause.  `Live` adds up what is allocated at each step
independently of the estimate; `Envelope` is what the plan admitted.  Who
decides to grow or release is `AdaptiveMemory`'s subject; here any of it may
happen when the budget arithmetic lets it.

### DiskStore

`disk` is the visible directory, `after` the set of directories a power failure
may leave.  Every rename or unlink adds the images in which it survived; a
directory sync leaves the visible image alone.  Where `setting.ordered` is
FALSE each unsynced change survives or not by itself; otherwise only together
with all earlier ones.  `job` is the operation in progress: `why` the caller,
`at` the next system call; so a failure, a kill (`Exit`) or a `PowerFailure`
can come between any two calls.  `committed` and `uncertain` are history
variables.  A conversation is its token sequence, a file's size its length, and
recency is the order of the index.  Two things are sets where the code has a
vector: the slots an operation is about to unlink (`job.drop`, any order, which
includes the code's), and the matches a load has not tried yet (`job.todo`; the
longest is tried next, and no two matches of one request have the same length).

### ManagedRetention

`root` holds what is below each root: who has it locked, what its index on disk
names, its leaves and an abandoned temporary.  `proc` is a process and its
place in `open`, `save` and `reserve`; `order` is the age of the roots;
`retention` the holder of `retention.lock`.  One step is one lock attempt, one
measurement, one publication or one unlink, and a process may die between any
two, which releases its locks and leaves the rest.  Locks are only tried, so
there is nothing to wait for.  `DiskStore` takes the allowance it gets from
`reserve` as any number within the limit.

A server of the legacy runtime knows neither the retention lock nor the limit.
Whenever it holds its root it may write, replace or drop a payload there
(`RuntimeWrites`), also while a managed process measures.  All bytes together
may then exceed the limit, as `docs/disk_checkpoints.md:118` says; what
`BudgetHeld` claims is that nothing but such growth does: every native root
counts with what it holds, a legacy root for no more than it held when it was
measured, and for nothing once it was cleared.

### ReadAhead, RowCursor

A row is the bytes a buffer holds, `<<layer, expert>>`; buffers travel with the
message that carries them, so `spare` is a number and a lost buffer is a lower
sum.  `pc` is the place of the owner in `PrefillRows::next`, `drain`, `disable`
and the loader's loop; `jobs` and `replies` are the channels of each thread.  A
reply names its expert and not its layer, as in the code, so that the model can
go wrong where the code could.  A thread may die at any time (`WorkerDies`), and
a file read may fail.  `RowCursor` keeps only the group's status, layer, miss
list and the rows handed over; `RowsInOrder` says that `ReadAhead` implements it
on both of its paths.

### ExpertPool, DecodeEvents, PrefillOverlap

A pool is the record of `capacity`, the maps `slot_of` and `expert_at`, and
`bytes`, what each slot's memory really holds (`Torn` while it is written and
after a write that failed).  A replacement is two steps, `Unpublish` and
`Publish`, with the device running in between.  Frequency and recency order the
victims; here any slot that may be a victim is one.  The rows of a growing pool
start torn.  Seeding at start-up is left out: a pool starts empty.

In `DecodeEvents` a command is a layer and a kind: `event` (router, export,
`ready`, wait for `publication`, gated kernels), `route` and `rows` (the two
halves of a layer in a token that must grow a cache backing).  `queue` holds
what is submitted and not retired, `ran` how much of it the device has
executed, `phase` where it is in the next.  `gates` are the points registered
with the stream.  The ten second deadline is an action that may happen at any
time before the routes are ready.  An error anywhere leads to `Abort`, which is
what dropping the stream does: release every registered point, cancel what is
not submitted, wait for the rest.

In `PrefillOverlap` a command is the set of captured maps its kernels read
through, and a completion marker is a position in `queue`.  The commands of
other layers pass through the same stream and read other pools; they are left
out.  A refusal of one of the loader's checks has no action of its own: a batch
that met one would be stuck, which `BatchEnds` forbids.

### LayerGraph, CheckpointFile, Session

Device memory maps buffers to contents.  A content is what a value stands for:
a tensor of a layer after a sequence of tokens, or garbage.  A dispatch binds
operands, pairs of the buffer the code binds and the content the kernel's
parameter stands for; if every input holds what it should, the outputs become
what they should, otherwise garbage, and garbage spreads.  Arithmetic is left
out; aliasing, exchange of buffers, reuse of scratch and order are kept.

`Session` encodes a pass layer by layer into `open`, submits it to `submitted`,
whose head the device runs, and waits where the host must read a result.
`session` is the host's record of the session, `work` the pass under way (its
kind: a wide chunk through the bounded, addressed or resident expert path, a
chunk split over demand groups, a step in either schedule), `saved` a snapshot
in memory or a file, `spare` which of two exchanged buffers is the workspace's.
An error is `Abort`, at any point of a pass; the session is then invalid for
ever.  `refused` records a host access to a buffer that an unretired command
binds.  The checks that the code makes on the device (status words, finite
values) are among the reasons to abort.

A file is a header, sections in a fixed order and a digest; sizes are in rows.
`DiskFails` gives back a file with a changed row, cut, lengthened, or of
another package.

Left out: the service of decode demands (in `DecodeEvents`), several demand
groups per chunk (in `PrefillOverlap`), producer spans, which are metadata only.
Index and KVarN frontiers of a layer are published together, as in the code.

### Serving and what it extends

`inbox` is what tiny_http has received, `queue` the bounded channel,
`dispatcher` and `owner` the two threads, `away` the clients that hung up,
`answer` what each client has got, `memory` and `disk` the two cache tiers,
`capacity` and `health` the engine's and the published expert capacity,
`faults` how many more errors may be injected.  `owner` is a record with its
place in `handle_chat` and `generate_inner_with_phases`, the session (the tokens
it consumed), the text shaper and the outcome.  Actions are the handler's steps
between two points at which another thread, a client or the controller may act.

`ChatProtocol` models a JSON body as a tagged value and each check of
`parse_chat`; which of several refusals is worded first is left out.
`ResponseShaper` models text as symbols, of which a marker has two or three.
The repair of a tool block has the stages of the code, each followed by a whole
parse: fence lines, closers by name, the wrapping of a naked function, and, at
the end of a response that was not cut off, missing closers of parameters,
functions and the block, each kind within `MAX_TOOL_BLOCK`.  Left out are what a
parameter's schema says of its value (every value is accepted, as where no type
but string is declared), so also the second, lenient parse, which differs only
there; names, which are always well formed; language tags and trailing blanks of
a fence; blanks other than newlines.
`PrefixCache` decides about an offer as the code does, with the copy as one step
that is tried when the minimum fits and may be too large after all or fail; what
was evicted for it by then stays evicted.
`TokenSampler` models a BF16 word as a sign and an index on a grid of
magnitudes, so that rounding merges values and ties happen; options are in
tenths.  Logsumexp, exp, ln and the weights of the draw are coarse monotone
tables, used by both samplers as in the code, where both call the same
reductions; the reciprocal of the temperature is not rounded by itself.  NaN
cannot occur after the code's finiteness checks.

External, and modelled by how the code uses them: tiny_http's sockets and its
wake-up message, the chat template with the tokenizer (`Render`, `TextOf`), the
logits (any row of a set), and the file system's answers.

## Runs

| Run | Instance | Shows |
|---|---|---|
| `adaptive_unphased` | capacities 2..5 in steps of 2 from 3, floor 2, credit for 2 ticks, cooldown of 2, five observations, no failures, fairness | `RollbackKeepsEarned`: a rollback, and any other release at a pending trial but one under pressure, leaves every whole chunk of earned storage. `AdversityKept`: adverse time at a trial survives its extension. `RecoveryResumes`: an idle quiet server returns to its earned capacity |
| `adaptive_phased` | capacities 2..3, wide plan 2, four observations (quiet, warning, critical, blind), failures everywhere | `CapacityAgreed`, `StopAtFloor`, `PhaseOwned`, `FrozenInPhase` across phases; `CreditIsReal`: the policy's credit never exceeds what was served |
| `recovery_phased` | violation | finding 1 |
| `disk` | two entries and a spare; an explicit store (one growing conversation, ordered metadata, rotten payloads), a managed one (three histories, two limits, any allowance, unordered metadata, lost payloads) and a managed one on ordered metadata (two short histories, rotten payloads) | `Durable`, `LimitsHeld`, `EntriesOwnLeaves`, `Reopenable`, `ExplicitFrozen` |
| `disk_uncertain` | violation | finding 2 |
| `read_ahead` | two threads, three row buffers, groups of one, two and six rows, two layers with the same expert numbers, failing reads, dying threads | `WindowAgrees`: owner and threads agree on the window and no buffer is lost. `RowsInOrder`: it implements `RowCursor`. `OwnerReturns`: every group and the shutdown end |
| `decode_events` | three layers in windows of two, two experts and up to two slots per layer, two tokens, failing host calls, deadlines and commands, resizes between tokens | `KernelReadsRows`, `NeverRefused`, `CommitComplete`, `TokenEnds` |
| `prefill_overlap` | five experts, pools of two and four slots, batches of two to five experts, failures, settling and resizes | `ReadersIntact`, `BatchComplete`, `BatchEnds` |
| `serving_memory` | two QSA layers, eight experts in chunks of two, floor 4, widths 2, 4 and 8, context 9, 94 command lines | `WithinBudget`: nothing allocated exceeds the plan. `LayersAgree`: a capacity change reaches every layer or none. `PromisesKept`: what the control budget allows the engine does not refuse |
| `session` | three layers, one of them QSA, seven tokens, chunks of one to three rows, two sessions, one snapshot or file | `CommittedState`: a valid session is exactly what its tokens say, after every path. `NeverReserved`: the host never touches a bound buffer and a file has the promised length |
| `serving` | up to three requests, queue of one, two cache entries, context 7, and one workload per request body and sampling setting | `OneAnswer` (implements `RequestService`), `Answered`, `ShapedText`, `CallsMeant`, `SampledAtFrontier`, `LongestRestored`, `CacheBounded`, `PromptsKept`, `IdleClean` |
| `managed` | two processes, a legacy root whose server writes, two entries per root, sizes 1 and 2, limits 2 and 4, four saves, opens and legacy writes | `BudgetHeld`, `OwnersKeep`, `NamedPresent` |

Bounds.  In the adaptive runs the code's constants enter only through
comparisons, so one tick for an interval and one or two for a validation keep
each order of events; capacity ranges hold at least two growth steps where
trials extend each other, one of them unaligned.  The start of
`adaptive_unphased` at 3 gives it an unaligned earned target and trial base, of
which a rollback keeps 2.  `AgeCap` is above every
interval.  In `disk` two entries with one spare slot make every save of a third
key evict; `MaxImages` = 4 stops new renames while more than four directories
may survive, which is reached only after two failed syncs in a row.

In `read_ahead` a group of six rows is twice the window, so the window slides
and the round robin wraps.  In `decode_events` three layers in windows of two
give a full window, a partial one and a serviced layer behind which others are
queued; two tokens let one meet everything another left behind.  In
`prefill_overlap` five experts through four slots make groups of two, two and
one, so the loader has to retire a group; through two slots, five groups of one.

In `serving_memory` context 9 with tiles of 2 doubles each backing more than
once, and four chunks give several growths and releases.  In `session` a sink of
one row, an exact suffix of one and tiles of two make the ring wrap and seal
within seven tokens; index groups of two rows complete inside, at the end of and
between chunks; a block budget of one makes selection sparse from the third
group on.  Bounds named in the guards: one snapshot at a time and only while a
further session could use it; files are damaged once, after the ring has
wrapped, and while no session is live; a sample of a committed session only
after a restore.  `RestartCost` is what a second session takes from the budget
of tokens.

In `serving` the workloads are: streamed tool calls (whole markers), split
markers, reasoning with tools (each with every sequence of four or five tokens
out of four or five); four more for the repair of tool blocks, with every
sequence of up to four tokens, cut off by `max_tokens` or ended by the model:
closers by name and left out, fences on lines of their own and within, several
parameters on one line and on many, blocks beyond `MaxToolBlock` = 15 symbols
before and after closers are added; a conversation and a second one over both
tiers in Full and in anchor mode; two conversations in a memory of 6, where the
second prompt's minimum fits an empty cache and its copy does not; a prompt that
comes back and is a complete hit, with
hang-ups and a failing engine; three concurrent clients with hang-ups and failing threads;
adaptive serving with a health request; one request per accepted and per
refused kind of body; and ten sampling settings over twelve rows of four logits
with every pattern of ties.  Without adaptive memory the expert capacity cannot
change.  In `managed` two processes and four saves, opens and legacy writes
(`MaxSaves`) let each be owner, victim and cleaner of the other, and the legacy
root grow after it was measured; processes are symmetric.

Deadlock is checked except in `session`, `serving` and `managed`, which stop
when their budgets of tokens, requests and saves are used up.

Fairness.  In `AdaptiveMemory` the clock advances, and the accept loop polls: it
waits in `recv_timeout(1 s)` and observes on every timeout; no request needs to
arrive or to end.  In `ReadAhead` the owner and each reader thread are
scheduled; no thread needs to survive.  In `DecodeEvents` and `PrefillOverlap`
the owner runs, its deadline passes, and the device executes a command that no
event holds back; a command that waits for a publication is not assumed to make
progress.  In `Serving` the dispatcher, the owner and the end of the process
take their steps while they have one (`Dispatched`, `Worked`, `Over`); clients,
the controller and faults are free.

`EntriesOwnLeaves` and `Reopenable` are claimed for ordered directory metadata
only.  Both need an index rename whose sync never succeeded: a process that
dies, or a sync that fails, leaves it visible but not durable, and the next open
takes it as it is without another sync.  On a file system that reorders metadata
a later power failure can then keep an unlink or a payload rename and lose that
index: an old entry whose leaf is gone, or a payload without any index.  A
missing leaf is detected at the next open or load, so `Durable` holds without
the assumption.

A managed store needs a further arm in `EntriesOwnLeaves`.  A save that finds its
allowance too small assigns `self.index` from `reconcile_and_prune(...)?`
(`store.rs:782`); when that fails after its index is published, the index in
memory still has the entries just let go, their leaves may be gone, and a later
save may publish them once more.  Such an entry names no leaf at all, never
another conversation's; a load finds it out and removes it.  The third setting
of `disk` is there to reach this.

## Findings

1. `recovery_phased`.  A phase whose finish meets latched critical pressure
   stays open; an idle server does not grow back until another request comes,
   against `docs/adaptive_memory.md:32` and `:77`.
2. `disk_uncertain`.  A managed save that reconciles because of a small
   allowance returns a failed directory sync as an ordinary error, and later
   mutations go on, against `docs/disk_checkpoints.md:84`.  `ExplicitFrozen`
   says the same of explicit stores, where it holds.

Observations, without a run of their own:

- With workspace phases a pending trial that yields to the wide workspace loses
  its adverse time at the next growth (`adaptive_memory.rs:616`), against
  `docs/adaptive_memory.md:50`; `AdversityKept` is therefore claimed without
  phases.
- The comment at `server.rs:1017` says that idle observations "do not allocate
  unused recovery slots"; the code grows while idle, which
  `docs/adaptive_memory.md` describes as intended.
- `with_operating_budget` takes the larger of its budget and the initial
  capacity, so when the startup plan fills the operating budget exactly a
  recovery back to the initial capacity can be refused; `PromisesKept` claims
  non-refusal above the initial capacity.
- A managed store exceeds its limit by the incoming file until the victims are
  unlinked; a process that dies in between leaves what the next `reserve` counts.
- A prompt whose minimum fits an empty prompt cache, but whose copy does not
  once the allocator has rounded it, evicts every older prompt and is then
  declined (`prefix_cache.rs:166-211`, `snapshot.rs:332-342`); a copy that fails
  does not bring back what was evicted for it either.  `PromptsKept` therefore
  says what prompts are given up for and after what, and not that a new one
  takes their place.
- A `<tool_call>` left open by a response that ended of itself is closed for it,
  an unfinished parameter value included (`stream.rs:777`); `CallsMeant` allows
  this there and nowhere else.  A naked function must have its closer, by name
  or not (`stream.rs:755`).
- A tool block beyond `MAX_TOOL_BLOCK` is passed through as content, and where
  it is cut then depends on the fragments; `ShapedText` excludes it.
- An empty list of tools still turns tool shaping on.
- A `top_p` so small that BF16 rounds `1 - top_p` to 1 removes every token and
  fails the request; both samplers agree on it.
- The receiver outlives the scope of the dispatcher thread, so its
  `Disconnected` branch is not reached in production; `ContextLimit` cannot be
  reached from the server, which refuses such requests before.
- A disk root that is required and cannot be opened is refused only after the
  engine has been loaded.

## Proofs

`AdaptiveMemoryProofs` proves, for all values of the constants that satisfy the
named assumptions, `Spec => []TypeOK`, `[]TrialWellFormed`, `[]CapacityAgreed`,
`[]StopAtFloor`, `[]PhaseOwned` and `FrozenInPhase`, and that a server without
phases takes the steps of `OrdinaryNext` only (`UnphasedIsOrdinary`), the
next-state relation of the run `adaptive_unphased`.

The inductive invariant is `IndInv`.  Its policy part (`Paired`, `Sound`) adds
to the type that base and extent of a trial exist together, are ordered and lie
at or below the policy's capacity, and that a latch means the floor; its owner
part (`OwnerSound`) adds to `PhaseOwned` that a finish is under way only for an
open phase, and that its later steps have ordinary scratch again.
Neither follows from the properties alone: that the trial's extent is still
held after a planned release needs the policy's capacity to be the engine's,
and that a closed phase leaves ordinary scratch behind needs to know how far its
finish has come.  Each operator of `AdaptivePolicy` has one
lemma about the fields it may change; each action has one step in `StepSound`.

`PrefillOverlapProofs` proves, for every set of experts, every set of capacities
of at least `TopK` and every batch, `Spec => []TypeOK`, `[]PoolIsSound`,
`[]ReadersIntact` and `[]BatchComplete`.  None of these is inductive: whether an
eviction spares the readers depends on what the scope remembers of them.  The
inductive invariant therefore adds three facts.  `Guarded`: from the entry of
the scope to its last group nothing is encoded and unsubmitted, and every
unretired command reads through the map of a group that the scope still holds
and whose marker is not before that command (`Covers`), and the pool still
publishes that map.  `Located`: what the owner has done when it is where it is,
for instance that at most one older group is held while rows are loaded, and
that the markers are ordered when one of two is retired.  `Accounted`: what was
read and what is planned make up the demand.  An eviction takes an empty slot or
that of an expert outside `Protected`, hence outside every map of a group, so
`Covers` survives (`CoverKept`) and with it every reader (`CoveredWhole`).
Retiring the older group removes the commands up to its marker, and by the order
of the markers the ones behind it are covered by the newer group.  Outside the
scope the pool changes only in `Resize`, which has no reader at all.
`BatchComplete` rests on `PlannedCovers`: the rounded-up number of groups covers
all ranks, for every number of experts and every group size.
`ExpertPoolProofs` has one lemma per operation of the pool.

`AdaptiveMemoryProofs` also proves two properties of a server without phases
(`ASSUME ~Phased`, the hypothesis under which the run checks them).
`EarnedKept`: a release at a pending trial, unless it is one under pressure,
leaves every whole chunk of earned storage.  `AdversityStays`: adverse time at a
trial survives its extension.  Both need more than `IndInv`: `Ordinary` adds
that no phase is open, that the extent of a pending trial is the capacity held,
and that the base of a trial is not below the earned target.  A rollback returns
to the base, aligned down (`adaptive_memory.rs:597`), so no less is kept than
the earned target aligned down (`KeepPrefixMonotone`).  The base stays above
because growth below the earned target goes no further than that and opens no
trial, and earning an extent moves the base there or ends the trial.
With phases the second fact fails, which is the first observation above.

`CreditsReal` proves `CreditSpec => []CreditIsReal` with and without phases.
`Backed` relates the policy's record to the history: the credit of this request
and of earlier ones is at most what was measured at the extent the record speaks
of (`Spoken`: the ordinary capacity during a phase, the capacity otherwise); an
earned target was served for the whole validation; an extent validated in this
request was so in this request and earlier ones together.  The fact that makes
it inductive is about an open interval: while `last_sample_active` holds, the
mark of the measurement, the policy's capacity and the extent spoken of are the
same number, so the next sample charges both sides at one extent.  Every
operation that changes the capacity or the phase closes the interval.

`ManagedRetentionProofs` proves `Spec => []OwnersKeep`, `[]NamedPresent` and
`[]BudgetHeld` for any number of processes, roots, entries, sizes and limits,
from two assumptions: the constants are what their names say
(`RetentionAssumption`), and the directories found at the start are ones the
program writes (`FoundAssumption`): unlocked, with at most `MaxEntries` named
payloads, all present, and companions in legacy roots only.  `Safe` has one part
per question asked of a process: what it locks (`Owns`), where it can go next
(`Course`), which entries its save keeps (`Keeps`), which leaves its root holds
beside the indexed ones (`Clean`).  `Budget` adds that while a process has
`retention.lock`, what it measured in all roots but the unmeasured ones and its
own (`Uncounted`) is at most what it has counted in `other`, and no measured
native root has outgrown its measure (`Observed`).  This is needed because the
measurement walks the roots one by one while other processes go on: a root whose
lock was taken cannot change any more, and a native one that could not be locked
may only shrink, since growing needs `retention.lock`.  A legacy root that could
not be locked may grow, which touches no measure; one that was locked cannot.  What a step leaves to the other processes is stated once
(`Aside`), so each action is examined for its own process only.

`DiskStoreProofs` proves, for every number of entries, all limits and settings,
every set of conversations and any number of surviving directories, `Spec => []TypeOK`,
`[]Durable`, `[]LimitsHeld`, `[]EntriesOwnLeaves`, `[]Reopenable` and
`ExplicitFrozen`, from `StoreAssumption` (the constants are what their names
say).  What is hard is that the properties speak of every directory a crash may
leave, while the operation at work knows the visible one only, and between two
syncs these differ in both the index and the leaves.  `IndInv` has one part per
question:

- `Course`: where each operation can be, and where it goes after its next
  publication or unlinks.  Without it nothing bounds what a step can follow.
- `Frozen`: an explicit store with an uncertain rename is open and has
  `writes_disabled`, and no writing operation runs with that flag.
  `ExplicitFrozen` follows: in such a state only a load can be under way.
- `Indexes`: every surviving index is valid, and how the indexes on disk, in
  memory and in the operation contain each other.  While the store is open and no
  rename waits for its sync, what is on disk is among what is in memory, but not
  the converse, which is the managed case above.
- `Drops`: what is about to be unlinked is named neither by the index in memory
  nor by the one about to be published.
- `Committed`: each committed key has an entry that is whole in all surviving
  directories (`Secured`), and is in memory, in what a reconciliation works on
  and in whatever is published next.  `Durable` alone says nothing of the last
  three, from which the next surviving index is made.
- `Limited`: what is in memory, and what a reconciliation has pruned or a save is
  about to publish, is within the limits as well.
- `Owned`: for ordered metadata, entries in memory and the new entry of a save
  own their leaves in the visible directory, and a directory without index has
  no leaf.

A save takes a slot only when no index in memory names it, so by `Indexes` the
visible index does not either, and the directory that the rename adds on ordered
metadata is whole; a secured entry is named in memory, so its slot is never
taken, in whatever order changes survive.  What a rename adds to the surviving
directories is stated once for both kinds of metadata.  That a save always finds victims
enough (`Spared`), a reconciliation prunes far enough (`Pruned`) and a spare slot
exists are lemmas about the operators.  TLC checked `IndInv` on the settings of
the run `disk` before it was proved.

`RetainProofs` has the lemmas about `Without`, `SumTo` and `From`, and about what
the members of a sequence weigh together (`Weigh`).  The first two are recursive
functions; the step from one natural to all of them is `Upwards`, whose
hypothesis is a set where the library's induction takes a predicate, and which
follows from the well-foundedness of `<`.

`ReadAheadProofs` proves for any number of threads and buffers and all miss
lists `Spec => []TypeOK`, `[]WindowAgrees`, and `RowsInOrder`: that `ReadAhead`
implements `RowCursor`, each step a step of it or a stutter.  A reply names an
expert and not a layer, so it must be shown that no reply of an earlier group is
ever taken for one of this group.  The invariant counts: the k-th entry of what
a thread has answered and still has to do belongs to the k-th row of the window
that was asked of it (`Asked`, `Turn`), and holds the row of this layer
(`Matches`).  Taking the head of the window shifts one thread's count by one and
no other's; a dead thread has answered a prefix, so the owner meets the closed
channel exactly where the rows stop.

`DecodeEventsProofs` proves for any number of layers and tokens, every window,
set of experts and pool size `Spec => []TypeOK`, `[]KernelReadsRows`,
`[]CommitComplete` and `[]NeverRefused`.  `EventQueue` is the heart: the i-th
command is layer i's, its routes are not exported before it runs, and once its
flag is set, its selectors are what the pool publishes for the routes in its
mailbox (`RowsHeld`).  Loading for a layer touches that layer's pool only, and a
layer is loaded for before its flag is set, so no kernel behind it loses a row.
`Events` says which demands are published, settled or not yet made by the place
of the owner in the window, `Routing` the same for a token that retires each
router; `Leaving` that an abort settles every demand, which is what lets the
next token start.  The proofs use the lemmas of `ExpertPoolProofs`.

Only model-checked:

- Liveness (`RecoveryResumes`, `OwnerReturns`, `TokenEnds`, `BatchEnds`,
  `Answered`): fairness is out of the prover's reach.
- `ShapedText`, `CallsMeant` and `SampledAtFrontier` say what recursive
  definitions compute.
- The other properties of `Serving` and those of `Session`: they extend modules
  with recursive operators (`ResponseShaper`, `PrefixCache`, `LayerGraph`).
- `WithinBudget`, `LayersAgree` and `PromisesKept` of `ServingMemory`, for the
  same reason.

## Plan

Modelled so far: adaptive memory, admission and capacity changes, both levels of
the disk cache, sessions with the layer graph and checkpoints, the expert pool
with its users, read-ahead, the decode handoff, and serving from the command
line to the shaped answer.  Adaptive memory, the disk store and its managed
retention, read-ahead, the decode handoff and batched prefill are proved.
Worth proving next, in this order:

1. `ServingMemory`: `LayersAgree`, then `WithinBudget` and `PromisesKept`, once
   the recursive operator that lists the growth ranges is a function or has a
   closed form.
2. `PrefixCache`: what `Admit` preserves (`CacheBounded`, `PromptsKept`), in the
   same way.
3. `Session`: `CommittedState`, once `LayerGraph` has no recursive operator.

## Not modelled

- Floating-point arithmetic of the layers, kernels, routing scores and quantised
  formats: a model checker says nothing about it.  Only the buffers and the
  order of the dispatches are modelled.
- Package loading, hot lists and the tokenizer: parsing and validation of files
  at start-up, and a wrapped library.
- The commands `generate` and `speed`, the texts of help and of errors, and the
  early return of `--help`: reporting and a benchmark client.
- Residency sets and pipeline creation of Metal, seeding of the pools, the
  directory checks of a single checkpoint slot: one-time set-up.
- The failure of the operating system's random seed, which answers 500 before
  generation like the other server errors.
- `server/quality.rs` and the diagnostic paths of the MLP and of the token loop,
  which only tests use.
