------------------------------- MODULE ReadAhead -------------------------------
(***************************************************************************)
(* The bounded prefill reader of src/package/prefill_reader.rs: one owner  *)
(* thread that consumes a group's missing expert rows in order, and worker *)
(* threads that read ahead of it over per-worker job and reply channels.   *)
(*                                                                         *)
(* A row buffer moves with the message that carries it, so a row is the    *)
(* bytes it holds, <<layer, expert>>, and `spare` is the number of idle    *)
(* buffers.  A reply's label is its expert alone, as in the code: the      *)
(* layer a row came from is not checked by anyone.  A worker may die at    *)
(* any moment with the jobs it has not answered, and a read may fail.      *)
(***************************************************************************)
EXTENDS Integers, Sequences, FiniteSets

CONSTANTS
    NumWorkers,  \* PREFILL_READ_WORKERS
    NumRows,     \* PREFILL_READ_ROWS
    Layers,      \* expert layers of the package
    Groups,      \* the miss lists a demand may have, in source order
    Outcomes     \* what a file read may do: succeed, or also fail

ASSUME WindowAssumption ==
    /\ NumWorkers \in Nat \ {0}
    /\ NumRows \in Nat /\ NumRows >= NumWorkers
    /\ Outcomes \subseteq BOOLEAN /\ TRUE \in Outcomes

\* The pool's miss lists come from a BTreeSet.
ASSUME GroupAssumption ==
    \A g \in Groups :
        /\ g \in Seq(Nat) /\ g # <<>>
        /\ \A i, j \in 1 .. Len(g) : i < j => g[i] < g[j]

WorkerIds == 0 .. NumWorkers - 1

VARIABLES
    status,       \* of the group, for the loader: none, open, done, failed
    layer,        \* PrefillRows.source
    missing,      \* PrefillRows.missing
    next,         \* PrefillRows.next
    given,        \* history: rows lent to the loader
    pc,           \* where the owner is
    current,      \* RowStorage.current: what the owner's buffer holds
    started,      \* RowStorage.reader exists with its workers
    broken,       \* ReadAhead.broken
    spare,        \* number of ReadAhead.spare buffers
    pending,      \* ReadAhead.pending
    next_worker,  \* ReadAhead.next_worker
    sending,      \* the owner still holds the job senders
    alive,        \* worker threads that run
    jobs,         \* job channel of each worker
    replies       \* reply channel of each worker

cursor == <<status, layer, missing, given>>
threads == <<alive, jobs, replies>>
vars == <<cursor, next, pc, current, started, broken, spare, pending,
          next_worker, sending, threads>>

OwnerPlaces == {"idle", "next", "fill", "lent", "direct", "drain", "join", "stop", "shut"}

Experts == UNION {{g[i] : i \in 1 .. Len(g)} : g \in Groups}
Row == Layers \X Experts
Job == [row : Row]
Reply == [expert : Experts, row : Row \union {<<>>}, ok : BOOLEAN]
PendingRow == [expert : Experts, failed : BOOLEAN, worker : WorkerIds]

\* What each variable can hold; no channel ever holds more than the buffers.
TypeOK ==
    /\ status \in {"none", "open", "done", "failed"}
    /\ layer \in Layers
    /\ missing \in Groups \union {<<>>}
    /\ next \in 0 .. Len(missing)
    /\ given \in Seq(Row)
    /\ pc \in OwnerPlaces
    /\ current \in Row \union {<<>>}
    /\ started \in BOOLEAN /\ broken \in BOOLEAN /\ sending \in BOOLEAN
    /\ spare \in 0 .. NumRows
    /\ next_worker \in WorkerIds
    /\ alive \subseteq WorkerIds
    /\ pending \in Seq(PendingRow)
    /\ jobs \in [WorkerIds -> Seq(Job)]
    /\ replies \in [WorkerIds -> Seq(Reply)]
    /\ \A w \in WorkerIds : Len(jobs[w]) + Len(replies[w]) <= NumRows

Nothing == [w \in WorkerIds |-> <<>>]

\* with_reader_factory: read-ahead is optional, a failed spawn leaves none.
Init ==
    /\ status = "none"
    /\ layer \in Layers
    /\ missing = <<>>
    /\ next = 0
    /\ given = <<>>
    /\ pc = "idle"
    /\ current = <<>>
    /\ started \in BOOLEAN
    /\ broken = FALSE
    /\ spare = IF started THEN NumRows ELSE 0
    /\ pending = <<>>
    /\ next_worker = 0
    /\ sending = started
    /\ alive = IF started THEN WorkerIds ELSE {}
    /\ jobs = Nothing
    /\ replies = Nothing

Available == started /\ ~broken

-----------------------------------------------------------------------------
(* worker_loop *)

\* Take one job, read its row and reply; a failed read returns the buffer.
WorkerRead(w, ok) ==
    LET job == Head(jobs[w]) IN
    /\ w \in alive
    /\ jobs[w] # <<>>
    /\ jobs' = [jobs EXCEPT ![w] = Tail(@)]
    /\ replies' = [replies EXCEPT ![w] =
            Append(@, [expert |-> job.row[2], row |-> IF ok THEN job.row ELSE <<>>, ok |-> ok])]
    /\ UNCHANGED <<cursor, next, pc, current, started, broken, spare, pending,
                   next_worker, sending, alive>>

\* The owner has dropped the sender and no job is left.
WorkerExit(w) ==
    /\ w \in alive
    /\ ~sending
    /\ jobs[w] = <<>>
    /\ alive' = alive \ {w}
    /\ UNCHANGED <<cursor, next, pc, current, started, broken, spare, pending,
                   next_worker, sending, jobs, replies>>

\* A panic: both channel ends go, what was answered stays readable.
WorkerDies(w) ==
    /\ w \in alive
    /\ alive' = alive \ {w}
    /\ jobs' = [jobs EXCEPT ![w] = <<>>]
    /\ UNCHANGED <<cursor, next, pc, current, started, broken, spare, pending,
                   next_worker, sending, replies>>

-----------------------------------------------------------------------------
(* The owner opens a group *)

\* prefill_rows: read ahead only with two rows to read and working threads;
\* otherwise the loader reads each row itself.
Open(l, group) ==
    /\ pc = "idle"
    /\ status' = "open"
    /\ layer' = l
    /\ missing' = group
    /\ next' = 0
    /\ given' = <<>>
    /\ pc' = IF Len(group) < 2 \/ ~Available THEN "direct" ELSE "next"
    /\ UNCHANGED <<current, started, broken, spare, pending, next_worker, sending, threads>>

\* read_row_into, in the loader's own loop.
DirectRead(ok) ==
    /\ pc = "direct"
    /\ next < Len(missing)
    /\ current' = IF ok THEN <<layer, missing[next + 1]>> ELSE <<>>
    /\ next' = IF ok THEN next + 1 ELSE next
    /\ given' = IF ok THEN Append(given, current') ELSE given
    /\ status' = IF ok THEN status ELSE "failed"
    /\ pc' = IF ok THEN pc ELSE "idle"
    /\ UNCHANGED <<layer, missing, started, broken, spare, pending, next_worker, sending, threads>>

\* The loader has every row, or gives up for a reason of its own.
DirectEnd(done) ==
    /\ pc = "direct"
    /\ done => next = Len(missing)
    /\ status' = IF done THEN "done" ELSE "failed"
    /\ pc' = "idle"
    /\ UNCHANGED <<layer, missing, given, next, current, started, broken, spare, pending,
                   next_worker, sending, threads>>

-----------------------------------------------------------------------------
(* PrefillRows::next *)

\* The first row of a group is read by the owner.
FirstRow(ok) ==
    /\ pc = "next"
    /\ next = 0
    /\ current' = IF ok THEN <<layer, missing[1]>> ELSE <<>>
    /\ next' = IF ok THEN 1 ELSE 0
    /\ pc' = IF ok THEN "fill" ELSE "drain"
    /\ status' = IF ok THEN status ELSE "failed"
    /\ UNCHANGED <<layer, missing, given, started, broken, spare, pending, next_worker,
                   sending, threads>>

\* disable, up to the join: the request fails, or a drain goes on.
\* Mutant: join the workers while they still wait for jobs.
DisableKeepsSenders ==
    /\ broken' = TRUE
    /\ pc' = "join"
    /\ status' = IF status = "open" THEN "failed" ELSE status
    /\ UNCHANGED <<sending, spare, current, next>>

Disable ==
    /\ broken' = TRUE
    /\ sending' = FALSE
    /\ pc' = "join"
    /\ status' = IF status = "open" THEN "failed" ELSE status
    /\ UNCHANGED <<spare, current, next>>

\* A failed read inside `next` ends the group; the buffer is idle again.
RowFails ==
    /\ spare' = spare + 1
    /\ pc' = "drain"
    /\ status' = IF status = "open" THEN "failed" ELSE status
    /\ UNCHANGED <<broken, sending, current, next>>

\* The row becomes current and the owner's old buffer becomes spare; while
\* draining the row goes to the spares itself.
RowArrives(row) ==
    /\ spare' = spare + 1
    /\ IF pc = "next"
       THEN current' = row /\ next' = next + 1 /\ pc' = "fill"
       ELSE UNCHANGED <<current, next, pc>>
    /\ UNCHANGED <<broken, sending, status>>

\* complete: the oldest pending row, waiting for its worker if need be.
Complete ==
    LET first == Head(pending)
        w == first.worker
        expected == IF pc = "next" THEN missing[next + 1] ELSE first.expert
    IN  /\ \/ pc = "next" /\ next > 0
           \/ pc = "drain"
        /\ pending # <<>>
        /\ pending' = Tail(pending)
        /\ \/ /\ first.failed \/ first.expert # expected
              /\ Disable
              /\ UNCHANGED replies
           \/ /\ ~first.failed /\ first.expert = expected
              /\ replies[w] = <<>> /\ w \notin alive
              /\ Disable
              /\ UNCHANGED replies
           \/ /\ ~first.failed /\ first.expert = expected
              /\ replies[w] # <<>>
              /\ replies' = [replies EXCEPT ![w] = Tail(@)]
              /\ LET reply == Head(replies[w]) IN
                 IF reply.expert # expected THEN Disable
                 ELSE IF reply.ok THEN RowArrives(reply.row) ELSE RowFails
        /\ UNCHANGED <<layer, missing, given, started, next_worker, alive, jobs>>

\* disable, after the join.
Joined ==
    /\ pc \in {"join", "stop"}
    /\ alive = {}
    /\ started' = FALSE
    /\ pending' = <<>>
    /\ spare' = 0
    /\ replies' = Nothing
    /\ next_worker' = 0
    /\ pc' = IF pc = "stop" THEN "shut" ELSE "drain"
    /\ UNCHANGED <<cursor, next, current, broken, sending, alive, jobs>>

\* Some row of the group is still to be asked for, and there is a buffer.
MayStart ==
    /\ Available
    /\ spare > 0
    /\ next + Len(pending) < Len(missing)

\* Mutant: the round robin moves on before the request is recorded.
StartRecordsNext ==
    LET expert == missing[next + Len(pending) + 1]
        w == next_worker
        lost == w \notin alive
    IN  /\ pc = "fill"
        /\ MayStart
        /\ next_worker' = (w + 1) % NumWorkers
        /\ pending' = Append(pending, [expert |-> expert, failed |-> lost, worker |-> next_worker'])
        /\ jobs' = IF lost THEN jobs ELSE [jobs EXCEPT ![w] = Append(@, [row |-> <<layer, expert>>])]
        /\ spare' = IF lost THEN spare ELSE spare - 1
        /\ broken' = lost
        /\ UNCHANGED <<cursor, next, pc, current, started, sending, alive, replies>>

\* start: give the next row to the next worker.  When that worker is gone the
\* buffer comes back and the error waits for its turn in the queue.
Start ==
    LET expert == missing[next + Len(pending) + 1]
        w == next_worker
        lost == w \notin alive
    IN  /\ pc = "fill"
        /\ MayStart
        /\ next_worker' = (w + 1) % NumWorkers
        /\ pending' = Append(pending, [expert |-> expert, failed |-> lost, worker |-> w])
        /\ jobs' = IF lost THEN jobs ELSE [jobs EXCEPT ![w] = Append(@, [row |-> <<layer, expert>>])]
        /\ spare' = IF lost THEN spare ELSE spare - 1
        /\ broken' = lost
        /\ UNCHANGED <<cursor, next, pc, current, started, sending, alive, replies>>

\* The window is full: lend the current row.
Lend ==
    /\ pc = "fill"
    /\ ~MayStart
    /\ pc' = "lent"
    /\ given' = Append(given, current)
    /\ UNCHANGED <<status, layer, missing, next, current, started, broken, spare, pending,
                   next_worker, sending, threads>>

-----------------------------------------------------------------------------
(* The loader has used the row *)

AskNext ==
    /\ pc = "lent"
    /\ next < Len(missing)
    /\ pc' = "next"
    /\ UNCHANGED <<cursor, next, current, started, broken, spare, pending, next_worker,
                   sending, threads>>

\* finish, or an error of the loader: either way the cursor is dropped.
Drop(done) ==
    /\ pc = "lent"
    /\ done => next = Len(missing)
    /\ status' = IF done THEN "done" ELSE "failed"
    /\ pc' = "drain"
    /\ UNCHANGED <<layer, missing, given, next, current, started, broken, spare, pending,
                   next_worker, sending, threads>>

\* Mutant: the cursor is dropped without waiting for the rows it asked for.
DrainedAnyway ==
    /\ pc = "drain"
    /\ pc' = "idle"
    /\ UNCHANGED <<cursor, next, current, started, broken, spare, pending, next_worker,
                   sending, threads>>

\* drain is over: nothing of this group is left in any channel.
Drained ==
    /\ pc = "drain"
    /\ pending = <<>>
    /\ pc' = "idle"
    /\ UNCHANGED <<cursor, next, current, started, broken, spare, pending, next_worker,
                   sending, threads>>

\* The workspace is dropped with the engine: ReadAhead::drop.
Shutdown ==
    /\ pc = "idle"
    /\ pc' = IF started THEN "stop" ELSE "shut"
    /\ broken' = TRUE
    /\ sending' = FALSE
    /\ UNCHANGED <<cursor, next, current, started, spare, pending, next_worker, threads>>

Stopped == pc = "shut" /\ UNCHANGED vars

-----------------------------------------------------------------------------

OwnerStep ==
    \/ \E ok \in Outcomes : DirectRead(ok) \/ FirstRow(ok)
    \/ \E done \in BOOLEAN : DirectEnd(done) \/ Drop(done)
    \/ Complete \/ Joined \/ Start \/ Lend \/ AskNext \/ Drained

WorkerStep(w) == WorkerExit(w) \/ \E ok \in Outcomes : WorkerRead(w, ok)

Demand == \E l \in Layers, group \in Groups : Open(l, group)

Next ==
    \/ OwnerStep
    \/ Demand
    \/ Shutdown
    \/ Stopped
    \/ \E w \in WorkerIds : WorkerStep(w) \/ WorkerDies(w)

Spec == Init /\ [][Next]_vars

\* The owner runs and the system schedules every thread that can run.
FairSpec ==
    /\ Spec
    /\ WF_vars(OwnerStep)
    /\ \A w \in WorkerIds : WF_vars(WorkerStep(w))

-----------------------------------------------------------------------------
(* Properties *)

\* Whatever the workers do, the loader sees rows in source order, each once,
\* complete and from the layer it asked for, and a finished group is complete
\* (complete, next, drain, and the direct path of ensure_group).
RowSpec == INSTANCE RowCursor WITH status <- status, layer <- layer,
                                   missing <- missing, given <- given
RowsInOrder == RowSpec!RowSpec

\* The rows of a window asked of worker w, and how many of them are not after
\* the i-th: its answer comes in that place of the worker's reply channel.
Asked(window, w) == {i \in 1 .. Len(window) : window[i].worker = w /\ ~window[i].failed}
Turn(window, w, i) == Cardinality({j \in Asked(window, w) : j <= i})

\* The owner and each worker agree on what is outstanding: the window is the
\* continuation of the miss list, only its last row may have failed to start,
\* what a live worker will have answered is exactly what is pending on it, and
\* no buffer is lost, whatever reads failed (fill, start, drain, check_idle).
WindowAgrees ==
    /\ Available /\ pc # "join" => spare + Len(pending) = NumRows
    /\ pc = "idle" => pending = <<>>
    /\ started /\ pc \notin {"join", "stop"} =>
          \A i \in 1 .. Len(pending) :
             /\ pc \in {"next", "fill", "lent"} => pending[i].expert = missing[next + i]
             /\ pending[i].failed => i = Len(pending) /\ broken
    /\ pc \notin {"join", "stop", "shut"} =>
          \A w \in alive :
             /\ Len(replies[w]) + Len(jobs[w]) = Cardinality(Asked(pending, w))
             /\ \A i \in Asked(pending, w) :
                   LET k == Turn(pending, w, i) IN
                   pending[i].expert =
                      IF k <= Len(replies[w]) THEN replies[w][k].expert
                      ELSE jobs[w][k - Len(replies[w])].row[2]

\* Every group ends, and the shutdown of the workers does: nobody waits for an
\* answer that cannot come (recv on a dead worker, join of a waiting one).
OwnerReturns ==
    pc # "idle" ~> pc \in {"idle", "shut"}

=============================================================================
