---------------------------- MODULE AdaptiveMemory ----------------------------
(***************************************************************************)
(* Adaptive expert capacity under serving: the Controller of               *)
(* src/adaptive_memory.rs, the request workspace owner PhasedPrefill of    *)
(* src/generation/request_resources.rs, and the points at which            *)
(* src/server.rs and src/generation.rs call them.  One inference owner     *)
(* runs all of it; the environment supplies pressure and VM observations,  *)
(* allocation failures, cancelled or failed requests and the clock.        *)
(*                                                                         *)
(* Engine::shrink_expert_capacity and recover_expert_capacity change every *)
(* layer or none, so the expert pools are one number here; the boolean     *)
(* `ok` of an action is whether the engine accepts the change.             *)
(***************************************************************************)
EXTENDS AdaptivePolicy

CONSTANTS
    Phased,        \* the server runs with request workspace phases
    WideCapacity,  \* largest expert capacity the 4096-row plan can retain
    Inputs,        \* the observations the host may make
    Outcomes       \* what fallible engine calls may do: succeed, or also fail

ASSUME ServingAssumption ==
    /\ Phased \in BOOLEAN
    /\ WideCapacity \in Extent
    /\ Inputs \subseteq Observations
    /\ Outcomes \subseteq BOOLEAN /\ TRUE \in Outcomes

VARIABLES
    policy,           \* Controller.policy and pressure_release_epoch
    expert_capacity,  \* Engine.expert_capacity
    stage,            \* how far the current request has come
    doomed,           \* the current request has failed or was cancelled
    scratch,          \* prefill workspace: "ordinary", "wide" or "missing"
    active,           \* PhasedPrefill.active
    finishing         \* the next step of PhasedPrefill::finish, or "no"

vars == <<policy, expert_capacity, stage, doomed, scratch, active, finishing>>

Stages == {"idle", "admitted", "prepare", "prefill", "run", "closing"}
FinishSteps == {"no", "scratch", "poll", "phase"}

\* What each variable can hold.
TypeOK ==
    /\ policy \in Policies
    /\ expert_capacity \in Extent
    /\ stage \in Stages
    /\ doomed \in BOOLEAN
    /\ scratch \in {"ordinary", "wide", "missing"}
    /\ active \in BOOLEAN
    /\ finishing \in FinishSteps

Init ==
    /\ policy = NewPolicy
    /\ expert_capacity = InitialCapacity
    /\ stage = "idle"
    /\ doomed = FALSE
    /\ scratch = "ordinary"
    /\ active = FALSE
    /\ finishing = "no"

-----------------------------------------------------------------------------
(* Controller::check_boundary *)

\* Sample if one is due, and the action that follows.
Observed(p, capacity, boundary, obs) ==
    LET s == Sample(p, capacity, boundary, obs) IN
    IF SampleDue(p)
    THEN [policy |-> LatchCritical(s, capacity), action |-> SampledAction(s, capacity)]
    ELSE [policy |-> p, action |-> CachedAction(p, capacity)]

\* release_capacity after the engine has released the suffix.
Released(p, capacity, action) ==
    LET q == [p EXCEPT !.workspace_phase.released = p.workspace_phase.on]
        r == CASE action.kind = "Rollback"     -> InterruptedWork(q, FALSE)
               [] action.kind = "ChurnRelease" -> InterruptedWork(q, TRUE)
               [] OTHER                        -> q
    IN  CapacityChanged(r, capacity, action.target)

\* The controller's record, the engine's capacity and whether the call failed.
Applied(p, capacity, action, ok) ==
    CASE action.kind = "Hold" ->
            [policy |-> p, capacity |-> capacity, error |-> FALSE]
      [] action.kind = "Stop" ->
            [policy |-> p, capacity |-> capacity, error |-> TRUE]
      [] action.kind = "Recover" ->
            IF ok
            THEN [policy |-> CapacityChanged(p, capacity, action.target),
                  capacity |-> action.target, error |-> FALSE]
            ELSE [policy |-> RecoveryFailed(p), capacity |-> capacity, error |-> FALSE]
      [] OTHER ->
            IF ok
            THEN [policy |-> Released(p, capacity, action),
                  capacity |-> action.target, error |-> FALSE]
            ELSE [policy |-> p, capacity |-> capacity, error |-> TRUE]

CheckBoundary(boundary, obs, ok) ==
    LET seen == Observed(policy, expert_capacity, boundary, obs)
    IN  Applied(seen.policy, expert_capacity, seen.action, ok)

-----------------------------------------------------------------------------
(* The request owner *)

\* The host clock.
Tick ==
    /\ policy' = PolicyLater(policy)
    /\ UNCHANGED <<expert_capacity, stage, doomed, scratch, active, finishing>>

\* Idle observation of the accept loop, and the observation that precedes the
\* parsing of a request.
IdlePoll(obs, ok) ==
    LET r == CheckBoundary("Observe", obs, ok) IN
    /\ stage = "idle"
    /\ policy' = r.policy
    /\ expert_capacity' = r.capacity
    /\ UNCHANGED <<stage, doomed, scratch, active, finishing>>

\* handle_chat: the admission check of a parsed request; an error is a 503.
AdmitRequest(obs, ok) ==
    LET r == CheckBoundary("RequestStart", obs, ok) IN
    /\ stage = "idle"
    /\ policy' = r.policy
    /\ expert_capacity' = r.capacity
    /\ stage' = IF r.error THEN "idle" ELSE "admitted"
    /\ UNCHANGED <<doomed, scratch, active, finishing>>

\* generate_request: begin_request, then RequestPhase::Prepare, which finishes
\* a phase an earlier request left behind.
BeginRequest ==
    /\ stage = "admitted"
    /\ policy' = PolicyBeginRequest(policy)
    /\ stage' = "prepare"
    /\ doomed' = FALSE
    /\ finishing' = IF active THEN "scratch" ELSE "no"
    /\ UNCHANGED <<expert_capacity, scratch, active>>

\* Lookup and restoration are over; without ordinary scratch no request runs.
Prepared(ok) ==
    /\ stage = "prepare"
    /\ finishing = "no"
    /\ IF scratch = "missing" \/ ~ok
       THEN stage' = "closing" /\ doomed' = TRUE
       ELSE stage' = "prefill" /\ UNCHANGED doomed
    /\ UNCHANGED <<policy, expert_capacity, scratch, active, finishing>>

\* RequestPhase::Prefill with few new tokens, a server without phases, or a
\* phase the controller refuses.
EnterOrdinary ==
    /\ stage = "prefill"
    /\ finishing = "no"
    /\ stage' = "run"
    /\ UNCHANGED <<policy, expert_capacity, doomed, scratch, active, finishing>>

\* The planned release for the wide workspace: shrink to an aligned prefix,
\* then grow back to the exact target.  `fault` is the step that fails.
Yielded(p, target, fault) ==
    LET aligned == AlignDown(target)
        shrunk == SyncPlanned(p, aligned)
        regrown == SyncPlanned(shrunk, target)
    IN  IF target = expert_capacity \/ fault = "shrink"
        THEN [policy |-> p, capacity |-> expert_capacity]
        ELSE IF aligned = target \/ fault = "regrow"
             THEN [policy |-> shrunk, capacity |-> aligned]
             ELSE [policy |-> regrown, capacity |-> target]

\* RequestPhase::Prefill with more than 2048 new tokens.  A fault leaves the
\* repair of ordinary scratch to the steps of `finish`.
EnterWide(fault) ==
    LET target == Least(expert_capacity, WideCapacity)
        r == Yielded(BeginPhase(policy, expert_capacity), target, fault)
    IN  /\ Phased
        /\ stage = "prefill"
        /\ finishing = "no"
        /\ ~active /\ scratch = "ordinary"
        /\ ~PhaseRefused(policy)
        /\ fault \in {"shrink", "regrow"} =>
                /\ target < expert_capacity
                /\ fault = "regrow" => AlignDown(target) < target
        /\ policy' = r.policy
        /\ expert_capacity' = r.capacity
        /\ active' = TRUE
        /\ scratch' \in IF fault = "none" THEN {"wide"}
                       ELSE IF fault = "scratch" THEN {scratch, "missing"} ELSE {scratch}
        /\ finishing' = IF fault = "none" THEN "no" ELSE "scratch"
        /\ stage' = IF fault = "none" THEN "run" ELSE stage
        /\ UNCHANGED doomed

\* RequestPhase::CompletedOperation; a failed check ends the generation.
CompletedOperation(obs, ok) ==
    LET r == CheckBoundary("CompletedOperation", obs, ok) IN
    /\ stage = "run"
    /\ finishing = "no"
    /\ policy' = r.policy
    /\ expert_capacity' = r.capacity
    /\ doomed' = r.error
    /\ stage' = IF r.error THEN "closing" ELSE stage
    /\ finishing' = IF r.error /\ active THEN "scratch" ELSE "no"
    /\ UNCHANGED <<scratch, active>>

\* RequestPhase::Decode: the prompt is consumed and the phase is over.
EnterDecode ==
    /\ stage = "run"
    /\ finishing = "no"
    /\ active
    /\ finishing' = "scratch"
    /\ UNCHANGED <<policy, expert_capacity, stage, doomed, scratch, active>>

\* The loop ends (`ok`) or is cancelled or fails; RequestPhase::Finished.
CloseRequest(ok) ==
    /\ stage = "run"
    /\ finishing = "no"
    /\ stage' = "closing"
    /\ doomed' = ~ok
    /\ finishing' = IF active THEN "scratch" ELSE "no"
    /\ UNCHANGED <<policy, expert_capacity, scratch, active>>

\* Controller::end_request once every cleanup has been tried.
EndRequest ==
    /\ stage = "closing"
    /\ finishing = "no"
    /\ policy' = PolicyEndRequest(policy, ~doomed)
    /\ stage' = "idle"
    /\ doomed' = FALSE
    /\ UNCHANGED <<expert_capacity, scratch, active, finishing>>

-----------------------------------------------------------------------------
(* PhasedPrefill::finish, in the three steps between which time passes *)

\* An error of any step: the phase stays active and the request fails.  While
\* a request is still running, RequestPhase::Finished tries once more.
FinishFails ==
    /\ doomed' = TRUE
    /\ stage' = "closing"
    /\ finishing' = IF stage \in {"prefill", "run"} THEN "scratch" ELSE "no"

\* Mutant: the owner gives the phase up when ordinary scratch cannot be rebuilt.
ReplaceScratchOrGiveUp(ok) ==
    /\ finishing = "scratch"
    /\ scratch' = IF ok THEN "ordinary" ELSE "missing"
    /\ active' = ok
    /\ IF ok THEN finishing' = "poll" /\ UNCHANGED <<stage, doomed>> ELSE FinishFails
    /\ UNCHANGED <<policy, expert_capacity>>

\* replace_prefill_without_overlap: ordinary scratch that is there is kept; any
\* other goes before the new comes, so a failure finds it untouched or gone.
ReplaceScratch(ok) ==
    /\ finishing = "scratch"
    /\ scratch' \in IF ok THEN {"ordinary"}
                   ELSE IF scratch = "ordinary" THEN {scratch} ELSE {scratch, "missing"}
    /\ IF ok THEN finishing' = "poll" /\ UNCHANGED <<stage, doomed>> ELSE FinishFails
    /\ UNCHANGED <<policy, expert_capacity, active>>

FinishPoll(obs, ok) ==
    LET r == CheckBoundary("CompletedOperation", obs, ok) IN
    /\ finishing = "poll"
    /\ policy' = r.policy
    /\ expert_capacity' = r.capacity
    /\ IF r.error THEN FinishFails
       ELSE finishing' = "phase" /\ UNCHANGED <<stage, doomed>>
    /\ UNCHANGED <<scratch, active>>

\* Controller::finish_workspace_phase: give the experts back if that is still
\* safe, then leave the phase.
Restored(p, ok) ==
    LET home == p.workspace_phase.ordinary_capacity
        q == SyncPlanned(p, expert_capacity)
    IN  IF ~RestorationAllowed(q)
        THEN [policy |-> q, capacity |-> expert_capacity]
        ELSE IF ok
             THEN [policy |-> SyncPlanned(q, home), capacity |-> home]
             ELSE [policy |-> RecoveryFailed(q), capacity |-> expert_capacity]

FinishWorkspacePhase(ok) ==
    LET r == Restored(policy, ok) IN
    /\ finishing = "phase"
    /\ policy' = FinishPhase(r.policy)
    /\ expert_capacity' = r.capacity
    /\ active' = FALSE
    /\ finishing' = "no"
    /\ stage' = IF stage = "prefill" THEN "run" ELSE stage
    /\ UNCHANGED <<doomed, scratch>>

-----------------------------------------------------------------------------

PollStep ==
    \E obs \in Inputs, ok \in Outcomes :
        \/ IdlePoll(obs, ok)
        \/ AdmitRequest(obs, ok)
        \/ CompletedOperation(obs, ok)
        \/ FinishPoll(obs, ok)

OwnerStep ==
    \/ BeginRequest
    \/ EnterOrdinary
    \/ EnterDecode
    \/ EndRequest
    \/ \E ok \in Outcomes :
          Prepared(ok) \/ CloseRequest(ok) \/ ReplaceScratch(ok) \/ FinishWorkspacePhase(ok)
    \/ \E fault \in {"none", "shrink", "regrow", "scratch"} :
          (fault = "none" \/ FALSE \in Outcomes) /\ EnterWide(fault)

Next == Tick \/ PollStep \/ OwnerStep

Spec == Init /\ [][Next]_vars

\* The clock advances, and the accept loop observes at least once a second
\* (recv_timeout) whenever no request is being handled.
FairSpec ==
    /\ Spec
    /\ WF_vars(Tick)
    /\ WF_vars(\E obs \in Inputs, ok \in Outcomes : IdlePoll(obs, ok))

\* The steps a server without request workspace phases takes.
OrdinaryNext ==
    \/ Tick
    \/ BeginRequest
    \/ EnterOrdinary
    \/ EndRequest
    \/ \E ok \in Outcomes : Prepared(ok) \/ CloseRequest(ok)
    \/ \E obs \in Inputs, ok \in Outcomes :
          IdlePoll(obs, ok) \/ AdmitRequest(obs, ok) \/ CompletedOperation(obs, ok)

FairOrdinarySpec ==
    /\ Init
    /\ [][OrdinaryNext]_vars
    /\ WF_vars(Tick)
    /\ WF_vars(\E obs \in Inputs, ok \in Outcomes : IdlePoll(obs, ok))

-----------------------------------------------------------------------------
(* Properties *)

\* A pending trial has a base and an extent, the base is no larger than the
\* extent, and the extent is storage the engine really holds; outside a trial
\* there is neither.  (observe, capacity_changed, sync_planned, end_request and
\* interrupted_work each update one or both of the two fields.)
TrialWellFormed ==
    /\ policy.trial_base = None <=> policy.trial_capacity = None
    /\ policy.trial_capacity # None =>
            /\ policy.trial_base <= policy.trial_capacity
            /\ policy.trial_capacity <= expert_capacity

\* The controller's idea of the capacity is the engine's, whatever path the
\* last change took (controller, planned release, failed repair).
CapacityAgreed == policy.capacity = expert_capacity

\* Generation is stopped only when the pools are already at the floor.
StopAtFloor == policy.stop_latched => expert_capacity = MinCapacity

\* What is released while a trial is pending, and not because of pressure,
\* leaves every whole chunk of the storage that earlier work has earned: the
\* rollback and the churn release go down to the base of the trial, aligned, and
\* an unaligned earned target loses less than one step.  (Of a server without
\* workspace phases, whose planned releases have another purpose.)
RollbackKeepsEarned ==
    [][policy.trial_capacity # None /\ policy'.state \notin UnderPressure
            => \/ expert_capacity' >= expert_capacity
               \/ expert_capacity' >= KeepPrefix(policy.earned_target)]_vars

\* A workspace phase and its owner stand or fall together: while the phase is
\* open the owner will try to close it, and wide or missing scratch never
\* outlives the phase.
PhaseOwned ==
    /\ policy.workspace_phase.on <=> active
    /\ scratch # "ordinary" => active

\* While a phase is open the pools only shrink.
FrozenInPhase ==
    [][policy.workspace_phase.on /\ policy'.workspace_phase.on
            => expert_capacity' <= expert_capacity]_vars

\* Adverse time observed at a pending trial is kept until the trial ends.
AdversityKept ==
    [][policy.trial_capacity # None /\ policy'.trial_capacity # None
            => policy'.trial_adverse_active >= policy.trial_adverse_active]_vars

\* Once the server is left idle on a host that stays quiet, the pools return to
\* the capacity earlier work has earned, without a new request.
RecoveryResumes ==
    <>[](stage = "idle" /\ policy.state = "NormalQuiet")
        => <>[]~IsRestoring(policy, expert_capacity)

=============================================================================
