---------------------------- MODULE AdaptivePolicy ----------------------------
(***************************************************************************)
(* The decision logic of src/adaptive_memory.rs: `struct Policy` and its   *)
(* methods, as operators from a policy record to a policy record.          *)
(*                                                                         *)
(* Time.  The code stores instants (`last_sample`, `quiet_since`, ...) and *)
(* only ever uses the differences `now - instant`.  A field here is that   *)
(* difference, the AGE of the instant, advanced by PolicyLater and held at *)
(* AgeCap, which exceeds every limit an age is compared with; `started <=  *)
(* last` becomes "the age of started is at least the age of last", and it  *)
(* is only consulted when the last sample is younger than AgeCap or when   *)
(* both orders of the two instants lead to the same step.  The instant     *)
(* `retry_not_before` lies in the future and is kept as the time left.     *)
(*                                                                         *)
(* Data.  A VM observation is reduced to what the two rate tests conclude  *)
(* from it: quiet, busy (compression alone), churn, or an invalid pair of  *)
(* counters.  Logging (`mode`, the eprintln! calls) is left out.           *)
(***************************************************************************)
EXTENDS Integers

CONSTANTS
    SampleInterval,    \* SAMPLE_INTERVAL
    SampleGapLimit,    \* SAMPLE_GAP_LIMIT
    ReleaseInterval,   \* RELEASE_INTERVAL
    RecoveryCooldown,  \* RECOVERY_COOLDOWN
    ActiveValidation,  \* ACTIVE_VALIDATION
    RetryLimit,        \* the 120 s maximum of retry_delay
    AgeCap,            \* where ages stop growing
    MinCapacity,       \* MIN_CAPACITY, the expert floor
    GrowthStep,        \* GROWTH_STEP_SLOTS
    InitialCapacity,   \* capacity admitted at startup
    MaximumCapacity    \* the fixed operating ceiling

ASSUME TimeAssumption ==
    /\ SampleInterval \in Nat \ {0}
    /\ SampleGapLimit \in Nat /\ SampleGapLimit >= SampleInterval
    /\ ReleaseInterval \in Nat
    /\ RecoveryCooldown \in Nat \ {0}
    /\ ActiveValidation \in Nat \ {0}
    /\ RetryLimit \in Nat /\ RetryLimit >= RecoveryCooldown
    /\ AgeCap \in Nat
    /\ AgeCap > SampleInterval /\ AgeCap > SampleGapLimit
    /\ AgeCap > ReleaseInterval /\ AgeCap > RecoveryCooldown
    /\ AgeCap > ActiveValidation

\* Policy::new and Controller::new refuse other extents; 64 is a multiple of 16.
ASSUME CapacityAssumption ==
    /\ GrowthStep \in Nat \ {0}
    /\ MinCapacity \in Nat \ {0}
    /\ MinCapacity % GrowthStep = 0
    /\ InitialCapacity \in Nat
    /\ MaximumCapacity \in Nat
    /\ MinCapacity <= InitialCapacity
    /\ InitialCapacity <= MaximumCapacity

-----------------------------------------------------------------------------
(* Types *)

None == -1

Extent == MinCapacity .. MaximumCapacity
Age == {None} \union 0 .. AgeCap
Credit == 0 .. ActiveValidation

Pressures == {"unknown", "normal", "warning", "critical"}
VmReadings == {"missing", "reset", "quiet", "busy", "churn"}
\* Away from normal pressure only the presence of counters has an effect.
Observations ==
    [pressure : {"normal"}, vm : VmReadings]
        \union [pressure : Pressures \ {"normal"}, vm : {"missing", "quiet"}]
Boundaries == {"Observe", "RequestStart", "CompletedOperation"}
States == {"None", "Unknown", "NormalBusy", "NormalQuiet", "Warning", "Critical"}
UnderPressure == {"Warning", "Critical"}

\* WorkspacePhase; `released` says the controller's pressure_release_epoch has
\* moved since the phase recorded it.
NoPhase == [on |-> FALSE, ordinary_capacity |-> MinCapacity, released |-> FALSE]
Phases == [on : BOOLEAN, ordinary_capacity : Extent, released : BOOLEAN]

Policies ==
    [ preparation_healthy      : Credit,
      active_churn             : Credit,
      last_churn_sample_active : BOOLEAN,
      validated_in_request     : {None} \union Extent,
      capacity                 : Extent,
      earned_target            : {None} \union Extent,
      trial_base               : {None} \union Extent,
      trial_capacity           : {None} \union Extent,
      last_sample              : Age,
      previous_counters        : BOOLEAN,
      quiet_since              : Age,
      request_started          : Age,
      last_sample_active       : BOOLEAN,
      last_sample_trial_active : BOOLEAN,
      trial_adverse_active     : Credit,
      request_clean_active     : Credit,
      completed_clean_active   : Credit,
      last_release             : Age,
      last_capacity_change     : Age,
      last_increase            : Age,
      retry_delay              : 0 .. RetryLimit,
      retry_wait               : 0 .. RetryLimit,
      critical_at_floor        : BOOLEAN,
      stop_latched             : BOOLEAN,
      state                    : States,
      workspace_phase          : Phases ]

NewPolicy ==
    [ preparation_healthy      |-> 0,
      active_churn             |-> 0,
      last_churn_sample_active |-> FALSE,
      validated_in_request     |-> None,
      capacity                 |-> InitialCapacity,
      earned_target            |-> None,
      trial_base               |-> None,
      trial_capacity           |-> None,
      last_sample              |-> None,
      previous_counters        |-> FALSE,
      quiet_since              |-> None,
      request_started          |-> None,
      last_sample_active       |-> FALSE,
      last_sample_trial_active |-> FALSE,
      trial_adverse_active     |-> 0,
      request_clean_active     |-> 0,
      completed_clean_active   |-> 0,
      last_release             |-> None,
      last_capacity_change     |-> None,
      last_increase            |-> None,
      retry_delay              |-> RecoveryCooldown,
      retry_wait               |-> 0,
      critical_at_floor        |-> FALSE,
      stop_latched             |-> FALSE,
      state                    |-> "None",
      workspace_phase          |-> NoPhase ]

-----------------------------------------------------------------------------
(* Helpers *)

Least(a, b) == IF a <= b THEN a ELSE b
Greatest(a, b) == IF a >= b THEN a ELSE b
AddCredit(credit, amount) == Least(credit + amount, ActiveValidation)
AlignDown(n) == (n \div GrowthStep) * GrowthStep

Within(age, limit) == age # None /\ age <= limit
AtLeast(age, limit) == age # None /\ age >= limit

\* One time unit passes.
Older(age) == IF age = None THEN None ELSE Least(age + 1, AgeCap)
PolicyLater(p) ==
    [p EXCEPT !.last_sample = Older(@),
              !.quiet_since = Older(@),
              !.request_started = Older(@),
              !.last_release = Older(@),
              !.last_capacity_change = Older(@),
              !.last_increase = Older(@),
              !.retry_wait = IF @ = 0 THEN 0 ELSE @ - 1]

\* The last sample was taken while the current request was already running.
SampledInRequest(p) ==
    /\ p.request_started # None
    /\ p.last_sample # None
    /\ p.request_started >= p.last_sample

\* Credit earned inside a workspace phase counts only at the ordinary extent.
ValidationExtentMatches(p, capacity) ==
    p.workspace_phase.on => p.workspace_phase.ordinary_capacity = capacity

\* Mutant: the credit of completed requests survives a change of extent.
ClearRequestValidation(p) ==
    [p EXCEPT !.preparation_healthy = 0,
              !.active_churn = 0,
              !.last_churn_sample_active = FALSE,
              !.validated_in_request = None,
              !.request_clean_active = 0,
              !.last_sample_active = FALSE,
              !.last_sample_trial_active = FALSE,
              !.trial_adverse_active = 0]

ClearCapacityValidation(p) ==
    [p EXCEPT !.preparation_healthy = 0,
              !.active_churn = 0,
              !.last_churn_sample_active = FALSE,
              !.validated_in_request = None,
              !.request_clean_active = 0,
              !.completed_clean_active = 0,
              !.last_sample_active = FALSE,
              !.last_sample_trial_active = FALSE,
              !.trial_adverse_active = 0]

ClearWorkspaceValidation(p) ==
    [ClearCapacityValidation(p) EXCEPT
        !.trial_adverse_active =
            IF p.trial_capacity # None THEN p.trial_adverse_active ELSE 0]

DoubleRetryDelay(p) ==
    LET delay == Least(2 * p.retry_delay, RetryLimit)
    IN  [p EXCEPT !.retry_delay = delay, !.retry_wait = delay]

RecoveryFailed(p) == [DoubleRetryDelay(p) EXCEPT !.quiet_since = None]

InterruptedWork(p, always_backoff) ==
    LET backoff == \/ p.trial_capacity # None
                   \/ Within(p.last_increase, ActiveValidation)
                   \/ always_backoff
        delayed == IF backoff THEN DoubleRetryDelay(p) ELSE p
    IN  [ClearCapacityValidation(delayed) EXCEPT
            !.trial_capacity = None,
            !.trial_base = None,
            !.last_increase = None]

-----------------------------------------------------------------------------
(* Requests *)

PolicyBeginRequest(p) ==
    [p EXCEPT !.last_churn_sample_active = FALSE,
              !.validated_in_request = None,
              !.request_started = 0,
              !.request_clean_active = 0,
              !.last_sample_active = FALSE,
              !.last_sample_trial_active = FALSE]

\* A request whose work may count: it completed, at a matching extent, with a
\* fresh healthy observation.
EndCounts(p, completed) ==
    /\ p.request_started # None
    /\ completed
    /\ Within(p.last_sample, SampleGapLimit)
    /\ ValidationExtentMatches(p, p.capacity)
    /\ p.state \in {"NormalQuiet", "NormalBusy"}

\* Mutant: accepting a smaller extent leaves the rollback base below it.
AcceptValidatedOnly(p) ==
    LET target == p.validated_in_request IN
    IF target = None \/ target >= p.capacity THEN p ELSE
    [p EXCEPT !.earned_target = Greatest(@, target)]

\* A smaller extent that was validated before the request grew past it.
AcceptValidated(p) ==
    LET target == p.validated_in_request IN
    IF target = None \/ target >= p.capacity THEN p ELSE
    [p EXCEPT !.earned_target = Greatest(@, target),
              !.trial_base = IF p.trial_capacity = p.capacity
                             THEN Greatest(@, target) ELSE @]

AcceptCurrent(p) ==
    LET clean == AddCredit(p.completed_clean_active, p.request_clean_active)
        trial == p.trial_capacity = p.capacity
        q == [p EXCEPT !.completed_clean_active = clean]
    IN  IF clean < ActiveValidation THEN q
        ELSE IF ~trial
             THEN [q EXCEPT !.earned_target = Greatest(@, p.capacity)]
             ELSE [q EXCEPT !.earned_target = Greatest(@, p.capacity),
                            !.trial_base = None,
                            !.trial_capacity = None,
                            !.trial_adverse_active = 0,
                            !.retry_delay = RecoveryCooldown,
                            !.retry_wait = 0]

PolicyEndRequest(p, completed) ==
    LET q == IF EndCounts(p, completed)
             THEN AcceptCurrent(AcceptValidated(p)) ELSE p
    IN  [q EXCEPT !.validated_in_request = None,
                  !.last_churn_sample_active = FALSE,
                  !.request_started = None,
                  !.last_sample_active = FALSE,
                  !.last_sample_trial_active = FALSE,
                  !.request_clean_active = 0]

-----------------------------------------------------------------------------
(* Sampling *)

SampleDue(p) == p.last_sample = None \/ p.last_sample >= SampleInterval

\* What quiet_since and churning_since conclude from two counter readings:
\* without two valid readings, nothing.
Verdict(p, obs) ==
    IF \/ obs.vm \in {"missing", "reset"}
       \/ ~p.previous_counters
       \/ p.last_sample = None
    THEN "none" ELSE obs.vm

SampleGap(p) == ~Within(p.last_sample, SampleGapLimit)

Classify(p, obs) ==
    CASE obs.pressure = "unknown"  -> "Unknown"
      [] obs.pressure = "warning"  -> "Warning"
      [] obs.pressure = "critical" -> "Critical"
      [] obs.pressure = "normal"   ->
            IF SampleGap(p) \/ Verdict(p, obs) = "none" THEN "Unknown"
            ELSE IF Verdict(p, obs) = "quiet" THEN "NormalQuiet" ELSE "NormalBusy"

\* observe_churn: the new value of active_churn.
ChurnCredit(p, boundary, obs) ==
    LET active == boundary = "CompletedOperation" /\ p.request_started # None
        interval == active /\ p.last_churn_sample_active /\ SampledInRequest(p)
        credit == IF p.last_sample = None THEN 0
                  ELSE Least(p.last_sample, SampleGapLimit)
        verdict == Verdict(p, obs)
    IN  IF interval /\ obs.pressure = "normal"
        THEN CASE verdict = "churn" -> AddCredit(p.active_churn, credit)
               [] verdict = "none"  -> 0
               [] OTHER -> Greatest(p.active_churn - credit, 0)
        ELSE IF ~active \/ obs.pressure # "normal" \/ verdict = "none"
             THEN 0 ELSE p.active_churn

\* Inside a phase only intervals between completed operations of one request
\* are charged to a trial.
TrialActive(p, boundary) ==
    \/ ~p.workspace_phase.on
    \/ p.request_started # None /\ boundary = "CompletedOperation"

TrialIntervalStarted(p) == ~p.workspace_phase.on \/ SampledInRequest(p)

AdverseCredit(p, capacity, boundary, obs) ==
    IF /\ p.trial_capacity = capacity
       /\ Classify(p, obs) = "NormalBusy"
       /\ ~SampleGap(p)
       /\ TrialActive(p, boundary)
       /\ p.last_sample_trial_active
       /\ TrialIntervalStarted(p)
    THEN AddCredit(p.trial_adverse_active, p.last_sample)
    ELSE p.trial_adverse_active

RequestActive(p, capacity) ==
    p.request_started # None /\ ValidationExtentMatches(p, capacity)

CleanCredit(p, capacity, obs) ==
    IF /\ Classify(p, obs) = "NormalQuiet"
       /\ RequestActive(p, capacity)
       /\ ~SampleGap(p)
       /\ p.state = "NormalQuiet"
       /\ p.last_sample_active
       /\ SampledInRequest(p)
    THEN AddCredit(p.request_clean_active, p.last_sample)
    ELSE p.request_clean_active

\* observe_preparation_span
PreparationCredit(p, obs) ==
    IF /\ ~p.workspace_phase.on
       /\ Classify(p, obs) = "NormalQuiet"
       /\ p.state = "NormalQuiet"
       /\ ~SampleGap(p)
       /\ \/ p.last_capacity_change = None
          \/ p.last_capacity_change >= p.last_sample
    THEN AddCredit(p.preparation_healthy, p.last_sample)
    ELSE p.preparation_healthy

\* The record update of `observe`, up to the choice of the action.
Sample(p, capacity, boundary, obs) ==
    LET state == Classify(p, obs)
        counted ==
            [p EXCEPT
                !.capacity = capacity,
                !.active_churn = ChurnCredit(p, boundary, obs),
                !.last_churn_sample_active =
                    boundary = "CompletedOperation" /\ p.request_started # None,
                !.trial_adverse_active = AdverseCredit(p, capacity, boundary, obs),
                !.last_sample_trial_active = TrialActive(p, boundary),
                !.quiet_since = IF state # "NormalQuiet" THEN None
                                ELSE IF @ = None THEN 0 ELSE @,
                !.request_clean_active = CleanCredit(p, capacity, obs),
                !.last_sample_active =
                    state = "NormalQuiet" /\ RequestActive(p, capacity),
                !.preparation_healthy = PreparationCredit(p, obs),
                !.last_sample = 0,
                !.previous_counters = obs.vm # "missing"]
        entered == state \in UnderPressure /\ p.state \notin UnderPressure
        interrupted == IF entered THEN InterruptedWork(counted, FALSE) ELSE counted
    IN  [interrupted EXCEPT
            !.state = state,
            !.critical_at_floor = @ /\ state = "Critical",
            !.stop_latched = @ /\ state = "Critical"]

-----------------------------------------------------------------------------
(* Choosing an action *)

Hold == [kind |-> "Hold", target |-> MinCapacity]
Stop == [kind |-> "Stop", target |-> MinCapacity]
Release(target) == [kind |-> "Release", target |-> target]
Rollback(target) == [kind |-> "Rollback", target |-> target]
ChurnRelease(target) == [kind |-> "ChurnRelease", target |-> target]
Recover(target) == [kind |-> "Recover", target |-> target]

IsRestoring(p, capacity) == p.earned_target # None /\ capacity < p.earned_target

GrowthTarget(p, capacity) ==
    Greatest(capacity,
             Least(MaximumCapacity,
                   IF IsRestoring(p, capacity) THEN p.earned_target
                                               ELSE MaximumCapacity))

NextCapacity(p, capacity) ==
    LET target == GrowthTarget(p, capacity) IN
    IF IsRestoring(p, capacity) /\ target - capacity <= GrowthStep
    THEN target
    ELSE Greatest(capacity, Least(target, AlignDown(capacity) + GrowthStep))

Settled(p) ==
    /\ AtLeast(p.quiet_since, RecoveryCooldown)
    /\ \/ p.last_capacity_change = None
       \/ p.last_capacity_change >= RecoveryCooldown
    /\ p.retry_wait = 0

\* Partial serving credit holds a pending trial at its extent.
TrialHeld(p) ==
    /\ p.trial_capacity # None
    /\ \/ IF p.request_started # None
          THEN p.completed_clean_active + p.request_clean_active < ActiveValidation
          ELSE p.completed_clean_active # 0
       \/ p.preparation_healthy < ActiveValidation

\* Mutant: open workspace phases do not freeze growth.
GrowthInPhase(p, capacity) ==
    /\ capacity < MaximumCapacity
    /\ ~p.stop_latched
    /\ p.state = "NormalQuiet"
    /\ Settled(p)
    /\ IsRestoring(p, capacity) \/ ~TrialHeld(p)

\* Mutant: only a running request makes the pools grow.
GrowthInRequest(p, capacity) ==
    /\ p.request_started # None
    /\ ~p.workspace_phase.on
    /\ GrowthInPhase(p, capacity)

GrowthEligible(p, capacity) ==
    /\ ~p.workspace_phase.on
    /\ capacity < MaximumCapacity
    /\ ~p.stop_latched
    /\ p.state = "NormalQuiet"
    /\ Settled(p)
    /\ IsRestoring(p, capacity) \/ ~TrialHeld(p)

RecoveryAction(p, capacity) ==
    IF GrowthEligible(p, capacity) THEN Recover(NextCapacity(p, capacity)) ELSE Hold

\* cached_action: between samples the last one still decides.
CachedAction(p, capacity) ==
    IF ~Within(p.last_sample, SampleInterval) THEN Hold
    ELSE IF p.stop_latched /\ capacity = MinCapacity THEN Stop
    ELSE RecoveryAction(p, capacity)

\* A release keeps a complete aligned prefix, never less than the floor.
KeepPrefix(n) == Greatest(AlignDown(n), MinCapacity)

RollbackDue(p, capacity) ==
    /\ p.state = "NormalBusy"
    /\ p.trial_adverse_active >= ActiveValidation
    /\ p.trial_capacity = capacity
    /\ p.trial_base # None
    /\ p.trial_base < capacity

\* The match of `observe` on a record that already holds the new sample.
SampledAction(p, capacity) ==
    CASE p.state = "Critical" ->
            IF capacity > MinCapacity THEN Release(MinCapacity)
            ELSE IF p.critical_at_floor THEN Stop ELSE Hold
      [] p.state = "Warning" /\ capacity > MinCapacity ->
            IF p.last_release = None \/ p.last_release >= ReleaseInterval
            THEN Release(KeepPrefix(capacity - 1)) ELSE Hold
      [] p.state = "NormalQuiet" -> RecoveryAction(p, capacity)
      [] RollbackDue(p, capacity) -> Rollback(KeepPrefix(p.trial_base))
      [] OTHER ->
            IF p.active_churn >= ActiveValidation /\ capacity > MinCapacity
            THEN ChurnRelease(KeepPrefix(
                    IF p.trial_base # None /\ p.trial_base < capacity
                    THEN p.trial_base ELSE capacity - 1))
            ELSE Hold

\* Mutant: the second critical sample stops generation at any capacity.
LatchAnywhere(p, capacity) ==
    IF p.state # "Critical" THEN p
    ELSE [p EXCEPT !.stop_latched = @ \/ p.critical_at_floor,
                   !.critical_at_floor = TRUE]

\* critical_at_floor and stop_latched after the action is chosen.
LatchCritical(p, capacity) ==
    IF p.state # "Critical" THEN p
    ELSE [p EXCEPT !.stop_latched =
                        @ \/ (capacity = MinCapacity /\ p.critical_at_floor),
                   !.critical_at_floor = TRUE]

-----------------------------------------------------------------------------
(* Capacity changes *)

ValidationBeforeGrowth(p, new) ==
    LET qualified ==
            /\ p.request_started # None
            /\ ValidationExtentMatches(p, p.capacity)
            /\ p.completed_clean_active + p.request_clean_active >= ActiveValidation
    IN  IF new <= p.capacity THEN None
        ELSE Greatest(p.validated_in_request,
                      IF qualified THEN p.capacity ELSE None)

\* Mutant: every growth forgets the adverse time of the trial it extends.
GrowthForgetsAdversity(p, old, new) ==
    LET trial == new > old /\ ~(p.earned_target # None /\ new <= p.earned_target)
    IN  [ClearCapacityValidation(p) EXCEPT
            !.capacity = new,
            !.quiet_since = None,
            !.validated_in_request = ValidationBeforeGrowth(p, new),
            !.last_capacity_change = 0,
            !.last_increase = IF new > old THEN 0 ELSE @,
            !.last_release = IF new < old THEN 0 ELSE @,
            !.trial_base = IF new < old THEN None
                           ELSE IF trial /\ @ = None THEN old ELSE @,
            !.trial_capacity = IF new < old THEN None
                               ELSE IF trial THEN new ELSE @]

CapacityChanged(p, old, new) ==
    LET trial == new > old /\ ~(p.earned_target # None /\ new <= p.earned_target)
    IN  [ClearCapacityValidation(p) EXCEPT
            !.capacity = new,
            !.quiet_since = None,
            !.validated_in_request = ValidationBeforeGrowth(p, new),
            !.trial_adverse_active =
                IF new > old /\ p.trial_capacity = old
                THEN p.trial_adverse_active ELSE 0,
            !.last_capacity_change = 0,
            !.last_increase = IF new > old THEN 0 ELSE @,
            !.last_release = IF new < old THEN 0 ELSE @,
            !.trial_base = IF new < old THEN None
                           ELSE IF trial /\ @ = None THEN old ELSE @,
            !.trial_capacity = IF new < old THEN None
                               ELSE IF trial THEN new ELSE @]

-----------------------------------------------------------------------------
(* Workspace phases *)

PhaseRefused(p) == p.stop_latched \/ p.state \in UnderPressure

BeginPhase(p, capacity) ==
    LET q == IF p.capacity # capacity
             THEN [ClearCapacityValidation(p) EXCEPT !.capacity = capacity] ELSE p
    IN  [q EXCEPT !.workspace_phase =
            [on |-> TRUE, ordinary_capacity |-> capacity, released |-> FALSE]]

\* Mutant: only a pending trial is told of a planned resize.
SyncTrialOnly(p, capacity) ==
    IF p.capacity = capacity \/ p.trial_capacity = None THEN p ELSE
    [ClearWorkspaceValidation(p) EXCEPT
        !.trial_base = Least(@, capacity),
        !.trial_capacity = capacity,
        !.capacity = capacity,
        !.quiet_since = None,
        !.last_capacity_change = 0]

\* sync_planned_workspace_capacity
SyncPlanned(p, capacity) ==
    LET trial == p.trial_capacity # None
        q == IF trial THEN ClearWorkspaceValidation(p) ELSE p
    IN  IF p.capacity = capacity THEN p ELSE
        [q EXCEPT
            !.trial_base = IF trial /\ @ # None THEN Least(@, capacity) ELSE @,
            !.trial_capacity = IF trial THEN capacity ELSE @,
            !.capacity = capacity,
            !.quiet_since = None,
            !.last_capacity_change = 0,
            !.last_sample_active = FALSE,
            !.last_sample_trial_active = FALSE]

RestorationAllowed(p) ==
    /\ p.workspace_phase.on
    /\ p.capacity < p.workspace_phase.ordinary_capacity
    /\ ~p.workspace_phase.released
    /\ p.trial_capacity = None
    /\ ~p.stop_latched
    /\ p.state = "NormalQuiet"
    /\ Within(p.last_sample, SampleInterval)
    /\ Settled(p)

FinishPhase(p) ==
    LET q == IF /\ p.workspace_phase.on
                /\ p.capacity # p.workspace_phase.ordinary_capacity
             THEN ClearWorkspaceValidation(p) ELSE p
    IN  [q EXCEPT !.workspace_phase = NoPhase]

=============================================================================
