------------------------- MODULE AdaptiveMemoryProofs -------------------------
(***************************************************************************)
(* Machine-checked proofs about AdaptiveMemory and AdaptiveCredit, for     *)
(* every choice of the time limits, capacities, observations and failures. *)
(*                                                                         *)
(* The safety properties are proved from one inductive invariant.  Sound   *)
(* is what every controller operation keeps true of a policy record and    *)
(* the engine's capacity; each operation has a lemma saying so, and each   *)
(* action then follows from the lemmas of the operations it calls.         *)
(*                                                                         *)
(* Two properties need more than Sound.  Without workspace phases the      *)
(* trial's extent is the extent held, which Ordinary adds.  That the       *)
(* credit is real needs Backed, which relates the policy's counters to the *)
(* times measured outside it.                                              *)
(***************************************************************************)
EXTENDS AdaptiveCredit, TLAPS

\* The trial fields of record p agree with each other and with capacity c.
Paired(p, c) ==
    /\ p.trial_base = None <=> p.trial_capacity = None
    /\ p.trial_capacity # None =>
            p.trial_base <= p.trial_capacity /\ p.trial_capacity <= c

Sound(p, c) ==
    /\ p \in Policies
    /\ c \in Extent
    /\ p.capacity = c
    /\ Paired(p, c)
    /\ p.stop_latched => c = MinCapacity

\* The owner's part of the state: types, the phase it owns, and how far a
\* finish has come.
OwnerSound ==
    /\ stage \in Stages
    /\ doomed \in BOOLEAN
    /\ scratch \in {"ordinary", "wide", "missing"}
    /\ active \in BOOLEAN
    /\ finishing \in FinishSteps
    /\ PhaseOwned
    /\ finishing # "no" => active
    /\ finishing \in {"poll", "phase"} => scratch = "ordinary"

IndInv == Sound(policy, expert_capacity) /\ OwnerSound

-----------------------------------------------------------------------------
(* Arithmetic *)

\* Aligning down yields a natural number no larger than its argument.
LEMMA AlignDownBelow ==
    ASSUME NEW n \in Nat
    PROVE  AlignDown(n) \in Nat /\ AlignDown(n) <= n
<1>1. PICK q \in Nat : q = n \div GrowthStep
  BY CapacityAssumption
<1>2. GrowthStep * q \in Nat
  BY CapacityAssumption
<1> QED
  BY <1>1, <1>2, CapacityAssumption DEF AlignDown

\* A larger quotient is larger by at least one divisor.
LEMMA NextMultiple ==
    ASSUME NEW g \in Nat \ {0}, NEW q \in Int, NEW k \in Int, k > q
    PROVE  g * k >= g * q + g
OBVIOUS

\* Aligning down never crosses the floor, because the floor is aligned.
LEMMA AlignDownFloor ==
    ASSUME NEW n \in Nat, n >= MinCapacity
    PROVE  AlignDown(n) >= MinCapacity
<1> DEFINE q == n \div GrowthStep
           k == MinCapacity \div GrowthStep
<1>1. q \in Nat /\ k \in Nat
  BY CapacityAssumption
<1>2. MinCapacity = GrowthStep * k
  BY CapacityAssumption
<1>3. n < GrowthStep * q + GrowthStep
  BY CapacityAssumption
<1>4. SUFFICES ASSUME k > q PROVE FALSE
  BY <1>1, <1>2, CapacityAssumption DEF AlignDown
<1>5. GrowthStep * k >= GrowthStep * q + GrowthStep
  BY <1>1, <1>4, CapacityAssumption, NextMultiple
<1> QED
  BY <1>1, <1>2, <1>3, <1>5, CapacityAssumption

\* An aligned extent is an extent no larger than the one it came from.
LEMMA AlignDownExtent ==
    ASSUME NEW n \in Extent
    PROVE  AlignDown(n) \in Extent /\ AlignDown(n) <= n
<1>1. n \in Nat /\ n >= MinCapacity
  BY CapacityAssumption DEF Extent
<1> QED
  BY <1>1, AlignDownBelow, AlignDownFloor, CapacityAssumption DEF Extent

\* The prefix a release keeps is an extent no larger than what is held.
LEMMA KeepPrefixExtent ==
    ASSUME NEW n \in Nat, NEW c \in Extent, n <= c
    PROVE  KeepPrefix(n) \in Extent /\ KeepPrefix(n) <= c
BY AlignDownBelow, CapacityAssumption DEF KeepPrefix, Greatest, Extent

\* Credit stays within its cap.
LEMMA AddCreditType ==
    ASSUME NEW credit \in Credit, NEW amount \in Nat
    PROVE  AddCredit(credit, amount) \in Credit
BY TimeAssumption DEF AddCredit, Least, Credit

\* An age that is within a limit is a natural number.
LEMMA WithinNat ==
    ASSUME NEW a \in Age, NEW limit \in Nat, Within(a, limit)
    PROVE  a \in Nat
BY TimeAssumption DEF Age, Within, None

\* The values that reset a field belong to its type.
LEMMA ResetValues ==
    /\ 0 \in Credit
    /\ 0 \in Age
    /\ None \in Age
    /\ None \in {None} \union Extent
    /\ NoPhase \in Phases
BY TimeAssumption, CapacityAssumption DEF Credit, Age, None, NoPhase, Phases, Extent

-----------------------------------------------------------------------------
(* Record updates: each operation returns a policy record, and says what it *)
(* does to the fields Sound speaks of.                                      *)

\* Operation q of record p leaves the fields of Sound alone.
Keeps(q, p) ==
    /\ q \in Policies
    /\ q.capacity = p.capacity
    /\ q.trial_base = p.trial_base
    /\ q.trial_capacity = p.trial_capacity
    /\ q.stop_latched = p.stop_latched
    /\ q.workspace_phase = p.workspace_phase

\* A record that kept the fields is as sound as before.
LEMMA KeepsSound ==
    ASSUME NEW p, NEW q, NEW c, Sound(p, c), Keeps(q, p)
    PROVE  Sound(q, c)
BY DEF Sound, Keeps, Paired

\* Ages keep their type as time passes (PolicyLater).
LEMMA OlderType ==
    ASSUME NEW a \in Age
    PROVE  Older(a) \in Age
BY TimeAssumption DEF Age, Older, None, Least

\* The passage of time.
LEMMA LaterKeeps ==
    ASSUME NEW p \in Policies
    PROVE  Keeps(PolicyLater(p), p)
<1>1. /\ Older(p.last_sample) \in Age
      /\ Older(p.quiet_since) \in Age
      /\ Older(p.request_started) \in Age
      /\ Older(p.last_release) \in Age
      /\ Older(p.last_capacity_change) \in Age
      /\ Older(p.last_increase) \in Age
  BY OlderType DEF Policies
<1>2. (IF p.retry_wait = 0 THEN 0 ELSE p.retry_wait - 1) \in 0 .. RetryLimit
  BY TimeAssumption DEF Policies
<1> QED
  BY ZenonT(40), <1>1, <1>2 DEF PolicyLater, Policies, Keeps

\* clear_capacity_validation
LEMMA ClearKeeps ==
    ASSUME NEW p \in Policies
    PROVE  Keeps(ClearCapacityValidation(p), p)
<1>1. ClearCapacityValidation(p) \in Policies
  BY ResetValues DEF ClearCapacityValidation, Policies
<1> QED
  BY <1>1 DEF ClearCapacityValidation, Policies, Keeps

\* clear_workspace_validation
LEMMA ClearWorkspaceKeeps ==
    ASSUME NEW p \in Policies
    PROVE  Keeps(ClearWorkspaceValidation(p), p)
<1> DEFINE q == ClearCapacityValidation(p)
<1>1. Keeps(q, p)
  BY ClearKeeps
<1>2. (IF p.trial_capacity # None THEN p.trial_adverse_active ELSE 0) \in Credit
  BY ResetValues DEF Policies
<1> HIDE DEF q
<1> QED
  BY <1>1, <1>2 DEF ClearWorkspaceValidation, Policies, Keeps, q

\* retry backoff
LEMMA DoubleKeeps ==
    ASSUME NEW p \in Policies
    PROVE  Keeps(DoubleRetryDelay(p), p)
<1>1. Least(2 * p.retry_delay, RetryLimit) \in 0 .. RetryLimit
  BY TimeAssumption DEF Policies, Least
<1> QED
  BY <1>1 DEF DoubleRetryDelay, Policies, Keeps

\* recovery_failed
LEMMA RecoveryFailedKeeps ==
    ASSUME NEW p \in Policies
    PROVE  Keeps(RecoveryFailed(p), p)
<1> DEFINE q == DoubleRetryDelay(p)
<1>1. Keeps(q, p)
  BY DoubleKeeps
<1> HIDE DEF q
<1> QED
  BY <1>1, ResetValues DEF RecoveryFailed, Policies, Keeps, q

\* begin_request
LEMMA BeginRequestKeeps ==
    ASSUME NEW p \in Policies
    PROVE  Keeps(PolicyBeginRequest(p), p)
BY ResetValues DEF PolicyBeginRequest, Policies, Keeps

\* interrupted_work ends the trial.
LEMMA InterruptedFields ==
    ASSUME NEW p \in Policies, NEW always \in BOOLEAN
    PROVE  LET q == InterruptedWork(p, always) IN
           /\ q \in Policies
           /\ q.capacity = p.capacity
           /\ q.trial_base = None
           /\ q.trial_capacity = None
           /\ q.stop_latched = p.stop_latched
           /\ q.workspace_phase = p.workspace_phase
<1> DEFINE backoff == \/ p.trial_capacity # None
                      \/ Within(p.last_increase, ActiveValidation)
                      \/ always
           d == IF backoff THEN DoubleRetryDelay(p) ELSE p
           e == ClearCapacityValidation(d)
<1>1. Keeps(d, p)
  BY DoubleKeeps DEF Keeps
<1>2. Keeps(e, d)
  BY <1>1, ClearKeeps DEF Keeps
<1>3. InterruptedWork(p, always) =
        [e EXCEPT !.trial_capacity = None, !.trial_base = None, !.last_increase = None]
  BY DEF InterruptedWork
<1>4. Keeps(e, p)
  BY <1>1, <1>2 DEF Keeps
<1> HIDE DEF e
<1>5. e \in Policies
  BY <1>4 DEF Keeps
<1>6. InterruptedWork(p, always) \in Policies
  BY ZenonT(40), <1>3, <1>5, ResetValues DEF Policies
<1> QED
  BY <1>3, <1>4, <1>5, <1>6 DEF Policies, Keeps

\* finish_workspace_phase of the policy closes the phase and nothing else.
LEMMA FinishPhaseFields ==
    ASSUME NEW p, NEW c, Sound(p, c)
    PROVE  Sound(FinishPhase(p), c) /\ ~FinishPhase(p).workspace_phase.on
<1> DEFINE cond == /\ p.workspace_phase.on
                   /\ p.capacity # p.workspace_phase.ordinary_capacity
           q == IF cond THEN ClearWorkspaceValidation(p) ELSE p
<1>1. Keeps(q, p)
  BY ClearWorkspaceKeeps DEF Keeps, Sound
<1>2. FinishPhase(p) = [q EXCEPT !.workspace_phase = NoPhase]
  BY DEF FinishPhase
<1> HIDE DEF q
<1>3. Sound(q, c)
  BY <1>1, KeepsSound
<1>4. q \in Policies
  BY <1>3 DEF Sound
<1>5. FinishPhase(p) \in Policies
  BY <1>2, <1>4, ResetValues DEF Policies
<1>6. FinishPhase(p).workspace_phase = NoPhase
  BY <1>2, <1>4 DEF Policies
<1>7. Sound(FinishPhase(p), c)
  BY <1>2, <1>3, <1>4, <1>5 DEF Policies, Sound, Paired
<1> QED
  BY <1>6, <1>7 DEF NoPhase

-----------------------------------------------------------------------------
(* Requests *)

\* The larger of two optional extents is an optional extent.
LEMMA GreatestExtent ==
    ASSUME NEW a \in {None} \union Extent, NEW b \in {None} \union Extent
    PROVE  /\ Greatest(a, b) \in {None} \union Extent
           /\ a # None \/ b # None => Greatest(a, b) # None
           /\ a <= Greatest(a, b)
           /\ Greatest(a, b) \in {a, b}
BY CapacityAssumption DEF Greatest, Extent, None

\* Accepting a smaller validated extent can raise the rollback base, never
\* beyond the trial it belongs to.
LEMMA AcceptValidatedSound ==
    ASSUME NEW p, NEW c, Sound(p, c)
    PROVE  /\ Sound(AcceptValidated(p), c)
           /\ AcceptValidated(p).workspace_phase = p.workspace_phase
<1> DEFINE target == p.validated_in_request
           base == IF p.trial_capacity = p.capacity
                   THEN Greatest(p.trial_base, target) ELSE p.trial_base
           earned == Greatest(p.earned_target, target)
<1>1. CASE target = None \/ target >= p.capacity
  BY <1>1 DEF AcceptValidated
<1>2. CASE ~(target = None \/ target >= p.capacity)
  <2>1. p \in Policies
    BY DEF Sound
  <2>2. target \in Extent /\ target < c
    BY <1>2, <2>1, CapacityAssumption DEF Policies, Sound, Extent, None
  <2>3. earned \in {None} \union Extent /\ base \in {None} \union Extent
    BY <2>1, <2>2, GreatestExtent DEF Policies
  <2>4. AcceptValidated(p) = [p EXCEPT !.earned_target = earned, !.trial_base = base]
    BY <1>2, <2>1 DEF AcceptValidated, Policies
  <2>5. /\ base = None <=> p.trial_capacity = None
        /\ p.trial_capacity # None => base <= p.trial_capacity
    <3>1. CASE p.trial_capacity = p.capacity
      <4>1. p.trial_base \in {None} \union Extent /\ p.trial_capacity = c /\ c # None
        BY <2>1, <3>1, CapacityAssumption DEF Sound, Policies, Extent, None
      <4>2. p.trial_base # None /\ p.trial_base <= c
        BY <4>1 DEF Sound, Paired
      <4>3. base = Greatest(p.trial_base, target)
        BY <3>1
      <4>4. /\ p.trial_base \in Nat /\ target \in Nat /\ c \in Nat
        BY <4>1, <4>2, <2>2, CapacityAssumption DEF Extent, Sound
      <4>5. base \in Nat /\ base <= c
        BY <4>2, <4>3, <4>4, <2>2 DEF Greatest
      <4> QED
        BY <4>1, <4>5 DEF None
    <3>2. CASE p.trial_capacity # p.capacity
      BY <3>2 DEF Sound, Paired
    <3> QED BY <3>1, <3>2
  <2> HIDE DEF base, earned, target
  <2>6. AcceptValidated(p) \in Policies
    BY ZenonT(40), <2>1, <2>3, <2>4 DEF Policies
  <2> QED
    BY <2>1, <2>4, <2>5, <2>6 DEF Policies, Sound, Paired
<1> QED BY <1>1, <1>2

\* The record of an accepted trial.
LEMMA AcceptedType ==
    ASSUME NEW p \in Policies, NEW earned \in {None} \union Extent
    PROVE  [p EXCEPT !.earned_target = earned,
                     !.trial_base = None,
                     !.trial_capacity = None,
                     !.trial_adverse_active = 0,
                     !.retry_delay = RecoveryCooldown,
                     !.retry_wait = 0] \in Policies
<1>1. RecoveryCooldown \in 0 .. RetryLimit /\ 0 \in 0 .. RetryLimit
  BY TimeAssumption
<1> QED
  BY <1>1, ResetValues DEF Policies

\* Accepting the current extent either keeps or ends the trial.
LEMMA AcceptCurrentSound ==
    ASSUME NEW p, NEW c, Sound(p, c)
    PROVE  /\ Sound(AcceptCurrent(p), c)
           /\ AcceptCurrent(p).workspace_phase = p.workspace_phase
<1> DEFINE clean == AddCredit(p.completed_clean_active, p.request_clean_active)
           q == [p EXCEPT !.completed_clean_active = clean]
           earned == Greatest(p.earned_target, p.capacity)
<1>1. p \in Policies
  BY DEF Sound
<1>2. clean \in Credit
  <2>1. p.request_clean_active \in Nat /\ p.completed_clean_active \in Credit
    BY <1>1, TimeAssumption DEF Policies, Credit
  <2> QED BY <2>1, AddCreditType
<1>3. earned \in {None} \union Extent
  BY <1>1, GreatestExtent DEF Policies
<1> HIDE DEF clean
<1>5. q \in Policies /\ q.earned_target = p.earned_target
  BY <1>1, <1>2 DEF Policies
<1>6. Sound(q, c) /\ q.workspace_phase = p.workspace_phase
  BY <1>1, <1>5 DEF Sound, Paired, Policies
<1>7. \/ AcceptCurrent(p) = q
      \/ AcceptCurrent(p) = [q EXCEPT !.earned_target = earned]
      \/ AcceptCurrent(p) = [q EXCEPT !.earned_target = earned,
                                      !.trial_base = None,
                                      !.trial_capacity = None,
                                      !.trial_adverse_active = 0,
                                      !.retry_delay = RecoveryCooldown,
                                      !.retry_wait = 0]
  BY <1>5 DEF AcceptCurrent, clean, Policies
<1> HIDE DEF q, earned
<1>8. CASE AcceptCurrent(p) = q
  BY <1>6, <1>8
<1>9. CASE AcceptCurrent(p) = [q EXCEPT !.earned_target = earned]
  <2>1. AcceptCurrent(p) \in Policies
    BY <1>3, <1>5, <1>9 DEF Policies
  <2> QED
    BY <2>1, <1>5, <1>6, <1>9 DEF Sound, Paired, Policies
<1>10. CASE AcceptCurrent(p) = [q EXCEPT !.earned_target = earned,
                                         !.trial_base = None,
                                         !.trial_capacity = None,
                                         !.trial_adverse_active = 0,
                                         !.retry_delay = RecoveryCooldown,
                                         !.retry_wait = 0]
  <2>1. AcceptCurrent(p) \in Policies
    <3>1. q \in Policies
      BY <1>5
    <3> QED
      BY <1>3, <3>1, <1>10, AcceptedType
  <2>2. /\ AcceptCurrent(p).trial_base = None
        /\ AcceptCurrent(p).trial_capacity = None
        /\ AcceptCurrent(p).capacity = q.capacity
        /\ AcceptCurrent(p).stop_latched = q.stop_latched
        /\ AcceptCurrent(p).workspace_phase = q.workspace_phase
    BY <1>5, <1>10 DEF Policies
  <2> QED
    BY <2>1, <2>2, <1>6 DEF Sound, Paired
<1> QED BY <1>7, <1>8, <1>9, <1>10

\* The fields that speak of one request are reset when it ends.
LEMMA ClosedKeeps ==
    ASSUME NEW p \in Policies
    PROVE  Keeps([p EXCEPT !.validated_in_request = None,
                           !.last_churn_sample_active = FALSE,
                           !.request_started = None,
                           !.last_sample_active = FALSE,
                           !.last_sample_trial_active = FALSE,
                           !.request_clean_active = 0], p)
BY ZenonT(40), ResetValues DEF Policies, Keeps

\* end_request
LEMMA EndRequestSound ==
    ASSUME NEW p, NEW c, NEW completed \in BOOLEAN, Sound(p, c)
    PROVE  /\ Sound(PolicyEndRequest(p, completed), c)
           /\ PolicyEndRequest(p, completed).workspace_phase = p.workspace_phase
<1> DEFINE q == IF EndCounts(p, completed) THEN AcceptCurrent(AcceptValidated(p)) ELSE p
<1>1. Sound(q, c) /\ q.workspace_phase = p.workspace_phase
  BY AcceptValidatedSound, AcceptCurrentSound
<1>2. PolicyEndRequest(p, completed) =
        [q EXCEPT !.validated_in_request = None,
                  !.last_churn_sample_active = FALSE,
                  !.request_started = None,
                  !.last_sample_active = FALSE,
                  !.last_sample_trial_active = FALSE,
                  !.request_clean_active = 0]
  BY DEF PolicyEndRequest
<1> HIDE DEF q
<1>3. q \in Policies
  BY <1>1 DEF Sound
<1>4. Keeps(PolicyEndRequest(p, completed), q)
  BY <1>2, <1>3, ClosedKeeps
<1>5. Sound(PolicyEndRequest(p, completed), c)
  BY <1>1, <1>4, KeepsSound
<1> QED
  BY <1>1, <1>4, <1>5 DEF Keeps

-----------------------------------------------------------------------------
(* Samples *)

\* observe classifies every observation as one of the policy states.
LEMMA ClassifyType ==
    ASSUME NEW p \in Policies, NEW obs \in Observations
    PROVE  Classify(p, obs) \in States
BY DEF Classify, States, Observations, Pressures

\* A sample outside a gap has an age that can be added to a credit.
LEMMA NoGapNat ==
    ASSUME NEW p \in Policies, ~SampleGap(p)
    PROVE  p.last_sample \in Nat
BY WithinNat, TimeAssumption DEF SampleGap, Policies

\* The four credits stay within their cap.
LEMMA CreditTypes ==
    ASSUME NEW p \in Policies, NEW c \in Extent,
           NEW b \in Boundaries, NEW obs \in Observations
    PROVE  /\ ChurnCredit(p, b, obs) \in Credit
           /\ AdverseCredit(p, c, b, obs) \in Credit
           /\ CleanCredit(p, c, obs) \in Credit
           /\ PreparationCredit(p, obs) \in Credit
<1>1. /\ p.active_churn \in Credit
      /\ p.trial_adverse_active \in Credit
      /\ p.request_clean_active \in Credit
      /\ p.preparation_healthy \in Credit
      /\ p.last_sample \in Age
  BY DEF Policies
<1>2. ChurnCredit(p, b, obs) \in Credit
  <2> DEFINE credit == IF p.last_sample = None THEN 0
                       ELSE Least(p.last_sample, SampleGapLimit)
  <2>1. credit \in Nat
    BY <1>1, TimeAssumption DEF Age, None, Least
  <2>2. AddCredit(p.active_churn, credit) \in Credit
    BY <1>1, <2>1, AddCreditType
  <2>3. Greatest(p.active_churn - credit, 0) \in Credit
    BY <1>1, <2>1, TimeAssumption DEF Credit, Greatest
  <2> QED
    BY <1>1, <2>2, <2>3, ResetValues DEF ChurnCredit
<1>3. AdverseCredit(p, c, b, obs) \in Credit
  BY <1>1, NoGapNat, AddCreditType DEF AdverseCredit
<1>4. CleanCredit(p, c, obs) \in Credit
  BY <1>1, NoGapNat, AddCreditType DEF CleanCredit
<1>5. PreparationCredit(p, obs) \in Credit
  BY <1>1, NoGapNat, AddCreditType DEF PreparationCredit
<1> QED BY <1>2, <1>3, <1>4, <1>5

\* observe, up to the choice of the action: the trial survives or ends whole,
\* and only a critical sample keeps a latched stop.
LEMMA SampleFields ==
    ASSUME NEW p \in Policies, NEW c \in Extent,
           NEW b \in Boundaries, NEW obs \in Observations
    PROVE  LET s == Sample(p, c, b, obs) IN
           /\ s \in Policies
           /\ s.capacity = c
           /\ s.workspace_phase = p.workspace_phase
           /\ s.stop_latched => p.stop_latched /\ s.state = "Critical"
           /\ \/ s.trial_base = p.trial_base /\ s.trial_capacity = p.trial_capacity
              \/ s.trial_base = None /\ s.trial_capacity = None
<1> DEFINE state == Classify(p, obs)
           op == b = "CompletedOperation" /\ p.request_started # None
           trial == TrialActive(p, b)
           sampled == state = "NormalQuiet" /\ RequestActive(p, c)
           counters == obs.vm # "missing"
           quiet == IF state # "NormalQuiet" THEN None
                    ELSE IF p.quiet_since = None THEN 0 ELSE p.quiet_since
           churn == ChurnCredit(p, b, obs)
           adverse == AdverseCredit(p, c, b, obs)
           clean == CleanCredit(p, c, obs)
           healthy == PreparationCredit(p, obs)
           h == [p EXCEPT !.capacity = c,
                          !.active_churn = churn,
                          !.last_churn_sample_active = op,
                          !.trial_adverse_active = adverse,
                          !.last_sample_trial_active = trial]
           k == [h EXCEPT !.quiet_since = quiet,
                          !.request_clean_active = clean,
                          !.last_sample_active = sampled,
                          !.preparation_healthy = healthy,
                          !.last_sample = 0,
                          !.previous_counters = counters]
           entered == state \in UnderPressure /\ p.state \notin UnderPressure
           i == IF entered THEN InterruptedWork(k, FALSE) ELSE k
           floor == i.critical_at_floor /\ state = "Critical"
           latch == i.stop_latched /\ state = "Critical"
<1>1. state \in States
  BY ClassifyType
<1>2. /\ churn \in Credit /\ adverse \in Credit
      /\ clean \in Credit /\ healthy \in Credit
  BY CreditTypes
<1>3. /\ op \in BOOLEAN /\ trial \in BOOLEAN
      /\ sampled \in BOOLEAN /\ counters \in BOOLEAN
  BY DEF TrialActive, RequestActive
<1>4. quiet \in Age
  BY ResetValues DEF Policies
<1>5. Sample(p, c, b, obs) = [i EXCEPT !.state = state,
                                       !.critical_at_floor = floor,
                                       !.stop_latched = latch]
  <2>1. Sample(p, c, b, obs) =
          [i EXCEPT !.state = state,
                    !.critical_at_floor = @ /\ state = "Critical",
                    !.stop_latched = @ /\ state = "Critical"]
    BY DEF Sample
  <2> HIDE DEF i, state
  <2> QED BY <2>1
<1> HIDE DEF churn, adverse, clean, healthy, op, trial, sampled, counters, quiet, state
<1>6. /\ k \in Policies
      /\ k.capacity = c
      /\ k.trial_base = p.trial_base
      /\ k.trial_capacity = p.trial_capacity
      /\ k.stop_latched = p.stop_latched
      /\ k.workspace_phase = p.workspace_phase
  <2>1. h \in Policies
    BY <1>2, <1>3 DEF Policies
  <2>2. /\ h.capacity = c
        /\ h.trial_base = p.trial_base
        /\ h.trial_capacity = p.trial_capacity
        /\ h.stop_latched = p.stop_latched
        /\ h.workspace_phase = p.workspace_phase
    BY DEF Policies
  <2> HIDE DEF h
  <2>3. k \in Policies
    BY ZenonT(40), <1>2, <1>3, <1>4, <2>1, ResetValues DEF Policies
  <2>4. /\ k.capacity = h.capacity
        /\ k.trial_base = h.trial_base
        /\ k.trial_capacity = h.trial_capacity
        /\ k.stop_latched = h.stop_latched
        /\ k.workspace_phase = h.workspace_phase
    BY <2>1 DEF Policies
  <2> QED BY <2>2, <2>3, <2>4
<1> HIDE DEF k
<1>7. /\ i \in Policies
      /\ i.capacity = c
      /\ i.stop_latched = p.stop_latched
      /\ i.workspace_phase = p.workspace_phase
      /\ \/ i.trial_base = p.trial_base /\ i.trial_capacity = p.trial_capacity
         \/ i.trial_base = None /\ i.trial_capacity = None
  BY <1>6, InterruptedFields
<1> HIDE DEF i
<1>8. floor \in BOOLEAN /\ latch \in BOOLEAN
  OBVIOUS
<1>9. latch => p.stop_latched /\ state = "Critical"
  BY <1>7
<1> HIDE DEF floor, latch
<1> DEFINE q == [i EXCEPT !.state = state,
                          !.critical_at_floor = floor,
                          !.stop_latched = latch]
<1>10. q \in Policies
  BY <1>1, <1>7, <1>8 DEF Policies
<1>11. /\ q.capacity = i.capacity
       /\ q.trial_base = i.trial_base
       /\ q.trial_capacity = i.trial_capacity
       /\ q.stop_latched = latch
       /\ q.state = state
       /\ q.workspace_phase = i.workspace_phase
  BY <1>7 DEF Policies
<1>12. Sample(p, c, b, obs) = q
  BY <1>5
<1> HIDE DEF q
<1> QED
  BY <1>7, <1>9, <1>10, <1>11, <1>12

\* critical_at_floor and stop_latched
LEMMA LatchSound ==
    ASSUME NEW p, NEW c, Sound(p, c)
    PROVE  /\ Sound(LatchCritical(p, c), c)
           /\ LatchCritical(p, c).workspace_phase = p.workspace_phase
<1>1. p \in Policies
  BY DEF Sound
<1>2. CASE p.state # "Critical"
  BY <1>2 DEF LatchCritical
<1>3. CASE p.state = "Critical"
  <2> DEFINE latch == p.stop_latched \/ (c = MinCapacity /\ p.critical_at_floor)
             q == [p EXCEPT !.stop_latched = latch, !.critical_at_floor = TRUE]
  <2>1. LatchCritical(p, c) = q
    BY <1>1, <1>3 DEF LatchCritical, Policies
  <2>2. latch \in BOOLEAN /\ (latch => c = MinCapacity)
    BY DEF Sound
  <2> HIDE DEF latch
  <2>3. /\ q \in Policies
        /\ q.capacity = p.capacity
        /\ q.trial_base = p.trial_base
        /\ q.trial_capacity = p.trial_capacity
        /\ q.stop_latched = latch
        /\ q.workspace_phase = p.workspace_phase
    BY ZenonT(40), <1>1, <2>2 DEF Policies
  <2> QED
    BY <2>1, <2>2, <2>3 DEF Sound, Paired
<1> QED BY <1>2, <1>3

-----------------------------------------------------------------------------
(* Actions *)

Passive(a) == a.kind \in {"Hold", "Stop"}

Reduction(a, c) ==
    /\ a.kind \in {"Release", "Rollback", "ChurnRelease"}
    /\ a.target \in Extent
    /\ a.target <= c

\* Growth needs a quiet host, no latched stop and no open phase.
Growth(a, p, c) ==
    /\ a.kind = "Recover"
    /\ a.target \in Extent
    /\ a.target >= c
    /\ p.state = "NormalQuiet"
    /\ ~p.stop_latched
    /\ ~p.workspace_phase.on

\* The next capacity lies between the present one and the ceiling.
LEMMA NextCapacityExtent ==
    ASSUME NEW p \in Policies, NEW c \in Extent
    PROVE  NextCapacity(p, c) \in Extent /\ NextCapacity(p, c) >= c
<1>1. c \in Nat /\ MinCapacity <= c /\ c <= MaximumCapacity
  BY CapacityAssumption DEF Extent
<1>2. p.earned_target \in Int
  BY CapacityAssumption DEF Policies, Extent, None
<1>3. AlignDown(c) \in Nat
  BY <1>1, AlignDownBelow
<1>4. /\ GrowthTarget(p, c) \in Int
      /\ GrowthTarget(p, c) >= c
      /\ GrowthTarget(p, c) <= MaximumCapacity
  BY <1>1, <1>2, CapacityAssumption DEF GrowthTarget, Greatest, Least
<1> QED
  BY <1>1, <1>3, <1>4, CapacityAssumption DEF NextCapacity, Greatest, Least, Extent

\* recovery_action holds, or grows to next_capacity outside a phase.
LEMMA RecoveryActionType ==
    ASSUME NEW p \in Policies, NEW c \in Extent
    PROVE  Passive(RecoveryAction(p, c)) \/ Growth(RecoveryAction(p, c), p, c)
BY NextCapacityExtent
DEF RecoveryAction, GrowthEligible, Recover, Hold, Passive, Growth

\* cached_action never releases storage.
LEMMA CachedActionType ==
    ASSUME NEW p \in Policies, NEW c \in Extent
    PROVE  Passive(CachedAction(p, c)) \/ Growth(CachedAction(p, c), p, c)
BY RecoveryActionType DEF CachedAction, Hold, Stop, Passive

\* The match of observe.
LEMMA SampledActionType ==
    ASSUME NEW p \in Policies, NEW c \in Extent
    PROVE  LET a == SampledAction(p, c)
           IN  Passive(a) \/ Reduction(a, c) \/ Growth(a, p, c)
<1>1. c \in Nat /\ MinCapacity <= c
  BY CapacityAssumption DEF Extent
<1>2. c > MinCapacity => KeepPrefix(c - 1) \in Extent /\ KeepPrefix(c - 1) <= c
  BY <1>1, KeepPrefixExtent, CapacityAssumption
<1>3. p.trial_base # None /\ p.trial_base < c
        => KeepPrefix(p.trial_base) \in Extent /\ KeepPrefix(p.trial_base) <= c
  <2>1. p.trial_base # None => p.trial_base \in Nat
    BY CapacityAssumption DEF Policies, Extent
  <2> QED BY <1>1, <2>1, KeepPrefixExtent
<1>4. MinCapacity \in Extent /\ MinCapacity <= c
  BY <1>1, CapacityAssumption DEF Extent
<1>5. CASE p.state = "Critical"
  BY <1>4, <1>5 DEF RollbackDue, SampledAction, Release, Stop, Hold, Passive, Reduction
<1>6. CASE p.state = "Warning" /\ c > MinCapacity
  BY <1>2, <1>6 DEF RollbackDue, SampledAction, Release, Hold, Passive, Reduction
<1>7. CASE p.state = "NormalQuiet"
  BY <1>7, RecoveryActionType DEF SampledAction, RollbackDue
<1>8. CASE RollbackDue(p, c)
  <2>1. SampledAction(p, c) = Rollback(KeepPrefix(p.trial_base))
    BY <1>8 DEF SampledAction, RollbackDue
  <2> QED
    BY <1>3, <1>8, <2>1 DEF RollbackDue, Rollback, Reduction
<1>9. CASE /\ p.state # "Critical"
           /\ ~(p.state = "Warning" /\ c > MinCapacity)
           /\ p.state # "NormalQuiet"
           /\ ~RollbackDue(p, c)
  BY <1>2, <1>3, <1>9 DEF SampledAction, ChurnRelease, Hold, Passive, Reduction
<1> QED BY <1>5, <1>6, <1>7, <1>8, <1>9

-----------------------------------------------------------------------------
(* Capacity changes *)

\* validation_before_growth yields an extent or nothing.
LEMMA ValidationBeforeGrowthType ==
    ASSUME NEW p \in Policies, NEW new \in Extent
    PROVE  ValidationBeforeGrowth(p, new) \in {None} \union Extent
<1>1. /\ p.validated_in_request \in {None} \union Extent
      /\ p.capacity \in {None} \union Extent
      /\ None \in {None} \union Extent
  BY DEF Policies
<1> QED
  BY <1>1, GreatestExtent DEF ValidationBeforeGrowth

\* capacity_changed keeps the record sound at the new capacity; a release ends
\* the trial, growth opens or extends it.
LEMMA CapacityChangedSound ==
    ASSUME NEW p, NEW old, NEW new \in Extent, Sound(p, old),
           p.stop_latched => new = MinCapacity
    PROVE  /\ Sound(CapacityChanged(p, old, new), new)
           /\ CapacityChanged(p, old, new).workspace_phase = p.workspace_phase
<1> DEFINE trial == new > old /\ ~(p.earned_target # None /\ new <= p.earned_target)
           e == ClearCapacityValidation(p)
           valid == ValidationBeforeGrowth(p, new)
           adverse == IF new > old /\ p.trial_capacity = old
                      THEN p.trial_adverse_active ELSE 0
           increase == IF new > old THEN 0 ELSE e.last_increase
           release == IF new < old THEN 0 ELSE e.last_release
           base == IF new < old THEN None
                   ELSE IF trial /\ e.trial_base = None THEN old ELSE e.trial_base
           extent == IF new < old THEN None
                     ELSE IF trial THEN new ELSE e.trial_capacity
           h == [e EXCEPT !.capacity = new,
                          !.quiet_since = None,
                          !.validated_in_request = valid,
                          !.trial_adverse_active = adverse,
                          !.last_capacity_change = 0]
           k == [h EXCEPT !.last_increase = increase,
                          !.last_release = release,
                          !.trial_base = base,
                          !.trial_capacity = extent]
<1>1. p \in Policies /\ old \in Extent /\ p.capacity = old /\ Paired(p, old)
  BY DEF Sound
<1>2. Keeps(e, p)
  BY <1>1, ClearKeeps
<1>3. e \in Policies
  BY <1>2 DEF Keeps
<1>4. CapacityChanged(p, old, new) = k
  <2> HIDE DEF e
  <2>1. CapacityChanged(p, old, new) =
          [e EXCEPT !.capacity = new,
                    !.quiet_since = None,
                    !.validated_in_request = valid,
                    !.trial_adverse_active = adverse,
                    !.last_capacity_change = 0,
                    !.last_increase = IF new > old THEN 0 ELSE @,
                    !.last_release = IF new < old THEN 0 ELSE @,
                    !.trial_base = IF new < old THEN None
                                   ELSE IF trial /\ @ = None THEN old ELSE @,
                    !.trial_capacity = IF new < old THEN None
                                       ELSE IF trial THEN new ELSE @]
    BY DEF CapacityChanged, e
  <2> HIDE DEF valid, adverse, trial
  <2> QED
    BY <2>1, <1>3 DEF Policies
<1>5. /\ valid \in {None} \union Extent
      /\ adverse \in Credit
      /\ increase \in Age
      /\ release \in Age
      /\ base \in {None} \union Extent
      /\ extent \in {None} \union Extent
  <2>1. valid \in {None} \union Extent
    BY <1>1, ValidationBeforeGrowthType
  <2>2. adverse \in Credit
    BY <1>1, ResetValues DEF Policies
  <2> HIDE DEF e, valid, adverse
  <2> QED
    BY <1>1, <1>3, <2>1, <2>2, ResetValues DEF Policies
<1>6. Paired([trial_base |-> base, trial_capacity |-> extent], new)
  <2>1. e.trial_base = p.trial_base /\ e.trial_capacity = p.trial_capacity
    BY <1>2 DEF Keeps
  <2>2. old \in Nat /\ new \in Nat
    BY <1>1, CapacityAssumption DEF Extent
  <2>3. /\ p.trial_base \in {None} \union Extent
        /\ p.trial_capacity \in {None} \union Extent
    BY <1>1 DEF Policies
  <2>4. p.trial_base # None => p.trial_base \in Nat /\ p.trial_capacity \in Nat
    BY <1>1, <2>3, CapacityAssumption DEF Paired, Extent
  <2> HIDE DEF e
  <2>5. CASE new < old
    BY <2>5 DEF Paired
  <2>6. CASE new >= old /\ trial
    BY <1>1, <2>1, <2>2, <2>4, <2>6 DEF Paired, None
  <2>7. CASE new >= old /\ ~trial
    BY <1>1, <2>1, <2>2, <2>4, <2>7 DEF Paired, None
  <2> QED
    BY <2>2, <2>5, <2>6, <2>7
<1> HIDE DEF e, valid, adverse, increase, release, base, extent
<1>7. /\ h \in Policies
      /\ h.capacity = new
      /\ h.stop_latched = e.stop_latched
      /\ h.workspace_phase = e.workspace_phase
  BY <1>3, <1>5, ResetValues DEF Policies
<1> HIDE DEF h
<1>8. k \in Policies
  BY <1>5, <1>7 DEF Policies
<1>9. /\ k.capacity = h.capacity
      /\ k.trial_base = base
      /\ k.trial_capacity = extent
      /\ k.stop_latched = h.stop_latched
      /\ k.workspace_phase = h.workspace_phase
  BY <1>7 DEF Policies
<1>10. Paired(k, new)
  BY <1>6, <1>9 DEF Paired
<1> HIDE DEF k
<1> QED
  BY <1>2, <1>4, <1>7, <1>8, <1>9, <1>10 DEF Sound, Keeps

\* try_begin_workspace_phase opens the phase at the current extent.
LEMMA BeginPhaseSound ==
    ASSUME NEW p, NEW c, Sound(p, c)
    PROVE  /\ Sound(BeginPhase(p, c), c)
           /\ BeginPhase(p, c).workspace_phase.on
           /\ BeginPhase(p, c).stop_latched = p.stop_latched
<1> DEFINE phase == [on |-> TRUE, ordinary_capacity |-> c, released |-> FALSE]
           q == [p EXCEPT !.workspace_phase = phase]
<1>1. p \in Policies /\ c \in Extent /\ p.capacity = c
  BY DEF Sound
<1>2. BeginPhase(p, c) = q
  BY <1>1 DEF BeginPhase
<1>3. phase \in Phases /\ phase.on
  BY <1>1 DEF Phases
<1> HIDE DEF phase
<1>4. /\ q \in Policies
      /\ q.capacity = p.capacity
      /\ q.trial_base = p.trial_base
      /\ q.trial_capacity = p.trial_capacity
      /\ q.stop_latched = p.stop_latched
      /\ q.workspace_phase = phase
  BY <1>1, <1>3 DEF Policies
<1> HIDE DEF q
<1> QED
  BY <1>2, <1>3, <1>4 DEF Sound, Paired

\* sync_planned_workspace_capacity moves a pending trial to the new extent.
LEMMA SyncPlannedSound ==
    ASSUME NEW p, NEW c, NEW new \in Extent, Sound(p, c),
           p.stop_latched => new = MinCapacity
    PROVE  /\ Sound(SyncPlanned(p, new), new)
           /\ SyncPlanned(p, new).workspace_phase = p.workspace_phase
           /\ SyncPlanned(p, new).stop_latched = p.stop_latched
<1>1. p \in Policies /\ c \in Extent /\ p.capacity = c /\ Paired(p, c)
  BY DEF Sound
<1>2. CASE c = new
  BY <1>1, <1>2 DEF SyncPlanned
<1>3. CASE c # new
  <2> DEFINE trial == p.trial_capacity # None
             e == IF trial THEN ClearWorkspaceValidation(p) ELSE p
             base == IF trial /\ e.trial_base # None THEN Least(e.trial_base, new)
                     ELSE e.trial_base
             extent == IF trial THEN new ELSE e.trial_capacity
             k == [e EXCEPT !.trial_base = base,
                            !.trial_capacity = extent,
                            !.capacity = new,
                            !.quiet_since = None,
                            !.last_capacity_change = 0,
                            !.last_sample_active = FALSE,
                            !.last_sample_trial_active = FALSE]
  <2>1. Keeps(e, p)
    BY <1>1, ClearWorkspaceKeeps DEF Keeps
  <2>2. e \in Policies /\ e.trial_base = p.trial_base /\ e.trial_capacity = p.trial_capacity
    BY <2>1 DEF Keeps
  <2>3. SyncPlanned(p, new) = k
    <3> HIDE DEF e
    <3>1. SyncPlanned(p, new) =
            [e EXCEPT !.trial_base = IF trial /\ @ # None THEN Least(@, new) ELSE @,
                      !.trial_capacity = IF trial THEN new ELSE @,
                      !.capacity = new,
                      !.quiet_since = None,
                      !.last_capacity_change = 0,
                      !.last_sample_active = FALSE,
                      !.last_sample_trial_active = FALSE]
      BY <1>1, <1>3 DEF SyncPlanned, e
    <3> HIDE DEF trial
    <3> QED
      BY <3>1, <2>2 DEF Policies
  <2> HIDE DEF e
  <2>4. new \in Nat /\ (p.trial_base # None => p.trial_base \in Nat)
    BY <1>1, CapacityAssumption DEF Policies, Extent
  <2>5. /\ base \in {None} \union Extent
        /\ extent \in {None} \union Extent
    <3>1. p.trial_base \in {None} \union Extent /\ p.trial_capacity \in {None} \union Extent
      BY <1>1 DEF Policies
    <3> QED
      BY <2>2, <2>4, <3>1 DEF Least
  <2>6. Paired([trial_base |-> base, trial_capacity |-> extent], new)
    <3>1. CASE ~trial
      BY <1>1, <2>2, <3>1 DEF Paired
    <3>2. CASE trial
      BY <1>1, <2>2, <2>4, <3>2 DEF Paired, None, Least
    <3> QED BY <3>1, <3>2
  <2> HIDE DEF base, extent
  <2>7. k \in Policies
    BY <2>2, <2>5, ResetValues DEF Policies
  <2>8. /\ k.capacity = new
        /\ k.trial_base = base
        /\ k.trial_capacity = extent
        /\ k.stop_latched = e.stop_latched
        /\ k.workspace_phase = e.workspace_phase
    BY <2>2 DEF Policies
  <2>9. Paired(k, new)
    BY <2>6, <2>8 DEF Paired
  <2> HIDE DEF k
  <2> QED
    BY <2>1, <2>3, <2>7, <2>8, <2>9 DEF Sound, Keeps
<1> QED BY <1>2, <1>3

\* release_capacity
LEMMA ReleasedSound ==
    ASSUME NEW p, NEW c, NEW a, Sound(p, c), Reduction(a, c)
    PROVE  /\ Sound(Released(p, c, a), a.target)
           /\ Released(p, c, a).workspace_phase.on = p.workspace_phase.on
<1> DEFINE q == [p EXCEPT !.workspace_phase.released = p.workspace_phase.on]
           r == CASE a.kind = "Rollback"     -> InterruptedWork(q, FALSE)
                  [] a.kind = "ChurnRelease" -> InterruptedWork(q, TRUE)
                  [] OTHER                   -> q
<1>1. p \in Policies /\ c \in Extent /\ p.capacity = c
  BY DEF Sound
<1>2. q \in Policies
  <2>1. p.workspace_phase \in Phases
    BY <1>1 DEF Policies
  <2>2. [p.workspace_phase EXCEPT !.released = p.workspace_phase.on] \in Phases
    BY <2>1 DEF Phases
  <2> QED
    BY <1>1, <2>2 DEF Policies
<1>3. /\ q.capacity = p.capacity
      /\ q.trial_base = p.trial_base
      /\ q.trial_capacity = p.trial_capacity
      /\ q.stop_latched = p.stop_latched
      /\ q.workspace_phase.on = p.workspace_phase.on
  <2>1. p.workspace_phase \in Phases
    BY <1>1 DEF Policies
  <2> QED
    BY <1>1, <2>1 DEF Policies, Phases
<1> HIDE DEF q
<1>4. Sound(q, c)
  BY <1>2, <1>3 DEF Sound, Paired
<1>5. Sound(r, c) /\ r.workspace_phase = q.workspace_phase
  <2>1. CASE r = q
    BY <1>4, <2>1
  <2>2. CASE r = InterruptedWork(q, FALSE) \/ r = InterruptedWork(q, TRUE)
    BY <1>2, <1>4, <2>2, InterruptedFields DEF Sound, Paired
  <2> QED BY <2>1, <2>2
<1> HIDE DEF r
<1>6. r.stop_latched => a.target = MinCapacity
  BY <1>5, CapacityAssumption DEF Sound, Reduction, Extent
<1>7. Released(p, c, a) = CapacityChanged(r, c, a.target)
  BY DEF Released, r, q
<1> QED
  BY <1>3, <1>5, <1>6, <1>7, CapacityChangedSound DEF Reduction

-----------------------------------------------------------------------------
(* check_boundary *)

\* The record an observation leaves is sound, and the chosen action fits it.
LEMMA ObservedSound ==
    ASSUME NEW p, NEW c, NEW b \in Boundaries, NEW obs \in Observations, Sound(p, c)
    PROVE  LET seen == Observed(p, c, b, obs) IN
           /\ Sound(seen.policy, c)
           /\ seen.policy.workspace_phase = p.workspace_phase
           /\ \/ Passive(seen.action)
              \/ Reduction(seen.action, c)
              \/ Growth(seen.action, seen.policy, c)
<1>1. p \in Policies /\ c \in Extent
  BY DEF Sound
<1>2. CASE SampleDue(p)
  <2> DEFINE s == Sample(p, c, b, obs)
             l == LatchCritical(s, c)
             a == SampledAction(s, c)
  <2>1. Observed(p, c, b, obs) = [policy |-> l, action |-> a]
    BY <1>2 DEF Observed
  <2>2. /\ s \in Policies
        /\ s.capacity = c
        /\ s.workspace_phase = p.workspace_phase
        /\ s.stop_latched => p.stop_latched
        /\ \/ s.trial_base = p.trial_base /\ s.trial_capacity = p.trial_capacity
           \/ s.trial_base = None /\ s.trial_capacity = None
    BY <1>1, SampleFields
  <2> HIDE DEF s
  <2>3. Sound(s, c)
    BY <2>2 DEF Sound, Paired
  <2>4. Sound(l, c) /\ l.workspace_phase = p.workspace_phase
    BY <2>2, <2>3, LatchSound
  <2>5. Passive(a) \/ Reduction(a, c) \/ Growth(a, s, c)
    BY <1>1, <2>2, SampledActionType
  <2>6. Growth(a, s, c) => Growth(a, l, c)
    BY DEF Growth, LatchCritical
  <2> HIDE DEF l, a
  <2> QED
    BY <2>1, <2>4, <2>5, <2>6
<1>3. CASE ~SampleDue(p)
  <2> DEFINE a == CachedAction(p, c)
  <2>1. Observed(p, c, b, obs) = [policy |-> p, action |-> a]
    BY <1>3 DEF Observed
  <2>2. Passive(a) \/ Growth(a, p, c)
    BY <1>1, CachedActionType
  <2> HIDE DEF a
  <2> QED
    BY <2>1, <2>2
<1> QED BY <1>2, <1>3

\* apply_observation: whatever the engine answers, record and capacity agree.
LEMMA AppliedSound ==
    ASSUME NEW p, NEW c, NEW a, NEW ok \in BOOLEAN, Sound(p, c),
           Passive(a) \/ Reduction(a, c) \/ Growth(a, p, c)
    PROVE  LET r == Applied(p, c, a, ok) IN
           /\ Sound(r.policy, r.capacity)
           /\ r.error \in BOOLEAN
           /\ r.policy.workspace_phase.on = p.workspace_phase.on
           /\ p.workspace_phase.on => r.capacity <= c
<1>1. p \in Policies /\ c \in Extent /\ c <= c
  BY CapacityAssumption DEF Sound, Extent
<1>2. CASE Passive(a)
  <2>1. CASE a.kind = "Hold"
    BY <1>1, <2>1 DEF Applied
  <2>2. CASE a.kind = "Stop"
    BY <1>1, <2>2 DEF Applied
  <2> QED BY <1>2, <2>1, <2>2 DEF Passive
<1>3. CASE Reduction(a, c)
  <2>1. Applied(p, c, a, ok) =
          IF ok THEN [policy |-> Released(p, c, a), capacity |-> a.target, error |-> FALSE]
                ELSE [policy |-> p, capacity |-> c, error |-> TRUE]
    BY <1>3 DEF Applied, Reduction
  <2>2. /\ Sound(Released(p, c, a), a.target)
        /\ Released(p, c, a).workspace_phase.on = p.workspace_phase.on
        /\ a.target <= c
    BY <1>3, ReleasedSound DEF Reduction
  <2> QED
    BY <1>1, <2>1, <2>2
<1>4. CASE Growth(a, p, c)
  <2> DEFINE grown == CapacityChanged(p, c, a.target)
  <2>1. Applied(p, c, a, ok) =
          IF ok THEN [policy |-> grown, capacity |-> a.target, error |-> FALSE]
                ELSE [policy |-> RecoveryFailed(p), capacity |-> c, error |-> FALSE]
    BY <1>4 DEF Applied, Growth
  <2>2. Sound(grown, a.target) /\ grown.workspace_phase = p.workspace_phase
    BY <1>4, CapacityChangedSound DEF Growth
  <2>3. Sound(RecoveryFailed(p), c) /\ RecoveryFailed(p).workspace_phase = p.workspace_phase
    <3>1. Keeps(RecoveryFailed(p), p)
      BY <1>1, RecoveryFailedKeeps
    <3>2. Sound(RecoveryFailed(p), c)
      BY <3>1, KeepsSound
    <3> QED BY <3>1, <3>2 DEF Keeps
  <2>4. ~p.workspace_phase.on
    BY <1>4 DEF Growth
  <2> HIDE DEF grown
  <2> QED
    BY <1>1, <2>1, <2>2, <2>3, <2>4
<1> QED BY <1>2, <1>3, <1>4

\* check_boundary keeps the record sound at the capacity the engine then has.
LEMMA CheckBoundarySound ==
    ASSUME Sound(policy, expert_capacity), NEW b \in Boundaries,
           NEW obs \in Inputs, NEW ok \in Outcomes
    PROVE  LET r == CheckBoundary(b, obs, ok) IN
           /\ Sound(r.policy, r.capacity)
           /\ r.error \in BOOLEAN
           /\ r.policy.workspace_phase.on = policy.workspace_phase.on
           /\ policy.workspace_phase.on => r.capacity <= expert_capacity
<1> DEFINE seen == Observed(policy, expert_capacity, b, obs)
<1>1. obs \in Observations /\ ok \in BOOLEAN
  BY ServingAssumption
<1>2. /\ Sound(seen.policy, expert_capacity)
      /\ seen.policy.workspace_phase = policy.workspace_phase
      /\ \/ Passive(seen.action)
         \/ Reduction(seen.action, expert_capacity)
         \/ Growth(seen.action, seen.policy, expert_capacity)
  BY <1>1, ObservedSound
<1>3. CheckBoundary(b, obs, ok) = Applied(seen.policy, expert_capacity, seen.action, ok)
  BY DEF CheckBoundary
<1> HIDE DEF seen
<1> QED
  BY <1>1, <1>2, <1>3, AppliedSound

-----------------------------------------------------------------------------
(* The workspace owner *)

\* The planned release leaves a sound record at the capacity really reached.
LEMMA YieldedSound ==
    ASSUME NEW p, NEW fault, NEW target \in Extent, Sound(p, expert_capacity),
           ~p.stop_latched, target <= expert_capacity
    PROVE  LET r == Yielded(p, target, fault) IN
           /\ Sound(r.policy, r.capacity)
           /\ r.policy.workspace_phase = p.workspace_phase
<1> DEFINE aligned == AlignDown(target)
           shrunk == SyncPlanned(p, aligned)
           regrown == SyncPlanned(shrunk, target)
<1>1. aligned \in Extent
  BY AlignDownExtent
<1>2. /\ Sound(shrunk, aligned)
      /\ shrunk.workspace_phase = p.workspace_phase
      /\ ~shrunk.stop_latched
  BY <1>1, SyncPlannedSound
<1>3. /\ Sound(regrown, target)
      /\ regrown.workspace_phase = p.workspace_phase
  <2> HIDE DEF shrunk
  <2> QED BY <1>1, <1>2, SyncPlannedSound
<1>4. \/ Yielded(p, target, fault) = [policy |-> p, capacity |-> expert_capacity]
      \/ Yielded(p, target, fault) = [policy |-> shrunk, capacity |-> aligned]
      \/ Yielded(p, target, fault) = [policy |-> regrown, capacity |-> target]
  BY DEF Yielded
<1> HIDE DEF aligned, shrunk, regrown
<1> QED
  BY <1>2, <1>3, <1>4

\* finish_workspace_phase of the controller.
LEMMA RestoredSound ==
    ASSUME NEW p, NEW ok, Sound(p, expert_capacity)
    PROVE  LET r == Restored(p, ok) IN Sound(r.policy, r.capacity)
<1> DEFINE home == p.workspace_phase.ordinary_capacity
           q == SyncPlanned(p, expert_capacity)
<1>1. p \in Policies /\ expert_capacity \in Extent /\ p.capacity = expert_capacity
  BY DEF Sound
<1>2. q = p
  BY <1>1 DEF SyncPlanned
<1>3. home \in Extent
  BY <1>1 DEF Policies, Phases
<1>4. RestorationAllowed(p) => Sound(SyncPlanned(p, home), home)
  BY <1>3, SyncPlannedSound DEF RestorationAllowed
<1>5. Sound(RecoveryFailed(p), expert_capacity)
  BY <1>1, RecoveryFailedKeeps, KeepsSound
<1>6. \/ Restored(p, ok) = [policy |-> p, capacity |-> expert_capacity]
      \/ /\ RestorationAllowed(p)
         /\ Restored(p, ok) = [policy |-> SyncPlanned(p, home), capacity |-> home]
      \/ Restored(p, ok) = [policy |-> RecoveryFailed(p), capacity |-> expert_capacity]
  BY <1>2 DEF Restored
<1> HIDE DEF home, q
<1> QED
  BY <1>4, <1>5, <1>6

-----------------------------------------------------------------------------
(* The inductive invariant *)

\* Controller::new starts from a sound state.
LEMMA InitSound == Init => IndInv
<1> SUFFICES ASSUME Init PROVE IndInv
  OBVIOUS
<1>1. NewPolicy \in Policies
  <2>1. /\ InitialCapacity \in Extent
        /\ RecoveryCooldown \in 0 .. RetryLimit /\ 0 \in 0 .. RetryLimit
        /\ "None" \in States
    BY TimeAssumption, CapacityAssumption DEF Extent, States
  <2> QED
    BY <2>1, ResetValues DEF NewPolicy, Policies
<1>2. Sound(policy, expert_capacity)
  BY <1>1, CapacityAssumption DEF Init, Sound, Paired, NewPolicy, Extent
<1>3. OwnerSound
  BY DEF Init, OwnerSound, PhaseOwned, NewPolicy, NoPhase, Stages, FinishSteps
<1> QED
  BY <1>2, <1>3 DEF IndInv

\* Every poll keeps the invariant, and none grows the pools inside a phase.
LEMMA PollSound ==
    ASSUME IndInv, NEW obs \in Inputs, NEW ok \in Outcomes,
           \/ IdlePoll(obs, ok)
           \/ AdmitRequest(obs, ok)
           \/ CompletedOperation(obs, ok)
           \/ FinishPoll(obs, ok)
    PROVE  /\ IndInv'
           /\ policy.workspace_phase.on => expert_capacity' <= expert_capacity
<1>1. Sound(policy, expert_capacity) /\ OwnerSound
  BY DEF IndInv
<1>2. \A b \in Boundaries :
        LET r == CheckBoundary(b, obs, ok) IN
        /\ Sound(r.policy, r.capacity)
        /\ r.error \in BOOLEAN
        /\ r.policy.workspace_phase.on = policy.workspace_phase.on
        /\ policy.workspace_phase.on => r.capacity <= expert_capacity
  BY <1>1, CheckBoundarySound
<1>3. CASE IdlePoll(obs, ok)
  BY <1>1, <1>2, <1>3
  DEF IdlePoll, Boundaries, IndInv, OwnerSound, PhaseOwned, Sound, Paired
<1>4. CASE AdmitRequest(obs, ok)
  BY <1>1, <1>2, <1>4
  DEF AdmitRequest, Boundaries, IndInv, OwnerSound, PhaseOwned, Stages, Sound, Paired
<1>5. CASE CompletedOperation(obs, ok)
  BY <1>1, <1>2, <1>5
  DEF CompletedOperation, Boundaries, IndInv, OwnerSound, PhaseOwned, Stages,
      FinishSteps, Sound, Paired
<1>6. CASE FinishPoll(obs, ok)
  BY <1>1, <1>2, <1>6
  DEF FinishPoll, FinishFails, Boundaries, IndInv, OwnerSound, PhaseOwned, Stages,
      FinishSteps, Sound, Paired
<1> QED BY <1>3, <1>4, <1>5, <1>6

\* Time, and the owner's steps that do not touch the controller.
LEMMA QuietStepSound ==
    ASSUME IndInv,
           \/ Tick
           \/ BeginRequest
           \/ EnterOrdinary
           \/ EnterDecode
           \/ EndRequest
           \/ \E ok \in BOOLEAN : Prepared(ok) \/ CloseRequest(ok) \/ ReplaceScratch(ok)
    PROVE  IndInv' /\ expert_capacity' = expert_capacity
<1>1. Sound(policy, expert_capacity) /\ OwnerSound /\ policy \in Policies
  BY DEF IndInv, Sound
<1>2. ASSUME NEW q, Sound(q, expert_capacity), policy' = q,
             expert_capacity' = expert_capacity
      PROVE  Sound(policy, expert_capacity)'
  BY <1>2 DEF Sound, Paired
<1>3. CASE Tick
  <2>1. Keeps(PolicyLater(policy), policy)
    BY <1>1, LaterKeeps
  <2>2. Sound(policy, expert_capacity)'
    BY <1>1, <1>2, <1>3, <2>1, KeepsSound DEF Tick
  <2> QED
    BY <1>1, <1>3, <2>1, <2>2 DEF Tick, IndInv, OwnerSound, PhaseOwned, Keeps
<1>4. CASE BeginRequest
  <2>1. Keeps(PolicyBeginRequest(policy), policy)
    BY <1>1, BeginRequestKeeps
  <2>2. Sound(policy, expert_capacity)'
    BY <1>1, <1>2, <1>4, <2>1, KeepsSound DEF BeginRequest
  <2> QED
    BY <1>1, <1>4, <2>1, <2>2
    DEF BeginRequest, IndInv, OwnerSound, PhaseOwned, Keeps, Stages, FinishSteps
<1>5. CASE EnterOrdinary
  BY <1>1, <1>5
  DEF EnterOrdinary, IndInv, Sound, Paired, OwnerSound, PhaseOwned, Stages
<1>6. CASE EnterDecode
  BY <1>1, <1>6
  DEF EnterDecode, IndInv, Sound, Paired, OwnerSound, PhaseOwned, FinishSteps
<1>7. CASE EndRequest
  <2>1. /\ Sound(PolicyEndRequest(policy, ~doomed), expert_capacity)
        /\ PolicyEndRequest(policy, ~doomed).workspace_phase = policy.workspace_phase
    BY <1>1, EndRequestSound
  <2>2. Sound(policy, expert_capacity)'
    BY <1>2, <1>7, <2>1 DEF EndRequest
  <2> QED
    BY <1>1, <1>7, <2>1, <2>2
    DEF EndRequest, IndInv, OwnerSound, PhaseOwned, Stages
<1>8. ASSUME NEW ok \in BOOLEAN, Prepared(ok)
      PROVE  IndInv' /\ expert_capacity' = expert_capacity
  BY <1>1, <1>8 DEF Prepared, IndInv, Sound, Paired, OwnerSound, PhaseOwned, Stages
<1>9. ASSUME NEW ok \in BOOLEAN, CloseRequest(ok)
      PROVE  IndInv' /\ expert_capacity' = expert_capacity
  BY <1>1, <1>9
  DEF CloseRequest, IndInv, Sound, Paired, OwnerSound, PhaseOwned, Stages, FinishSteps
<1>10. ASSUME NEW ok \in BOOLEAN, ReplaceScratch(ok)
       PROVE  IndInv' /\ expert_capacity' = expert_capacity
  BY <1>1, <1>10
  DEF ReplaceScratch, FinishFails, IndInv, Sound, Paired, OwnerSound, PhaseOwned,
      Stages, FinishSteps
<1> QED BY <1>3, <1>4, <1>5, <1>6, <1>7, <1>8, <1>9, <1>10

\* Opening a phase: the controller has not refused, so no stop is latched.
LEMMA EnterWideSound ==
    ASSUME IndInv, NEW fault, EnterWide(fault)
    PROVE  IndInv' /\ ~policy.workspace_phase.on
<1> DEFINE target == Least(expert_capacity, WideCapacity)
           p == BeginPhase(policy, expert_capacity)
           r == Yielded(p, target, fault)
<1>1. /\ Sound(policy, expert_capacity) /\ OwnerSound
      /\ expert_capacity \in Extent
      /\ ~policy.stop_latched
  BY DEF IndInv, Sound, EnterWide, PhaseRefused
<1>2. Sound(p, expert_capacity) /\ p.workspace_phase.on /\ ~p.stop_latched
  BY <1>1, BeginPhaseSound
<1>3. target \in Extent /\ target <= expert_capacity
  BY <1>1, ServingAssumption, CapacityAssumption DEF Least, Extent
<1> HIDE DEF p, target
<1>4. Sound(r.policy, r.capacity) /\ r.policy.workspace_phase = p.workspace_phase
  BY <1>2, <1>3, YieldedSound
<1>5. policy' = r.policy /\ expert_capacity' = r.capacity
  BY DEF EnterWide, r, p, target
<1> HIDE DEF r
<1>6. Sound(policy, expert_capacity)'
  BY <1>4, <1>5 DEF Sound, Paired
<1>7. policy'.workspace_phase.on
  BY <1>2, <1>4, <1>5
<1>8. OwnerSound'
  BY <1>1, <1>7 DEF EnterWide, OwnerSound, PhaseOwned, Stages, FinishSteps
<1> QED
  BY <1>1, <1>6, <1>8 DEF IndInv, EnterWide, OwnerSound, PhaseOwned

\* Closing a phase.
LEMMA FinishSound ==
    ASSUME IndInv, NEW ok, FinishWorkspacePhase(ok)
    PROVE  IndInv' /\ ~policy'.workspace_phase.on
<1> DEFINE r == Restored(policy, ok)
<1>1. Sound(policy, expert_capacity) /\ OwnerSound
  BY DEF IndInv
<1>2. Sound(r.policy, r.capacity)
  BY <1>1, RestoredSound
<1>3. policy' = FinishPhase(r.policy) /\ expert_capacity' = r.capacity
  BY DEF FinishWorkspacePhase
<1> HIDE DEF r
<1>4. /\ Sound(FinishPhase(r.policy), r.capacity)
      /\ ~FinishPhase(r.policy).workspace_phase.on
  BY <1>2, FinishPhaseFields
<1>5. Sound(policy, expert_capacity)' /\ ~policy'.workspace_phase.on
  BY <1>3, <1>4 DEF Sound, Paired
<1>6. OwnerSound'
  BY <1>1, <1>5
  DEF FinishWorkspacePhase, OwnerSound, PhaseOwned, Stages, FinishSteps
<1> QED
  BY <1>5, <1>6 DEF IndInv

\* Every step keeps the invariant, and none grows the pools inside a phase.
LEMMA StepSound ==
    ASSUME IndInv, [Next]_vars
    PROVE  /\ IndInv'
           /\ policy.workspace_phase.on /\ policy'.workspace_phase.on
                => expert_capacity' <= expert_capacity
<1>1. expert_capacity <= expert_capacity
  BY CapacityAssumption DEF IndInv, Sound, Extent
<1>2. CASE UNCHANGED vars
  BY <1>1, <1>2 DEF vars, IndInv, Sound, Paired, OwnerSound, PhaseOwned
<1>3. CASE PollStep
  BY <1>3, PollSound DEF PollStep
<1>4. CASE Tick
  BY <1>1, <1>4, QuietStepSound
<1>5. CASE OwnerStep
  <2>1. \A ok \in Outcomes : ok \in BOOLEAN
    BY ServingAssumption
  <2>2. CASE BeginRequest \/ EnterOrdinary \/ EnterDecode \/ EndRequest
    BY <1>1, <2>2, QuietStepSound
  <2>3. ASSUME NEW ok \in Outcomes,
               Prepared(ok) \/ CloseRequest(ok) \/ ReplaceScratch(ok)
        PROVE  IndInv' /\ expert_capacity' = expert_capacity
    BY <2>1, <2>3, QuietStepSound
  <2>4. ASSUME NEW ok \in Outcomes, FinishWorkspacePhase(ok)
        PROVE  IndInv' /\ ~policy'.workspace_phase.on
    BY <2>4, FinishSound
  <2>5. ASSUME NEW fault, EnterWide(fault)
        PROVE  IndInv' /\ ~policy.workspace_phase.on
    BY <2>5, EnterWideSound
  <2> QED
    BY <1>1, <1>5, <2>2, <2>3, <2>4, <2>5 DEF OwnerStep
<1> QED BY <1>2, <1>3, <1>4, <1>5 DEF Next

-----------------------------------------------------------------------------
(* Theorems *)

\* The inductive invariant holds in every reachable state.
THEOREM Invariance == Spec => []IndInv
<1>1. Init => IndInv
  BY InitSound
<1>2. IndInv /\ [Next]_vars => IndInv'
  BY StepSound
<1> QED
  BY <1>1, <1>2, PTL DEF Spec

\* Every field of the controller keeps its type: no capacity leaves the range
\* between the expert floor and the operating ceiling, no credit or delay
\* leaves its cap (Policy, Controller, PhasedPrefill).
THEOREM TypeCorrect == Spec => []TypeOK
<1>1. IndInv => TypeOK
  BY DEF IndInv, Sound, OwnerSound, TypeOK
<1> QED
  BY <1>1, Invariance, PTL

\* A pending trial is always whole and never exceeds the storage held
\* (observe, capacity_changed, sync_planned_workspace_capacity, end_request).
THEOREM TrialsWellFormed == Spec => []TrialWellFormed
<1>1. IndInv => TrialWellFormed
  BY DEF IndInv, Sound, Paired, TrialWellFormed
<1> QED
  BY <1>1, Invariance, PTL

\* The controller and the engine agree on the capacity on every path, failed
\* resizes and repairs included (check_boundary, transition, finish).
THEOREM CapacitiesAgree == Spec => []CapacityAgreed
<1>1. IndInv => CapacityAgreed
  BY DEF IndInv, Sound, CapacityAgreed
<1> QED
  BY <1>1, Invariance, PTL

\* Generation is stopped only at the expert floor (critical_at_floor,
\* stop_latched).
THEOREM StopsOnlyAtFloor == Spec => []StopAtFloor
<1>1. IndInv => StopAtFloor
  BY DEF IndInv, Sound, StopAtFloor
<1> QED
  BY <1>1, Invariance, PTL

\* The phase of the policy and its owner never come apart, and scratch other
\* than the ordinary one never outlives the phase (transition, finish).
THEOREM PhasesOwned == Spec => []PhaseOwned
<1>1. IndInv => PhaseOwned
  BY DEF IndInv, OwnerSound
<1> QED
  BY <1>1, Invariance, PTL

\* Inside a workspace phase the pools never grow (growth_eligibility,
\* cached_action, finish_workspace_phase).
THEOREM PhasesFreezeGrowth == Spec => FrozenInPhase
<1> DEFINE Frozen == policy.workspace_phase.on /\ policy'.workspace_phase.on
                        => expert_capacity' <= expert_capacity
<1>1. IndInv /\ [Next]_vars => [Frozen]_vars
  BY StepSound
<1> QED
  BY <1>1, Invariance, PTL DEF Spec, FrozenInPhase

\* A server without request workspace phases takes only the ordinary steps:
\* nothing opens a phase, so nothing is left to finish (transition, finish).
THEOREM UnphasedIsOrdinary ==
    ASSUME ~Phased
    PROVE  Spec => [][OrdinaryNext]_vars
<1> DEFINE NoFinish == ~active /\ finishing = "no"
<1>1. Init => NoFinish
  BY DEF Init
<1>2. NoFinish /\ [Next]_vars => NoFinish' /\ [OrdinaryNext]_vars
  <2> SUFFICES ASSUME NoFinish, [Next]_vars
               PROVE  NoFinish' /\ [OrdinaryNext]_vars
    OBVIOUS
  <2>1. CASE UNCHANGED vars
    BY <2>1 DEF vars
  <2>2. CASE Tick
    BY <2>2 DEF Tick, OrdinaryNext
  <2>3. CASE PollStep
    <3>1. PICK obs \in Inputs, ok \in Outcomes :
             \/ IdlePoll(obs, ok)
             \/ AdmitRequest(obs, ok)
             \/ CompletedOperation(obs, ok)
             \/ FinishPoll(obs, ok)
      BY <2>3 DEF PollStep
    <3>2. CASE IdlePoll(obs, ok)
      <4>1. NoFinish'
        BY <3>2 DEF IdlePoll
      <4>2. OrdinaryNext
        BY <3>2 DEF OrdinaryNext
      <4> QED
        BY <4>1, <4>2
    <3>3. CASE AdmitRequest(obs, ok)
      <4>1. NoFinish'
        BY <3>3 DEF AdmitRequest
      <4>2. OrdinaryNext
        BY <3>3 DEF OrdinaryNext
      <4> QED
        BY <4>1, <4>2
    <3>4. CASE CompletedOperation(obs, ok)
      <4>1. NoFinish'
        BY <3>4 DEF CompletedOperation
      <4>2. OrdinaryNext
        BY <3>4 DEF OrdinaryNext
      <4> QED
        BY <4>1, <4>2
    <3>5. CASE FinishPoll(obs, ok)
      BY <3>5 DEF FinishPoll
    <3> QED
      BY <3>1, <3>2, <3>3, <3>4, <3>5
  <2>4. CASE OwnerStep
    <3>1. CASE BeginRequest
      BY <3>1 DEF BeginRequest, OrdinaryNext
    <3>2. CASE EnterOrdinary
      BY <3>2 DEF EnterOrdinary, OrdinaryNext
    <3>3. CASE EnterDecode
      BY <3>3 DEF EnterDecode
    <3>4. CASE EndRequest
      BY <3>4 DEF EndRequest, OrdinaryNext
    <3>5. ASSUME NEW ok \in Outcomes, Prepared(ok)
          PROVE  NoFinish' /\ OrdinaryNext
      BY <3>5 DEF Prepared, OrdinaryNext
    <3>6. ASSUME NEW ok \in Outcomes, CloseRequest(ok)
          PROVE  NoFinish' /\ OrdinaryNext
      BY <3>6 DEF CloseRequest, OrdinaryNext
    <3>7. ASSUME NEW ok \in Outcomes, ReplaceScratch(ok) \/ FinishWorkspacePhase(ok)
          PROVE  FALSE
      BY <3>7 DEF ReplaceScratch, FinishWorkspacePhase
    <3>8. ASSUME NEW fault, EnterWide(fault)
          PROVE  FALSE
      BY <3>8 DEF EnterWide
    <3> QED
      BY <2>4, <3>1, <3>2, <3>3, <3>4, <3>5, <3>6, <3>7, <3>8 DEF OwnerStep
  <2> QED
    BY <2>1, <2>2, <2>3, <2>4 DEF Next
<1> QED
  BY <1>1, <1>2, PTL DEF Spec

-----------------------------------------------------------------------------
(* What the operations do to the fields the next two invariants speak of.   *)

\* capacity_changed
LEMMA CapacityChangedFields ==
    ASSUME NEW p \in Policies, NEW old, NEW new
    PROVE  LET q == CapacityChanged(p, old, new)
               trial == new > old /\ ~(p.earned_target # None /\ new <= p.earned_target)
           IN
           /\ q.capacity = new
           /\ q.earned_target = p.earned_target
           /\ q.validated_in_request = ValidationBeforeGrowth(p, new)
           /\ q.trial_adverse_active = IF new > old /\ p.trial_capacity = old
                                       THEN p.trial_adverse_active ELSE 0
           /\ q.trial_base = IF new < old THEN None
                             ELSE IF trial /\ p.trial_base = None THEN old ELSE p.trial_base
           /\ q.trial_capacity = IF new < old THEN None
                                 ELSE IF trial THEN new ELSE p.trial_capacity
           /\ q.request_clean_active = 0
           /\ q.completed_clean_active = 0
           /\ ~q.last_sample_active
           /\ q.request_started = p.request_started
           /\ q.last_sample = p.last_sample
           /\ q.workspace_phase = p.workspace_phase
           /\ q.state = p.state
BY DEF CapacityChanged, ClearCapacityValidation, Policies

\* interrupted_work ends the trial and drops the credit.
LEMMA InterruptedMore ==
    ASSUME NEW w \in Policies, NEW p, DOMAIN p = DOMAIN w, NEW always \in BOOLEAN
    PROVE  LET q == InterruptedWork(p, always) IN
           /\ DOMAIN q = DOMAIN p
           /\ q.earned_target = p.earned_target
           /\ q.trial_base = None /\ q.trial_capacity = None
           /\ q.validated_in_request = None
           /\ q.request_clean_active = 0
           /\ q.completed_clean_active = 0
           /\ ~q.last_sample_active
           /\ q.request_started = p.request_started
           /\ q.last_sample = p.last_sample
           /\ q.state = p.state
BY DEF InterruptedWork, ClearCapacityValidation, DoubleRetryDelay, Policies

\* sync_planned_workspace_capacity at another capacity.
LEMMA SyncFields ==
    ASSUME NEW p \in Policies, NEW new, p.capacity # new
    PROVE  LET q == SyncPlanned(p, new) IN
           /\ q.capacity = new
           /\ q.earned_target = p.earned_target
           /\ q.validated_in_request \in {None, p.validated_in_request}
           /\ q.request_clean_active \in {0, p.request_clean_active}
           /\ q.completed_clean_active \in {0, p.completed_clean_active}
           /\ ~q.last_sample_active
           /\ q.request_started = p.request_started
           /\ q.last_sample = p.last_sample
           /\ q.workspace_phase = p.workspace_phase
BY DEF SyncPlanned, ClearWorkspaceValidation, ClearCapacityValidation, Policies

\* observe, up to the choice of the action: an entry into pressure interrupts the
\* work; any other sample leaves the trial and charges the credits.
LEMMA SampleMore ==
    ASSUME NEW p \in Policies, NEW c, NEW b, NEW obs
    PROVE  LET s == Sample(p, c, b, obs)
               state == Classify(p, obs)
               entered == state \in UnderPressure /\ p.state \notin UnderPressure
           IN
           /\ s.state = state
           /\ s.last_sample = 0
           /\ s.earned_target = p.earned_target
           /\ s.request_started = p.request_started
           /\ entered => /\ s.trial_base = None /\ s.trial_capacity = None
                         /\ s.request_clean_active = 0
                         /\ s.completed_clean_active = 0
                         /\ s.validated_in_request = None
                         /\ ~s.last_sample_active
           /\ ~entered => /\ s.trial_base = p.trial_base
                          /\ s.trial_capacity = p.trial_capacity
                          /\ s.trial_adverse_active = AdverseCredit(p, c, b, obs)
                          /\ s.request_clean_active = CleanCredit(p, c, obs)
                          /\ s.completed_clean_active = p.completed_clean_active
                          /\ s.validated_in_request = p.validated_in_request
                          /\ s.last_sample_active = (state = "NormalQuiet" /\ RequestActive(p, c))
<1> DEFINE state == Classify(p, obs)
           entered == state \in UnderPressure /\ p.state \notin UnderPressure
           churn == ChurnCredit(p, b, obs)
           adverse == AdverseCredit(p, c, b, obs)
           clean == CleanCredit(p, c, obs)
           healthy == PreparationCredit(p, obs)
           op == b = "CompletedOperation" /\ p.request_started # None
           trial == TrialActive(p, b)
           sampled == state = "NormalQuiet" /\ RequestActive(p, c)
           k == [p EXCEPT
                   !.capacity = c,
                   !.active_churn = churn,
                   !.last_churn_sample_active = op,
                   !.trial_adverse_active = adverse,
                   !.last_sample_trial_active = trial,
                   !.quiet_since = IF state # "NormalQuiet" THEN None
                                   ELSE IF @ = None THEN 0 ELSE @,
                   !.request_clean_active = clean,
                   !.last_sample_active = sampled,
                   !.preparation_healthy = healthy,
                   !.last_sample = 0,
                   !.previous_counters = obs.vm # "missing"]
           i == IF entered THEN InterruptedWork(k, FALSE) ELSE k
<1>1. Sample(p, c, b, obs) = [i EXCEPT !.state = state,
                                       !.critical_at_floor = @ /\ state = "Critical",
                                       !.stop_latched = @ /\ state = "Critical"]
  BY DEF Sample
<1> HIDE DEF state, entered, churn, adverse, clean, healthy, op, trial, sampled, i
<1>2. ASSUME entered
      PROVE  /\ i.earned_target = p.earned_target
             /\ i.request_started = p.request_started
             /\ i.last_sample = 0
             /\ i.trial_base = None /\ i.trial_capacity = None
             /\ i.request_clean_active = 0
             /\ i.completed_clean_active = 0
             /\ i.validated_in_request = None
             /\ ~i.last_sample_active
             /\ DOMAIN i = DOMAIN p
  <2>1. /\ DOMAIN k = DOMAIN p /\ k.earned_target = p.earned_target
        /\ k.request_started = p.request_started /\ k.last_sample = 0
    BY DEF Policies
  <2>2. i = InterruptedWork(k, FALSE)
    BY <1>2 DEF i
  <2> HIDE DEF k
  <2>4. LET q == InterruptedWork(k, FALSE) IN
        /\ DOMAIN q = DOMAIN k
        /\ q.earned_target = k.earned_target
        /\ q.trial_base = None /\ q.trial_capacity = None
        /\ q.validated_in_request = None
        /\ q.request_clean_active = 0
        /\ q.completed_clean_active = 0
        /\ ~q.last_sample_active
        /\ q.request_started = k.request_started
        /\ q.last_sample = k.last_sample
        /\ q.state = k.state
    BY ZenonT(40), <2>1, InterruptedMore
  <2>3. /\ i.earned_target = k.earned_target
        /\ i.request_started = k.request_started
        /\ i.last_sample = k.last_sample
        /\ i.trial_base = None /\ i.trial_capacity = None
        /\ i.request_clean_active = 0
        /\ i.completed_clean_active = 0
        /\ i.validated_in_request = None
        /\ ~i.last_sample_active
        /\ DOMAIN i = DOMAIN k
    BY <2>1, <2>2, <2>4
  <2> QED
    BY <2>1, <2>3
<1>3. ASSUME ~entered
      PROVE  /\ i.earned_target = p.earned_target
             /\ i.request_started = p.request_started
             /\ i.last_sample = 0
             /\ i.trial_base = p.trial_base
             /\ i.trial_capacity = p.trial_capacity
             /\ i.trial_adverse_active = adverse
             /\ i.request_clean_active = clean
             /\ i.completed_clean_active = p.completed_clean_active
             /\ i.validated_in_request = p.validated_in_request
             /\ i.last_sample_active = sampled
             /\ DOMAIN i = DOMAIN p
  BY <1>3 DEF i, Policies
<1> DEFINE s == Sample(p, c, b, obs)
<1>4. /\ s.state = state
      /\ s.earned_target = i.earned_target
      /\ s.request_started = i.request_started
      /\ s.last_sample = i.last_sample
      /\ s.trial_base = i.trial_base
      /\ s.trial_capacity = i.trial_capacity
      /\ s.trial_adverse_active = i.trial_adverse_active
      /\ s.request_clean_active = i.request_clean_active
      /\ s.completed_clean_active = i.completed_clean_active
      /\ s.validated_in_request = i.validated_in_request
      /\ s.last_sample_active = i.last_sample_active
  <2>1. DOMAIN i = DOMAIN p
    BY <1>2, <1>3
  <2>2. "state" \in DOMAIN p
    BY DEF Policies
  <2> QED
    BY <1>1, <2>1, <2>2
<1> HIDE DEF s
<1> QED
  BY <1>2, <1>3, <1>4 DEF state, entered, adverse, clean, sampled, s

-----------------------------------------------------------------------------
(* Without workspace phases: the trial is the extent held, and its base    *)
(* lies below it and never below what earlier work has earned.             *)

Ordinary(p) ==
    /\ ~p.workspace_phase.on
    /\ p.trial_capacity # None => p.trial_capacity = p.capacity
    /\ p.trial_base # None => /\ p.trial_base >= p.earned_target
                              /\ p.trial_base < p.capacity

\* Adverse time is kept from record p to record q while the trial is pending.
KeepsAdversity(p, q) ==
    p.trial_capacity # None /\ q.trial_capacity # None
        => q.trial_adverse_active >= p.trial_adverse_active

\* How far an action goes: a release really shrinks, growth really grows and
\* does not pass the earned target on its way back to it.
Strides(a, p, c) ==
    /\ a.kind = "Release" => a.target < c
    /\ a.kind = "Recover" =>
          /\ a.target > c
          /\ IsRestoring(p, c) => a.target <= p.earned_target

\* The next multiple lies above.
LEMMA AlignDownStep ==
    ASSUME NEW n \in Nat
    PROVE  AlignDown(n) + GrowthStep > n
<1>1. n < GrowthStep * (n \div GrowthStep) + GrowthStep
  BY CapacityAssumption
<1>2. PICK q \in Nat : q = n \div GrowthStep
  BY CapacityAssumption
<1>3. q * GrowthStep = GrowthStep * q /\ GrowthStep * q \in Nat
  BY CapacityAssumption
<1> QED
  BY <1>1, <1>2, <1>3, CapacityAssumption DEF AlignDown

\* next_capacity below the ceiling.
LEMMA NextCapacityStrides ==
    ASSUME NEW p \in Policies, NEW c \in Extent, c < MaximumCapacity
    PROVE  /\ NextCapacity(p, c) > c
           /\ IsRestoring(p, c) => NextCapacity(p, c) <= p.earned_target
<1>1. c \in Nat /\ MaximumCapacity \in Nat
  BY CapacityAssumption DEF Extent
<1>2. IsRestoring(p, c) => p.earned_target \in Nat /\ p.earned_target <= MaximumCapacity
                           /\ c < p.earned_target
  BY CapacityAssumption DEF Policies, Extent, IsRestoring
<1>3. AlignDown(c) \in Nat /\ AlignDown(c) + GrowthStep > c
  BY <1>1, AlignDownBelow, AlignDownStep
<1>4. GrowthTarget(p, c) = IF IsRestoring(p, c) THEN p.earned_target ELSE MaximumCapacity
  BY <1>1, <1>2 DEF GrowthTarget, Greatest, Least
<1> QED
  BY <1>1, <1>2, <1>3, <1>4, CapacityAssumption DEF NextCapacity, Greatest, Least

\* recovery_action and cached_action.
LEMMA CachedStrides ==
    ASSUME NEW p \in Policies, NEW c \in Extent
    PROVE  Strides(RecoveryAction(p, c), p, c) /\ Strides(CachedAction(p, c), p, c)
<1>1. Strides(Hold, p, c) /\ Strides(Stop, p, c)
  BY DEF Strides, Hold, Stop
<1>2. Strides(RecoveryAction(p, c), p, c)
  BY <1>1, NextCapacityStrides DEF RecoveryAction, GrowthEligible, Recover, Strides
<1> QED
  BY <1>1, <1>2 DEF CachedAction

\* The match of observe.
LEMMA SampledStrides ==
    ASSUME NEW p \in Policies, NEW c \in Extent
    PROVE  Strides(SampledAction(p, c), p, c)
<1>1. c \in Nat /\ MinCapacity \in Nat
  BY CapacityAssumption DEF Extent
<1>2. ASSUME c > MinCapacity PROVE KeepPrefix(c - 1) < c
  <2>1. c - 1 \in Extent
    BY <1>1, <1>2, CapacityAssumption DEF Extent
  <2>2. KeepPrefix(c - 1) \in Extent /\ KeepPrefix(c - 1) <= c - 1
    BY <2>1, <1>1, <1>2, KeepPrefixExtent
  <2> QED
    BY <1>1, <2>2, CapacityAssumption DEF Extent
<1>3. CASE p.state = "Critical"
  BY <1>1, <1>3 DEF RollbackDue, SampledAction, Release, Stop, Hold, Strides
<1>4. CASE p.state = "Warning" /\ c > MinCapacity
  BY <1>2, <1>4 DEF RollbackDue, SampledAction, Release, Hold, Strides
<1>5. CASE p.state = "NormalQuiet"
  BY <1>5, CachedStrides DEF RollbackDue, SampledAction
<1>6. CASE RollbackDue(p, c)
  <2>1. SampledAction(p, c) = Rollback(KeepPrefix(p.trial_base))
    BY <1>6 DEF SampledAction, RollbackDue
  <2> QED
    BY <2>1 DEF Rollback, Strides
<1>7. CASE /\ p.state # "Critical"
           /\ ~(p.state = "Warning" /\ c > MinCapacity)
           /\ p.state # "NormalQuiet"
           /\ ~RollbackDue(p, c)
  BY <1>7 DEF SampledAction, ChurnRelease, Hold, Strides
<1> QED
  BY <1>3, <1>4, <1>5, <1>6, <1>7

\* Growth opens a trial at the extent it leaves, or extends one.
LEMMA GrowthOrdinary ==
    ASSUME NEW p, NEW c, NEW a, Sound(p, c), Ordinary(p),
           Growth(a, p, c), Strides(a, p, c)
    PROVE  LET q == CapacityChanged(p, c, a.target) IN
           Ordinary(q) /\ KeepsAdversity(p, q)
<1> DEFINE q == CapacityChanged(p, c, a.target)
           trial == a.target > c /\ ~(p.earned_target # None /\ a.target <= p.earned_target)
<1>1. /\ p \in Policies /\ c \in Nat /\ p.capacity = c /\ Paired(p, c)
      /\ a.target \in Nat /\ a.target > c
  BY CapacityAssumption DEF Sound, Growth, Strides, Extent
<1>2. /\ q.capacity = a.target
      /\ q.earned_target = p.earned_target
      /\ q.trial_adverse_active = IF p.trial_capacity = c
                                  THEN p.trial_adverse_active ELSE 0
      /\ q.trial_base = IF trial /\ p.trial_base = None THEN c ELSE p.trial_base
      /\ q.trial_capacity = IF trial THEN a.target ELSE p.trial_capacity
      /\ q.workspace_phase = p.workspace_phase
  BY <1>1, CapacityChangedFields
<1> HIDE DEF q
<1>3. p.trial_adverse_active \in Nat
  BY <1>1, TimeAssumption DEF Policies, Credit
<1>4. /\ p.earned_target = None \/ p.earned_target \in Nat
      /\ p.trial_base = None \/ p.trial_base \in Nat
  BY <1>1, CapacityAssumption DEF Policies, Extent
<1>5. None \notin Nat /\ None = -1
  BY DEF None
<1>6. ASSUME IsRestoring(p, c) PROVE Ordinary(q) /\ KeepsAdversity(p, q)
  <2>1. /\ p.earned_target # None /\ c < p.earned_target /\ a.target <= p.earned_target
        /\ p.trial_base = None
    BY <1>1, <1>4, <1>6 DEF IsRestoring, Strides, Growth, Ordinary, Paired
  <2>2. p.trial_capacity = None
    BY <1>1, <2>1 DEF Paired
  <2>3. ~trial
    BY <2>1
  <2>4. q.trial_base = None /\ q.trial_capacity = None /\ ~q.workspace_phase.on
    BY <1>2, <2>1, <2>2, <2>3 DEF Ordinary
  <2> QED
    BY <2>4 DEF Ordinary, KeepsAdversity
<1>7. ASSUME ~IsRestoring(p, c) PROVE Ordinary(q) /\ KeepsAdversity(p, q)
  <2>1. p.earned_target <= c /\ trial
    BY <1>1, <1>4, <1>5, <1>7 DEF IsRestoring
  <2>2. q.trial_base >= p.earned_target /\ q.trial_base < a.target
    <3>1. CASE p.trial_base = None
      BY <1>1, <1>2, <2>1, <3>1
    <3>2. CASE p.trial_base # None
      BY <1>1, <1>2, <1>4, <3>2 DEF Ordinary
    <3> QED
      BY <3>1, <3>2
  <2>3. KeepsAdversity(p, q)
    <3>1. SUFFICES ASSUME p.trial_capacity # None
                   PROVE  q.trial_adverse_active >= p.trial_adverse_active
      BY DEF KeepsAdversity
    <3>2. p.trial_capacity = c
      BY <1>1, <3>1 DEF Ordinary
    <3> QED
      BY <1>2, <1>3, <3>2
  <2>4. q.trial_capacity = q.capacity /\ ~q.workspace_phase.on
    BY <1>2, <2>1 DEF Ordinary
  <2>5. Ordinary(q)
    BY <1>2, <2>2, <2>4 DEF Ordinary
  <2> QED
    BY <2>3, <2>5
<1> QED
  BY <1>6, <1>7 DEF q

\* A release ends the trial.
LEMMA ReductionOrdinary ==
    ASSUME NEW p, NEW c, NEW a, Sound(p, c), Ordinary(p),
           Reduction(a, c), Strides(a, p, c)
    PROVE  LET q == Released(p, c, a) IN
           Ordinary(q) /\ q.trial_capacity = None
<1> DEFINE k == [p EXCEPT !.workspace_phase.released = p.workspace_phase.on]
           r == CASE a.kind = "Rollback"     -> InterruptedWork(k, FALSE)
                  [] a.kind = "ChurnRelease" -> InterruptedWork(k, TRUE)
                  [] OTHER                   -> k
           q == CapacityChanged(r, c, a.target)
<1>1. p \in Policies /\ c \in Nat /\ a.target \in Nat /\ a.target <= c
  BY CapacityAssumption DEF Sound, Reduction, Extent
<1>2. Released(p, c, a) = q
  BY DEF Released
<1>3. k \in Policies /\ ~k.workspace_phase.on
  <2>1. p.workspace_phase \in Phases
    BY <1>1 DEF Policies
  <2>2. [p.workspace_phase EXCEPT !.released = p.workspace_phase.on] \in Phases
    BY <2>1 DEF Phases
  <2>3. k \in Policies
    BY <1>1, <2>2 DEF Policies
  <2>4. k.workspace_phase.on = p.workspace_phase.on
    BY <1>1, <2>1 DEF Policies, Phases
  <2> QED
    BY <2>3, <2>4 DEF Ordinary
<1> HIDE DEF k
<1>4. /\ r \in Policies /\ ~r.workspace_phase.on
      /\ a.target < c \/ (r.trial_base = None /\ r.trial_capacity = None)
  <2>1. CASE a.kind = "Release"
    <3>1. r = k
      BY <2>1
    <3> QED
      BY <1>3, <2>1, <3>1 DEF Strides
  <2>2. CASE a.kind = "Rollback"
    BY <1>3, <2>2, InterruptedFields
  <2>3. CASE a.kind = "ChurnRelease"
    BY <1>3, <2>3, InterruptedFields
  <2> QED
    BY <2>1, <2>2, <2>3 DEF Reduction
<1> HIDE DEF r
<1>5. /\ q.workspace_phase = r.workspace_phase
      /\ q.trial_base = None
      /\ q.trial_capacity = None
  <2> DEFINE trial == a.target > c /\ ~(r.earned_target # None /\ a.target <= r.earned_target)
  <2>1. ~trial
    BY <1>1
  <2>2. /\ q.trial_base = IF a.target < c THEN None
                         ELSE IF trial /\ r.trial_base = None THEN c ELSE r.trial_base
        /\ q.trial_capacity = IF a.target < c THEN None
                             ELSE IF trial THEN a.target ELSE r.trial_capacity
        /\ q.workspace_phase = r.workspace_phase
    BY <1>4, CapacityChangedFields
  <2> HIDE DEF q, trial
  <2> QED
    BY <1>4, <2>1, <2>2
<1> HIDE DEF q
<1> QED
  BY <1>2, <1>4, <1>5 DEF Ordinary

\* Record q differs from p in nothing Ordinary speaks of.
LEMMA OrdinaryKept ==
    ASSUME NEW p \in Policies, NEW q, Ordinary(p), Keeps(q, p),
           q.earned_target = p.earned_target,
           q.trial_adverse_active = p.trial_adverse_active
    PROVE  Ordinary(q) /\ KeepsAdversity(p, q)
<1>1. p.trial_adverse_active \in Nat
  BY TimeAssumption DEF Policies, Credit
<1> QED
  BY <1>1 DEF Ordinary, KeepsAdversity, Keeps

\* observe charges a pending trial or ends it; it ends it only when the host
\* comes under pressure, and then nothing grows.
LEMMA SampleOrdinary ==
    ASSUME NEW p, NEW c, NEW b \in Boundaries, NEW obs \in Observations,
           Sound(p, c), Ordinary(p)
    PROVE  LET s == Sample(p, c, b, obs) IN
           /\ Ordinary(s)
           /\ KeepsAdversity(p, s)
           /\ s.trial_capacity = p.trial_capacity
              \/ (s.trial_capacity = None /\ s.state # "NormalQuiet")
<1> DEFINE s == Sample(p, c, b, obs)
           state == Classify(p, obs)
           entered == state \in UnderPressure /\ p.state \notin UnderPressure
<1>1. p \in Policies /\ c \in Extent /\ p.capacity = c
  BY DEF Sound
<1>2. /\ s.state = state
      /\ s.earned_target = p.earned_target
      /\ s.capacity = c /\ s.workspace_phase = p.workspace_phase
      /\ entered => s.trial_base = None /\ s.trial_capacity = None
      /\ ~entered => /\ s.trial_base = p.trial_base
                     /\ s.trial_capacity = p.trial_capacity
                     /\ s.trial_adverse_active = AdverseCredit(p, c, b, obs)
  BY <1>1, SampleMore, SampleFields
<1>3. p.trial_adverse_active \in Credit
  BY <1>1 DEF Policies
<1>4. AdverseCredit(p, c, b, obs) >= p.trial_adverse_active
  <2>1. ~SampleGap(p) => p.last_sample \in Nat
    BY <1>1, NoGapNat
  <2>2. ~SampleGap(p) => AddCredit(p.trial_adverse_active, p.last_sample) >= p.trial_adverse_active
    BY <1>3, <2>1, TimeAssumption DEF AddCredit, Least, Credit
  <2>3. p.trial_adverse_active >= p.trial_adverse_active
    BY <1>3, TimeAssumption DEF Credit
  <2> QED
    BY <2>2, <2>3 DEF AdverseCredit
<1>5. entered => state # "NormalQuiet"
  BY DEF UnderPressure
<1> HIDE DEF s, state, entered
<1>6. Ordinary(s) /\ KeepsAdversity(p, s)
  BY <1>1, <1>2, <1>4 DEF Ordinary, KeepsAdversity
<1> QED
  BY <1>2, <1>5, <1>6 DEF s

\* An observation of a server without phases: a trial that ends leaves a host
\* that is not quiet, so the action that follows opens no new one.
LEMMA ObservedOrdinary ==
    ASSUME NEW p, NEW c, NEW b \in Boundaries, NEW obs \in Observations,
           Sound(p, c), Ordinary(p)
    PROVE  LET seen == Observed(p, c, b, obs) IN
           /\ Ordinary(seen.policy)
           /\ KeepsAdversity(p, seen.policy)
           /\ Strides(seen.action, seen.policy, c)
           /\ seen.policy.trial_capacity = p.trial_capacity
              \/ (seen.policy.trial_capacity = None /\ seen.policy.state # "NormalQuiet")
<1>1. p \in Policies /\ c \in Extent /\ p.trial_adverse_active \in Nat
  BY TimeAssumption DEF Sound, Policies, Credit
<1>2. CASE SampleDue(p)
  <2> DEFINE s == Sample(p, c, b, obs)
             l == LatchCritical(s, c)
             a == SampledAction(s, c)
  <2>1. Observed(p, c, b, obs) = [policy |-> l, action |-> a]
    BY <1>2 DEF Observed
  <2>2. /\ Ordinary(s)
        /\ KeepsAdversity(p, s)
        /\ s.trial_capacity = p.trial_capacity
           \/ (s.trial_capacity = None /\ s.state # "NormalQuiet")
    BY SampleOrdinary
  <2>3. s \in Policies
    BY <1>1, SampleFields
  <2>4. Strides(a, s, c)
    BY <1>1, <2>3, SampledStrides
  <2> HIDE DEF s
  <2>5. /\ l.capacity = s.capacity
        /\ l.workspace_phase = s.workspace_phase
        /\ l.trial_capacity = s.trial_capacity
        /\ l.trial_base = s.trial_base
        /\ l.earned_target = s.earned_target
        /\ l.trial_adverse_active = s.trial_adverse_active
        /\ l.state = s.state
    BY <2>3 DEF LatchCritical, Policies
  <2> HIDE DEF l, a
  <2>6. Ordinary(l) /\ KeepsAdversity(p, l)
    BY <2>2, <2>5 DEF Ordinary, KeepsAdversity
  <2>7. Strides(a, l, c)
    BY <2>4, <2>5 DEF Strides, IsRestoring
  <2> QED
    BY <2>1, <2>2, <2>5, <2>6, <2>7
<1>3. CASE ~SampleDue(p)
  <2> DEFINE a == CachedAction(p, c)
  <2>1. Observed(p, c, b, obs) = [policy |-> p, action |-> a]
    BY <1>3 DEF Observed
  <2>2. Strides(a, p, c)
    BY <1>1, CachedStrides
  <2> HIDE DEF a
  <2> QED
    BY <1>1, <2>1, <2>2 DEF KeepsAdversity
<1> QED
  BY <1>2, <1>3

\* recovery_failed
LEMMA RecoveryFailedFields ==
    ASSUME NEW p \in Policies
    PROVE  LET q == RecoveryFailed(p) IN
           /\ q.earned_target = p.earned_target
           /\ q.trial_adverse_active = p.trial_adverse_active
           /\ q.request_clean_active = p.request_clean_active
           /\ q.completed_clean_active = p.completed_clean_active
           /\ q.validated_in_request = p.validated_in_request
           /\ q.last_sample_active = p.last_sample_active
           /\ q.request_started = p.request_started
           /\ q.last_sample = p.last_sample
           /\ q.state = p.state
BY DEF RecoveryFailed, DoubleRetryDelay, Policies

\* apply_observation of a server without phases.
LEMMA AppliedOrdinary ==
    ASSUME NEW p, NEW c, NEW a, NEW ok \in BOOLEAN, Sound(p, c), Ordinary(p),
           Passive(a) \/ Reduction(a, c) \/ Growth(a, p, c), Strides(a, p, c)
    PROVE  LET r == Applied(p, c, a, ok) IN
           /\ Ordinary(r.policy)
           /\ KeepsAdversity(p, r.policy)
           /\ p.state # "NormalQuiet" /\ p.trial_capacity = None
                => r.policy.trial_capacity = None
<1>1. p \in Policies /\ p.trial_adverse_active \in Nat
  BY TimeAssumption DEF Sound, Policies, Credit
<1>2. KeepsAdversity(p, p)
  BY <1>1 DEF KeepsAdversity
<1>3. CASE Passive(a)
  <2>1. Applied(p, c, a, ok).policy = p
    BY <1>3 DEF Applied, Passive
  <2> QED
    BY <1>2, <2>1
<1>4. CASE Reduction(a, c)
  <2>1. Applied(p, c, a, ok).policy = IF ok THEN Released(p, c, a) ELSE p
    BY <1>4 DEF Applied, Reduction
  <2>2. Ordinary(Released(p, c, a)) /\ Released(p, c, a).trial_capacity = None
    BY <1>4, ReductionOrdinary
  <2> QED
    BY <1>2, <2>1, <2>2 DEF KeepsAdversity
<1>5. CASE Growth(a, p, c)
  <2>1. Applied(p, c, a, ok).policy
          = IF ok THEN CapacityChanged(p, c, a.target) ELSE RecoveryFailed(p)
    BY <1>5 DEF Applied, Growth
  <2>2. LET q == CapacityChanged(p, c, a.target) IN Ordinary(q) /\ KeepsAdversity(p, q)
    BY <1>5, GrowthOrdinary
  <2>3. Ordinary(RecoveryFailed(p)) /\ KeepsAdversity(p, RecoveryFailed(p))
    BY <1>1, RecoveryFailedKeeps, RecoveryFailedFields, OrdinaryKept
  <2>4. p.state = "NormalQuiet"
    BY <1>5 DEF Growth
  <2> QED
    BY <2>1, <2>2, <2>3, <2>4
<1> QED
  BY <1>3, <1>4, <1>5

\* check_boundary of a server without phases.
LEMMA CheckBoundaryOrdinary ==
    ASSUME Sound(policy, expert_capacity), Ordinary(policy), NEW b \in Boundaries,
           NEW obs \in Inputs, NEW ok \in Outcomes
    PROVE  LET r == CheckBoundary(b, obs, ok) IN
           Ordinary(r.policy) /\ KeepsAdversity(policy, r.policy)
<1> DEFINE seen == Observed(policy, expert_capacity, b, obs)
           s == seen.policy
           r == Applied(s, expert_capacity, seen.action, ok)
<1>1. obs \in Observations /\ ok \in BOOLEAN
  BY ServingAssumption
<1>2. /\ Sound(s, expert_capacity)
      /\ \/ Passive(seen.action)
         \/ Reduction(seen.action, expert_capacity)
         \/ Growth(seen.action, s, expert_capacity)
  BY <1>1, ObservedSound
<1>3. /\ Ordinary(s)
      /\ KeepsAdversity(policy, s)
      /\ Strides(seen.action, s, expert_capacity)
      /\ s.trial_capacity = policy.trial_capacity
         \/ (s.trial_capacity = None /\ s.state # "NormalQuiet")
  BY <1>1, ObservedOrdinary
<1>4. CheckBoundary(b, obs, ok) = r
  BY DEF CheckBoundary
<1> HIDE DEF seen, s
<1>5. /\ Ordinary(r.policy)
      /\ KeepsAdversity(s, r.policy)
      /\ s.state # "NormalQuiet" /\ s.trial_capacity = None
           => r.policy.trial_capacity = None
  BY <1>1, <1>2, <1>3, AppliedOrdinary
<1>6. Sound(r.policy, r.capacity)
  BY <1>1, <1>2, AppliedSound
<1>7. /\ policy.trial_adverse_active \in Nat
      /\ s.trial_adverse_active \in Nat
      /\ r.policy.trial_adverse_active \in Nat
  BY <1>2, <1>6, TimeAssumption DEF Sound, Policies, Credit
<1> HIDE DEF r
<1> QED
  BY <1>3, <1>4, <1>5, <1>7 DEF KeepsAdversity

\* end_request accepts a trial by ending it.
LEMMA EndRequestOrdinary ==
    ASSUME NEW p, NEW c, NEW completed \in BOOLEAN, Sound(p, c), Ordinary(p)
    PROVE  LET q == PolicyEndRequest(p, completed) IN
           Ordinary(q) /\ KeepsAdversity(p, q)
<1> DEFINE v == AcceptValidated(p)
           k == AcceptCurrent(v)
           q == PolicyEndRequest(p, completed)
<1>1. /\ p \in Policies /\ c \in Nat /\ c # None /\ p.capacity = c /\ Paired(p, c)
      /\ p.trial_adverse_active \in Nat
  BY TimeAssumption, CapacityAssumption DEF Sound, Policies, Credit, Extent, None
<1>2. Sound(v, c) /\ v \in Policies /\ v.capacity = c /\ Paired(v, c)
      /\ v.workspace_phase = p.workspace_phase
  BY AcceptValidatedSound DEF Sound
<1>3. Sound(k, c) /\ k.workspace_phase = p.workspace_phase
  BY <1>2, AcceptCurrentSound
<1>4. /\ v.trial_capacity = p.trial_capacity
      /\ v.trial_adverse_active = p.trial_adverse_active
      /\ v.trial_base # None => v.trial_base >= v.earned_target /\ v.trial_base < c
  <2> DEFINE target == p.validated_in_request
             base == IF p.trial_capacity = p.capacity
                     THEN Greatest(p.trial_base, target) ELSE p.trial_base
             earned == Greatest(p.earned_target, target)
  <2>1. CASE target = None \/ target >= p.capacity
    BY <1>1, <2>1 DEF AcceptValidated, Ordinary
  <2>2. CASE ~(target = None \/ target >= p.capacity)
    <3>1. v = [p EXCEPT !.earned_target = earned, !.trial_base = base]
      BY <1>1, <2>2 DEF AcceptValidated, Policies
    <3>2. /\ p.trial_base \in Int /\ target \in Int /\ p.earned_target \in Int
      BY <1>1, CapacityAssumption DEF Policies, Extent, None
    <3>3. p.trial_base = None => base = None
      BY <1>1 DEF Paired, Ordinary
    <3>4. p.trial_base # None => base = Greatest(p.trial_base, target)
      BY <1>1 DEF Paired, Ordinary
    <3>5. base # None => base >= earned /\ base < c
      BY <1>1, <2>2, <3>2, <3>3, <3>4 DEF Ordinary, Greatest
    <3> HIDE DEF base, earned, target
    <3>6. v.earned_target = earned /\ v.trial_base = base
          /\ v.trial_capacity = p.trial_capacity
          /\ v.trial_adverse_active = p.trial_adverse_active
      BY <1>1, <3>1 DEF Policies
    <3> QED
      BY <3>5, <3>6
  <2> QED
    BY <2>1, <2>2
<1> HIDE DEF v
<1>5. \/ k.trial_base = None /\ k.trial_capacity = None
      \/ /\ k.trial_base = v.trial_base /\ k.trial_capacity = v.trial_capacity
         /\ k.trial_adverse_active = v.trial_adverse_active
         /\ k.earned_target = v.earned_target
  <2> DEFINE clean == AddCredit(v.completed_clean_active, v.request_clean_active)
             w == [v EXCEPT !.completed_clean_active = clean]
             earned == Greatest(v.earned_target, v.capacity)
  <2>1. /\ w.trial_base = v.trial_base /\ w.trial_capacity = v.trial_capacity
        /\ w.trial_adverse_active = v.trial_adverse_active
        /\ w.earned_target = v.earned_target
        /\ DOMAIN w = DOMAIN v
    BY <1>2 DEF Policies
  <2>2. CASE clean < ActiveValidation
    <3>1. k = w
      BY <2>2 DEF AcceptCurrent
    <3> QED
      BY <2>1, <3>1
  <2>3. CASE ~(clean < ActiveValidation) /\ v.trial_capacity # c
    <3>1. k = [w EXCEPT !.earned_target = Greatest(@, v.capacity)]
      BY <1>2, <2>3 DEF AcceptCurrent
    <3>2. v.trial_capacity = None
      BY <1>1, <1>4, <2>3 DEF Ordinary
    <3>3. v.trial_base = None
      BY <1>2, <3>2 DEF Paired
    <3> HIDE DEF w
    <3>4. k.trial_base = w.trial_base /\ k.trial_capacity = w.trial_capacity
      BY <1>2, <2>1, <3>1 DEF Policies
    <3> QED
      BY <2>1, <3>2, <3>3, <3>4
  <2>4. CASE ~(clean < ActiveValidation) /\ v.trial_capacity = c
    <3>1. k = [w EXCEPT !.earned_target = Greatest(@, v.capacity),
                        !.trial_base = None,
                        !.trial_capacity = None,
                        !.trial_adverse_active = 0,
                        !.retry_delay = RecoveryCooldown,
                        !.retry_wait = 0]
      BY <1>2, <2>4 DEF AcceptCurrent
    <3> HIDE DEF w
    <3> QED
      BY <1>2, <2>1, <3>1 DEF Policies
  <2> QED
    BY <2>2, <2>3, <2>4
<1> HIDE DEF k
<1>6. Ordinary(k) /\ KeepsAdversity(p, k)
  <2>1. k.capacity = c /\ ~k.workspace_phase.on
    BY <1>3 DEF Sound, Ordinary
  <2>2. k.trial_capacity # None => k.trial_capacity = c
    BY <1>1, <1>4, <1>5 DEF Ordinary
  <2>3. k.trial_base # None => k.trial_base >= k.earned_target /\ k.trial_base < c
    BY <1>4, <1>5
  <2>4. KeepsAdversity(p, k)
    BY <1>1, <1>4, <1>5 DEF KeepsAdversity
  <2> QED
    BY <2>1, <2>2, <2>3, <2>4 DEF Ordinary
<1> DEFINE x == IF EndCounts(p, completed) THEN k ELSE p
<1>7. q = [x EXCEPT !.validated_in_request = None,
                    !.last_churn_sample_active = FALSE,
                    !.request_started = None,
                    !.last_sample_active = FALSE,
                    !.last_sample_trial_active = FALSE,
                    !.request_clean_active = 0]
  BY DEF PolicyEndRequest, k, v
<1>8. Ordinary(x) /\ KeepsAdversity(p, x) /\ x \in Policies
  BY <1>1, <1>3, <1>6 DEF KeepsAdversity, Sound
<1> HIDE DEF x
<1>9. /\ q.workspace_phase = x.workspace_phase
      /\ q.capacity = x.capacity
      /\ q.trial_capacity = x.trial_capacity
      /\ q.trial_base = x.trial_base
      /\ q.earned_target = x.earned_target
      /\ q.trial_adverse_active = x.trial_adverse_active
  BY <1>7, <1>8 DEF Policies
<1> HIDE DEF q
<1>10. Ordinary(q) /\ KeepsAdversity(p, q)
  BY <1>8, <1>9 DEF Ordinary, KeepsAdversity
<1> QED
  BY <1>10 DEF q

\* Every step of a server without phases.
LEMMA OrdinaryStep ==
    ASSUME IndInv, Ordinary(policy), [OrdinaryNext]_vars
    PROVE  Ordinary(policy)' /\ KeepsAdversity(policy, policy')
<1>1. Sound(policy, expert_capacity) /\ policy \in Policies
  BY DEF IndInv, Sound
<1>2. SUFFICES ASSUME policy' # policy
               PROVE  Ordinary(policy') /\ KeepsAdversity(policy, policy')
  <2>1. policy.trial_adverse_active \in Nat
    BY <1>1, TimeAssumption DEF Policies, Credit
  <2> QED
    BY <2>1 DEF Ordinary, KeepsAdversity
<1>3. OrdinaryNext
  BY <1>2 DEF vars
<1>4. CASE Tick
  <2>1. policy' = PolicyLater(policy)
    BY <1>4 DEF Tick
  <2>2. /\ PolicyLater(policy).earned_target = policy.earned_target
        /\ PolicyLater(policy).trial_adverse_active = policy.trial_adverse_active
    BY <1>1 DEF PolicyLater, Policies
  <2> QED
    BY <1>1, <2>1, <2>2, LaterKeeps, OrdinaryKept
<1>5. CASE BeginRequest
  <2>1. policy' = PolicyBeginRequest(policy)
    BY <1>5 DEF BeginRequest
  <2>2. /\ PolicyBeginRequest(policy).earned_target = policy.earned_target
        /\ PolicyBeginRequest(policy).trial_adverse_active = policy.trial_adverse_active
    BY <1>1 DEF PolicyBeginRequest, Policies
  <2> QED
    BY <1>1, <2>1, <2>2, BeginRequestKeeps, OrdinaryKept
<1>6. CASE EndRequest
  <2>1. policy' = PolicyEndRequest(policy, ~doomed)
    BY <1>6 DEF EndRequest
  <2>2. LET q == PolicyEndRequest(policy, ~doomed) IN Ordinary(q) /\ KeepsAdversity(policy, q)
    BY <1>1, EndRequestOrdinary
  <2> QED
    BY <2>1, <2>2
<1>7. ASSUME NEW obs \in Inputs, NEW ok \in Outcomes,
             IdlePoll(obs, ok) \/ AdmitRequest(obs, ok) \/ CompletedOperation(obs, ok)
      PROVE  Ordinary(policy') /\ KeepsAdversity(policy, policy')
  <2>1. \A b \in Boundaries :
          LET r == CheckBoundary(b, obs, ok) IN
          Ordinary(r.policy) /\ KeepsAdversity(policy, r.policy)
    BY <1>1, CheckBoundaryOrdinary
  <2>2. \E b \in Boundaries : policy' = CheckBoundary(b, obs, ok).policy
    BY <1>7 DEF IdlePoll, AdmitRequest, CompletedOperation, Boundaries
  <2> QED
    BY <2>1, <2>2
<1>8. CASE EnterOrdinary
  BY <1>2, <1>8 DEF EnterOrdinary
<1>9. ASSUME NEW ok \in Outcomes, Prepared(ok) \/ CloseRequest(ok)
      PROVE  FALSE
  BY <1>2, <1>9 DEF Prepared, CloseRequest
<1> QED
  BY <1>3, <1>4, <1>5, <1>6, <1>7, <1>8, <1>9 DEF OrdinaryNext

\* OrdinaryNext takes none but the steps of Next.
LEMMA OrdinaryIsStep == [OrdinaryNext]_vars => [Next]_vars
BY DEF OrdinaryNext, Next, OwnerStep, PollStep

\* The trial of a server without phases is the extent held, and its base keeps
\* what is earned.
LEMMA OrdinaryInvariance ==
    Init /\ [][OrdinaryNext]_vars => [](IndInv /\ Ordinary(policy))
<1>1. Init => IndInv /\ Ordinary(policy)
  <2>1. Init => Ordinary(policy)
    BY DEF Init, Ordinary, NewPolicy, NoPhase
  <2> QED
    BY <2>1, InitSound
<1>2. IndInv /\ Ordinary(policy) /\ [OrdinaryNext]_vars => (IndInv /\ Ordinary(policy))'
  BY OrdinaryIsStep, StepSound, OrdinaryStep
<1> QED
  BY <1>1, <1>2, PTL

-----------------------------------------------------------------------------
(* What a release leaves.  Away from pressure a pending trial is released  *)
(* down to its base, which is not below the earned target, and aligning    *)
(* keeps that order.                                                       *)

\* Aligning down is monotone.
LEMMA AlignDownMonotone ==
    ASSUME NEW n \in Nat, NEW m \in Nat, n <= m
    PROVE  AlignDown(n) <= AlignDown(m)
<1> DEFINE q == n \div GrowthStep
           k == m \div GrowthStep
<1>1. q \in Nat /\ k \in Nat /\ GrowthStep * q <= n
  BY CapacityAssumption
<1>2. m < GrowthStep * k + GrowthStep
  BY CapacityAssumption
<1>3. k >= q
  <2>1. SUFFICES ASSUME q > k PROVE FALSE
    BY <1>1
  <2>2. GrowthStep * q >= GrowthStep * k + GrowthStep
    BY <1>1, <2>1, CapacityAssumption, NextMultiple
  <2>3. GrowthStep * q \in Nat /\ GrowthStep * k \in Nat
    BY <1>1, CapacityAssumption
  <2> HIDE DEF q, k
  <2> QED
    BY <1>1, <1>2, <2>2, <2>3, CapacityAssumption
<1>4. CASE k = q
  BY <1>1, <1>4, CapacityAssumption DEF AlignDown
<1>5. CASE k > q
  <2>1. GrowthStep * k >= GrowthStep * q + GrowthStep
    BY <1>1, <1>5, CapacityAssumption, NextMultiple
  <2> QED
    BY <1>1, <2>1, CapacityAssumption DEF AlignDown
<1> QED
  BY <1>1, <1>3, <1>4, <1>5

\* What is kept of n is no less than what would be kept of an earned target not
\* above n; nothing earned asks for the floor only.
LEMMA KeepPrefixMonotone ==
    ASSUME NEW e \in {None} \union Extent, NEW n \in Nat, e <= n
    PROVE  KeepPrefix(n) >= KeepPrefix(e)
<1>1. AlignDown(n) \in Nat /\ MinCapacity \in Nat
  BY AlignDownBelow, CapacityAssumption
<1>2. CASE e = None
  <2>1. AlignDown(e) \in Int /\ AlignDown(e) <= -1
    <3>1. PICK q \in Int : q = (-1) \div GrowthStep
      BY CapacityAssumption
    <3>2. GrowthStep * q \in Int /\ GrowthStep * q <= -1
      BY <3>1, CapacityAssumption
    <3> QED
      BY <1>2, <3>1, <3>2, CapacityAssumption DEF AlignDown, None
  <2> QED
    BY <1>1, <2>1 DEF KeepPrefix, Greatest
<1>3. CASE e \in Extent
  <2>1. e \in Nat
    BY <1>3, CapacityAssumption DEF Extent
  <2>2. AlignDown(e) \in Nat /\ AlignDown(e) <= AlignDown(n)
    BY <2>1, AlignDownBelow, AlignDownMonotone
  <2> QED
    BY <1>1, <2>2 DEF KeepPrefix, Greatest
<1> QED
  BY <1>2, <1>3

Releases == {"Release", "Rollback", "ChurnRelease"}

\* Action a releases nothing of the whole chunks record p has earned.
SparesEarned(a, p) ==
    a.kind \in Releases => a.target >= KeepPrefix(p.earned_target)

\* The match of observe, away from pressure, at a pending trial.
LEMMA SampledSpares ==
    ASSUME NEW p, NEW c, Sound(p, c), Ordinary(p),
           p.trial_capacity # None, p.state \notin UnderPressure
    PROVE  SparesEarned(SampledAction(p, c), p)
<1>1. /\ p \in Policies /\ c \in Extent
      /\ p.trial_base # None /\ p.trial_base \in Nat
      /\ p.trial_base >= p.earned_target /\ p.trial_base < c
      /\ p.earned_target \in {None} \union Extent
  BY CapacityAssumption DEF Sound, Paired, Ordinary, Policies, Extent
<1>2. KeepPrefix(p.trial_base) >= KeepPrefix(p.earned_target)
  <2>1. p.earned_target <= p.trial_base
    BY <1>1, CapacityAssumption DEF None, Extent
  <2> QED
    BY <1>1, <2>1, KeepPrefixMonotone
<1>3. p.state # "Critical" /\ p.state # "Warning"
  BY DEF UnderPressure
<1>4. CASE p.state = "NormalQuiet"
  <2>1. SampledAction(p, c) = RecoveryAction(p, c)
    BY <1>4 DEF SampledAction, RollbackDue
  <2> QED
    BY <2>1 DEF RecoveryAction, Recover, Hold, SparesEarned, Releases
<1>5. CASE RollbackDue(p, c)
  <2>1. SampledAction(p, c) = Rollback(KeepPrefix(p.trial_base))
    BY <1>5 DEF SampledAction, RollbackDue
  <2> QED
    BY <1>2, <2>1 DEF Rollback, SparesEarned
<1>6. CASE p.state # "NormalQuiet" /\ ~RollbackDue(p, c)
  <2>1. SampledAction(p, c) \in {ChurnRelease(KeepPrefix(p.trial_base)), Hold}
    BY <1>1, <1>3, <1>6 DEF SampledAction
  <2> QED
    BY <1>2, <2>1 DEF ChurnRelease, Hold, SparesEarned, Releases
<1> QED
  BY <1>4, <1>5, <1>6

\* An observation at a pending trial; between two samples nothing is released.
LEMMA ObservedSpares ==
    ASSUME NEW p, NEW c, NEW b \in Boundaries, NEW obs \in Observations,
           Sound(p, c), Ordinary(p), p.trial_capacity # None,
           Observed(p, c, b, obs).policy.state \notin UnderPressure
    PROVE  SparesEarned(Observed(p, c, b, obs).action, p)
<1>1. p \in Policies /\ c \in Extent
  BY DEF Sound
<1>2. CASE SampleDue(p)
  <2> DEFINE s == Sample(p, c, b, obs)
             l == LatchCritical(s, c)
             a == SampledAction(s, c)
  <2>1. Observed(p, c, b, obs) = [policy |-> l, action |-> a]
    BY <1>2 DEF Observed
  <2>2. /\ s \in Policies /\ s.capacity = c
        /\ s.stop_latched => p.stop_latched
        /\ \/ s.trial_base = p.trial_base /\ s.trial_capacity = p.trial_capacity
           \/ s.trial_base = None /\ s.trial_capacity = None
    BY <1>1, SampleFields
  <2>3. /\ s.state = Classify(p, obs)
        /\ s.earned_target = p.earned_target
        /\ Classify(p, obs) \notin UnderPressure => s.trial_capacity = p.trial_capacity
    BY <1>1, SampleMore
  <2>4. Ordinary(s)
    BY SampleOrdinary
  <2> HIDE DEF s
  <2>5. Sound(s, c)
    BY <1>1, <2>2 DEF Sound, Paired
  <2>6. l.state = s.state
    BY <2>2 DEF LatchCritical, Policies
  <2>7. s.state \notin UnderPressure
    BY <2>1, <2>6
  <2>8. SparesEarned(a, s)
    BY <2>3, <2>4, <2>5, <2>7, SampledSpares
  <2> HIDE DEF l, a
  <2> QED
    BY <2>1, <2>3, <2>8 DEF SparesEarned
<1>3. CASE ~SampleDue(p)
  <2> DEFINE a == CachedAction(p, c)
  <2>1. Observed(p, c, b, obs) = [policy |-> p, action |-> a]
    BY <1>3 DEF Observed
  <2>2. Passive(a) \/ Growth(a, p, c)
    BY <1>1, CachedActionType
  <2> HIDE DEF a
  <2> QED
    BY <2>1, <2>2 DEF Passive, Growth, SparesEarned, Releases
<1> QED
  BY <1>2, <1>3

\* apply_observation reduces the capacity by a release only, to its target, and
\* leaves the state that was observed.
LEMMA AppliedCapacity ==
    ASSUME NEW p, NEW c, NEW a, NEW ok \in BOOLEAN, Sound(p, c),
           Passive(a) \/ Reduction(a, c) \/ Growth(a, p, c)
    PROVE  LET r == Applied(p, c, a, ok) IN
           /\ r.policy.state = p.state
           /\ r.capacity >= c \/ (a.kind \in Releases /\ r.capacity = a.target)
<1>1. p \in Policies /\ c \in Nat /\ c >= c
  BY CapacityAssumption DEF Sound, Extent
<1>2. CASE Passive(a)
  <2>1. Applied(p, c, a, ok).policy = p /\ Applied(p, c, a, ok).capacity = c
    BY <1>2 DEF Applied, Passive
  <2> QED
    BY <1>1, <2>1
<1>3. CASE Reduction(a, c)
  <2> DEFINE q == [p EXCEPT !.workspace_phase.released = p.workspace_phase.on]
             r == CASE a.kind = "Rollback"     -> InterruptedWork(q, FALSE)
                    [] a.kind = "ChurnRelease" -> InterruptedWork(q, TRUE)
                    [] OTHER                   -> q
  <2>1. Applied(p, c, a, ok)
          = IF ok THEN [policy |-> Released(p, c, a), capacity |-> a.target, error |-> FALSE]
            ELSE [policy |-> p, capacity |-> c, error |-> TRUE]
    BY <1>3 DEF Applied, Reduction
  <2>2. q \in Policies /\ q.state = p.state
    <3>1. p.workspace_phase \in Phases
      BY <1>1 DEF Policies
    <3>2. [p.workspace_phase EXCEPT !.released = p.workspace_phase.on] \in Phases
      BY <3>1 DEF Phases
    <3> QED
      BY <1>1, <3>2 DEF Policies
  <2> HIDE DEF q
  <2>3. r \in Policies /\ r.state = p.state
    <3>1. CASE r = q
      BY <2>2, <3>1
    <3>2. ASSUME NEW always \in BOOLEAN, r = InterruptedWork(q, always)
          PROVE  r \in Policies /\ r.state = p.state
      <4>1. r \in Policies
        BY <2>2, <3>2, InterruptedFields
      <4>2. r.state = q.state
        BY <2>2, <3>2, InterruptedMore
      <4> QED
        BY <2>2, <4>1, <4>2
    <3> QED
      BY <3>1, <3>2
  <2>4. Released(p, c, a) = CapacityChanged(r, c, a.target)
    BY DEF Released, q
  <2> HIDE DEF r
  <2>5. Released(p, c, a).state = p.state
    BY <2>3, <2>4, CapacityChangedFields
  <2> QED
    BY <1>1, <1>3, <2>1, <2>5 DEF Reduction, Releases
<1>4. CASE Growth(a, p, c)
  <2>1. Applied(p, c, a, ok)
          = IF ok THEN [policy |-> CapacityChanged(p, c, a.target),
                        capacity |-> a.target, error |-> FALSE]
            ELSE [policy |-> RecoveryFailed(p), capacity |-> c, error |-> FALSE]
    BY <1>4 DEF Applied, Growth
  <2>2. CapacityChanged(p, c, a.target).state = p.state
    BY <1>1, CapacityChangedFields
  <2>3. RecoveryFailed(p).state = p.state
    BY <1>1, RecoveryFailedFields
  <2> QED
    BY <1>1, <1>4, <2>1, <2>2, <2>3 DEF Growth
<1> QED
  BY <1>2, <1>3, <1>4

\* check_boundary at a pending trial.
LEMMA CheckBoundarySpares ==
    ASSUME Sound(policy, expert_capacity), Ordinary(policy), NEW b \in Boundaries,
           NEW obs \in Inputs, NEW ok \in Outcomes, policy.trial_capacity # None,
           CheckBoundary(b, obs, ok).policy.state \notin UnderPressure
    PROVE  LET r == CheckBoundary(b, obs, ok) IN
           r.capacity >= expert_capacity \/ r.capacity >= KeepPrefix(policy.earned_target)
<1> DEFINE seen == Observed(policy, expert_capacity, b, obs)
           r == Applied(seen.policy, expert_capacity, seen.action, ok)
<1>1. obs \in Observations /\ ok \in BOOLEAN
  BY ServingAssumption
<1>2. /\ Sound(seen.policy, expert_capacity)
      /\ \/ Passive(seen.action)
         \/ Reduction(seen.action, expert_capacity)
         \/ Growth(seen.action, seen.policy, expert_capacity)
  BY <1>1, ObservedSound
<1>3. CheckBoundary(b, obs, ok) = r
  BY DEF CheckBoundary
<1>4. /\ r.policy.state = seen.policy.state
      /\ \/ r.capacity >= expert_capacity
         \/ seen.action.kind \in Releases /\ r.capacity = seen.action.target
  BY <1>1, <1>2, AppliedCapacity
<1>5. SparesEarned(seen.action, policy)
  BY <1>1, <1>3, <1>4, ObservedSpares
<1> HIDE DEF seen, r
<1> QED
  BY <1>3, <1>4, <1>5 DEF SparesEarned

\* Of a server without phases, what is released at a pending trial and not
\* because of pressure keeps every whole chunk of earned storage: end_request,
\* validation_before_growth and capacity_changed move base, extent and earned
\* target together, and observe releases down to the aligned base.
THEOREM EarnedKept ==
    ASSUME ~Phased
    PROVE  Spec => RollbackKeepsEarned
<1> DEFINE Kept == policy.trial_capacity # None /\ policy'.state \notin UnderPressure
                     => \/ expert_capacity' >= expert_capacity
                        \/ expert_capacity' >= KeepPrefix(policy.earned_target)
<1>1. IndInv /\ Ordinary(policy) /\ [OrdinaryNext]_vars => [Kept]_vars
  <2> SUFFICES ASSUME IndInv, Ordinary(policy), OrdinaryNext,
                      policy.trial_capacity # None, policy'.state \notin UnderPressure
               PROVE  \/ expert_capacity' >= expert_capacity
                      \/ expert_capacity' >= KeepPrefix(policy.earned_target)
    BY DEF vars
  <2>1. Sound(policy, expert_capacity) /\ expert_capacity \in Nat
    BY CapacityAssumption DEF IndInv, Sound, Extent
  <2>2. CASE UNCHANGED expert_capacity
    BY <2>1, <2>2
  <2>3. ASSUME NEW obs \in Inputs, NEW ok \in Outcomes, NEW b \in Boundaries,
               policy' = CheckBoundary(b, obs, ok).policy,
               expert_capacity' = CheckBoundary(b, obs, ok).capacity
        PROVE  \/ expert_capacity' >= expert_capacity
               \/ expert_capacity' >= KeepPrefix(policy.earned_target)
    BY <2>1, <2>3, CheckBoundarySpares
  <2>4. \/ UNCHANGED expert_capacity
        \/ \E obs \in Inputs, ok \in Outcomes, b \in Boundaries :
              /\ policy' = CheckBoundary(b, obs, ok).policy
              /\ expert_capacity' = CheckBoundary(b, obs, ok).capacity
    BY DEF OrdinaryNext, Tick, BeginRequest, EnterOrdinary, EndRequest, Prepared,
           CloseRequest, IdlePoll, AdmitRequest, CompletedOperation, Boundaries
  <2> QED
    BY <2>2, <2>3, <2>4
<1>2. Spec => Init /\ [][OrdinaryNext]_vars
  BY UnphasedIsOrdinary DEF Spec
<1> QED
  BY <1>1, <1>2, OrdinaryInvariance, PTL DEF RollbackKeepsEarned

\* Without phases, adverse time at a pending trial survives every step until
\* the trial ends, its extension by further growth included (capacity_changed).
THEOREM AdversityStays ==
    ASSUME ~Phased
    PROVE  Spec => AdversityKept
<1>1. IndInv /\ Ordinary(policy) /\ [OrdinaryNext]_vars
        => KeepsAdversity(policy, policy')
  BY OrdinaryStep
<1>2. KeepsAdversity(policy, policy')
        => (policy.trial_capacity # None /\ policy'.trial_capacity # None
            => policy'.trial_adverse_active >= policy.trial_adverse_active)
  BY DEF KeepsAdversity
<1>3. Spec => Init /\ [][OrdinaryNext]_vars
  BY UnphasedIsOrdinary DEF Spec
<1> QED
  BY <1>1, <1>2, <1>3, OrdinaryInvariance, PTL DEF AdversityKept

-----------------------------------------------------------------------------
(* Credit: what the policy counts, against the time that was measured.     *)

\* The extent the credit of record p speaks of (CreditExtent).
Spoken(p) == IF p.workspace_phase.on THEN p.workspace_phase.ordinary_capacity ELSE p.capacity

Times == [Extent -> Credit]

\* The credit of record p is backed by the mark m and the times of this request
\* and of earlier ones.
Backed(p, m, now, past) ==
    /\ p.request_clean_active <= now[Spoken(p)]
    /\ p.completed_clean_active <= past[Spoken(p)]
    /\ p.earned_target # None => past[p.earned_target] >= ActiveValidation
    /\ p.validated_in_request # None =>
          /\ p.request_started # None
          /\ now[p.validated_in_request] + past[p.validated_in_request] >= ActiveValidation
    /\ p.last_sample_active =>
          /\ p.request_started # None
          /\ m = p.capacity /\ Spoken(p) = p.capacity
    /\ p.request_started = None => p.request_clean_active = 0

\* The extents and credits of a record, and what is measured at one of them.
LEMMA CreditFacts ==
    ASSUME NEW p \in Policies, NEW now \in Times
    PROVE  /\ Spoken(p) \in Extent
           /\ p.request_clean_active \in Nat /\ p.request_clean_active <= ActiveValidation
           /\ p.completed_clean_active \in Nat /\ p.completed_clean_active <= ActiveValidation
           /\ \A e \in Extent : now[e] \in Nat /\ now[e] <= ActiveValidation
           /\ p.earned_target # None => p.earned_target \in Extent
           /\ p.validated_in_request # None => p.validated_in_request \in Extent
<1>1. p.workspace_phase \in Phases /\ p.capacity \in Extent
  BY DEF Policies
<1>2. Spoken(p) \in Extent
  BY <1>1 DEF Spoken, Phases
<1>3. \A e \in Extent : now[e] \in Credit
  BY DEF Times
<1> QED
  BY <1>2, <1>3, TimeAssumption DEF Policies, Credit

\* Record q holds the credit of record p.
LEMMA RealKept ==
    ASSUME NEW p, NEW q, NEW m, NEW now, NEW past, Backed(p, m, now, past),
           q.capacity = p.capacity, Spoken(q) = Spoken(p),
           q.earned_target = p.earned_target,
           q.validated_in_request = p.validated_in_request,
           q.request_clean_active = p.request_clean_active,
           q.completed_clean_active = p.completed_clean_active,
           q.last_sample_active = p.last_sample_active,
           q.request_started = None <=> p.request_started = None
    PROVE  Backed(q, m, now, past)
BY DEF Backed

\* Record q has dropped the credit of record p; the mark and the extent may
\* have changed.
LEMMA RealCleared ==
    ASSUME NEW p, NEW q \in Policies, NEW m, NEW k, NEW now \in Times, NEW past \in Times,
           Backed(p, m, now, past),
           q.earned_target = p.earned_target,
           q.validated_in_request \in {None, p.validated_in_request},
           q.request_clean_active = 0,
           q.completed_clean_active = 0,
           ~q.last_sample_active,
           q.request_started = p.request_started
    PROVE  Backed(q, k, now, past)
<1>1. now[Spoken(q)] >= 0 /\ past[Spoken(q)] >= 0
  BY CreditFacts
<1> QED
  BY <1>1 DEF Backed

\* capacity_changed drops the credit; what validation_before_growth remembers
\* was served at the extent it names.
LEMMA ChangedReal ==
    ASSUME NEW p, NEW new \in Extent, NEW m, NEW k, NEW now \in Times, NEW past \in Times,
           Sound(p, p.capacity), p.stop_latched => new = MinCapacity,
           Backed(p, m, now, past)
    PROVE  Backed(CapacityChanged(p, p.capacity, new), k, now, past)
<1> DEFINE q == CapacityChanged(p, p.capacity, new)
           qualified == /\ p.request_started # None
                        /\ ValidationExtentMatches(p, p.capacity)
                        /\ p.completed_clean_active + p.request_clean_active >= ActiveValidation
           here == IF qualified THEN p.capacity ELSE None
<1>1. p \in Policies /\ q \in Policies /\ p.capacity \in Extent
  BY CapacityChangedSound DEF Sound
<1>2. /\ q.earned_target = p.earned_target
      /\ q.validated_in_request = ValidationBeforeGrowth(p, new)
      /\ q.request_clean_active = 0
      /\ q.completed_clean_active = 0
      /\ ~q.last_sample_active
      /\ q.request_started = p.request_started
  BY <1>1, CapacityChangedFields
<1>3. now[Spoken(q)] >= 0 /\ past[Spoken(q)] >= 0
  BY <1>1, CreditFacts
<1>4. q.validated_in_request \in {None, p.validated_in_request, here}
  BY <1>2 DEF ValidationBeforeGrowth, Greatest
<1>5. ASSUME qualified
      PROVE  /\ p.request_started # None
             /\ now[p.capacity] + past[p.capacity] >= ActiveValidation
  <2>1. Spoken(p) = p.capacity
    BY <1>5 DEF ValidationExtentMatches, Spoken
  <2>2. /\ p.request_clean_active \in Nat /\ p.completed_clean_active \in Nat
        /\ now[p.capacity] \in Nat /\ past[p.capacity] \in Nat
    BY <1>1, CreditFacts
  <2>3. p.request_clean_active <= now[p.capacity] /\ p.completed_clean_active <= past[p.capacity]
    BY <2>1 DEF Backed
  <2> QED
    BY <1>1, <1>5, <2>2, <2>3, TimeAssumption
<1> HIDE DEF q, qualified
<1>6. ASSUME q.validated_in_request # None
      PROVE  /\ q.request_started # None
             /\ now[q.validated_in_request] + past[q.validated_in_request] >= ActiveValidation
  <2>1. CASE q.validated_in_request = p.validated_in_request
    BY <1>2, <1>6, <2>1 DEF Backed
  <2>2. CASE q.validated_in_request = here
    BY <1>2, <1>5, <1>6, <2>2
  <2> QED
    BY <1>4, <1>6, <2>1, <2>2
<1>7. Backed(q, k, now, past)
  BY <1>2, <1>3, <1>6 DEF Backed
<1> QED
  BY <1>7 DEF q

\* release_capacity
LEMMA ReleasedReal ==
    ASSUME NEW p, NEW c, NEW a, NEW m, NEW k, NEW now \in Times, NEW past \in Times,
           Sound(p, c), Reduction(a, c), Backed(p, m, now, past)
    PROVE  LET q == Released(p, c, a) IN
           /\ Backed(q, k, now, past)
           /\ q.request_started = p.request_started
           /\ q.last_sample = p.last_sample
           /\ q.state = p.state
<1> DEFINE h == [p EXCEPT !.workspace_phase.released = p.workspace_phase.on]
           r == CASE a.kind = "Rollback"     -> InterruptedWork(h, FALSE)
                  [] a.kind = "ChurnRelease" -> InterruptedWork(h, TRUE)
                  [] OTHER                   -> h
           q == CapacityChanged(r, c, a.target)
<1>1. p \in Policies /\ c \in Extent /\ p.capacity = c /\ p.workspace_phase \in Phases
  BY DEF Sound, Policies
<1>2. h \in Policies
  <2>1. [p.workspace_phase EXCEPT !.released = p.workspace_phase.on] \in Phases
    BY <1>1 DEF Phases
  <2> QED
    BY <1>1, <2>1 DEF Policies
<1>3. /\ h.capacity = c
      /\ h.trial_base = p.trial_base
      /\ h.trial_capacity = p.trial_capacity
      /\ h.stop_latched = p.stop_latched
      /\ h.earned_target = p.earned_target
      /\ h.validated_in_request = p.validated_in_request
      /\ h.request_clean_active = p.request_clean_active
      /\ h.completed_clean_active = p.completed_clean_active
      /\ h.last_sample_active = p.last_sample_active
      /\ h.request_started = p.request_started
      /\ h.last_sample = p.last_sample
      /\ h.state = p.state
  BY <1>1 DEF Policies
<1>4. h.workspace_phase.on = p.workspace_phase.on
      /\ h.workspace_phase.ordinary_capacity = p.workspace_phase.ordinary_capacity
  BY <1>1 DEF Policies, Phases
<1> HIDE DEF h
<1>5. Sound(h, c)
  BY <1>2, <1>3 DEF Sound, Paired
<1>6. Backed(h, m, now, past)
  <2>1. Spoken(h) = Spoken(p)
    BY <1>1, <1>3, <1>4 DEF Spoken
  <2> QED
    BY <1>1, <1>3, <2>1, RealKept
<1>7. \A always \in BOOLEAN :
         LET i == InterruptedWork(h, always) IN
         /\ Sound(i, c)
         /\ Backed(i, m, now, past)
         /\ i.request_started = h.request_started
         /\ i.last_sample = h.last_sample
         /\ i.state = h.state
  <2> TAKE always \in BOOLEAN
  <2> DEFINE i == InterruptedWork(h, always)
  <2>1. /\ i \in Policies
        /\ i.capacity = h.capacity
        /\ i.trial_base = None
        /\ i.trial_capacity = None
        /\ i.stop_latched = h.stop_latched
    BY <1>2, InterruptedFields
  <2>2. /\ i.earned_target = h.earned_target
        /\ i.validated_in_request = None
        /\ i.request_clean_active = 0
        /\ i.completed_clean_active = 0
        /\ ~i.last_sample_active
        /\ i.request_started = h.request_started
        /\ i.last_sample = h.last_sample
        /\ i.state = h.state
    BY <1>2, InterruptedMore
  <2> HIDE DEF i
  <2>3. Sound(i, c)
    BY <1>5, <2>1 DEF Sound, Paired
  <2>4. Backed(i, m, now, past)
    BY <1>6, <2>1, <2>2, RealCleared
  <2> QED
    BY <2>2, <2>3, <2>4 DEF i
<1>8. /\ Sound(r, c)
      /\ Backed(r, m, now, past)
      /\ r.request_started = p.request_started
      /\ r.last_sample = p.last_sample
      /\ r.state = p.state
  <2>1. CASE a.kind = "Release"
    <3>1. r = h
      BY <2>1
    <3> QED
      BY <1>3, <1>5, <1>6, <3>1
  <2>2. CASE a.kind = "Rollback"
    <3>1. r = InterruptedWork(h, FALSE)
      BY <2>2
    <3> QED
      BY <1>3, <1>7, <3>1
  <2>3. CASE a.kind = "ChurnRelease"
    <3>1. r = InterruptedWork(h, TRUE)
      BY <2>3
    <3> QED
      BY <1>3, <1>7, <3>1
  <2> QED
    BY <2>1, <2>2, <2>3 DEF Reduction
<1>9. Released(p, c, a) = q
  BY DEF Released, h
<1> HIDE DEF r
<1>10. r \in Policies /\ r.capacity = c /\ a.target \in Extent
       /\ (r.stop_latched => a.target = MinCapacity)
  BY <1>8, CapacityAssumption DEF Sound, Reduction, Extent
<1>11. Backed(q, k, now, past)
  BY <1>8, <1>10, ChangedReal
<1>12. q.request_started = r.request_started /\ q.last_sample = r.last_sample /\ q.state = r.state
  BY <1>10, CapacityChangedFields
<1> HIDE DEF q
<1> QED
  BY <1>8, <1>9, <1>11, <1>12

\* One sample: clean time is counted only between two healthy samples at the
\* extent the credit speaks of, as the mark has seen them.
LEMMA SampleReal ==
    ASSUME NEW p, NEW c, NEW b \in Boundaries, NEW obs \in Observations,
           NEW m, NEW now \in Times, NEW past \in Times,
           Sound(p, c), Backed(p, m, now, past), SampleDue(p)
    PROVE  LET s == Sample(p, c, b, obs)
               started == p.request_started # None
               quiet == s.state = "NormalQuiet"
               mark1 == IF started /\ quiet THEN c ELSE None
               now1 == IF ~started THEN NoTime
                       ELSE IF quiet /\ m = c
                            THEN [now EXCEPT ![c] = AddCredit(@, p.last_sample)] ELSE now
           IN  now1 \in Times /\ Backed(s, mark1, now1, past)
<1> DEFINE s == Sample(p, c, b, obs)
           started == p.request_started # None
           quiet == s.state = "NormalQuiet"
           mark1 == IF started /\ quiet THEN c ELSE None
           now1 == IF ~started THEN NoTime
                   ELSE IF quiet /\ m = c
                        THEN [now EXCEPT ![c] = AddCredit(@, p.last_sample)] ELSE now
           state == Classify(p, obs)
           entered == state \in UnderPressure /\ p.state \notin UnderPressure
           clean == CleanCredit(p, c, obs)
<1>1. p \in Policies /\ c \in Extent /\ p.capacity = c /\ s \in Policies
  BY SampleFields DEF Sound
<1>2. /\ s.state = state
      /\ s.earned_target = p.earned_target
      /\ s.request_started = p.request_started
      /\ entered => /\ s.request_clean_active = 0
                    /\ s.completed_clean_active = 0
                    /\ s.validated_in_request = None
                    /\ ~s.last_sample_active
      /\ ~entered => /\ s.request_clean_active = clean
                     /\ s.completed_clean_active = p.completed_clean_active
                     /\ s.validated_in_request = p.validated_in_request
                     /\ s.last_sample_active = (state = "NormalQuiet" /\ RequestActive(p, c))
  BY <1>1, SampleMore
<1>3. s.capacity = c /\ s.workspace_phase = p.workspace_phase /\ Spoken(s) = Spoken(p)
  <2>1. s.capacity = c /\ s.workspace_phase = p.workspace_phase
    BY <1>1, SampleFields
  <2> QED
    BY <1>1, <2>1 DEF Spoken
<1>4. RequestActive(p, c) => started /\ Spoken(p) = c
  BY <1>1 DEF RequestActive, ValidationExtentMatches, Spoken
<1> HIDE DEF s, state, entered
<1>5. quiet => p.last_sample \in Nat
  <2>1. state = "NormalQuiet" => ~SampleGap(p)
    BY DEF state, Classify, Observations, Pressures
  <2> QED
    BY <1>1, <1>2, <2>1, NoGapNat
<1>6. /\ \A e \in Extent : now[e] \in Credit /\ past[e] \in Credit
      /\ DOMAIN now = Extent
  BY DEF Times
<1>7. now1 \in Times
  <2>1. NoTime \in Times
    BY ResetValues DEF NoTime, Times
  <2>2. quiet => AddCredit(now[c], p.last_sample) \in Credit
    BY <1>1, <1>5, <1>6, AddCreditType
  <2>3. quiet => [now EXCEPT ![c] = AddCredit(@, p.last_sample)] \in Times
    BY <2>2 DEF Times
  <2> QED
    BY <2>1, <2>3
<1>8. ASSUME started, NEW e \in Extent
      PROVE  now[e] <= now1[e]
  <2>1. quiet => now[c] <= AddCredit(now[c], p.last_sample)
    BY <1>1, <1>5, <1>6, TimeAssumption DEF AddCredit, Least, Credit
  <2>2. now[e] <= now[e]
    BY <1>6, TimeAssumption DEF Credit
  <2> QED
    BY <1>1, <1>6, <1>8, <2>1, <2>2
<1>9. ASSUME NEW e \in Extent PROVE now1[e] \in Credit
  BY <1>7 DEF Times
<1>10. Spoken(p) \in Extent
  BY <1>1, CreditFacts
<1>11. clean <= now1[Spoken(p)]
  <2>1. p.request_clean_active <= now[Spoken(p)] /\ p.request_clean_active \in Credit
    BY <1>1 DEF Backed, Policies
  <2>2. CASE clean = p.request_clean_active /\ started
    <3>1. /\ now[Spoken(p)] <= now1[Spoken(p)]
          /\ now[Spoken(p)] \in Credit /\ now1[Spoken(p)] \in Credit
      BY <1>6, <1>8, <1>9, <1>10, <2>2
    <3> HIDE DEF now1, clean, started
    <3> QED
      BY <2>1, <2>2, <3>1, TimeAssumption DEF Credit
  <2>3. CASE clean = p.request_clean_active /\ ~started
    <3>1. clean = 0
      BY <2>3 DEF Backed
    <3> QED
      BY <1>9, <1>10, <3>1, TimeAssumption DEF Credit
  <2>4. CASE clean # p.request_clean_active
    <3>1. /\ state = "NormalQuiet" /\ RequestActive(p, c) /\ p.last_sample_active
          /\ clean = AddCredit(p.request_clean_active, p.last_sample)
      BY <2>4 DEF CleanCredit, state
    <3>2. m = c /\ started /\ quiet /\ Spoken(p) = c
      BY <1>1, <1>2, <1>4, <3>1 DEF Backed
    <3>3. now1[c] = AddCredit(now[c], p.last_sample)
      BY <1>1, <1>6, <3>2
    <3>4. AddCredit(p.request_clean_active, p.last_sample) <= AddCredit(now[c], p.last_sample)
      BY <1>1, <1>5, <1>6, <2>1, <3>2, TimeAssumption DEF AddCredit, Least, Credit
    <3> QED
      BY <3>1, <3>2, <3>3, <3>4
  <2> QED
    BY <2>2, <2>3, <2>4
<1>12. now1[Spoken(p)] >= 0 /\ past[Spoken(p)] >= 0
  BY <1>6, <1>9, <1>10, TimeAssumption DEF Credit
<1>13. ASSUME p.validated_in_request # None
       PROVE  /\ started
              /\ now1[p.validated_in_request] + past[p.validated_in_request] >= ActiveValidation
  <2> DEFINE e == p.validated_in_request
  <2>1. e \in Extent
    BY <1>1, <1>13, CreditFacts
  <2>2. started /\ now[e] + past[e] >= ActiveValidation
    BY <1>13 DEF Backed
  <2>3. now[e] <= now1[e] /\ now[e] \in Credit /\ now1[e] \in Credit /\ past[e] \in Credit
    BY <1>6, <1>8, <1>9, <2>1, <2>2
  <2> HIDE DEF e, now1, started
  <2>4. now1[e] + past[e] >= ActiveValidation
    BY <2>2, <2>3, TimeAssumption DEF Credit
  <2> QED
    BY <2>2, <2>4 DEF e
<1>14. ~started => clean = 0
  BY <1>4 DEF CleanCredit, Backed
<1>15. s.last_sample_active => started /\ mark1 = c /\ Spoken(p) = c
  <2>1. s.last_sample_active => state = "NormalQuiet" /\ RequestActive(p, c)
    BY <1>2
  <2> QED
    BY <1>2, <1>4, <2>1
<1>16. /\ s.request_clean_active <= now1[Spoken(s)]
       /\ s.completed_clean_active <= past[Spoken(s)]
       /\ ~started => s.request_clean_active = 0
  <2>1. CASE entered
    BY <1>2, <1>3, <1>12, <2>1
  <2>2. CASE ~entered
    BY <1>2, <1>3, <1>11, <1>14, <2>2 DEF Backed
  <2> QED
    BY <2>1, <2>2
<1>17. s.validated_in_request # None
         => /\ started
            /\ now1[s.validated_in_request] + past[s.validated_in_request] >= ActiveValidation
  BY <1>2, <1>13
<1> HIDE DEF now1, mark1, clean, quiet
<1>18. Backed(s, mark1, now1, past)
  BY <1>2, <1>3, <1>15, <1>16, <1>17 DEF Backed
<1> QED
  BY <1>7, <1>18 DEF now1, mark1, quiet, s

\* The times of a request that is not running do not matter.
LEMMA RealIdle ==
    ASSUME NEW p \in Policies, NEW m, NEW k, NEW now, NEW past,
           Backed(p, m, now, past), p.request_started = None
    PROVE  NoTime \in Times /\ Backed(p, k, NoTime, past)
<1>1. Spoken(p) \in Extent /\ \A e \in Extent : NoTime[e] = 0
  BY DEF Spoken, Policies, Phases, NoTime
<1>2. NoTime \in Times
  BY ResetValues DEF NoTime, Times
<1> QED
  BY <1>1, <1>2 DEF Backed

\* check_boundary up to the action, sampled or not.
LEMMA ObservedReal ==
    ASSUME NEW p, NEW c, NEW b \in Boundaries, NEW obs \in Observations,
           NEW m, NEW now \in Times, NEW past \in Times,
           Sound(p, c), Backed(p, m, now, past)
    PROVE  LET q == Observed(p, c, b, obs).policy
               due == SampleDue(p)
               started == p.request_started # None
               quiet == due /\ q.state = "NormalQuiet"
               mark1 == IF ~started THEN None
                        ELSE IF due THEN IF quiet THEN c ELSE None ELSE m
               now1 == IF ~started THEN NoTime
                       ELSE IF quiet /\ m = c
                            THEN [now EXCEPT ![c] = AddCredit(@, p.last_sample)] ELSE now
           IN  /\ now1 \in Times
               /\ Backed(q, mark1, now1, past)
               /\ q.request_started = p.request_started
               /\ q.last_sample = IF due THEN 0 ELSE p.last_sample
<1> DEFINE q == Observed(p, c, b, obs).policy
           due == SampleDue(p)
           started == p.request_started # None
           quiet == due /\ q.state = "NormalQuiet"
           mark1 == IF ~started THEN None
                    ELSE IF due THEN IF quiet THEN c ELSE None ELSE m
           now1 == IF ~started THEN NoTime
                   ELSE IF quiet /\ m = c
                        THEN [now EXCEPT ![c] = AddCredit(@, p.last_sample)] ELSE now
           Done == /\ now1 \in Times
                   /\ Backed(q, mark1, now1, past)
                   /\ q.request_started = p.request_started
                   /\ q.last_sample = IF due THEN 0 ELSE p.last_sample
<1>1. p \in Policies /\ c \in Extent /\ p.capacity = c
  BY DEF Sound
<1>2. ASSUME due PROVE Done
  <2> DEFINE s == Sample(p, c, b, obs)
             calm == s.state = "NormalQuiet"
             mark2 == IF started /\ calm THEN c ELSE None
             now2 == IF ~started THEN NoTime
                     ELSE IF calm /\ m = c
                          THEN [now EXCEPT ![c] = AddCredit(@, p.last_sample)] ELSE now
  <2>1. q = LatchCritical(s, c)
    BY <1>2 DEF Observed
  <2>2. now2 \in Times /\ Backed(s, mark2, now2, past)
    BY <1>2, SampleReal
  <2>3. s \in Policies /\ s.last_sample = 0 /\ s.request_started = p.request_started
    BY <1>1, SampleFields, SampleMore
  <2> HIDE DEF s, q
  <2>4. /\ q.capacity = s.capacity
        /\ q.workspace_phase = s.workspace_phase
        /\ q.earned_target = s.earned_target
        /\ q.validated_in_request = s.validated_in_request
        /\ q.request_clean_active = s.request_clean_active
        /\ q.completed_clean_active = s.completed_clean_active
        /\ q.last_sample_active = s.last_sample_active
        /\ q.request_started = s.request_started
        /\ q.last_sample = s.last_sample
        /\ q.state = s.state
    BY <2>1, <2>3 DEF LatchCritical, Policies
  <2>5. mark1 = mark2 /\ now1 = now2
    BY <1>2, <2>4
  <2> HIDE DEF mark1, now1, mark2, now2
  <2>6. Spoken(q) = Spoken(s)
    BY <2>4 DEF Spoken
  <2>7. Backed(q, mark2, now2, past)
    BY <2>2, <2>4, <2>6, RealKept
  <2>8. now1 \in Times /\ Backed(q, mark1, now1, past)
    BY <2>2, <2>5, <2>7
  <2>9. q.last_sample = 0 /\ q.request_started = p.request_started
    BY <2>3, <2>4
  <2> QED
    BY <1>2, <2>8, <2>9
<1>3. ASSUME ~due PROVE Done
  <2>1. q = p
    BY <1>3 DEF Observed
  <2>2. CASE started
    BY <1>3, <2>1, <2>2
  <2>3. CASE ~started
    BY <1>1, <1>3, <2>1, <2>3, RealIdle
  <2> QED
    BY <2>2, <2>3
<1>4. Done
  BY <1>2, <1>3
<1> QED
  BY <1>4

\* recovery_failed
LEMMA FailedReal ==
    ASSUME NEW p \in Policies, NEW m, NEW now, NEW past, Backed(p, m, now, past)
    PROVE  Backed(RecoveryFailed(p), m, now, past)
<1>1. Keeps(RecoveryFailed(p), p)
  BY RecoveryFailedKeeps
<1>2. Spoken(RecoveryFailed(p)) = Spoken(p)
  BY <1>1 DEF Keeps, Spoken
<1> QED
  BY <1>1, <1>2, RecoveryFailedFields, RealKept DEF Keeps

\* apply_observation
LEMMA AppliedReal ==
    ASSUME NEW p, NEW c, NEW a, NEW ok \in BOOLEAN,
           NEW m, NEW now \in Times, NEW past \in Times,
           Sound(p, c), Passive(a) \/ Reduction(a, c) \/ Growth(a, p, c),
           Backed(p, m, now, past), NEW k, k = m \/ Applied(p, c, a, ok).capacity # c
    PROVE  LET q == Applied(p, c, a, ok).policy IN
           /\ Backed(q, k, now, past)
           /\ q.request_started = p.request_started
           /\ q.last_sample = p.last_sample
           /\ q.state = p.state
<1>1. p \in Policies /\ p.capacity = c
  BY DEF Sound
<1>2. CASE Passive(a)
  <2>1. Applied(p, c, a, ok).policy = p /\ Applied(p, c, a, ok).capacity = c
    BY <1>2 DEF Applied, Passive
  <2> QED
    BY <2>1
<1>3. CASE Reduction(a, c)
  <2> DEFINE q == Released(p, c, a)
  <2>1. Applied(p, c, a, ok) =
          IF ok THEN [policy |-> q, capacity |-> a.target, error |-> FALSE]
                ELSE [policy |-> p, capacity |-> c, error |-> TRUE]
    BY <1>3 DEF Applied, Reduction
  <2>2. /\ Backed(q, k, now, past)
        /\ q.request_started = p.request_started
        /\ q.last_sample = p.last_sample
        /\ q.state = p.state
    BY <1>3, ReleasedReal
  <2> HIDE DEF q
  <2> QED
    BY <2>1, <2>2
<1>4. CASE Growth(a, p, c)
  <2> DEFINE q == CapacityChanged(p, c, a.target)
  <2>1. Applied(p, c, a, ok) =
          IF ok THEN [policy |-> q, capacity |-> a.target, error |-> FALSE]
                ELSE [policy |-> RecoveryFailed(p), capacity |-> c, error |-> FALSE]
    BY <1>4 DEF Applied, Growth
  <2>2. Backed(q, k, now, past)
    BY <1>1, <1>4, ChangedReal DEF Growth
  <2>3. q.request_started = p.request_started /\ q.last_sample = p.last_sample
        /\ q.state = p.state
    BY <1>1, CapacityChangedFields
  <2> HIDE DEF q
  <2>4. Backed(RecoveryFailed(p), m, now, past)
    BY <1>1, FailedReal
  <2>5. /\ RecoveryFailed(p).request_started = p.request_started
        /\ RecoveryFailed(p).last_sample = p.last_sample
        /\ RecoveryFailed(p).state = p.state
    BY <1>1, RecoveryFailedFields
  <2> QED
    BY <2>1, <2>2, <2>3, <2>4, <2>5
<1> QED
  BY <1>2, <1>3, <1>4

-----------------------------------------------------------------------------
(* The measured steps *)

CreditInv ==
    /\ IndInv
    /\ serving \in Times /\ served \in Times
    /\ Backed(policy, mark, serving, served)

\* What a step leaves behind.
RealNext ==
    /\ serving' \in Times /\ served' \in Times
    /\ Backed(policy', mark', serving', served')

\* A step that neither samples nor ends a request measures nothing.
LEMMA QuietMeasure ==
    ASSUME Measure, ~SampledStep, serving \in Times, served \in Times,
           policy' \in Policies, Backed(policy', mark, serving, served),
           policy'.last_sample_active => InRequest,
           InRequest => policy'.request_started # None
    PROVE  RealNext
<1>1. served' = served
  BY DEF Measure
<1>2. CASE policy'.request_started = None
  <2>1. serving' = NoTime
    BY <1>2 DEF Measure
  <2>2. NoTime \in Times /\ Backed(policy', mark', NoTime, served)
    BY <1>2, RealIdle
  <2> QED
    BY <1>1, <2>1, <2>2 DEF RealNext
<1>3. CASE policy'.request_started # None
  <2>1. serving' = serving
    BY <1>3 DEF Measure, HealthyStep
  <2>2. InRequest => mark' = mark
    BY <1>3 DEF Measure
  <2>3. Backed(policy', mark', serving, served)
    BY <2>2 DEF Backed
  <2> QED
    BY <1>1, <2>1, <2>3 DEF RealNext
<1> QED
  BY <1>2, <1>3

\* check_boundary, measured.
LEMMA PolledReal ==
    ASSUME CreditInv, NEW b \in Boundaries, NEW obs \in Inputs, NEW ok \in Outcomes,
           policy' = CheckBoundary(b, obs, ok).policy,
           expert_capacity' = CheckBoundary(b, obs, ok).capacity,
           Measure
    PROVE  RealNext
<1> DEFINE c == expert_capacity
           seen == Observed(policy, c, b, obs)
           q == seen.policy
           due == SampleDue(policy)
           started == policy.request_started # None
           quiet == due /\ q.state = "NormalQuiet"
           mark1 == IF ~started THEN None
                    ELSE IF due THEN IF quiet THEN c ELSE None ELSE mark
           now1 == IF ~started THEN NoTime
                   ELSE IF quiet /\ mark = c
                        THEN [serving EXCEPT ![c] = AddCredit(@, policy.last_sample)]
                        ELSE serving
           a == seen.action
           r == Applied(q, c, a, ok)
<1>1. /\ obs \in Observations /\ ok \in BOOLEAN
      /\ Sound(policy, c) /\ policy \in Policies
  BY ServingAssumption DEF CreditInv, IndInv, Sound
<1>2. /\ now1 \in Times
      /\ Backed(q, mark1, now1, served)
      /\ q.request_started = policy.request_started
      /\ q.last_sample = IF due THEN 0 ELSE policy.last_sample
  BY <1>1, ObservedReal DEF CreditInv
<1>3. /\ Sound(q, c)
      /\ Passive(a) \/ Reduction(a, c) \/ Growth(a, q, c)
  BY <1>1, ObservedSound
<1>4. policy' = r.policy /\ expert_capacity' = r.capacity
  BY DEF CheckBoundary
<1>5. served \in Times
  BY DEF CreditInv
<1> HIDE DEF q, now1, mark1, a, c
<1>6. ASSUME NEW k, k = mark1 \/ r.capacity # c
      PROVE  /\ Backed(r.policy, k, now1, served)
             /\ r.policy.request_started = q.request_started
             /\ r.policy.last_sample = q.last_sample
             /\ r.policy.state = q.state
  <2> HIDE DEF seen, due, started, quiet
  <2>1. /\ k = mark1 \/ Applied(q, c, a, ok).capacity # c
        /\ ok \in BOOLEAN
        /\ Sound(q, c)
        /\ Passive(a) \/ Reduction(a, c) \/ Growth(a, q, c)
        /\ now1 \in Times /\ served \in Times
        /\ Backed(q, mark1, now1, served)
    BY <1>1, <1>2, <1>3, <1>5, <1>6
  <2>2. /\ Backed(Applied(q, c, a, ok).policy, k, now1, served)
        /\ Applied(q, c, a, ok).policy.request_started = q.request_started
        /\ Applied(q, c, a, ok).policy.last_sample = q.last_sample
        /\ Applied(q, c, a, ok).policy.state = q.state
    BY ONLY <2>1, AppliedReal
  <2> QED
    BY <2>2
<1> USE DEF c
<1> HIDE DEF r
<1>7. due <=> SampledStep
  <2>1. due => policy.last_sample # 0
    BY TimeAssumption DEF SampleDue, None
  <2> QED
    BY <1>2, <1>4, <1>6, <2>1 DEF SampledStep
<1>8. quiet <=> HealthyStep
  BY <1>4, <1>6, <1>7 DEF HealthyStep
<1>9. policy'.request_started = policy.request_started
  BY <1>2, <1>4, <1>6
<1> HIDE DEF due, quiet
<1>10. served' = served
  BY <1>9 DEF Measure, InRequest
<1>11. serving' = now1
  BY <1>8, <1>9 DEF Measure, InRequest, now1
<1>12. mark' = mark1 \/ r.capacity # c
  BY <1>4, <1>7, <1>8, <1>9 DEF Measure, InRequest, mark1
<1>13. Backed(policy', mark', now1, served)
  BY <1>4, <1>6, <1>12
<1> QED
  BY <1>2, <1>5, <1>10, <1>11, <1>13 DEF RealNext

\* Steps at which the policy's record holds its credit, and what a step that
\* leaves the record alone measures.
LEMMA HeldReal ==
    ASSUME CreditInv, Measure, policy' \in Policies,
           Backed(policy', mark, serving, served),
           policy'.request_started = None <=> policy.request_started = None,
           policy.last_sample # 0 => policy'.last_sample # 0
    PROVE  RealNext
<1>1. ~SampledStep
  BY DEF SampledStep
<1>2. InRequest => policy'.request_started # None
  BY DEF InRequest
<1>3. policy'.last_sample_active => InRequest
  BY DEF Backed, InRequest
<1> QED
  BY <1>1, <1>2, <1>3, QuietMeasure DEF CreditInv

\* The passage of time.
LEMMA LaterReal ==
    ASSUME CreditInv, Tick, Measure
    PROVE  RealNext
<1> DEFINE q == PolicyLater(policy)
<1>1. policy \in Policies /\ Keeps(q, policy) /\ policy' = q
  BY LaterKeeps DEF CreditInv, IndInv, Sound, Tick
<1>2. /\ q.earned_target = policy.earned_target
      /\ q.validated_in_request = policy.validated_in_request
      /\ q.request_clean_active = policy.request_clean_active
      /\ q.completed_clean_active = policy.completed_clean_active
      /\ q.last_sample_active = policy.last_sample_active
      /\ q.request_started = Older(policy.request_started)
      /\ q.last_sample = Older(policy.last_sample)
  BY <1>1 DEF PolicyLater, Policies
<1> HIDE DEF q
<1>3. /\ Older(policy.request_started) = None <=> policy.request_started = None
      /\ Older(policy.last_sample) # 0
  <2>1. policy.request_started \in Age /\ policy.last_sample \in Age
    BY <1>1 DEF Policies
  <2> QED
    BY <2>1, TimeAssumption DEF Older, Age, None, Least
<1>4. q \in Policies /\ q.capacity = policy.capacity /\ Spoken(q) = Spoken(policy)
  BY <1>1 DEF Keeps, Spoken
<1>5. Backed(q, mark, serving, served)
  BY <1>2, <1>3, <1>4, RealKept DEF CreditInv
<1> QED
  BY <1>1, <1>2, <1>3, <1>4, <1>5, HeldReal

\* begin_request
LEMMA BegunReal ==
    ASSUME CreditInv, BeginRequest, Measure
    PROVE  RealNext
<1> DEFINE q == PolicyBeginRequest(policy)
<1>1. policy \in Policies /\ Keeps(q, policy) /\ policy' = q
  BY BeginRequestKeeps DEF CreditInv, IndInv, Sound, BeginRequest
<1>2. /\ q.earned_target = policy.earned_target
      /\ q.validated_in_request = None
      /\ q.request_clean_active = 0
      /\ q.completed_clean_active = policy.completed_clean_active
      /\ ~q.last_sample_active
      /\ q.request_started = 0
      /\ q.last_sample = policy.last_sample
  BY <1>1 DEF PolicyBeginRequest, Policies
<1> HIDE DEF q
<1>3. q \in Policies /\ Spoken(q) = Spoken(policy)
  BY <1>1 DEF Keeps, Spoken
<1>4. serving[Spoken(q)] >= 0
  BY <1>3, CreditFacts DEF CreditInv
<1>5. Backed(q, mark, serving, served)
  BY <1>2, <1>3, <1>4 DEF CreditInv, Backed
<1>6. ~SampledStep /\ policy'.request_started # None
  BY <1>1, <1>2 DEF SampledStep, None
<1> QED
  BY <1>1, <1>2, <1>3, <1>5, <1>6, QuietMeasure DEF CreditInv

\* What was served in an accepted request is added to what was served before.
Together(now, past) == [c \in Extent |-> AddCredit(past[c], now[c])]

\* The sum is no less than either part.
LEMMA TogetherFacts ==
    ASSUME NEW now \in Times, NEW past \in Times
    PROVE  /\ Together(now, past) \in Times
           /\ \A e \in Extent :
                 /\ Together(now, past)[e] >= past[e]
                 /\ \A a, b \in Credit : a <= past[e] /\ b <= now[e]
                       => AddCredit(a, b) <= Together(now, past)[e]
                 /\ now[e] + past[e] >= ActiveValidation
                       => Together(now, past)[e] >= ActiveValidation
<1>1. \A e \in Extent : now[e] \in Credit /\ past[e] \in Credit
  BY DEF Times
<1>2. \A e \in Extent : AddCredit(past[e], now[e]) \in Credit
  <2>1. \A x \in Credit : x \in Nat
    BY TimeAssumption DEF Credit
  <2> QED
    BY <1>1, <2>1, AddCreditType
<1>3. Together(now, past) \in Times
  BY <1>2 DEF Together, Times
<1>4. ASSUME NEW e \in Extent
      PROVE  /\ AddCredit(past[e], now[e]) >= past[e]
             /\ \A a, b \in Credit : a <= past[e] /\ b <= now[e]
                   => AddCredit(a, b) <= AddCredit(past[e], now[e])
             /\ now[e] + past[e] >= ActiveValidation
                   => AddCredit(past[e], now[e]) >= ActiveValidation
  <2>1. \A x, y \in Credit : /\ AddCredit(x, y) >= x
                             /\ x + y >= ActiveValidation => AddCredit(x, y) >= ActiveValidation
    BY TimeAssumption DEF AddCredit, Least, Credit
  <2>2. \A x, y, a, b \in Credit : a <= x /\ b <= y => AddCredit(a, b) <= AddCredit(x, y)
    BY TimeAssumption DEF AddCredit, Least, Credit
  <2>3. \A x, y \in Credit : x + y = y + x
    BY TimeAssumption DEF Credit
  <2> QED
    BY <1>1, <2>1, <2>2, <2>3
<1>5. \A e \in Extent : Together(now, past)[e] = AddCredit(past[e], now[e])
  BY DEF Together
<1> QED
  BY <1>3, <1>4, <1>5

\* Records whose policy does not change.
LEMMA IdleReal ==
    ASSUME CreditInv, Measure, policy' = policy
    PROVE  RealNext
BY HeldReal DEF CreditInv, IndInv, Sound

\* end_request: what is accepted was served, at the extent it is accepted for.
LEMMA EndedReal ==
    ASSUME CreditInv, EndRequest, Measure
    PROVE  RealNext
<1> DEFINE p == policy
           c == expert_capacity
           all == Together(serving, served)
           v == AcceptValidated(p)
           k == AcceptCurrent(v)
           x == IF EndCounts(p, ~doomed) THEN k ELSE p
           q == PolicyEndRequest(p, ~doomed)
<1>1. /\ Sound(p, c) /\ p \in Policies /\ c \in Extent /\ p.capacity = c
      /\ serving \in Times /\ served \in Times
      /\ Backed(p, mark, serving, served)
      /\ doomed \in BOOLEAN
  BY DEF CreditInv, IndInv, Sound, OwnerSound
<1>2. policy' = q
  BY DEF EndRequest
<1>3. q = [x EXCEPT !.validated_in_request = None,
                    !.last_churn_sample_active = FALSE,
                    !.request_started = None,
                    !.last_sample_active = FALSE,
                    !.last_sample_trial_active = FALSE,
                    !.request_clean_active = 0]
  BY DEF PolicyEndRequest
<1>4. /\ p.request_clean_active \in Credit /\ p.completed_clean_active \in Credit
      /\ p.earned_target \in Int /\ p.validated_in_request \in Int
      /\ c \in Int /\ None = -1
  BY <1>1, CapacityAssumption DEF Policies, Extent, None
<1>5. /\ all \in Times
      /\ \A e \in Extent :
            /\ all[e] >= served[e]
            /\ \A a, b \in Credit : a <= served[e] /\ b <= serving[e]
                  => AddCredit(a, b) <= all[e]
            /\ serving[e] + served[e] >= ActiveValidation => all[e] >= ActiveValidation
  BY <1>1, TogetherFacts
<1>6. \A e \in Extent : all[e] \in Nat /\ served[e] \in Nat
  BY <1>1, <1>5, CreditFacts
<1>7. Spoken(p) \in Extent
  BY <1>1, CreditFacts
<1> HIDE DEF all, p
<1>8. v \in Policies /\ v.capacity = c
      /\ v.workspace_phase = p.workspace_phase
      /\ v.request_clean_active = p.request_clean_active
      /\ v.completed_clean_active = p.completed_clean_active
      /\ v.earned_target \in {p.earned_target, p.validated_in_request}
  <2>1. Sound(v, c) /\ v.workspace_phase = p.workspace_phase
    BY <1>1, AcceptValidatedSound
  <2>2. /\ v.request_clean_active = p.request_clean_active
        /\ v.completed_clean_active = p.completed_clean_active
        /\ v.earned_target \in {p.earned_target, p.validated_in_request}
    BY <1>1 DEF AcceptValidated, Policies, Greatest
  <2> QED
    BY <2>1, <2>2 DEF Sound
<1> HIDE DEF v
<1>9. v.earned_target # None => all[v.earned_target] >= ActiveValidation
  <2>1. v.earned_target # None => v.earned_target \in Extent
    BY <1>8 DEF Policies
  <2>2. CASE v.earned_target = p.earned_target
    <3>1. v.earned_target # None => served[v.earned_target] >= ActiveValidation
      BY <1>1, <2>2 DEF Backed
    <3> QED
      BY <1>5, <1>6, <2>1, <3>1, TimeAssumption
  <2>3. CASE v.earned_target = p.validated_in_request
    <3>1. v.earned_target # None
            => serving[v.earned_target] + served[v.earned_target] >= ActiveValidation
      BY <1>1, <2>3 DEF Backed
    <3> QED
      BY <1>5, <2>1, <3>1
  <2> QED
    BY <1>8, <2>2, <2>3
<1> DEFINE clean == AddCredit(p.completed_clean_active, p.request_clean_active)
<1>10. clean <= all[Spoken(p)] /\ clean \in Credit
  <2>1. p.request_clean_active <= serving[Spoken(p)]
        /\ p.completed_clean_active <= served[Spoken(p)]
    BY <1>1 DEF Backed
  <2>2. p.request_clean_active \in Nat
    BY <1>4, TimeAssumption DEF Credit
  <2> QED
    BY <1>4, <1>5, <1>7, <2>1, <2>2, AddCreditType
<1>11. /\ k.completed_clean_active = clean
       /\ k.earned_target = v.earned_target
          \/ (k.earned_target = c /\ clean >= ActiveValidation)
       /\ k.workspace_phase = p.workspace_phase
       /\ k.capacity = c
       /\ k \in Policies
  <2>1. Sound(v, c)
    BY <1>1, AcceptValidatedSound DEF v
  <2>2. Sound(k, c) /\ k.workspace_phase = p.workspace_phase
    BY <1>8, <2>1, AcceptCurrentSound
  <2>3. /\ k.completed_clean_active = clean
        /\ k.earned_target \in {v.earned_target, c}
        /\ k.earned_target = v.earned_target \/ ~(clean < ActiveValidation)
    BY <1>8 DEF AcceptCurrent, Policies, Greatest
  <2> QED
    BY <1>10, <2>2, <2>3, TimeAssumption DEF Sound, Credit
<1> HIDE DEF k, clean
<1>12. ASSUME EndCounts(p, ~doomed)
       PROVE  /\ served' = all
              /\ k.completed_clean_active <= all[Spoken(k)]
              /\ k.earned_target # None => all[k.earned_target] >= ActiveValidation
  <2>1. served' = all
    <3>1. p.request_started # None /\ ~doomed
      BY <1>12 DEF EndCounts
    <3>2. policy'.request_started = None
      BY <1>2, <1>3, <1>8, <1>11, <1>1 DEF Policies
    <3> QED
      BY <3>1, <3>2 DEF Measure, InRequest, p, all, Together
  <2>2. Spoken(p) = c /\ Spoken(k) = c
    BY <1>1, <1>11, <1>12 DEF EndCounts, ValidationExtentMatches, Spoken
  <2>3. k.earned_target = c /\ clean >= ActiveValidation => all[c] >= ActiveValidation
    BY <1>1, <1>6, <1>10, <2>2, TimeAssumption DEF Credit
  <2> QED
    BY <1>9, <1>10, <1>11, <2>1, <2>2, <2>3
<1>13. /\ served' \in Times
       /\ x.completed_clean_active <= served'[Spoken(x)]
       /\ x.earned_target # None => served'[x.earned_target] >= ActiveValidation
       /\ x \in Policies
  <2>1. CASE EndCounts(p, ~doomed)
    BY <1>5, <1>11, <1>12, <2>1
  <2>2. CASE ~EndCounts(p, ~doomed)
    <3>1. x = p
      BY <2>2
    <3>2. /\ p.completed_clean_active <= served[Spoken(p)]
          /\ p.completed_clean_active \in Nat
          /\ p.earned_target # None => served[p.earned_target] >= ActiveValidation
          /\ p.earned_target # None => p.earned_target \in Extent
      BY <1>1, CreditFacts DEF Backed
    <3>3. served' = served \/ served' = all
      BY DEF Measure, all, Together
    <3> QED
      BY <1>1, <1>5, <1>6, <1>7, <3>1, <3>2, <3>3, TimeAssumption
  <2> QED
    BY <2>1, <2>2
<1> HIDE DEF x
<1>14. /\ q.request_clean_active = 0
       /\ q.completed_clean_active = x.completed_clean_active
       /\ q.earned_target = x.earned_target
       /\ q.validated_in_request = None
       /\ ~q.last_sample_active
       /\ q.request_started = None
       /\ Spoken(q) = Spoken(x)
  <2>1. /\ q.request_clean_active = 0
        /\ q.completed_clean_active = x.completed_clean_active
        /\ q.earned_target = x.earned_target
        /\ q.validated_in_request = None
        /\ ~q.last_sample_active
        /\ q.request_started = None
    BY ZenonT(40), <1>3, <1>13 DEF Policies
  <2>2. q.workspace_phase = x.workspace_phase /\ q.capacity = x.capacity
    BY <1>3, <1>13 DEF Policies
  <2> QED
    BY <2>1, <2>2 DEF Spoken
<1> HIDE DEF q
<1>15. serving' = NoTime /\ NoTime \in Times
  BY <1>2, <1>14, ResetValues DEF Measure, NoTime, Times
<1>16. NoTime[Spoken(q)] = 0
  <2>1. Spoken(x) \in Extent
    BY <1>13, <1>15, CreditFacts
  <2> QED
    BY <1>14, <2>1 DEF NoTime
<1>17. Backed(policy', mark', serving', served')
  BY <1>2, <1>13, <1>14, <1>15, <1>16 DEF Backed
<1> QED
  BY <1>13, <1>15, <1>17 DEF RealNext

\* sync_planned_workspace_capacity in a phase: the credit speaks of the
\* ordinary extent and may be kept.
LEMMA SyncReal ==
    ASSUME NEW p, NEW new \in Extent, NEW m, NEW now \in Times, NEW past \in Times,
           Sound(p, p.capacity), ~p.stop_latched, p.workspace_phase.on,
           Backed(p, m, now, past)
    PROVE  LET q == SyncPlanned(p, new) IN
           /\ Backed(q, m, now, past)
           /\ q.request_started = p.request_started
           /\ q.last_sample = p.last_sample
<1> DEFINE q == SyncPlanned(p, new)
           Done == /\ Backed(q, m, now, past)
                   /\ q.request_started = p.request_started
                   /\ q.last_sample = p.last_sample
<1>1. p \in Policies
  BY DEF Sound
<1>2. ASSUME p.capacity = new PROVE Done
  <2>1. q = p
    BY <1>2 DEF SyncPlanned
  <2> QED
    BY <2>1
<1>3. ASSUME p.capacity # new PROVE Done
  <2>1. /\ q.capacity = new
        /\ q.earned_target = p.earned_target
        /\ q.validated_in_request \in {None, p.validated_in_request}
        /\ q.request_clean_active \in {0, p.request_clean_active}
        /\ q.completed_clean_active \in {0, p.completed_clean_active}
        /\ ~q.last_sample_active
        /\ q.request_started = p.request_started
        /\ q.last_sample = p.last_sample
        /\ q.workspace_phase = p.workspace_phase
    BY <1>1, <1>3, SyncFields
  <2> HIDE DEF q
  <2>2. Spoken(q) = Spoken(p)
    BY <2>1 DEF Spoken
  <2>3. now[Spoken(p)] >= 0 /\ past[Spoken(p)] >= 0
    BY <1>1, CreditFacts
  <2>4. Backed(q, m, now, past)
    BY <2>1, <2>2, <2>3 DEF Backed
  <2> QED
    BY <2>1, <2>4
<1> QED
  BY <1>2, <1>3

\* transition to the wide workspace: the phase remembers the extent the credit
\* speaks of, whatever the release then reaches.
LEMMA WidenedReal ==
    ASSUME CreditInv, NEW fault, EnterWide(fault), Measure
    PROVE  RealNext
<1> DEFINE target == Least(expert_capacity, WideCapacity)
           p == BeginPhase(policy, expert_capacity)
           aligned == AlignDown(target)
           shrunk == SyncPlanned(p, aligned)
           regrown == SyncPlanned(shrunk, target)
           r == Yielded(p, target, fault)
           Held(q) == /\ Backed(q, mark, serving, served)
                      /\ q.request_started = policy.request_started
                      /\ q.last_sample = policy.last_sample
<1>1. /\ Sound(policy, expert_capacity) /\ ~policy.stop_latched
      /\ policy \in Policies /\ policy.capacity = expert_capacity
      /\ expert_capacity \in Extent
      /\ serving \in Times /\ served \in Times
      /\ Backed(policy, mark, serving, served)
  BY DEF CreditInv, IndInv, Sound, EnterWide, PhaseRefused
<1>2. ~policy.workspace_phase.on /\ policy' \in Policies
  BY EnterWideSound DEF CreditInv, IndInv, Sound
<1>3. target \in Extent /\ target <= expert_capacity
  BY <1>1, ServingAssumption, CapacityAssumption DEF Least, Extent
<1>4. Sound(p, expert_capacity) /\ p.workspace_phase.on /\ ~p.stop_latched
  BY <1>1, BeginPhaseSound
<1>5. Held(p)
  <2>1. p = [policy EXCEPT !.workspace_phase =
               [on |-> TRUE, ordinary_capacity |-> expert_capacity, released |-> FALSE]]
    BY <1>1 DEF BeginPhase
  <2>2. /\ p.capacity = policy.capacity
        /\ p.earned_target = policy.earned_target
        /\ p.validated_in_request = policy.validated_in_request
        /\ p.request_clean_active = policy.request_clean_active
        /\ p.completed_clean_active = policy.completed_clean_active
        /\ p.last_sample_active = policy.last_sample_active
        /\ p.request_started = policy.request_started
        /\ p.last_sample = policy.last_sample
        /\ p.workspace_phase.on /\ p.workspace_phase.ordinary_capacity = expert_capacity
    BY <1>1, <2>1 DEF Policies
  <2> HIDE DEF p
  <2>3. Spoken(p) = Spoken(policy)
    BY <1>1, <1>2, <2>2 DEF Spoken
  <2>4. Backed(p, mark, serving, served)
    BY <1>1, <2>2, <2>3, RealKept
  <2> QED
    BY <2>2, <2>4
<1> HIDE DEF p, target
<1>6. aligned \in Extent
  BY <1>3, AlignDownExtent
<1>7. Sound(p, p.capacity) /\ p.capacity = expert_capacity
  BY <1>4 DEF Sound
<1> HIDE DEF aligned
<1>8. /\ Sound(shrunk, aligned)
      /\ shrunk.workspace_phase = p.workspace_phase
      /\ ~shrunk.stop_latched
      /\ Held(shrunk)
  <2>1. /\ Sound(shrunk, aligned)
        /\ shrunk.workspace_phase = p.workspace_phase
        /\ ~shrunk.stop_latched
    BY <1>4, <1>6, SyncPlannedSound
  <2>2. LET q == SyncPlanned(p, aligned) IN
        /\ Backed(q, mark, serving, served)
        /\ q.request_started = p.request_started
        /\ q.last_sample = p.last_sample
    BY <1>1, <1>4, <1>5, <1>6, <1>7, SyncReal
  <2> QED
    BY <1>5, <2>1, <2>2
<1> HIDE DEF shrunk
<1>9. Held(regrown)
  <2>1. Sound(shrunk, shrunk.capacity)
    BY <1>8 DEF Sound
  <2>2. LET q == SyncPlanned(shrunk, target) IN
        /\ Backed(q, mark, serving, served)
        /\ q.request_started = shrunk.request_started
        /\ q.last_sample = shrunk.last_sample
    BY <1>1, <1>3, <1>4, <1>8, <2>1, SyncReal
  <2> QED
    BY <1>8, <2>2
<1>10. r.policy \in {p, shrunk, regrown}
  BY DEF Yielded, shrunk, aligned
<1> HIDE DEF regrown
<1>11. policy' = r.policy
  BY DEF EnterWide, p, target
<1> HIDE DEF r
<1>12. Held(policy')
  BY <1>5, <1>8, <1>9, <1>10, <1>11
<1> QED
  BY <1>2, <1>12, HeldReal

\* finish_workspace_phase of the policy: the credit is dropped unless the
\* ordinary extent is held again.
LEMMA ClosedReal ==
    ASSUME NEW p, NEW c, NEW m, NEW now \in Times, NEW past \in Times,
           Sound(p, c), Backed(p, m, now, past)
    PROVE  LET q == FinishPhase(p) IN
           /\ Backed(q, m, now, past)
           /\ q.request_started = p.request_started
           /\ q.last_sample = p.last_sample
<1> DEFINE moved == p.workspace_phase.on /\ p.capacity # p.workspace_phase.ordinary_capacity
           k == IF moved THEN ClearWorkspaceValidation(p) ELSE p
           q == FinishPhase(p)
           Done == /\ Backed(q, m, now, past)
                   /\ q.request_started = p.request_started
                   /\ q.last_sample = p.last_sample
<1>1. p \in Policies /\ q \in Policies /\ ~q.workspace_phase.on
  BY FinishPhaseFields DEF Sound
<1>2. q = [k EXCEPT !.workspace_phase = NoPhase]
  BY DEF FinishPhase
<1>3. ASSUME moved
      PROVE  /\ k.capacity = p.capacity
             /\ k.earned_target = p.earned_target
             /\ k.validated_in_request = None
             /\ k.request_clean_active = 0
             /\ k.completed_clean_active = 0
             /\ ~k.last_sample_active
             /\ k.request_started = p.request_started
             /\ k.last_sample = p.last_sample
             /\ DOMAIN k = DOMAIN p
  BY <1>1, <1>3 DEF ClearWorkspaceValidation, ClearCapacityValidation, Policies
<1>4. ~moved => k = p
  OBVIOUS
<1> HIDE DEF k
<1>5. /\ q.capacity = k.capacity
      /\ q.earned_target = k.earned_target
      /\ q.validated_in_request = k.validated_in_request
      /\ q.request_clean_active = k.request_clean_active
      /\ q.completed_clean_active = k.completed_clean_active
      /\ q.last_sample_active = k.last_sample_active
      /\ q.request_started = k.request_started
      /\ q.last_sample = k.last_sample
  <2>1. DOMAIN k = DOMAIN p
    BY <1>3, <1>4
  <2> QED
    BY <1>1, <1>2, <2>1 DEF Policies
<1> HIDE DEF q
<1>6. ASSUME moved PROVE Done
  <2>1. Backed(q, m, now, past)
    BY <1>1, <1>3, <1>5, <1>6, RealCleared
  <2> QED
    BY <1>3, <1>5, <1>6, <2>1
<1>7. ASSUME ~moved PROVE Done
  <2>1. Spoken(q) = Spoken(p)
    BY <1>1, <1>4, <1>5, <1>7 DEF Spoken
  <2>2. Backed(q, m, now, past)
    BY <1>4, <1>5, <1>7, <2>1, RealKept
  <2> QED
    BY <1>4, <1>5, <1>7, <2>2
<1>8. Done
  BY <1>6, <1>7
<1> QED
  BY <1>8 DEF q

\* finish_workspace_phase: the experts come back, or do not.
LEMMA FinishedReal ==
    ASSUME CreditInv, NEW ok, FinishWorkspacePhase(ok), Measure
    PROVE  RealNext
<1> DEFINE home == policy.workspace_phase.ordinary_capacity
           r == Restored(policy, ok)
           Held(q) == /\ Backed(q, mark, serving, served)
                      /\ q.request_started = policy.request_started
                      /\ q.last_sample = policy.last_sample
<1>1. /\ Sound(policy, expert_capacity) /\ policy \in Policies
      /\ policy.capacity = expert_capacity
      /\ serving \in Times /\ served \in Times
      /\ Backed(policy, mark, serving, served)
  BY DEF CreditInv, IndInv, Sound
<1>2. policy' \in Policies
  BY FinishSound DEF CreditInv, IndInv, Sound
<1>3. SyncPlanned(policy, expert_capacity) = policy
  BY <1>1 DEF SyncPlanned
<1>4. home \in Extent
  BY <1>1 DEF Policies, Phases
<1>5. RestorationAllowed(policy) => Held(SyncPlanned(policy, home))
  BY <1>1, <1>4, SyncReal DEF RestorationAllowed
<1>6. Held(RecoveryFailed(policy))
  BY <1>1, FailedReal, RecoveryFailedFields
<1>7. \/ Restored(policy, ok).policy = policy
      \/ /\ RestorationAllowed(policy)
         /\ Restored(policy, ok).policy = SyncPlanned(policy, home)
      \/ Restored(policy, ok).policy = RecoveryFailed(policy)
  BY <1>3 DEF Restored
<1> HIDE DEF home
<1>8. Held(r.policy) /\ Sound(r.policy, r.capacity)
  BY <1>1, <1>5, <1>6, <1>7, RestoredSound
<1>9. policy' = FinishPhase(r.policy)
  BY DEF FinishWorkspacePhase
<1> HIDE DEF r
<1>10. LET q == FinishPhase(r.policy) IN
       /\ Backed(q, mark, serving, served)
       /\ q.request_started = r.policy.request_started
       /\ q.last_sample = r.policy.last_sample
  BY <1>1, <1>8, ClosedReal
<1>11. Held(policy')
  BY <1>8, <1>9, <1>10
<1> QED
  BY <1>2, <1>11, HeldReal

\* Every measured step is a step of AdaptiveMemory.
LEMMA MeasuredIsStep == CreditNext => Next /\ Measure
BY DEF CreditNext, Next, PollStep, OwnerStep

\* Every measured step keeps the credit real.
LEMMA CreditStep ==
    ASSUME CreditInv, CreditNext
    PROVE  CreditInv'
<1>1. Next /\ Measure
  BY MeasuredIsStep
<1>2. IndInv'
  BY <1>1, StepSound DEF CreditInv
<1>3. ASSUME NEW obs \in Inputs, NEW ok \in Outcomes,
             \/ IdlePoll(obs, ok)
             \/ AdmitRequest(obs, ok)
             \/ CompletedOperation(obs, ok)
             \/ FinishPoll(obs, ok)
      PROVE  RealNext
  <2>1. \E b \in Boundaries : /\ policy' = CheckBoundary(b, obs, ok).policy
                              /\ expert_capacity' = CheckBoundary(b, obs, ok).capacity
    BY <1>3 DEF IdlePoll, AdmitRequest, CompletedOperation, FinishPoll, Boundaries
  <2> QED
    BY <1>1, <2>1, PolledReal
<1>4. ASSUME \/ EnterOrdinary
             \/ EnterDecode
             \/ \E ok \in Outcomes : Prepared(ok) \/ CloseRequest(ok) \/ ReplaceScratch(ok)
      PROVE  RealNext
  <2>1. policy' = policy
    BY <1>4 DEF EnterOrdinary, EnterDecode, Prepared, CloseRequest, ReplaceScratch
  <2> QED
    BY <1>1, <2>1, IdleReal
<1>5. RealNext
  BY <1>1, <1>3, <1>4, LaterReal, BegunReal, EndedReal, WidenedReal, FinishedReal
  DEF Next, PollStep, OwnerStep
<1> QED
  BY <1>2, <1>5 DEF CreditInv, RealNext, Backed, Spoken

\* The policy's credit never exceeds the healthy time measured from outside at
\* the extent it speaks of, and nothing is accepted that was not served there
\* (observe, validation_before_growth, end_request, clear_capacity_validation).
THEOREM CreditsReal == CreditSpec => []CreditIsReal
<1>1. CreditInit => CreditInv
  <2> SUFFICES ASSUME CreditInit PROVE CreditInv
    OBVIOUS
  <2>1. IndInv
    BY InitSound DEF CreditInit
  <2>2. NoTime \in Times
    BY ResetValues DEF NoTime, Times
  <2>3. Spoken(policy) \in Extent
    BY <2>1 DEF IndInv, Sound, Policies, Phases, Spoken
  <2>4. NoTime[Spoken(policy)] = 0
    BY <2>3 DEF NoTime
  <2>5. Backed(policy, mark, serving, served)
    BY <2>4 DEF CreditInit, Init, NewPolicy, Backed
  <2> QED
    BY <2>1, <2>2, <2>5 DEF CreditInv, CreditInit
<1>2. CreditInv /\ [CreditNext]_all_vars => CreditInv'
  <2>1. CreditInv /\ UNCHANGED all_vars => CreditInv'
    BY DEF all_vars, vars, credit_vars, CreditInv, IndInv, Sound, Paired, OwnerSound,
           PhaseOwned, Backed, Spoken
  <2> QED
    BY <2>1, CreditStep
<1>3. CreditInv => CreditIsReal
  BY DEF CreditInv, IndInv, Sound, Backed, Spoken, CreditIsReal, CreditExtent
<1> QED
  BY <1>1, <1>2, <1>3, PTL DEF CreditSpec

=============================================================================
