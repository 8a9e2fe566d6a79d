---------------------------- MODULE AdaptiveCredit ----------------------------
(***************************************************************************)
(* AdaptiveMemory with history variables that measure, from outside the    *)
(* policy's own counters, how long each expert extent has really served    *)
(* healthy work.  The history variables never constrain a step.            *)
(***************************************************************************)
EXTENDS AdaptiveMemory

VARIABLES
    mark,     \* the extent after the last sample, if that was a healthy one
              \* taken in the current request; else None
    serving,  \* healthy time of the current request, per extent
    served    \* healthy time of the successful requests, per extent

credit_vars == <<mark, serving, served>>
all_vars == <<vars, credit_vars>>

NoTime == [c \in Extent |-> 0]

CreditInit ==
    /\ Init
    /\ mark = None
    /\ serving = NoTime
    /\ served = NoTime

\* This step took a sample and found the host quiet.
SampledStep == policy.last_sample # 0 /\ policy'.last_sample = 0
HealthyStep == SampledStep /\ policy'.state = "NormalQuiet"
InRequest == policy.request_started # None

Measure ==
    /\ mark' = IF policy'.request_started = None \/ ~InRequest THEN None
               ELSE IF SampledStep
                    THEN IF HealthyStep THEN expert_capacity' ELSE None
                    ELSE mark
    /\ serving' =
          IF policy'.request_started = None THEN NoTime
          ELSE IF HealthyStep /\ mark = expert_capacity
               THEN [serving EXCEPT ![expert_capacity] =
                        AddCredit(@, policy.last_sample)]
               ELSE serving
    /\ served' =
          IF InRequest /\ policy'.request_started = None /\ ~doomed
          THEN [c \in Extent |-> AddCredit(served[c], serving[c])]
          ELSE served

\* Every step of AdaptiveMemory, measured.
CreditNext ==
    \/ Tick /\ Measure
    \/ BeginRequest /\ Measure
    \/ EnterOrdinary /\ Measure
    \/ EnterDecode /\ Measure
    \/ EndRequest /\ Measure
    \/ \E obs \in Inputs, ok \in Outcomes :
          \/ IdlePoll(obs, ok) /\ Measure
          \/ AdmitRequest(obs, ok) /\ Measure
          \/ CompletedOperation(obs, ok) /\ Measure
          \/ FinishPoll(obs, ok) /\ Measure
    \/ \E ok \in Outcomes :
          \/ Prepared(ok) /\ Measure
          \/ CloseRequest(ok) /\ Measure
          \/ ReplaceScratch(ok) /\ Measure
          \/ FinishWorkspacePhase(ok) /\ Measure
    \/ \E fault \in {"none", "shrink", "regrow", "scratch"} :
          (fault = "none" \/ FALSE \in Outcomes) /\ EnterWide(fault) /\ Measure

CreditSpec == CreditInit /\ [][CreditNext]_all_vars

-----------------------------------------------------------------------------
(* Properties *)

\* The extent the policy's credit speaks of: a phase keeps the credit of the
\* ordinary extent until it is known whether that extent comes back.
CreditExtent ==
    IF policy.workspace_phase.on
    THEN policy.workspace_phase.ordinary_capacity ELSE expert_capacity

\* The credit the policy holds never exceeds the healthy time served at the
\* extent it speaks of, in this request and in earlier successful ones, and a
\* capacity becomes the earned target only after ActiveValidation of such time
\* at exactly that extent: not idle time, not another extent's, not the time
\* of cancelled or failed requests (end_request, validation_before_growth,
\* clear_capacity_validation).
CreditIsReal ==
    /\ policy.request_clean_active <= serving[CreditExtent]
    /\ policy.completed_clean_active <= served[CreditExtent]
    /\ policy.earned_target # None => served[policy.earned_target] >= ActiveValidation

=============================================================================
