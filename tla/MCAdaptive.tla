------------------------------ MODULE MCAdaptive ------------------------------
(***************************************************************************)
(* Small instances of AdaptiveMemory for TLC.  The observations a run      *)
(* offers are named for the state they put the policy in.                  *)
(***************************************************************************)
EXTENDS AdaptiveMemory

Quiet == [pressure |-> "normal", vm |-> "quiet"]
Busy == [pressure |-> "normal", vm |-> "busy"]
Churn == [pressure |-> "normal", vm |-> "churn"]
Warned == [pressure |-> "warning", vm |-> "quiet"]
Alarmed == [pressure |-> "critical", vm |-> "quiet"]
Blind == [pressure |-> "unknown", vm |-> "missing"]

\* What each run's question needs of them.
AlarmInputs == {Quiet, Alarmed}
PhaseInputs == {Quiet, Warned, Alarmed, Blind}
SightedInputs == {Quiet, Busy, Churn, Warned, Alarmed}

\* Engine calls always succeed, or may also fail.
FaultFree == {TRUE}
Faulty == BOOLEAN

=============================================================================
