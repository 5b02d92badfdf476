------------------------------ MODULE MCSteps ------------------------------
(* Modules HandleLockSteps and Closing side by side: the calls step by step.  *)
(* A behaviour is one of one of the two; the other stays as it is.            *)
EXTENDS MCHandleLockSteps, MCClosing

VARIABLE part

allStepVars == <<stepVars, vars, part>>

AllStepsInit == part \in {"locking", "closing"} /\ StepsInit /\ Init

AllStepsNext ==
    \/ part = "locking" /\ StepsNext /\ UNCHANGED <<vars, part>>
    \/ part = "closing" /\ Next /\ UNCHANGED <<stepVars, part>>

\* The fairness of both modules.  In the one that stays as it is no thread is in
\* a call.
AllStepsSpec == AllStepsInit /\ [][AllStepsNext]_allStepVars /\ StepsFairness /\ Fairness
=============================================================================
