------------------------------ MODULE Planners ------------------------------
(***************************************************************************)
(* The replanners: ContextAwarePlanner (planner/context_aware.go), which   *)
(* derives the new plan from the failed one, and LLMPlanner                *)
(* (planner/llm_planner.go), which takes what the model answers.           *)
(***************************************************************************)
EXTENDS LLMPlanning

ReplanError == <<>>   \* Replan failed, or returned no steps: the engine treats both alike

(* Mutant of ContextAwareReplan: the failed step is left out.              *)
ReplanAfterFailed(plan, failed, type) ==
  [j \in 1 .. Len(plan) - failed |-> plan[failed + j]]

(* All handlers keep the steps from the failed one to the end; after a tool *)
(* or an agent failure the fallback agent takes over the failed step.       *)
ContextAwareReplan(plan, failed, type) ==
  [j \in 1 .. Len(plan) - failed + 1 |->
     IF /\ j = 1
        /\ type \in {"tool", "agent"}
        /\ FallbackAgentID # NoFallback
     THEN [plan[failed] EXCEPT !.agent = FallbackAgentID]
     ELSE plan[failed + j - 1]]

(* What Replan may return for a failure of the step "failed" of "plan".    *)
ReplanResults(plan, failed, type, attempt) ==
  IF attempt > MaxReplans THEN {ReplanError}
  ELSE IF Replanner = "contextAware" THEN {ContextAwareReplan(plan, failed, type)}
  ELSE ModelPlans \cup (IF ModelMayFail THEN {ReplanError} ELSE {})

(* The plans CreatePlan may return, and whether it may return an error.    *)
InitialPlans == IF Planner = "llm" THEN ModelPlans ELSE GivenPlans

CreatePlanMayFail == IF Planner = "llm" THEN ModelMayFail ELSE PlannerMayFail

(* copySteps: a template of ContextAwarePlanner loses its DAG fields and   *)
(* the retry policies of its steps.                                        *)
CopySteps(steps) ==
  [i \in DOMAIN steps |->
     [id |-> NoStepID, deps |-> <<>>, agent |-> steps[i].agent, policy |-> NoPolicy]]
=============================================================================
