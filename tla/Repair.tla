------------------------------- MODULE Repair -------------------------------
(***************************************************************************)
(* Failure classification, the repair engine, its strategies and what      *)
(* executeStepWithRetry makes of a repair plan: failure/failure.go,        *)
(* repair/engine.go, repair/advanced_strategy.go and                      *)
(* applyRepairActions of orchestrator/step_executor.go.                    *)
(*                                                                         *)
(* A failure is [type, attempt, agent, correctable]: its class, the number *)
(* of the attempt that failed, the agent that ran, and whether the message *)
(* of the error matches one of InputCorrector's correctable patterns.      *)
(* A repair plan is a sequence of actions [type, agent].                   *)
(***************************************************************************)
EXTENDS Integers, Sequences, EngineConfig

CONSTANTS
  Registered,         \* the agent ids the registry knows
  Alternative         \* Alternative[a] is the id "<a>.alternative"

FailureType == {"validation", "tool", "agent", "unknown"}
ActionType  == {"retry_step", "modify_input", "replace_step", "replan", "abort"}

IsRetryable(f) == f.type # "unknown"

Action(type) == <<[type |-> type, agent |-> NoAgentID]>>
Replace(agent) == <<[type |-> "replace_step", agent |-> agent]>>

(* Only a validation failure can be corrected through the input.           *)
CanCorrect(f) == f.type = "validation" /\ f.correctable

SimplePlan(f) ==
  CASE f.type = "validation"         -> Action("replan")
    [] f.type \in {"tool", "agent"}  -> Action("retry_step")
    [] OTHER                         -> Action("abort")

AdvancedPlan(f) ==
  CASE f.type = "validation" ->
         IF f.attempt = 1 /\ CanCorrect(f) THEN Action("modify_input")
         ELSE IF f.attempt >= 2            THEN Action("replan")
         ELSE                                   Action("retry_step")
    [] f.type = "tool" ->
         IF f.attempt <= 2 THEN Action("retry_step")
         ELSE Replace(Alternative[f.agent])
    [] f.type = "agent" ->
         IF f.attempt = 1      THEN Action("retry_step")
         ELSE IF f.attempt = 2 THEN Replace(NoAgentID)
         ELSE                       Action("replan")
    [] OTHER -> Action("abort")

(* Engine.Repair: the attempt limit and the class come before the strategy. *)
RepairPlan(f) ==
  IF ~(f.attempt < RepairMaxAttempts) \/ ~IsRetryable(f) THEN Action("abort")
  ELSE IF Strategy = "simple" THEN SimplePlan(f)
  ELSE AdvancedPlan(f)

HasAbort(rp) == \E k \in DOMAIN rp : rp[k].type = "abort"

(* A replacement counts only if it names another agent that is registered. *)
Usable(action, agent) ==
  action.agent \notin {NoAgentID, agent} /\ action.agent \in Registered

(* applyRepairActions stops at the first action that decides.              *)
Decides(action, agent) ==
  action.type = "replace_step" => Usable(action, agent)

FirstDeciding(rp, agent) ==
  {k \in DOMAIN rp : /\ Decides(rp[k], agent)
                     /\ \A j \in 1 .. k - 1 : ~Decides(rp[j], agent)}

ShouldRetryStep(rp, agent) ==
  \E k \in FirstDeciding(rp, agent) :
      rp[k].type \in {"retry_step", "modify_input", "replace_step"}

(* The agent of the next attempt.                                          *)
NextAgent(rp, agent) ==
  IF \E k \in FirstDeciding(rp, agent) : rp[k].type = "replace_step"
    THEN rp[CHOOSE k \in FirstDeciding(rp, agent) : TRUE].agent
    ELSE agent
=============================================================================
