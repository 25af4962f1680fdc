---------------------------- MODULE EngineConfig ----------------------------
(***************************************************************************)
(* The engine that a call of Execute finds: what NewEngine, its setters    *)
(* and the constructors of its planner and its repair engine have fixed,   *)
(* and what the planner, the agents and the database may do in a run.      *)
(* Nothing of it changes during a call.                                    *)
(***************************************************************************)
CONSTANTS
  Configs,      \* the engines, by a name for each
  NoFallback,   \* a ContextAwarePlanner without a fallback agent
  NoAgentID     \* the empty agent id ""

VARIABLE config   \* the name of the engine

Strategy          == Configs[config].strategy      \* "none" (no repair engine), "simple" or "advanced"
RepairMaxAttempts == Configs[config].repairMax     \* RetryConfig.MaxAttempts of the repair engine
EnginePolicy      == Configs[config].policy        \* Engine.retryPolicy
Replanner         == Configs[config].replanner     \* "none", "contextAware" or "llm"
MaxReplans        == Configs[config].maxReplans    \* Engine.maxReplans
FallbackAgentID   == Configs[config].fallback      \* ContextAwarePlanner.fallbackAgentID
Planner           == Configs[config].planner       \* "given" or "llm"
GivenPlans        == Configs[config].plans         \* what a "given" planner may return
PlannerMayFail    == Configs[config].plannerFails  \* ... and whether it may return an error
Guardrails        == Configs[config].guardrails    \* LLMPlanner.guardrails
Answers           == Configs[config].answers       \* what the language model may answer
LLMDown           == Configs[config].llmDown       \* whether a request to it may fail
Outcomes          == Configs[config].outcomes      \* what an attempt may end with
InitialRows       == Configs[config].rows          \* the row of agent_runs before the call
DbMayFail         == Configs[config].dbFails       \* whether a write to the database may fail
=============================================================================
