----------------------------- MODULE LLMPlanning -----------------------------
(***************************************************************************)
(* How a plan comes out of a language model's answer: the guardrails and   *)
(* the schema of llm/guardrails.go and llm/schema.go, and the parser of    *)
(* planner/llm_planner.go, which reads the same text a second time with    *)
(* rules of its own.                                                       *)
(*                                                                         *)
(* An answer is [body |-> the JSON value in it, around |-> the text the    *)
(* value stands in, long, blocked |-> whether it exceeds the token budget  *)
(* and holds a blocked phrase].  A step in it is an object [agent, alias,  *)
(* input, id, deps]; alias is a later key that differs from "agent_id" in  *)
(* case only, input stands for "metadata" as well.                         *)
(***************************************************************************)
EXTENDS Plans, EngineConfig, RetryPolicy

CONSTANT Described   \* the agents the planner was given to choose from

Tagged(tag) == [json |-> tag]

Absent  == Tagged("absent")    \* the key is missing
Null    == Tagged("null")
Number  == Tagged("number")
NotJSON == Tagged("no JSON")
Blank   == Tagged("blank")     \* nothing but white space
Text(x)  == [json |-> "string", of |-> x]
Array(s) == [json |-> "array", of |-> s]

(* The strings of an answer that become step ids are among the names of    *)
(* Plans, and the elements of an array are a list.                         *)
IsArray(value) == value.of \in Seq({value.of[k] : k \in DOMAIN value.of})

Names(value) == value.json = "string" => value.of \in StepName \cup {NoStepID}

WellFormedItem(item) ==
  item.json = "object" =>
    /\ Names(item.id)
    /\ item.deps.json = "array" =>
         IsArray(item.deps) /\ \A k \in DOMAIN item.deps.of : Names(item.deps.of[k])

WellFormed(answer) ==
  answer.body.json = "array" =>
    IsArray(answer.body) /\ \A k \in DOMAIN answer.body.of : WellFormedItem(answer.body.of[k])

(* extractJSON: fences and prose without brackets are cut off; with other  *)
(* brackets around it the value is lost.                                   *)
Extract(answer) == IF answer.around = "brackets" THEN NotJSON ELSE answer.body

(* json.Unmarshal into a Go string, map or slice takes null for nothing.   *)
Decodes(value, type) == value.json \in {"absent", "null", type}

(* Schema.validateObject and checkType for PlanStepSchema.  Keys are       *)
(* compared exactly, and the elements of depends_on are not inspected.     *)
StepValid(item) ==
  /\ item.json = "object"
  /\ item.agent.json = "string" /\ item.agent.of # NoAgentID
  /\ Decodes(item.input, "object")
  /\ Decodes(item.id, "string")
  /\ Decodes(item.deps, "array")

SchemaValid(body) ==
  body.json = "array" /\ body.of # <<>> /\ \A k \in DOMAIN body.of : StepValid(body.of[k])

Passes(guard, answer) ==
  CASE guard = "maxTokens" -> ~answer.long
    [] guard = "empty"     -> answer.body # Blank
    [] guard = "json"      -> SchemaValid(Extract(answer))
    [] guard = "blocked"   -> ~answer.blocked

DefaultGuardrails == <<"empty", "json">>

(* GuardrailChain.Check; an empty chain stands for no chain as well.       *)
Guarded(answer) == \A k \in DOMAIN Guardrails : Passes(Guardrails[k], answer)

(* json.Unmarshal into rawStep: a null leaves the step empty, keys match   *)
(* in any case, and dependencies must be strings or null.                  *)
RawStepDecodes(item) ==
  \/ item = Null
  \/ /\ item.json = "object"
     /\ Decodes(item.agent, "string") /\ Decodes(item.alias, "string")
     /\ Decodes(item.input, "object") /\ Decodes(item.id, "string")
     /\ Decodes(item.deps, "array")
     /\ item.deps.json = "array" =>
          \A k \in DOMAIN item.deps.of : item.deps.of[k].json \in {"string", "null"}

StringOf(value, empty) == IF value.json = "string" THEN value.of ELSE empty

AgentID(item) ==
  IF item = Null THEN NoAgentID
  ELSE StringOf(item.alias, StringOf(item.agent, NoAgentID))

RawStep(item) ==
  [id     |-> StringOf(item.id, NoStepID),
   deps   |-> IF item.deps.json # "array" THEN <<>>
              ELSE [k \in DOMAIN item.deps.of |-> StringOf(item.deps.of[k], NoStepID)],
   agent  |-> AgentID(item),
   policy |-> NoPolicy]

(* Mutants of ParsePlanSteps: an empty plan is let through; agents are not *)
(* looked up.                                                              *)
ParseEmpty(body) ==
  IF /\ body.json = "array"
     /\ \A k \in DOMAIN body.of : RawStepDecodes(body.of[k])
     /\ \A k \in DOMAIN body.of : AgentID(body.of[k]) \in Described
  THEN {[k \in DOMAIN body.of |-> RawStep(body.of[k])]}
  ELSE {}

ParseAnyAgent(body) ==
  IF /\ body.json = "array" /\ body.of # <<>>
     /\ \A k \in DOMAIN body.of : RawStepDecodes(body.of[k])
     /\ \A k \in DOMAIN body.of : AgentID(body.of[k]) # NoAgentID
  THEN {[k \in DOMAIN body.of |-> RawStep(body.of[k])]}
  ELSE {}

(* The plan, or none when the text is rejected.                            *)
ParsePlanSteps(body) ==
  IF /\ body.json = "array" /\ body.of # <<>>
     /\ \A k \in DOMAIN body.of : RawStepDecodes(body.of[k])
     /\ \A k \in DOMAIN body.of : AgentID(body.of[k]) \in Described \ {NoAgentID}
  THEN {[k \in DOMAIN body.of |-> RawStep(body.of[k])]}
  ELSE {}

(* What LLMPlanner.CreatePlan, and Replan alike, makes of an answer.       *)
PlanOf(answer) == IF Guarded(answer) THEN ParsePlanSteps(Extract(answer)) ELSE {}

ModelPlans == UNION {PlanOf(answer) : answer \in Answers}

(* The request fails, or its answer is refused.                            *)
ModelMayFail == LLMDown \/ \E answer \in Answers : PlanOf(answer) = {}
=============================================================================
