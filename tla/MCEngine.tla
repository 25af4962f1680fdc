------------------------------ MODULE MCEngine ------------------------------
(***************************************************************************)
(* Plans, agents and outcomes for TLC's runs of Engine.                    *)
(***************************************************************************)
EXTENDS Engine

CONSTANTS a, b, alt, gone,     \* agents: two of the plans, a replacement of a, an unknown one
          s1, s2, s3, s4, ghost

Agents == {a, b, alt, gone}

MCAlternative == [x \in Agents |-> IF x = a THEN alt ELSE gone]

S(id, deps, agent) == [id |-> id, deps |-> deps, agent |-> agent, policy |-> NoPolicy]

Diamond ==
  <<S(s1, <<>>, a), S(s2, <<s1>>, b), S(s3, <<s1>>, a), S(s4, <<s2, s3>>, b)>>

(* Two steps side by side, the second of which the third waits for twice.  *)
Fork == <<S(s1, <<>>, a), S(s2, <<>>, b), S(s3, <<s2, s2>>, a)>>

(* A step that depends on a later one.                                     *)
Backward == <<S(s1, <<s2>>, a), S(s2, <<>>, a)>>

Sequential(n) == CopySteps([i \in 1 .. n |-> S(s1, <<>>, IF i = 1 THEN a ELSE b)])

(* Retry policies: without sleeps, of the engine, and of a step.           *)
Attempts(n) == [maxAttempts |-> n, backoff |-> "none", initialDelay |-> 0,
                maxDelay |-> 0, multiplier |-> 0, jitter |-> FALSE]

BackOff(kind, max) == [maxAttempts |-> 5, backoff |-> kind, initialDelay |-> 4,
                       maxDelay |-> max, multiplier |-> 0, jitter |-> FALSE]

Steep   == [BackOff("exponential", 12) EXCEPT !.multiplier = 10]
Jitters == [BackOff("exponential", 12) EXCEPT !.jitter = TRUE]

OneAttempt == Attempts(1)
CapOfItsOwn == [Attempts(0) EXCEPT !.backoff = "", !.maxDelay = 6, !.jitter = TRUE]

MCStepPolicy == {NoPolicy, OneAttempt, CapOfItsOwn}

OneTry == <<[S(NoStepID, <<>>, a) EXCEPT !.policy = OneAttempt]>>

OwnCap == <<[S(NoStepID, <<>>, a) EXCEPT !.policy = CapOfItsOwn]>>

UnknownAgent == <<S(NoStepID, <<>>, gone)>>

Cyclic == <<S(s1, <<s2>>, a), S(s2, <<s1>>, a)>>

Dangling == <<S(s2, <<s1>>, b)>>

AllPlans ==
  {<<>>, Sequential(2), OneTry, UnknownAgent, Diamond, Backward, Cyclic, Dangling}

(* One outcome of each kind that the engine tells apart.                   *)
O(kind, class, correctable) ==
  [kind |-> kind, class |-> class, correctable |-> correctable]

Ok        == O("valid", "unknown", FALSE)
NilOutput == O("nil", "unknown", FALSE)
ToolError == O("error", "tool", FALSE)
Invalid   == O("invalid", "validation", TRUE)

FewOutcomes == {Ok, ToolError}

SomeOutcomes == {Ok, ToolError, Invalid, NilOutput}

AllOutcomes ==
  {Ok, NilOutput, Invalid, O("invalid", "tool", FALSE)}
    \cup {O("error", c, FALSE) : c \in FailureType}

Created == [status |-> "CREATED", idx |-> 0, maxSteps |-> 0, completedAt |-> FALSE]

FreshRows == {NoRow, Created}

(* Answers of a language model: a plan as it should be, and what can be    *)
(* wrong with one.                                                         *)
Item(s) ==
  [json |-> "object", agent |-> Text(s.agent), alias |-> Absent, input |-> Absent,
   id |-> IF s.id = NoStepID THEN Absent ELSE Text(s.id),
   deps |-> Array([k \in DOMAIN s.deps |-> Text(s.deps[k])])]

Answer(body) == [body |-> body, around |-> "nothing", long |-> FALSE, blocked |-> FALSE]

Says(p) == Answer(Array([k \in DOMAIN p |-> Item(p[k])]))

OneItem == Item(Sequential(1)[1])

OddSteps ==
  {Null, Number,
   [OneItem EXCEPT !.agent = Absent],
   [OneItem EXCEPT !.agent = Null],
   [OneItem EXCEPT !.agent = Text(NoAgentID)],
   [OneItem EXCEPT !.agent = Text(gone)],
   [OneItem EXCEPT !.alias = Text(gone)],
   [OneItem EXCEPT !.agent = Absent, !.alias = Text(b)],
   [OneItem EXCEPT !.input = Number],
   [OneItem EXCEPT !.id = Number],
   [OneItem EXCEPT !.deps = Array(<<Number>>)],
   [OneItem EXCEPT !.deps = Array(<<Null>>)]}

OddAnswers ==
  {Answer(Array(<<item>>)) : item \in OddSteps}
    \cup {Answer(Array(<<>>)), Answer(NotJSON), Answer(Blank), Answer(OneItem)}
    \cup {[Says(OneTry) EXCEPT !.around = "brackets"],
          [Says(Fork) EXCEPT !.around = "prose"],
          [Says(Sequential(2)) EXCEPT !.long = TRUE],
          [Says(Diamond) EXCEPT !.blocked = TRUE]}

(* The engine of cmd/server, asked for a sequential plan.                  *)
Plain ==
  [strategy |-> "simple", repairMax |-> 3, policy |-> Attempts(0), replanner |-> "none",
   maxReplans |-> 3, fallback |-> NoFallback, plans |-> {Sequential(2)},
   planner |-> "given", plannerFails |-> FALSE, guardrails |-> DefaultGuardrails,
   answers |-> {}, llmDown |-> FALSE, outcomes |-> SomeOutcomes,
   rows |-> FreshRows, dbFails |-> FALSE]

(* Without a repair engine, and with one whose limit is 0.                 *)
Unrepaired == [Plain EXCEPT !.strategy = "none", !.plans = {Diamond}]
NeverRepaired == [Plain EXCEPT !.repairMax = 0, !.plans = {Fork}]

(* Every class of failure; limits that disagree; steps side by side.       *)
Batches ==
  [Plain EXCEPT !.strategy = "advanced", !.repairMax = 4, !.policy = Attempts(3),
                !.plans = AllPlans, !.plannerFails = TRUE, !.outcomes = AllOutcomes]

(* Sleeps: linear, exponential beyond what a duration can hold, jittered,  *)
(* without a cap, and with the cap of a step.                              *)
Waits(p, plans) ==
  [Plain EXCEPT !.repairMax = 6, !.policy = p, !.plans = plans, !.outcomes = {Ok, ToolError}]

(* A language model plans, behind all guardrails and behind none.          *)
Guided ==
  [Plain EXCEPT !.planner = "llm", !.llmDown = TRUE, !.answers = OddAnswers,
                !.guardrails = <<"maxTokens", "empty", "json", "blocked">>]

Unguarded == [Guided EXCEPT !.guardrails = <<>>, !.outcomes = {Ok, ToolError}]

(* A language model replans with well-formed plans.                        *)
LLMReplans ==
  [Plain EXCEPT !.repairMax = 2, !.replanner = "llm", !.maxReplans = 2,
                !.rows = {NoRow}, !.plans = {Fork, Sequential(2)},
                !.llmDown = TRUE,
                !.answers = {Says(Sequential(1)), Says(Backward)}]

(* ContextAwarePlanner replans its sequential template.                    *)
ContextReplans ==
  [Plain EXCEPT !.repairMax = 2, !.replanner = "contextAware", !.fallback = alt,
                !.rows = {NoRow}, !.plans = {Sequential(3)}]

(* Any write may fail, and the replanner may answer with a malformed plan. *)
Faults ==
  [Plain EXCEPT !.repairMax = 2, !.replanner = "llm", !.maxReplans = 1,
                !.dbFails = TRUE, !.rows = {NoRow}, !.outcomes = {Ok, ToolError},
                !.plans = {Fork, Sequential(2)}, !.llmDown = TRUE,
                !.answers = {Says(Sequential(1)), Says(Dangling)}]

EngineNames ==
  {"plain", "unrepaired", "neverRepaired", "linear", "constant", "steep", "uncapped",
   "jitters", "batches", "guided", "unguarded", "llm", "context", "faults"}

AllConfigs ==
  [name \in EngineNames |->
     CASE name = "plain" -> Plain
       [] name = "unrepaired" -> Unrepaired
       [] name = "neverRepaired" -> NeverRepaired
       [] name = "linear" -> Waits(BackOff("linear", 12), {Sequential(1), OwnCap})
       [] name = "constant" -> Waits(BackOff("constant", 0), {Sequential(1)})
       [] name = "steep" -> Waits(Steep, {Sequential(1)})
       [] name = "uncapped" -> Waits([Steep EXCEPT !.maxDelay = 0], {Sequential(1)})
       [] name = "jitters" -> Waits(Jitters, {Sequential(1)})
       [] name = "batches" -> Batches
       [] name = "guided" -> Guided
       [] name = "unguarded" -> Unguarded
       [] name = "llm" -> LLMReplans
       [] name = "context" -> ContextReplans
       [] name = "faults" -> Faults]

(* The smallest engines that show the disagreements.  The run id of a      *)
(* second replay is that of the first, whose row is there; the step rows   *)
(* of the first are left out, they only keep more attempts unrecorded.     *)
UsedRunID ==
  [one |-> [Plain EXCEPT !.rows = {[Created EXCEPT !.status = "COMPLETED",
                                                   !.completedAt = TRUE]}]]

DanglingReplan ==
  [one |-> [Plain EXCEPT !.replanner = "llm", !.maxReplans = 1, !.rows = {NoRow},
                         !.plans = {Sequential(1)}, !.answers = {Says(Dangling)}]]

KeysAgain ==
  [one |-> [ContextReplans EXCEPT !.fallback = NoFallback, !.maxReplans = 1,
                                  !.plans = {Sequential(2)}]]
=============================================================================
