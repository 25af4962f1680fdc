-------------------------- MODULE EngineRules_proof --------------------------
(***************************************************************************)
(* Facts about the operators Engine is built from: retry policies and      *)
(* their delays, repair plans, and what planners and replanners return.    *)
(***************************************************************************)
EXTENDS Planners, Repair, RetryPolicy, Plans_proof

-----------------------------------------------------------------------------
(* Retry policies (RetryPolicy).                                           *)

(* What a step's own policy leaves open comes from the engine's.           *)
LEMMA ResolvedType ==
  ASSUME NEW own \in Policy \cup {NoPolicy}, NEW engines \in Policy
  PROVE  Resolved(own, engines) \in Policy
<1>1. CASE own = NoPolicy  BY <1>1 DEF Resolved
<1>2. CASE own # NoPolicy
  <2>1. Merge(own, engines) \in Policy
    BY <1>2 DEF Merge, Or, Policy
  <2>2. QED  BY <1>2, <2>1 DEF Resolved
<1>3. QED  BY <1>1, <1>2

(* A policy allows at least one attempt.                                   *)
LEMMA MaxAttemptsPositive ==
  ASSUME NEW p \in Policy
  PROVE  MaxAttempts(p) \in Nat \ {0}
<1>1. p.maxAttempts \in Nat  BY DEF Policy
<1>2. QED  BY <1>1 DEF MaxAttempts, Or, DefaultMaxAttempts

(* Jitter takes a duration to another one, at most a quarter longer.       *)
LEMMA JitteredBounded ==
  ASSUME Longest \in Nat, NEW d \in 0 .. Longest, NEW x \in Jittered(d)
  PROVE  x \in Nat /\ x <= d + d \div 4
<1>1. PICK j \in -(d \div 4) .. d \div 4 :
         x = IF d + j \in 0 .. Longest THEN d + j ELSE 0
  BY DEF Jittered
<1>2. d \div 4 \in Nat  OBVIOUS
<1>3. QED  BY <1>1, <1>2

(* policy.go:34-41, 135-150: what is slept is a natural number, and with a *)
(* cap it exceeds the cap by the jitter's quarter at most.                 *)
LEMMA SleepsBounded ==
  ASSUME Longest \in Nat, NEW p \in Policy, NEW n \in Nat, NEW s \in Sleeps(p, n)
  PROVE  /\ s \in Nat
         /\ p.maxDelay > 0 => s <= p.maxDelay + p.maxDelay \div 4
<1> DEFINE max == p.maxDelay
           durations == Duration(Capped(p, Raw(p, n - 1)))
<1>0. max \in Nat /\ p.jitter \in BOOLEAN  BY DEF Policy
<1>1. \A d \in durations :
         /\ d \in Int /\ (d > 0 => d \in 0 .. Longest)
         /\ max > 0 /\ d > 0 => d <= max
  <2> DEFINE delay == Capped(p, Raw(p, n - 1))
  <2>1. \A d \in durations :
          \/ d = delay /\ d \in 0 .. Longest
          \/ ~(delay \in 0 .. Longest) /\ d \in {Longest, -Longest - 1}
    BY DEF Duration
  <2>2. max > 0 => delay \in 0 .. max
    BY <1>0 DEF Capped
  <2> HIDE DEF durations, delay, max
  <2>3. QED  BY <2>1, <2>2, <1>0
<1>2. PICK d \in Delay(p, n) : s = IF d > 0 THEN d ELSE 0
  BY DEF Sleeps
<1>3. d \in Int /\ (max > 0 /\ d > 0 => d <= max + max \div 4)
  <2>1. CASE d = 0  BY <2>1
  <2>2. CASE d \in durations
    <3> HIDE DEF durations
    <3>1. d \in Int /\ (max > 0 /\ d > 0 => d <= max)  BY <1>1, <2>2
    <3>2. max > 0 => max \div 4 \in Nat  BY <1>0
    <3> HIDE DEF max
    <3>3. QED  BY <1>0, <3>1, <3>2
  <2>3. ASSUME NEW e \in durations, e > 0, d \in Jittered(e)
        PROVE  d \in Int /\ (max > 0 /\ d > 0 => d <= max + max \div 4)
    <3> HIDE DEF durations
    <3>1. e \in 0 .. Longest /\ (max > 0 => e <= max)  BY <1>1, <2>3
    <3>2. d \in Nat /\ d <= e + e \div 4  BY <2>3, <3>1, JitteredBounded
    <3> HIDE DEF max
    <3>3. max > 0 => e \div 4 <= max \div 4  BY <1>0, <3>1
    <3>4. QED  BY <1>0, <3>1, <3>2, <3>3
  <2>4. \/ d = 0
        \/ d \in durations
        \/ \E e \in durations : e > 0 /\ d \in Jittered(e)
    BY DEF Delay
  <2>5. QED  BY <2>1, <2>2, <2>3, <2>4
<1>4. QED  BY <1>0, <1>2, <1>3

(* The one fact about powers that backing off needs.  It is arithmetic     *)
(* (no property of a policy), but the provers know nothing of powers.      *)
PowersGrow == \A m \in Nat \ {0} : \A n \in Nat : m ^ n \in Nat /\ m ^ n <= m ^ (n + 1)

(* policy.go:118-134: a delay before the cap never shrinks.                *)
LEMMA RawGrows ==
  ASSUME PowersGrow, NEW p \in Policy, NEW n \in Nat \ {0}
  PROVE  Raw(p, n) \in Nat /\ Raw(p, n + 1) \in Nat /\ Raw(p, n) <= Raw(p, n + 1)
<1> DEFINE first == p.initialDelay
           m == Or(p.multiplier, 0, 2)
<1>0. first \in Nat /\ m \in Nat \ {0}
  <2>1. p.initialDelay \in Nat /\ p.multiplier \in Nat  BY DEF Policy
  <2>2. QED  BY <2>1 DEF Or
<1>1. CASE p.backoff = "constant"
  <2>1. Raw(p, n) = first /\ Raw(p, n + 1) = first  BY <1>1 DEF Raw
  <2>2. QED  BY <1>0, <2>1
<1>2. CASE p.backoff = "linear"
  <2>1. Raw(p, n) = first * n /\ Raw(p, n + 1) = first * (n + 1)  BY <1>2 DEF Raw
  <2> HIDE DEF first
  <2>2. first * (n + 1) = first * n + first /\ first * n \in Nat  BY <1>0
  <2>3. QED  BY <1>0, <2>1, <2>2
<1>3. CASE p.backoff \notin {"constant", "linear"}
  <2>1. PICK a, b : a = m ^ (n - 1) /\ b = m ^ n  OBVIOUS
  <2>2. (n + 1) - 1 = n /\ n - 1 \in Nat /\ (n - 1) + 1 = n  OBVIOUS
  <2>3. Raw(p, n) = first * a /\ Raw(p, n + 1) = first * b
    <3>1. Raw(p, n) = first * m ^ (n - 1) /\ Raw(p, n + 1) = first * m ^ ((n + 1) - 1)
      BY <1>3 DEF Raw
    <3>2. QED  BY <2>1, <2>2, <3>1
  <2> HIDE DEF first, m
  <2>4. /\ m ^ (n - 1) \in Nat /\ m ^ (n - 1) <= m ^ ((n - 1) + 1)
        /\ m ^ n \in Nat
    BY <1>0, <2>2 DEF PowersGrow
  <2>5. a \in Nat /\ b \in Nat /\ a <= b  BY <2>1, <2>2, <2>4
  <2>6. first * a \in Nat /\ first * b \in Nat /\ first * a <= first * b  BY <1>0, <2>5
  <2>7. QED  BY <2>3, <2>6
<1>4. QED  BY <1>1, <1>2, <1>3

(* policy.go:100-150: nor does a sleep, under a cap and without jitter.    *)
LEMMA SleepsGrow ==
  ASSUME PowersGrow, Longest \in Nat, NEW p \in Policy, ~p.jitter, p.maxDelay \in 1 .. Longest,
         NEW n \in Nat, n >= 2, NEW s \in Sleeps(p, n), NEW t \in Sleeps(p, n + 1)
  PROVE  s <= t
<1> DEFINE max == p.maxDelay
<1>1. CASE p.backoff = "none"  BY <1>1 DEF Sleeps, Delay
<1>2. CASE p.backoff # "none"
  <2>1. PICK a, b : a = Raw(p, n - 1) /\ b = Raw(p, n)  OBVIOUS
  <2>2. a \in Nat /\ b \in Nat /\ a <= b
    <3>1. n - 1 \in Nat \ {0} /\ (n - 1) + 1 = n  OBVIOUS
    <3>2. Raw(p, n - 1) \in Nat /\ Raw(p, (n - 1) + 1) \in Nat
          /\ Raw(p, n - 1) <= Raw(p, (n - 1) + 1)
      BY <3>1, RawGrows
    <3>3. QED  BY <2>1, <3>1, <3>2
  <2>3. /\ Delay(p, n) = Duration(Capped(p, a))
        /\ Delay(p, n + 1) = Duration(Capped(p, b))
    <3>1. ~(n <= 1) /\ ~(n + 1 <= 1) /\ (n + 1) - 1 = n  OBVIOUS
    <3>2. QED  BY <1>2, <2>1, <3>1 DEF Delay
  <2>4. max \in Nat /\ max > 0 /\ max <= Longest
    <3>1. p.maxDelay \in 1 .. Longest  OBVIOUS
    <3> HIDE DEF max
    <3>2. QED  BY <3>1 DEF max
  <2>5. \A x \in Nat : Capped(p, x) = IF x <= max THEN x ELSE max
    BY <2>4 DEF Capped
  <2>6. PICK c, d : c = Capped(p, a) /\ d = Capped(p, b)  OBVIOUS
  <2> HIDE DEF max
  <2>7. c \in 0 .. Longest /\ d \in 0 .. Longest /\ c <= d  BY <2>2, <2>4, <2>5, <2>6
  <2>8. Duration(c) = {c} /\ Duration(d) = {d}  BY <2>7 DEF Duration
  <2>9. s = c /\ t = d  BY <2>3, <2>6, <2>7, <2>8 DEF Sleeps
  <2>10. QED  BY <2>7, <2>9
<1>3. QED  BY <1>1, <1>2
-----------------------------------------------------------------------------
(* Repair plans (Repair).                                                  *)

(* A repair plan is a single action; an agent it names may be none.        *)
LEMMA RepairPlanShape ==
  ASSUME NEW f
  PROVE  \E type, agent : RepairPlan(f) = <<[type |-> type, agent |-> agent]>>
<1>1. \A type : Action(type) = <<[type |-> type, agent |-> NoAgentID]>>
  BY DEF Action
<1>2. \A agent : Replace(agent) = <<[type |-> "replace_step", agent |-> agent]>>
  BY DEF Replace
<1>3. QED  BY <1>1, <1>2 DEF RepairPlan, SimplePlan, AdvancedPlan

(* Whatever repair decides, the next attempt runs the agent of the last    *)
(* one or another that is registered.                                      *)
LEMMA NextAgentRegistered ==
  ASSUME NEW f, NEW agent
  PROVE  NextAgent(RepairPlan(f), agent) \in Registered \cup {agent}
<1> DEFINE rp == RepairPlan(f)
<1>1. PICK type, name : rp = <<[type |-> type, agent |-> name]>>
  BY RepairPlanShape
<1>2. \A k \in FirstDeciding(rp, agent) : k = 1
  BY <1>1 DEF FirstDeciding
<1>3. ASSUME NEW k \in FirstDeciding(rp, agent), rp[k].type = "replace_step"
      PROVE  rp[CHOOSE j \in FirstDeciding(rp, agent) : TRUE].agent \in Registered
  <2>1. rp[1].agent \in Registered
    BY <1>2, <1>3 DEF FirstDeciding, Decides, Usable
  <2>2. QED  BY <1>2, <1>3, <2>1
<1>4. QED  BY <1>3 DEF NextAgent

(* repair/engine.go: no repair at the attempt limit or beyond it.          *)
LEMMA RepairLimited ==
  ASSUME NEW f, ~HasAbort(RepairPlan(f))
  PROVE  f.attempt < RepairMaxAttempts
<1>1. HasAbort(Action("abort"))  BY DEF HasAbort, Action
<1>2. QED  BY <1>1 DEF RepairPlan
-----------------------------------------------------------------------------
(* Plans of planners and replanners (LLMPlanning, Planners).               *)

(* Everything planners take from outside is well-formed: the ASSUME of     *)
(* Engine about the configuration in force, as far as it is needed here.   *)
PlannersOK ==
  /\ \A answer \in Answers : WellFormed(answer)
  /\ GivenPlans \subseteq Seq(PlanStep)
  /\ FallbackAgentID \in AgentName \cup {NoFallback}
  /\ Described \subseteq AgentName /\ NoPolicy \in StepPolicy

(* A step that the parser lets through is a step of a plan.                *)
LEMMA RawStepType ==
  ASSUME NEW item, RawStepDecodes(item), WellFormedItem(item),
         AgentID(item) \in Described \ {NoAgentID},
         Described \subseteq AgentName, NoPolicy \in StepPolicy
  PROVE  RawStep(item) \in PlanStep
<1>1. item # Null  BY DEF AgentID
<1>2. item.json = "object" /\ Decodes(item.id, "string") /\ Decodes(item.deps, "array")
  BY <1>1 DEF RawStepDecodes
<1>3. StringOf(item.id, NoStepID) \in StepName \cup {NoStepID}
  BY <1>2 DEF WellFormedItem, Names, StringOf
<1>4. ASSUME item.deps.json = "array"
      PROVE  [k \in DOMAIN item.deps.of |-> StringOf(item.deps.of[k], NoStepID)]
               \in Seq(StepName \cup {NoStepID})
  <2> DEFINE T == {item.deps.of[k] : k \in DOMAIN item.deps.of}
  <2>1. item.deps.of \in Seq(T)  BY <1>2, <1>4 DEF WellFormedItem, IsArray
  <2>2. \A k \in DOMAIN item.deps.of :
           StringOf(item.deps.of[k], NoStepID) \in StepName \cup {NoStepID}
    BY <1>2, <1>4 DEF WellFormedItem, Names, StringOf
  <2>3. DOMAIN item.deps.of = 1 .. Len(item.deps.of) /\ Len(item.deps.of) \in Nat
    BY <2>1, LenProperties
  <2>4. QED  BY <2>2, <2>3
<1>5. RawStep(item).deps \in Seq(StepName \cup {NoStepID})
  BY <1>4 DEF RawStep
<1>6. QED  BY <1>3, <1>4 DEF RawStep, PlanStep

(* A plan that comes out of a model's answer has steps, and names only     *)
(* agents that the model was offered.                                      *)
LEMMA ModelPlansType ==
  ASSUME PlannersOK, NEW p \in ModelPlans
  PROVE  /\ p \in Seq(PlanStep) /\ p # <<>>
         /\ \A i \in Nodes(p) : p[i].agent \in Described
<1>1. PICK answer \in Answers : p \in PlanOf(answer)  BY DEF ModelPlans
<1> DEFINE body == Extract(answer)
<1>2. /\ body.json = "array" /\ body.of # <<>>
      /\ \A k \in DOMAIN body.of : RawStepDecodes(body.of[k])
      /\ \A k \in DOMAIN body.of : AgentID(body.of[k]) \in Described \ {NoAgentID}
      /\ p = [k \in DOMAIN body.of |-> RawStep(body.of[k])]
  BY <1>1 DEF PlanOf, ParsePlanSteps
<1>3. body = answer.body
  BY <1>2 DEF Extract, NotJSON, Tagged
<1> HIDE DEF body
<1>4. IsArray(body) /\ \A k \in DOMAIN body.of : WellFormedItem(body.of[k])
  BY <1>1, <1>2, <1>3 DEF WellFormed, PlannersOK
<1>5. DOMAIN body.of = 1 .. Len(body.of) /\ Len(body.of) \in Nat
  BY <1>4, LenProperties DEF IsArray
<1>6. \A k \in DOMAIN body.of : RawStep(body.of[k]) \in PlanStep
  BY <1>2, <1>4, RawStepType DEF PlannersOK
<1>7. p \in Seq(PlanStep) /\ Len(p) = Len(body.of)
  BY <1>2, <1>5, <1>6
<1>8. Len(body.of) # 0
  <2>1. body.of \in Seq({body.of[k] : k \in DOMAIN body.of})  BY <1>4 DEF IsArray
  <2>2. QED  BY <1>2, <2>1, EmptySeq
<1>9. \A k \in DOMAIN body.of : RawStep(body.of[k]).agent \in Described
  BY <1>2 DEF RawStep
<1>10. QED  BY <1>2, <1>5, <1>7, <1>8, <1>9 DEF Nodes

(* The plans a call may start with.                                        *)
LEMMA InitialPlansType ==
  ASSUME PlannersOK
  PROVE  InitialPlans \subseteq Seq(PlanStep)
BY ModelPlansType DEF InitialPlans, PlannersOK

(* The plan a ContextAwarePlanner derives from a failed one.               *)
LEMMA ContextAwareReplanType ==
  ASSUME PlannersOK, NEW p \in Seq(PlanStep), NEW i \in Nodes(p), NEW type
  PROVE  /\ ContextAwareReplan(p, i, type) \in Seq(PlanStep)
         /\ Len(ContextAwareReplan(p, i, type)) = Len(p) - i + 1
         /\ ~HasDAG(p) => ~HasDAG(ContextAwareReplan(p, i, type))
<1> DEFINE r == ContextAwareReplan(p, i, type)
           n == Len(p) - i + 1
           new(j) == IF j = 1 /\ type \in {"tool", "agent"} /\ FallbackAgentID # NoFallback
                       THEN [p[i] EXCEPT !.agent = FallbackAgentID]
                       ELSE p[i + j - 1]
<1>1. n \in Nat /\ n >= 1 /\ i \in Nat  BY PlanShape DEF Nodes
<1>2. r = [j \in 1 .. n |-> new(j)]  BY DEF ContextAwareReplan
<1>3. \A j \in 1 .. n : i + j - 1 \in Nodes(p)  BY <1>1, PlanShape DEF Nodes
<1>4. \A j \in Nodes(p) : p[j] \in PlanStep  BY ElementOfSeq DEF Nodes
<1>5. \A j \in 1 .. n : /\ new(j) \in PlanStep
                        /\ new(j).id = p[i + j - 1].id /\ new(j).deps = p[i + j - 1].deps
  <2> SUFFICES ASSUME NEW j \in 1 .. n
               PROVE  /\ new(j) \in PlanStep
                      /\ new(j).id = p[i + j - 1].id
                      /\ new(j).deps = p[i + j - 1].deps
    OBVIOUS
  <2>1. CASE j = 1 /\ type \in {"tool", "agent"} /\ FallbackAgentID # NoFallback
    <3>1. FallbackAgentID \in AgentName  BY <2>1 DEF PlannersOK
    <3>2. p[i] \in PlanStep  BY <1>4
    <3>3. i + j - 1 = i  BY <1>1, <2>1
    <3>4. [p[i] EXCEPT !.agent = FallbackAgentID] \in PlanStep
      BY <3>1, <3>2 DEF PlanStep
    <3>5. [p[i] EXCEPT !.agent = FallbackAgentID].id = p[i].id
      BY <3>2 DEF PlanStep
    <3>6. [p[i] EXCEPT !.agent = FallbackAgentID].deps = p[i].deps
      BY <3>2 DEF PlanStep
    <3>7. QED  BY <2>1, <3>3, <3>4, <3>5, <3>6
  <2>2. CASE ~(j = 1 /\ type \in {"tool", "agent"} /\ FallbackAgentID # NoFallback)
    <3>1. new(j) = p[i + j - 1]  BY <2>2
    <3>2. QED  BY <1>3, <1>4, <3>1
  <2>3. QED  BY <2>1, <2>2
<1> HIDE DEF new, r
<1>6. r \in Seq(PlanStep) /\ Len(r) = n
  <2> HIDE DEF n
  <2>1. r \in [1 .. n -> PlanStep]  BY <1>2, <1>5
  <2>2. QED  BY <1>1, <2>1
<1>7. ASSUME ~HasDAG(p) PROVE ~HasDAG(r)
  <2>1. \A j \in Nodes(p) : p[j].id = NoStepID /\ p[j].deps = <<>>
    BY <1>7 DEF HasDAG
  <2>2. \A j \in 1 .. n : r[j].id = NoStepID /\ r[j].deps = <<>>
    BY <1>2, <1>3, <1>5, <2>1
  <2>3. QED  BY <1>6, <2>2 DEF HasDAG, Nodes
<1>8. QED  BY <1>6, <1>7 DEF r

(* A replanner answers with a plan, or with none.                          *)
LEMMA ReplanResultsType ==
  ASSUME PlannersOK, NEW p \in Seq(PlanStep), NEW i \in Nodes(p), NEW type, NEW n,
         NEW r \in ReplanResults(p, i, type, n), r # ReplanError
  PROVE  /\ r \in Seq(PlanStep)
         /\ Replanner = "contextAware" => r = ContextAwareReplan(p, i, type)
         /\ Replanner # "contextAware" => r \in ModelPlans
<1>1. \/ Replanner = "contextAware" /\ r = ContextAwareReplan(p, i, type)
      \/ Replanner # "contextAware" /\ r \in ModelPlans
  BY DEF ReplanResults
<1>2. QED  BY <1>1, ContextAwareReplanType, ModelPlansType
=============================================================================
