---------------------------- MODULE Engine_proof ----------------------------
(***************************************************************************)
(* Theorems about Engine, for every set of engines, plans, agents and      *)
(* policies: what a call of Execute may run, record and report.            *)
(*                                                                         *)
(* Core is inductive: types, where the call is, and the scheduler's        *)
(* counters against the set of completed steps.  The invariants after it   *)
(* are inductive relative to Core and to each other.                       *)
(***************************************************************************)
EXTENDS Engine, EngineRules_proof

(* What is known before the batches begin and after the call returned.     *)
Stages ==
  /\ pc \in {"idle", "planning", "planned"} =>
       completedSteps = <<>> /\ replanCount = 0 /\ stepRows = {} /\ ended = {}
  /\ result = "none" <=> pc # "returned"
  /\ pc \notin {"idle", "returned"} => row \in Row

(* The scheduler of the current plan knows exactly what is completed.      *)
Scheduled ==
  /\ \A m \in MergedSteps : m.replan <= replanCount
  /\ pc \in {"loop", "batch"} =>
       /\ ~RejectedPlan(plan)
       /\ CompletedNow \subseteq Nodes(plan)
       /\ \A i \in CompletedNow : Parents(plan, i) \subseteq CompletedNow
       /\ Exact(plan, inDegree, CompletedNow)
       /\ completed = Cardinality(CompletedNow)

Core == TypeOK /\ Stages /\ Scheduled /\ BatchSound

(* Outputs of validated agents were found valid.                           *)
Validated ==
  /\ pc \in {"loop", "batch"} =>
       \A m \in MergedSteps :
         m.replan = replanCount /\ plan[m.step].agent \in ValidatedAgents
           => m.output = "valid"
  /\ \A i \in batch : step[i].at \in {"invalid", "nil"} =>
         plan[i].agent \notin ValidatedAgents
-----------------------------------------------------------------------------
(* The configuration and the operators of Engine.                          *)

(* What EngineAssumption says of the engine in force.                      *)
LEMMA ConfigOK ==
  ASSUME config \in DOMAIN Configs
  PROVE  /\ PlannersOK
         /\ Outcomes \subseteq OutcomeType /\ InitialRows \subseteq Row \cup {NoRow}
         /\ MaxReplans \in Nat /\ RepairMaxAttempts \in Nat /\ EnginePolicy \in Policy
         /\ DbMayFail \in BOOLEAN
         /\ Strategy \in {"none", "simple", "advanced"}
         /\ Replanner \in {"none", "contextAware", "llm"} /\ Planner \in {"given", "llm"}
<1> DEFINE c == Configs[config]
<1>1. /\ c.plans \subseteq Seq(PlanStep) /\ c.outcomes \subseteq OutcomeType
      /\ c.rows \subseteq Row \cup {NoRow}
      /\ {c.maxReplans, c.repairMax} \subseteq Nat /\ c.policy \in Policy
      /\ c.fallback \in AgentName \cup {NoFallback}
      /\ {c.dbFails, c.plannerFails, c.llmDown} \subseteq BOOLEAN
      /\ c.strategy \in {"none", "simple", "advanced"}
      /\ c.replanner \in {"none", "contextAware", "llm"} /\ c.planner \in {"given", "llm"}
      /\ \A answer \in c.answers : WellFormed(answer)
  BY EngineAssumption
<1>2. Described \subseteq AgentName /\ NoPolicy \in StepPolicy  BY EngineAssumption
<1>3. PlannersOK
  BY <1>1, <1>2 DEF PlannersOK, Answers, GivenPlans, FallbackAgentID
<1>4. QED
  BY <1>1, <1>3 DEF Outcomes, InitialRows, MaxReplans, RepairMaxAttempts, EnginePolicy,
     DbMayFail, Strategy, Replanner, Planner

(* The entry of completedSteps for step i of the current plan.             *)
EntryOf(i) == [replan |-> replanCount, step |-> i, id |-> plan[i].id,
               output |-> step[i].at]

CompletedStep == [replan : Nat, step : Nat, id : StepName \cup {NoStepID},
                  output : {"valid", "invalid", "nil"}]

(* Merging adds an entry for each step of S, and no other.                 *)
LEMMA MergeEffect ==
  ASSUME TypeOK, pc = "batch", NEW S \in SUBSET batch, \A i \in S : Done(i),
         MergeOutputs(S)
  PROVE  /\ completedSteps' \in Seq(CompletedStep)
         /\ Len(completedSteps') = Len(completedSteps) + Cardinality(S)
         /\ MergedSteps' = MergedSteps \cup {EntryOf(i) : i \in S}
<1>1. PICK q \in Ascending(S) :
         completedSteps' = completedSteps \o [k \in DOMAIN q |->
             [replan |-> replanCount, step |-> q[k],
              id |-> plan[q[k]].id, output |-> step[q[k]].at]]
  BY DEF MergeOutputs
<1>2. S \subseteq Nodes(plan) /\ plan \in Seq(PlanStep)  BY DEF TypeOK
<1>3. S \subseteq Nat /\ IsFiniteSet(S)
  <2>1. IsFiniteSet(Nodes(plan)) /\ Len(plan) \in Nat  BY <1>2, PlanShape
  <2>2. Nodes(plan) \subseteq Nat  BY <2>1 DEF Nodes
  <2>3. QED  BY <1>2, <2>1, <2>2, FS_Subset
<1>4. \A i \in S : EntryOf(i) \in CompletedStep
  <2> SUFFICES ASSUME NEW i \in S PROVE EntryOf(i) \in CompletedStep
    OBVIOUS
  <2>1. plan[i].id \in StepName \cup {NoStepID}  BY <1>2, PlanShape
  <2>2. step[i].at \in {"valid", "invalid", "nil"}  BY DEF Done
  <2>3. replanCount \in Nat  BY ConfigOK DEF TypeOK
  <2>4. QED  BY <1>3, <2>1, <2>2, <2>3 DEF EntryOf, CompletedStep
<1> DEFINE n == Cardinality(S)
           u == [k \in 1 .. n |-> EntryOf(q[k])]
<1>5. /\ n \in Nat /\ q \in [1 .. n -> S] /\ DOMAIN q = 1 .. n
      /\ \A i \in S : \E k \in 1 .. n : q[k] = i
  BY <1>3, FS_CardinalityType DEF Ascending
<1>6. completedSteps' = completedSteps \o u
  BY <1>1, <1>5 DEF EntryOf
<1>7. u \in [1 .. n -> CompletedStep]  BY <1>4, <1>5
<1>8. Range(u) = {EntryOf(i) : i \in S}
  BY <1>5 DEF Range
<1>9. completedSteps \in Seq(CompletedStep)  BY DEF TypeOK, CompletedStep
<1> HIDE DEF u, n
<1>10. u \in Seq(CompletedStep) /\ Len(u) = n  BY <1>5, <1>7
<1>11. /\ completedSteps' \in Seq(CompletedStep)
       /\ Len(completedSteps') = Len(completedSteps) + n
       /\ Range(completedSteps') = Range(completedSteps) \cup Range(u)
  <2>1. /\ completedSteps \o u \in Seq(CompletedStep)
        /\ Len(completedSteps \o u) = Len(completedSteps) + n
    BY <1>9, <1>10
  <2>2. Range(completedSteps \o u) = Range(completedSteps) \cup Range(u)
    BY <1>9, <1>10, RangeConcatenation
  <2>3. QED  BY <1>6, <2>1, <2>2
<1>12. MergedSteps' = Range(completedSteps') /\ MergedSteps = Range(completedSteps)
  BY DEF MergedSteps, Range
<1>13. QED  BY <1>8, <1>11, <1>12 DEF n

(* Whatever leaves plan, scheduler and completed steps alone keeps what is *)
(* known of them.                                                          *)
LEMMA CompletedKept ==
  ASSUME UNCHANGED <<replanCount, completedSteps>>
  PROVE  MergedSteps' = MergedSteps /\ CompletedNow' = CompletedNow
BY DEF MergedSteps, CompletedNow

(* Steps that leave plan and counters alone keep the schedule sound.       *)
LEMMA ScheduleKept ==
  ASSUME Core, UNCHANGED <<plan, inDegree, completed, replanCount, completedSteps>>,
         pc' \in {"loop", "batch"} => pc \in {"loop", "batch"}, batch' \subseteq batch
  PROVE  Scheduled' /\ BatchSound'
BY CompletedKept DEF Core, Scheduled, BatchSound

(* Of a call that returned nothing but its history is left.                *)
LEMMA ReturnedCore ==
  ASSUME pc' = "returned", batch' = {}, \A m \in MergedSteps' : m.replan <= replanCount'
  PROVE  Scheduled' /\ BatchSound'
BY DEF Scheduled, BatchSound

(* The rows that are written, and the row in memory when a run is closed.  *)
LEMMA RowTypes ==
  ASSUME TypeOK
  PROVE  /\ \A r \in Row : row \in Row => Updated(r) \in Row
         /\ \A status \in RunStatus : Closed(run, status) \in Row
BY DEF TypeOK, Row, RunStatus, Updated, Closed

(* A row that is written is of some attempt of the current plan.           *)
LEMMA RowsType ==
  ASSUME TypeOK, NEW i \in Nat, NEW n \in Nat, NEW status \in {"SUCCEEDED", "FAILED"}
  PROVE  /\ Attempted(i, n, status) \in
              [step : Nat, attempt : Nat, status : {"SUCCEEDED", "FAILED"}, replan : Nat]
         /\ RecordStep(Attempted(i, n, status)) =>
              stepRows' \subseteq stepRows \cup {Attempted(i, n, status)}
<1>1. replanCount \in Nat  BY ConfigOK DEF TypeOK
<1>2. QED  BY <1>1 DEF Attempted, RecordStep

(* The state of a goroutine.                                               *)
StepState ==
  [at : {"idle", "spawned", "attempt", "running", "valid", "invalid", "nil", "failed"},
   agent : AgentName \cup {NoAgentID}, class : FailureType, waits : Seq(Nat)]

(* The parts of TypeOK: the call, and the tables of a plan being executed. *)
CallType ==
  /\ config \in DOMAIN Configs
  /\ pc \in {"idle", "planning", "planned", "loop", "batch", "returned"}
  /\ row \in Row \cup {NoRow} /\ run \in Row
  /\ plan \in Seq(PlanStep)
  /\ completed \in Nat /\ replanCount \in 0 .. MaxReplans
  /\ completedSteps \in Seq(CompletedStep)
  /\ stepRows \cup ended \subseteq
       [step : Nat, attempt : Nat, status : {"SUCCEEDED", "FAILED"}, replan : Nat]
  /\ result \in {"none", "succeeded", "failed", "error"}

TablesType ==
  /\ inDegree \in [Nodes(plan) -> Int]
  /\ attempts \in [Nodes(plan) -> Nat]
  /\ step \in [Nodes(plan) -> StepState]

BatchType == batch \subseteq (IF pc = "batch" THEN Nodes(plan) ELSE {})

(* The type invariant in the parts that a step may disturb.                *)
LEMMA TypeParts ==
  /\ TypeOK <=> CallType /\ (pc \in {"loop", "batch"} => TablesType) /\ BatchType
  /\ TypeOK' <=> CallType' /\ (pc' \in {"loop", "batch"} => TablesType') /\ BatchType'
BY DEF TypeOK, CallType, TablesType, BatchType, CompletedStep, StepState

(* A step that has not begun has the type of a step.                       *)
LEMMA IdleType == Idle \in StepState
<1>1. <<>> \in Seq(Nat)  OBVIOUS
<1>2. QED  BY <1>1 DEF Idle, StepState, FailureType

(* The inductive invariant holds when Execute is called.                   *)
LEMMA CoreInit == Init => Core
<1> SUFFICES ASSUME Init PROVE Core
  OBVIOUS
<1>1. TypeOK
  <2>1. row \in Row \cup {NoRow}  BY ConfigOK DEF Init
  <2>2. run \in Row  BY DEF Init, Row, RunStatus
  <2>3. replanCount \in 0 .. MaxReplans  BY ConfigOK DEF Init
  <2>4. QED  BY <2>1, <2>2, <2>3 DEF Init, TypeOK
<1>2. Stages  BY DEF Init, Stages
<1>3. MergedSteps = {}  BY DEF Init, MergedSteps
<1>4. QED  BY <1>1, <1>2, <1>3 DEF Init, Core, Scheduled, BatchSound

(* The steps of Execute before its batch loop.                             *)
LEMMA CoreStart ==
  ASSUME Core,
         RejectRequest \/ CreateRun \/ CreateRunFails \/ CreatePlanFails \/ CreatePlan
           \/ BuildDAG \/ BuildDAGFails
  PROVE  Core'
<1> USE DEF Core
<1>1. CASE RejectRequest \/ CreateRunFails
  <2>1. TypeOK' /\ Stages'
    BY <1>1, TypeParts DEF RejectRequest, CreateRunFails, Return, planVars, stepVars,
       CallType, BatchType, MaxReplans, Stages
  <2>2. Scheduled' /\ BatchSound'
    BY <1>1, ScheduleKept DEF RejectRequest, CreateRunFails, Return, planVars, stepVars
  <2>3. QED  BY <2>1, <2>2
<1>2. CASE CreateRun
  <2>1. TypeOK' /\ Stages'
    BY <1>2, TypeParts DEF CreateRun, planVars, stepVars, CallType, BatchType, MaxReplans,
       Stages
  <2>2. Scheduled' /\ BatchSound'
    BY <1>2, ScheduleKept DEF CreateRun, planVars, stepVars
  <2>3. QED  BY <2>1, <2>2
<1>3. CASE CreatePlanFails \/ BuildDAGFails
  <2>1. row \in Row /\ run' = Closed(run, "FAILED")
    BY <1>3 DEF CreatePlanFails, BuildDAGFails, Stages
  <2>2. run' \in Row  BY <2>1, RowTypes DEF RunStatus
  <2>3. row' \in Row
    BY <1>3, <2>1, <2>2, RowTypes DEF CreatePlanFails, BuildDAGFails, SaveRun
  <2>4. TypeOK' /\ Stages'
    BY <1>3, <2>2, <2>3, TypeParts DEF CreatePlanFails, BuildDAGFails, Return, planVars,
       stepVars, CallType, BatchType, MaxReplans, Stages
  <2>5. Scheduled' /\ BatchSound'
    BY <1>3, ScheduleKept DEF CreatePlanFails, BuildDAGFails, Return, planVars, stepVars
  <2>6. QED  BY <2>4, <2>5
<1>4. CASE CreatePlan
  <2>1. plan' \in Seq(PlanStep)
    BY <1>4, ConfigOK, InitialPlansType DEF CreatePlan, TypeOK
  <2>2. run' \in Row
    <3>1. Len(plan') \in Nat  BY <2>1, LenProperties
    <3>2. QED  BY <1>4, <3>1 DEF CreatePlan, TypeOK, Row, RunStatus
  <2>3. row' \in Row  BY <1>4, <2>2, RowTypes DEF CreatePlan, Stages
  <2>4. /\ pc' \in {"planned", "returned"} /\ batch' = {}
        /\ completedSteps' = <<>> /\ replanCount' = 0
        /\ UNCHANGED <<config, completed, stepRows, ended>>
    BY <1>4 DEF CreatePlan, Return, Stages, stepVars, TypeOK
  <2>5. TypeOK' /\ Stages'
    BY <1>4, <2>1, <2>2, <2>3, <2>4, TypeParts DEF CreatePlan, Return, CallType, BatchType,
       MaxReplans, Stages
  <2>6. MergedSteps' = {}  BY <2>4 DEF MergedSteps
  <2>7. Scheduled' /\ BatchSound'  BY <2>4, <2>6 DEF Scheduled, BatchSound
  <2>8. QED  BY <2>5, <2>7
<1>5. CASE BuildDAG
  <2>1. plan \in Seq(PlanStep) /\ completedSteps = <<>> /\ replanCount = 0
    BY <1>5 DEF BuildDAG, TypeOK, Stages
  <2>2. /\ inDegree' = InDegrees(plan) /\ completed' = 0 /\ batch' = {}
        /\ attempts' = [i \in Nodes(plan) |-> 0]
        /\ step' = [i \in Nodes(plan) |-> Idle]
        /\ pc = "planned" /\ pc' = "loop" /\ ~RejectedPlan(plan)
        /\ UNCHANGED <<config, row, run, plan, batch, replanCount, completedSteps,
                       stepRows, ended, result>>
    BY <1>5 DEF BuildDAG, Schedule, TypeOK
  <2>3. inDegree' \in [Nodes(plan') -> Int]  BY <2>1, <2>2, InDegreesType
  <2>4. attempts' \in [Nodes(plan') -> Nat]  BY <2>2
  <2>5. step' \in [Nodes(plan') -> StepState]  BY <2>2, IdleType
  <2>6. TablesType'  BY <2>3, <2>4, <2>5 DEF TablesType
  <2>7. CallType' /\ BatchType'
    BY <2>2, TypeParts DEF CallType, BatchType, MaxReplans
  <2>8. TypeOK'  BY <2>6, <2>7, TypeParts
  <2>9. Stages'  BY <2>2 DEF Stages
  <2>10. MergedSteps' = {} /\ CompletedNow' = {}
    BY <2>1, <2>2 DEF MergedSteps, CompletedNow
  <2>11. Exact(plan', inDegree', {})  BY <2>1, <2>2, InDegreesExact
  <2>12. Cardinality({}) = 0  BY FS_EmptySet
  <2>13. Scheduled' /\ BatchSound'
    BY <2>2, <2>10, <2>11, <2>12 DEF Scheduled, BatchSound
  <2>14. QED  BY <2>8, <2>9, <2>13
<1>6. QED  BY <1>1, <1>2, <1>3, <1>4, <1>5

(* What holds of the step a goroutine runs.                                *)
LEMMA StepFacts ==
  ASSUME TypeOK, pc = "batch", NEW i \in batch
  PROVE  /\ i \in Nodes(plan) /\ i \in Nat /\ Len(plan) \in Nat
         /\ plan[i] \in PlanStep
         /\ step[i] \in StepState /\ attempts[i] \in Nat
         /\ DOMAIN step = Nodes(plan) /\ DOMAIN attempts = Nodes(plan)
         /\ PolicyOf(i) \in Policy
<1>1. i \in Nodes(plan) /\ plan \in Seq(PlanStep)  BY DEF TypeOK
<1>2. Len(plan) \in Nat /\ i \in Nat  BY <1>1, PlanShape DEF Nodes
<1>3. plan[i] \in PlanStep  BY <1>1, ElementOfSeq DEF Nodes
<1>4. TablesType  BY TypeParts
<1>5. step[i] \in StepState /\ attempts[i] \in Nat /\ DOMAIN step = Nodes(plan)
      /\ DOMAIN attempts = Nodes(plan)
  BY <1>1, <1>4 DEF TablesType
<1>6. plan[i].policy \in Policy \cup {NoPolicy}
  BY <1>3, EngineAssumption DEF PlanStep
<1>7. PolicyOf(i) \in Policy
  BY <1>6, ConfigOK, ResolvedType DEF PolicyOf, TypeOK
<1>8. QED  BY <1>1, <1>2, <1>3, <1>5, <1>7

(* The sleeps of a step are natural numbers.                               *)
LEMMA SleptType ==
  ASSUME TypeOK, pc = "batch", NEW i \in batch, NEW w \in Slept(i)
  PROVE  w \in Seq(Nat)
<1>1. step[i].waits \in Seq(Nat) /\ attempts[i] + 1 \in Nat /\ PolicyOf(i) \in Policy
  BY StepFacts DEF StepState
<1>2. Sleeps(PolicyOf(i), attempts[i] + 1) \subseteq Nat
  BY <1>1, SleepsBounded, EngineAssumption
<1>3. \A d \in Nat : Append(step[i].waits, d) \in Seq(Nat)  BY <1>1
<1>4. QED  BY <1>1, <1>2, <1>3 DEF Slept

(* A step of a goroutine leaves the call, its plan and the batch alone.    *)
LEMMA GoroutineFrame ==
  ASSUME NEW i \in batch, Goroutine(i)
  PROVE  /\ pc = "batch"
         /\ UNCHANGED <<config, pc, plan, inDegree, completed, replanCount, completedSteps,
                        batch, result>>
BY DEF Goroutine, Announce, Attempt, AttemptsExceeded, StartAgent, AgentMissing,
       AgentSucceeds, AgentFails, planVars

(* Announce writes the run, the others do not.                             *)
LEMMA GoroutineRun ==
  ASSUME Core, NEW i \in batch, Goroutine(i)
  PROVE  row' \in Row /\ run' \in Row
<1>0. pc = "batch" /\ row \in Row /\ run \in Row
  BY GoroutineFrame DEF Core, Stages, TypeOK
<1>1. CASE Announce(i)
  <2>1. (i - 1) + Len(completedSteps) \in Nat
    <3>1. i \in Nat /\ i >= 1  BY <1>0, StepFacts DEF Core, Nodes
    <3>2. Len(completedSteps) \in Nat  BY LenProperties DEF Core, TypeOK
    <3>3. QED  BY <3>1, <3>2
  <2>2. run' \in Row  BY <1>0, <1>1, <2>1 DEF Announce, Row
  <2>3. QED  BY <1>0, <1>1, <2>2, RowTypes DEF Announce, SaveRun, Core
<1>2. CASE ~Announce(i)
  <2>1. row' = row /\ run' = run
    BY <1>2 DEF Goroutine, AttemptsExceeded, StartAgent, AgentMissing,
       AgentSucceeds, AgentFails
  <2>2. QED  BY <1>0, <2>1
<1>3. QED  BY <1>1, <1>2

(* The tables after a step of a goroutine.                                 *)
LEMMA GoroutineTables ==
  ASSUME Core, NEW i \in batch, Goroutine(i)
  PROVE  /\ step' \in [Nodes(plan) -> StepState]
         /\ attempts' \in [Nodes(plan) -> Nat]
<1>0. /\ pc = "batch" /\ i \in Nodes(plan)
      /\ step \in [Nodes(plan) -> StepState] /\ attempts \in [Nodes(plan) -> Nat]
      /\ step[i] \in StepState /\ attempts[i] \in Nat
  BY GoroutineFrame, StepFacts, TypeParts DEF Core, TablesType
<1>1. /\ \A at \in {"attempt", "running", "valid", "invalid", "nil", "failed"} :
            [step[i] EXCEPT !.at = at] \in StepState
      /\ \A class \in FailureType : [step[i] EXCEPT !.at = "failed", !.class = class] \in StepState
      /\ \A w \in Seq(Nat) : [step[i] EXCEPT !.at = "running", !.waits = w] \in StepState
      /\ \A class \in FailureType, w \in Seq(Nat) :
            [step[i] EXCEPT !.at = "failed", !.class = class, !.waits = w] \in StepState
      /\ \A at \in {"attempt", "failed"}, agent \in AgentName \cup {NoAgentID}, class \in FailureType :
            [step[i] EXCEPT !.at = at, !.agent = agent, !.class = class] \in StepState
  BY <1>0 DEF StepState
<1>2. CASE Attempt(i) /\ (AttemptsExceeded(i) \/ StartAgent(i) \/ AgentMissing(i))
  <2>1. attempts' \in [Nodes(plan) -> Nat]  BY <1>0, <1>2 DEF Attempt
  <2>2. "unknown" \in FailureType /\ "agent" \in FailureType  BY DEF FailureType
  <2>3. CASE AttemptsExceeded(i)
    BY <1>0, <1>1, <2>1, <2>2, <2>3 DEF AttemptsExceeded
  <2>4. CASE StartAgent(i)
    <3>1. PICK w \in Slept(i) : step' = [step EXCEPT ![i].at = "running", ![i].waits = w]
      BY <2>4 DEF StartAgent
    <3>2. w \in Seq(Nat)  BY <1>0, SleptType DEF Core
    <3>3. QED  BY <1>0, <1>1, <2>1, <3>1, <3>2
  <2>5. CASE AgentMissing(i)
    <3>1. PICK w \in Slept(i) :
            step' = [step EXCEPT ![i].at = "failed", ![i].class = "agent", ![i].waits = w]
      BY <2>5 DEF AgentMissing
    <3>2. w \in Seq(Nat)  BY <1>0, SleptType DEF Core
    <3>3. QED  BY <1>0, <1>1, <2>1, <2>2, <3>1, <3>2
  <2>6. QED  BY <1>2, <2>3, <2>4, <2>5
<1>3. CASE Announce(i)  BY <1>0, <1>1, <1>3 DEF Announce
<1>4. CASE AgentSucceeds(i)
  <2>1. PICK o \in Outcomes : Accepted(i, o) /\ step' = [step EXCEPT ![i].at = o.kind]
    BY <1>4 DEF AgentSucceeds
  <2>2. o.kind \in {"valid", "invalid", "nil"}
    BY <2>1, ConfigOK DEF Accepted, OutcomeType, Core, TypeOK
  <2>3. QED  BY <1>0, <1>1, <1>4, <2>1, <2>2 DEF AgentSucceeds
<1>5. CASE AgentFails(i)
  <2>1. PICK o \in Outcomes, at \in {"attempt", "failed"} : \E f :
          \E agent \in {step[i].agent, NextAgent(RepairPlan(f), step[i].agent)} :
            step' = [step EXCEPT ![i].at = at, ![i].agent = agent, ![i].class = o.class]
    BY <1>5 DEF AgentFails
  <2>2. PICK f : \E agent \in {step[i].agent, NextAgent(RepairPlan(f), step[i].agent)} :
            step' = [step EXCEPT ![i].at = at, ![i].agent = agent, ![i].class = o.class]
    BY <2>1
  <2>3. PICK agent \in {step[i].agent, NextAgent(RepairPlan(f), step[i].agent)} :
            step' = [step EXCEPT ![i].at = at, ![i].agent = agent, ![i].class = o.class]
    BY <2>2
  <2>4. o.class \in FailureType
    BY ConfigOK DEF OutcomeType, Core, TypeOK
  <2>5. agent \in AgentName \cup {NoAgentID}
    BY <1>0, <2>3, NextAgentRegistered, EngineAssumption DEF StepState
  <2>6. QED  BY <1>0, <1>1, <1>5, <2>3, <2>4, <2>5 DEF AgentFails
<1>6. QED
  BY <1>2, <1>3, <1>4, <1>5 DEF Goroutine, AttemptsExceeded, StartAgent, AgentMissing

(* The rows after a step of a goroutine.                                   *)
LEMMA GoroutineRows ==
  ASSUME Core, NEW i \in batch, Goroutine(i)
  PROVE  \E status \in {"SUCCEEDED", "FAILED"} :
           /\ stepRows' = stepRows \/ RecordStep(Attempted(i, attempts'[i], status))
           /\ ended' = ended \/ ended' = ended \cup {Attempted(i, attempts'[i], status)}
           /\ stepRows' \cup ended' \subseteq
                stepRows \cup ended \cup {Attempted(i, attempts'[i], status)}
<1>0. /\ pc = "batch" /\ TypeOK /\ i \in Nodes(plan) /\ i \in Nat
      /\ attempts \in [Nodes(plan) -> Nat] /\ attempts[i] \in Nat
  BY GoroutineFrame, StepFacts, TypeParts DEF Core, TablesType
<1>1. /\ Attempt(i) => attempts'[i] = attempts[i] + 1
      /\ ~Attempt(i) => attempts'[i] = attempts[i]
  BY <1>0 DEF Goroutine, Attempt, Announce, AttemptsExceeded, StartAgent, AgentMissing,
     AgentSucceeds, AgentFails
<1>2. CASE UNCHANGED <<stepRows, ended>>  BY <1>2
<1>3. CASE AgentMissing(i)
  <2>1. /\ stepRows' = stepRows \/ RecordStep(Attempted(i, attempts'[i], "FAILED"))
        /\ ended' = ended
    BY <1>1, <1>3 DEF AgentMissing
  <2>2. attempts'[i] \in Nat  BY <1>0, <1>1
  <2>3. QED  BY <1>0, <2>1, <2>2, RowsType
<1>4. CASE AgentSucceeds(i)
  <2>1. /\ RecordStep(Attempted(i, attempts'[i], "SUCCEEDED"))
        /\ ended' = ended \cup {Attempted(i, attempts'[i], "SUCCEEDED")}
    BY <1>4 DEF AgentSucceeds
  <2>2. attempts'[i] \in Nat  BY <1>0, <1>1
  <2>3. QED  BY <1>0, <2>1, <2>2, RowsType
<1>5. CASE AgentFails(i)
  <2>1. /\ stepRows' = stepRows \/ RecordStep(Attempted(i, attempts'[i], "FAILED"))
        /\ ended' = ended \cup {Attempted(i, attempts'[i], "FAILED")}
    BY <1>5 DEF AgentFails
  <2>2. attempts'[i] \in Nat  BY <1>0, <1>1
  <2>3. QED  BY <1>0, <2>1, <2>2, RowsType
<1>6. QED
  BY <1>2, <1>3, <1>4, <1>5 DEF Goroutine, Announce, AttemptsExceeded, StartAgent

(* A goroutine of a batch keeps the inductive invariant.                   *)
LEMMA CoreGoroutine ==
  ASSUME Core, NEW i \in batch, Goroutine(i)
  PROVE  Core'
<1>1. /\ pc = "batch" /\ TypeOK
      /\ UNCHANGED <<config, pc, plan, inDegree, completed, replanCount, completedSteps,
                     batch, result>>
  BY GoroutineFrame DEF Core
<1>2. row' \in Row /\ run' \in Row  BY GoroutineRun
<1>3. TablesType'
  BY <1>1, GoroutineTables, TypeParts DEF TablesType
<1>4. stepRows' \cup ended' \subseteq
         [step : Nat, attempt : Nat, status : {"SUCCEEDED", "FAILED"}, replan : Nat]
  <2>1. attempts'[i] \in Nat /\ i \in Nat  BY <1>1, GoroutineTables, StepFacts
  <2>2. \A status \in {"SUCCEEDED", "FAILED"} : Attempted(i, attempts'[i], status) \in
           [step : Nat, attempt : Nat, status : {"SUCCEEDED", "FAILED"}, replan : Nat]
    BY <1>1, <2>1, RowsType
  <2>3. QED  BY <1>1, <2>2, GoroutineRows, TypeParts DEF CallType
<1>5. TypeOK'
  <2>1. CallType' /\ BatchType'
    BY <1>1, <1>2, <1>4, TypeParts DEF CallType, BatchType, MaxReplans
  <2>2. QED  BY <1>3, <2>1, TypeParts
<1>6. Stages'  BY <1>1, <1>2 DEF Core, Stages
<1>7. Scheduled' /\ BatchSound'  BY <1>1, ScheduleKept
<1>8. QED  BY <1>5, <1>6, <1>7 DEF Core

(* A batch is made of steps whose dependencies, and which themselves are   *)
(* not completed yet.                                                      *)
LEMMA CoreStartBatch ==
  ASSUME Core, StartBatch
  PROVE  Core'
<1> DEFINE R == ReadySteps(inDegree)
           new(i) == [Idle EXCEPT !.at = "spawned", !.agent = plan[i].agent]
<1>1. /\ pc = "loop" /\ pc' = "batch" /\ batch' = R
      /\ UNCHANGED <<config, row, run, plan, inDegree, completed, replanCount,
                     completedSteps, attempts, stepRows, ended, result>>
      /\ step' = [i \in DOMAIN step |-> IF i \in R THEN new(i) ELSE step[i]]
  BY DEF StartBatch, planVars
<1>2. TypeOK /\ TablesType /\ plan \in Seq(PlanStep)
  BY <1>1, TypeParts DEF Core, CallType
<1>3. R = {i \in Nodes(plan) : i \notin CompletedNow /\ Parents(plan, i) \subseteq CompletedNow}
  <2>1. inDegree \in [Nodes(plan) -> Int] /\ Exact(plan, inDegree, CompletedNow)
    BY <1>1, <1>2 DEF Core, Scheduled, TablesType
  <2>2. QED  BY <1>2, <2>1, ReadyWhenExact
<1>4. \A i \in Nodes(plan) : new(i) \in StepState
  <2>1. \A i \in Nodes(plan) : plan[i] \in PlanStep
    BY <1>2, ElementOfSeq DEF Nodes
  <2>2. \A g \in StepState : \A agent \in AgentName :
          [g EXCEPT !.at = "spawned", !.agent = agent] \in StepState
    BY DEF StepState
  <2>3. QED  BY <2>1, <2>2, IdleType DEF PlanStep
<1>5. step' \in [Nodes(plan) -> StepState]
  <2> HIDE DEF new, R
  <2>1. QED  BY <1>1, <1>2, <1>4 DEF TablesType
<1>6. TablesType'  BY <1>1, <1>2, <1>5 DEF TablesType
<1> HIDE DEF R
<1>7. CallType' /\ BatchType'
  BY <1>1, <1>2, <1>3, TypeParts DEF CallType, BatchType, MaxReplans
<1>8. TypeOK' /\ Stages'
  BY <1>1, <1>6, <1>7, TypeParts DEF Core, Stages
<1>9. CompletedNow' = CompletedNow /\ MergedSteps' = MergedSteps
  BY <1>1, CompletedKept
<1>10. Scheduled' /\ BatchSound'
  BY <1>1, <1>3, <1>9 DEF Core, Scheduled, BatchSound
<1>11. QED  BY <1>8, <1>10 DEF Core

(* The steps of a batch that succeeded are added to those completed.       *)
LEMMA AdvanceEffect ==
  ASSUME Core, AdvanceBatch
  PROVE  /\ completedSteps' \in Seq(CompletedStep)
         /\ MergedSteps' = MergedSteps \cup {EntryOf(i) : i \in batch}
         /\ CompletedNow' = CompletedNow \cup batch
         /\ \A m \in MergedSteps' : m.replan <= replanCount'
<1>1. /\ pc = "batch" /\ \A i \in batch : Done(i)
      /\ MergeOutputs(batch) /\ UNCHANGED replanCount
  BY DEF AdvanceBatch, Joined
<1>2. /\ completedSteps' \in Seq(CompletedStep)
      /\ MergedSteps' = MergedSteps \cup {EntryOf(i) : i \in batch}
  BY <1>1, MergeEffect DEF Core
<1>3. CompletedNow' = CompletedNow \cup batch
  <2>1. \A i : EntryOf(i).step = i /\ EntryOf(i).replan = replanCount  BY DEF EntryOf
  <2>2. \A x : x \in CompletedNow' <=>
                \E m \in MergedSteps' : m.replan = replanCount /\ m.step = x
    BY <1>1 DEF CompletedNow
  <2>3. \A x : x \in CompletedNow <=>
                \E m \in MergedSteps : m.replan = replanCount /\ m.step = x
    BY DEF CompletedNow
  <2>4. \A x : x \in CompletedNow' <=> x \in CompletedNow \/ x \in batch
    BY <1>2, <2>1, <2>2, <2>3
  <2>5. QED  BY <2>4
<1>4. \A m \in MergedSteps' : m.replan <= replanCount'
  <2>1. \A i : EntryOf(i).replan <= replanCount
    BY ConfigOK DEF EntryOf, Core, TypeOK
  <2>2. QED  BY <1>1, <1>2, <2>1 DEF Core, Scheduled
<1>5. QED  BY <1>2, <1>3, <1>4

(* The end of a batch that succeeded keeps the inductive invariant.        *)
LEMMA CoreAdvance ==
  ASSUME Core, AdvanceBatch
  PROVE  Core'
<1>1. /\ pc = "batch" /\ \A i \in batch : Done(i)
      /\ MergeOutputs(batch)
      /\ inDegree' = MarkAllDone(plan, inDegree, batch)
      /\ completed' = completed + Cardinality(batch)
      /\ batch' = {} /\ pc' = "loop"
      /\ UNCHANGED <<config, row, run, plan, step, attempts, replanCount, stepRows,
                     ended, result>>
  BY DEF AdvanceBatch, Joined
<1>2. TypeOK /\ TablesType /\ plan \in Seq(PlanStep) /\ batch \subseteq Nodes(plan)
  BY <1>1, TypeParts DEF Core, CallType, BatchType
<1>3. /\ completedSteps' \in Seq(CompletedStep)
      /\ CompletedNow' = CompletedNow \cup batch
      /\ \A m \in MergedSteps' : m.replan <= replanCount'
  BY AdvanceEffect
<1>4. /\ CompletedNow \subseteq Nodes(plan) /\ batch \cap CompletedNow = {}
      /\ Exact(plan, inDegree, CompletedNow)
      /\ \A i \in CompletedNow \cup batch : Parents(plan, i) \subseteq CompletedNow
      /\ completed = Cardinality(CompletedNow) /\ ~RejectedPlan(plan)
  BY <1>1 DEF Core, Scheduled, BatchSound
<1>5. /\ inDegree' \in [Nodes(plan) -> Int]
      /\ Exact(plan, inDegree', CompletedNow \cup batch)
  BY <1>1, <1>2, <1>4, MarkAllDoneExact DEF TablesType
<1>6. /\ completed' = Cardinality(CompletedNow \cup batch)
      /\ completed' \in Nat
  <2>1. IsFiniteSet(CompletedNow) /\ IsFiniteSet(batch)
    BY <1>2, <1>4, PlanShape, FS_Subset
  <2>2. CompletedNow \cap batch = {}  BY <1>4
  <2>3. QED  BY <1>1, <1>4, <2>1, <2>2, DisjointUnion
<1>7. CallType' /\ TablesType' /\ BatchType'
  BY <1>1, <1>2, <1>3, <1>5, <1>6, TypeParts DEF CallType, TablesType, BatchType, MaxReplans
<1>8. TypeOK' /\ Stages'
  BY <1>1, <1>7, TypeParts DEF Core, Stages
<1>9. \A i \in CompletedNow \cup batch : Parents(plan, i) \subseteq CompletedNow \cup batch
  BY <1>4
<1>10. Scheduled' /\ BatchSound'
  BY <1>1, <1>2, <1>3, <1>4, <1>5, <1>6, <1>9 DEF Scheduled, BatchSound
<1>11. QED  BY <1>8, <1>10 DEF Core

(* What is salvaged of a failed batch belongs to the plan that failed.     *)
LEMMA SalvagedMerged ==
  ASSUME Core, pc = "batch", MergeOutputs(Salvaged)
  PROVE  /\ completedSteps' \in Seq(CompletedStep)
         /\ MergedSteps' = MergedSteps \cup {EntryOf(i) : i \in Salvaged}
         /\ \A m \in MergedSteps' : m.replan <= replanCount
<1>1. Salvaged \in SUBSET batch /\ \A i \in Salvaged : Done(i)  BY DEF Salvaged
<1>2. /\ completedSteps' \in Seq(CompletedStep)
      /\ MergedSteps' = MergedSteps \cup {EntryOf(i) : i \in Salvaged}
  BY <1>1, MergeEffect DEF Core
<1>3. \A i : EntryOf(i).replan <= replanCount
  BY ConfigOK DEF EntryOf, Core, TypeOK
<1>4. QED  BY <1>2, <1>3 DEF Core, Scheduled

(* A new plan is a plan, and nothing of it is completed.                   *)
LEMMA ReplanFacts ==
  ASSUME Core, NEW p \in ReplanAnswers, ReplanWith(p)
  PROVE  /\ pc = "batch" /\ CanReplan /\ p \in Seq(PlanStep)
         /\ plan' = p /\ batch' = {}
         /\ replanCount' = replanCount + 1 /\ replanCount' \in 0 .. MaxReplans
         /\ completedSteps' \in Seq(CompletedStep)
         /\ MergedSteps' = MergedSteps \cup {EntryOf(i) : i \in Salvaged}
         /\ \A m \in MergedSteps' : m.replan < replanCount' /\ m.replan <= replanCount'
         /\ CompletedNow' = {}
         /\ \E i \in batch : FirstFailure(i)
              /\ p \in ReplanResults(plan, i, step[i].class, replanCount + 1)
<1>1. pc = "batch" /\ CanReplan /\ p # ReplanError /\ TypeOK /\ MergeOutputs(Salvaged)
  BY DEF ReplanAnswers, Joined, ReplanWith, Core
<1>2. PICK i \in batch : /\ FirstFailure(i)
                         /\ p \in ReplanResults(plan, i, step[i].class, replanCount + 1)
  BY DEF ReplanAnswers
<1>3. p \in Seq(PlanStep)
  BY <1>1, <1>2, ConfigOK, StepFacts, ReplanResultsType DEF TypeOK
<1>4. plan' = p /\ batch' = {} /\ replanCount' = replanCount + 1
  BY DEF ReplanWith
<1>5. replanCount \in Nat /\ replanCount' \in 0 .. MaxReplans
  BY <1>1, <1>4, ConfigOK DEF TypeOK, CanReplan
<1>6. /\ completedSteps' \in Seq(CompletedStep)
      /\ MergedSteps' = MergedSteps \cup {EntryOf(k) : k \in Salvaged}
      /\ \A m \in MergedSteps' : m.replan <= replanCount
  BY <1>1, SalvagedMerged
<1>7. \A m \in MergedSteps' :
         /\ m.replan < replanCount' /\ m.replan <= replanCount' /\ m.replan # replanCount'
  <2>1. \A m \in MergedSteps' : m.replan \in Nat
    <3>1. MergedSteps' = {completedSteps'[k] : k \in DOMAIN completedSteps'}
      BY DEF MergedSteps
    <3>2. \A k \in DOMAIN completedSteps' : completedSteps'[k] \in CompletedStep
      BY <1>6, ElementOfSeq, LenProperties
    <3>3. QED  BY <3>1, <3>2 DEF CompletedStep
  <2>2. QED  BY <1>4, <1>5, <1>6, <2>1
<1>8. CompletedNow' = {}  BY <1>7 DEF CompletedNow
<1>9. QED  BY <1>1, <1>2, <1>3, <1>4, <1>5, <1>6, <1>7, <1>8

(* A replan keeps the inductive invariant, whatever the replanner answers. *)
LEMMA CoreReplan ==
  ASSUME Core, Replan \/ ReplanDAGFails
  PROVE  Core'
<1>1. CASE Replan
  <2>1. PICK p \in ReplanAnswers :
          /\ ReplanWith(p) /\ ~RejectedPlan(p) /\ Schedule(p)
          /\ run' = [run EXCEPT !.maxSteps = Len(completedSteps') + Len(p)]
          /\ SaveRun(run') /\ pc' = "loop"
          /\ UNCHANGED <<config, stepRows, ended, result>>
    BY <1>1 DEF Replan
  <2>2. /\ pc = "batch" /\ p \in Seq(PlanStep) /\ plan' = p /\ batch' = {}
        /\ replanCount' \in 0 .. MaxReplans
        /\ completedSteps' \in Seq(CompletedStep) /\ CompletedNow' = {}
        /\ \A m \in MergedSteps' : m.replan <= replanCount'
    BY <2>1, ReplanFacts
  <2>3. row \in Row /\ run \in Row  BY <2>2 DEF Core, Stages, TypeOK
  <2>4. run' \in Row
    <3>1. Len(completedSteps') \in Nat /\ Len(p) \in Nat  BY <2>2, LenProperties
    <3>2. Len(completedSteps') + Len(p) \in Nat  BY <3>1
    <3>3. QED  BY <2>1, <2>3, <3>2 DEF Row
  <2>5. row' \in Row  BY <2>1, <2>3, <2>4, RowTypes DEF SaveRun, Core
  <2>6. /\ inDegree' = InDegrees(p) /\ completed' = 0
        /\ attempts' = [i \in Nodes(p) |-> 0]
        /\ step' = [i \in Nodes(p) |-> Idle]
    BY <2>1 DEF Schedule
  <2>7. TablesType'
    <3>1. attempts' \in [Nodes(p) -> Nat]  BY <2>6
    <3>2. step' \in [Nodes(p) -> StepState]  BY <2>6, IdleType
    <3>3. inDegree' \in [Nodes(p) -> Int]  BY <2>2, <2>6, InDegreesType
    <3>4. QED  BY <2>2, <3>1, <3>2, <3>3 DEF TablesType
  <2>8. CallType' /\ BatchType'
    BY <2>1, <2>2, <2>4, <2>5, <2>6, TypeParts DEF CallType, BatchType, MaxReplans, Core
  <2>9. TypeOK' /\ Stages'
    BY <2>1, <2>2, <2>5, <2>7, <2>8, TypeParts DEF Core, Stages
  <2>10. Exact(p, inDegree', {}) /\ Cardinality({}) = 0
    BY <2>2, <2>6, InDegreesExact, FS_EmptySet
  <2>11. Scheduled' /\ BatchSound'
    BY <2>1, <2>2, <2>6, <2>10 DEF Scheduled, BatchSound
  <2>12. QED  BY <2>9, <2>11 DEF Core
<1>2. CASE ReplanDAGFails
  <2>1. PICK p \in ReplanAnswers :
          /\ ReplanWith(p) /\ Return("failed")
          /\ UNCHANGED <<config, row, run, inDegree, completed, step, attempts,
                         stepRows, ended>>
    BY <1>2 DEF ReplanDAGFails
  <2>2. /\ pc = "batch" /\ p \in Seq(PlanStep) /\ plan' = p /\ batch' = {}
        /\ replanCount' \in 0 .. MaxReplans
        /\ completedSteps' \in Seq(CompletedStep)
        /\ \A m \in MergedSteps' : m.replan <= replanCount'
    BY <2>1, ReplanFacts
  <2>3. TypeOK' /\ Stages'
    BY <2>1, <2>2, TypeParts DEF Return, CallType, BatchType, MaxReplans, Stages, Core
  <2>4. QED  BY <2>1, <2>2, <2>3, ReturnedCore DEF Return, Core
<1>3. QED  BY <1>1, <1>2

(* The end of the call keeps the inductive invariant.                      *)
LEMMA CoreEnd ==
  ASSUME Core, FailRun \/ Succeed
  PROVE  Core'
<1>1. CASE FailRun
  <2>1. /\ pc = "batch" /\ run' = Closed(run, "FAILED") /\ SaveRun(run')
        /\ batch' = {} /\ Return("failed")
        /\ UNCHANGED <<config, plan, inDegree, completed, replanCount, step, attempts,
                       stepRows, ended>>
        /\ MergeOutputs(Salvaged) \/ completedSteps' = completedSteps
    BY <1>1 DEF FailRun, Joined
  <2>2. row \in Row  BY <2>1 DEF Core, Stages
  <2>3. run' \in Row  BY <2>1, RowTypes DEF RunStatus, Core
  <2>4. row' \in Row  BY <2>1, <2>2, <2>3, RowTypes DEF SaveRun, Core
  <2>5. /\ completedSteps' \in Seq(CompletedStep)
        /\ \A m \in MergedSteps' : m.replan <= replanCount'
    BY <2>1, SalvagedMerged, CompletedKept, TypeParts DEF CallType, Core, Scheduled
  <2>6. TypeOK' /\ Stages'
    BY <2>1, <2>3, <2>4, <2>5, TypeParts
    DEF Return, CallType, BatchType, MaxReplans, Stages, Core
  <2>7. QED  BY <2>1, <2>5, <2>6, ReturnedCore DEF Return, Core
<1>2. CASE Succeed
  <2>1. /\ pc = "loop" /\ run' = Closed(run, "COMPLETED")
        /\ \/ row' = Updated(run') /\ Return("succeeded")
           \/ row' = row /\ Return("error")
        /\ UNCHANGED <<config, plan, inDegree, completed, replanCount, completedSteps,
                       batch, step, attempts, stepRows, ended>>
    BY <1>2 DEF Succeed, planVars, stepVars
  <2>2. row \in Row  BY <2>1 DEF Core, Stages
  <2>3. run' \in Row  BY <2>1, RowTypes DEF RunStatus, Core
  <2>4. row' \in Row  BY <2>1, <2>2, <2>3, RowTypes DEF Core
  <2>5. TypeOK' /\ Stages'
    BY <2>1, <2>3, <2>4, TypeParts
    DEF Return, CallType, BatchType, MaxReplans, Stages, Core
  <2>6. QED  BY <2>1, <2>5, ScheduleKept DEF Return, Core
<1>3. QED  BY <1>1, <1>2

(* The core of the invariant is inductive.                                 *)
LEMMA CoreNext == Core /\ [Next]_vars => Core'
<1> SUFFICES ASSUME Core, [Next]_vars PROVE Core'
  OBVIOUS
<1>1. CASE Main
  BY <1>1, CoreStart, CoreStartBatch, CoreAdvance, CoreReplan, CoreEnd DEF Main
<1>2. CASE \E i \in batch : Goroutine(i)
  BY <1>2, CoreGoroutine
<1>3. CASE UNCHANGED vars
  <2>1. TypeOK' /\ Stages'
    BY <1>3, TypeParts DEF vars, Core, Stages, CallType, TablesType, BatchType, MaxReplans
  <2>2. QED  BY <1>3, <2>1, ScheduleKept DEF vars, Core
<1>4. QED  BY <1>1, <1>2, <1>3 DEF Next

(* The inductive invariant holds in every reachable state.                 *)
LEMMA CoreInvariant == Spec => []Core
<1>1. Init => Core  BY CoreInit
<1>2. Core /\ [Next]_vars => Core'  BY CoreNext
<1>3. QED  BY <1>1, <1>2, PTL DEF Spec

(* Types: in particular a repair or a replan never leaves an unknown kind  *)
(* of agent or plan behind, and there are never more replans than allowed. *)
THEOREM TypesCorrect == Spec => []TypeOK
<1>1. Core => TypeOK  BY DEF Core
<1>2. QED  BY <1>1, CoreInvariant, PTL

(* engine.go:215-240: a goroutine runs only for a step that the current    *)
(* plan has not completed, with all its dependencies completed, whatever   *)
(* plan, scheduler and replans there are.                                  *)
THEOREM BatchesSound == Spec => []BatchSound
<1>1. Core => BatchSound  BY DEF Core
<1>2. QED  BY <1>1, CoreInvariant, PTL
-----------------------------------------------------------------------------
(* What success means.                                                     *)

(* The goroutine of step i moves from one place to the next, and leaves    *)
(* the others alone.                                                       *)
LEMMA GoroutineMoves ==
  ASSUME Core, NEW i \in batch, Goroutine(i)
  PROVE  /\ \A j \in Nodes(plan) : j # i => step'[j] = step[j] /\ attempts'[j] = attempts[j]
         /\ \/ /\ step[i].at = "spawned" /\ step'[i].at = "attempt"
               /\ attempts'[i] = attempts[i] /\ step'[i].waits = step[i].waits
            \/ /\ step[i].at = "attempt" /\ step'[i].at \in {"failed", "running"}
               /\ attempts'[i] = attempts[i] + 1
               /\ step'[i].waits \in Slept(i) \cup {step[i].waits}
               /\ step'[i].at = "running" => PolicyAllows(i) /\ step'[i].waits \in Slept(i)
            \/ /\ step[i].at = "running"
               /\ step'[i].at \in {"valid", "invalid", "nil", "attempt", "failed"}
               /\ attempts'[i] = attempts[i] /\ step'[i].waits = step[i].waits
               /\ step'[i].at = "attempt" => attempts[i] < RepairMaxAttempts
               /\ step'[i].at \in {"invalid", "nil"} => plan[i].agent \notin ValidatedAgents
<1>1. /\ pc = "batch" /\ i \in Nodes(plan) /\ step[i] \in StepState /\ attempts[i] \in Nat
      /\ DOMAIN step = Nodes(plan) /\ DOMAIN attempts = Nodes(plan)
  BY GoroutineFrame, StepFacts DEF Core
<1>2. \A g : step' = [step EXCEPT ![i] = g] =>
         step'[i] = g /\ \A j \in Nodes(plan) : j # i => step'[j] = step[j]
  BY <1>1
<1>3. /\ \A at : [step[i] EXCEPT !.at = at].at = at /\ [step[i] EXCEPT !.at = at].waits = step[i].waits
  BY <1>1 DEF StepState
<1>4. CASE Announce(i)
  BY <1>1, <1>2, <1>3, <1>4 DEF Announce
<1>5. CASE AttemptsExceeded(i)
  BY <1>1, <1>5 DEF AttemptsExceeded, Attempt, StepState
<1>6. CASE StartAgent(i)
  BY <1>1, <1>6 DEF StartAgent, Attempt, StepState
<1>7. CASE AgentMissing(i)
  BY <1>1, <1>7 DEF AgentMissing, Attempt, StepState
<1>8. CASE AgentSucceeds(i)
  <2>1. PICK o \in Outcomes : Accepted(i, o) /\ step' = [step EXCEPT ![i].at = o.kind]
    BY <1>8 DEF AgentSucceeds
  <2>2. /\ o.kind \in {"valid", "invalid", "nil"}
        /\ o.kind \in {"invalid", "nil"} => plan[i].agent \notin ValidatedAgents
    BY <2>1, ConfigOK DEF Accepted, OutcomeType, Core, TypeOK
  <2>3. step[i].at = "running" /\ attempts' = attempts  BY <1>8 DEF AgentSucceeds
  <2>4. step'[i].at = o.kind /\ step'[i].waits = step[i].waits
    BY <1>1, <1>2, <1>3, <2>1
  <2>5. QED  BY <1>1, <2>1, <2>2, <2>3, <2>4
<1>9. CASE AgentFails(i)
  <2>1. PICK o \in Outcomes :
          LET f  == [type |-> IF o.kind = "error" THEN o.class ELSE "validation",
                     attempt |-> attempts[i], agent |-> step[i].agent,
                     correctable |-> o.correctable]
              again == /\ Strategy # "none" /\ ~HasAbort(RepairPlan(f))
                       /\ ShouldRetryStep(RepairPlan(f), step[i].agent)
          IN step' = [step EXCEPT
                       ![i].at    = IF again THEN "attempt" ELSE "failed",
                       ![i].agent = IF again THEN NextAgent(RepairPlan(f), @) ELSE @,
                       ![i].class = o.class]
    BY <1>9 DEF AgentFails
  <2> DEFINE f == [type |-> IF o.kind = "error" THEN o.class ELSE "validation",
                   attempt |-> attempts[i], agent |-> step[i].agent,
                   correctable |-> o.correctable]
             again == /\ Strategy # "none" /\ ~HasAbort(RepairPlan(f))
                      /\ ShouldRetryStep(RepairPlan(f), step[i].agent)
  <2>2. step' = [step EXCEPT
                   ![i].at    = IF again THEN "attempt" ELSE "failed",
                   ![i].agent = IF again THEN NextAgent(RepairPlan(f), @) ELSE @,
                   ![i].class = o.class]
    BY <2>1
  <2>3. again => attempts[i] < RepairMaxAttempts  BY RepairLimited
  <2> HIDE DEF f, again
  <2>4. /\ step'[i].at = IF again THEN "attempt" ELSE "failed"
        /\ step'[i].waits = step[i].waits
        /\ \A j \in Nodes(plan) : j # i => step'[j] = step[j]
    BY <1>1, <2>2 DEF StepState
  <2>5. step[i].at = "running" /\ attempts' = attempts  BY <1>9 DEF AgentFails
  <2>6. QED  BY <1>1, <2>3, <2>4, <2>5
<1>10. QED  BY <1>4, <1>5, <1>6, <1>7, <1>8, <1>9 DEF Goroutine

(* The steps after which batches are executed, and all the others.         *)
LEMMA NextCases ==
  ASSUME [Next]_vars
  PROVE  \/ pc' \notin {"loop", "batch"} /\ UNCHANGED <<stepRows, ended>>
         \/ BuildDAG \/ StartBatch \/ AdvanceBatch \/ Replan
         \/ \E i \in batch : Goroutine(i)
         \/ UNCHANGED vars
BY DEF Next, Main, RejectRequest, CreateRun, CreateRunFails, CreatePlanFails, CreatePlan,
   BuildDAGFails, ReplanDAGFails, FailRun, Succeed, Return, stepVars

(* Only a goroutine writes the rows of steps; replans are counted one by   *)
(* one.                                                                    *)
LEMMA HistoryKept ==
  ASSUME [Next]_vars
  PROVE  /\ (\A i \in batch : ~Goroutine(i)) => UNCHANGED <<stepRows, ended>>
         /\ replanCount' \in {replanCount, replanCount + 1}
<1>1. \A i \in batch : Goroutine(i) => UNCHANGED replanCount  BY GoroutineFrame
<1>2. QED
  BY <1>1 DEF Next, Main, RejectRequest, CreateRun, CreateRunFails, CreatePlanFails, CreatePlan,
     BuildDAG, BuildDAGFails, StartBatch, AdvanceBatch, Replan, ReplanDAGFails, ReplanWith,
     FailRun, Succeed, planVars, stepVars, vars

(* Validated is inductive relative to Core.                                *)
LEMMA ValidatedNext == Core /\ Core' /\ Validated /\ [Next]_vars => Validated'
<1> SUFFICES ASSUME Core, Core', Validated, [Next]_vars PROVE Validated'
  OBVIOUS
<1>1. pc' # "batch" => batch' = {}  BY TypeParts DEF Core, BatchType
<1>2. CASE pc' \notin {"loop", "batch"}  BY <1>1, <1>2 DEF Validated
<1>3. CASE BuildDAG
  <2>1. pc' = "loop" /\ completedSteps' = <<>>
    BY <1>3 DEF BuildDAG, Core, Stages
  <2>2. MergedSteps' = {}  BY <2>1 DEF MergedSteps
  <2>3. QED  BY <1>1, <2>1, <2>2 DEF Validated
<1>4. CASE StartBatch
  <2>1. /\ pc = "loop" /\ pc' = "batch" /\ UNCHANGED <<plan, replanCount, completedSteps>>
        /\ step' = [i \in DOMAIN step |->
                      IF i \in batch' THEN [Idle EXCEPT !.at = "spawned", !.agent = plan[i].agent]
                      ELSE step[i]]
    BY <1>4 DEF StartBatch, planVars
  <2>2. \A i \in batch' : step'[i].at = "spawned"
    <3>1. DOMAIN step = Nodes(plan) /\ batch' \subseteq Nodes(plan)
      BY <2>1, TypeParts DEF Core, TablesType, BatchType
    <3>2. \A agent : [Idle EXCEPT !.at = "spawned", !.agent = agent].at = "spawned"
      BY DEF Idle
    <3>3. QED  BY <2>1, <3>1, <3>2
  <2>3. MergedSteps' = MergedSteps  BY <2>1, CompletedKept
  <2>4. QED  BY <2>1, <2>2, <2>3 DEF Validated
<1>5. CASE \E i \in batch : Goroutine(i)
  <2>1. PICK i \in batch : Goroutine(i)  BY <1>5
  <2>2. /\ pc = "batch" /\ UNCHANGED <<pc, plan, replanCount, completedSteps, batch>>
        /\ batch \subseteq Nodes(plan)
    BY <2>1, GoroutineFrame, TypeParts DEF Core, BatchType
  <2>3. \A j \in batch : step'[j].at \in {"invalid", "nil"} =>
           plan[j].agent \notin ValidatedAgents
    BY <2>1, <2>2, GoroutineMoves DEF Validated
  <2>4. MergedSteps' = MergedSteps  BY <2>2, CompletedKept
  <2>5. QED  BY <2>2, <2>3, <2>4 DEF Validated
<1>6. CASE AdvanceBatch
  <2>1. /\ pc = "batch" /\ pc' = "loop" /\ batch' = {} /\ UNCHANGED <<plan, replanCount>>
        /\ \A i \in batch : Done(i)
    BY <1>6 DEF AdvanceBatch, Joined
  <2>2. MergedSteps' = MergedSteps \cup {EntryOf(i) : i \in batch}
    BY <1>6, AdvanceEffect
  <2>3. \A i \in batch : plan[EntryOf(i).step].agent \in ValidatedAgents
                            => EntryOf(i).output = "valid"
    BY <2>1 DEF EntryOf, Done, Validated
  <2>4. QED  BY <2>1, <2>2, <2>3 DEF Validated
<1>7. CASE Replan
  <2>1. PICK p \in ReplanAnswers : ReplanWith(p)  BY <1>7 DEF Replan
  <2>2. batch' = {} /\ \A m \in MergedSteps' : m.replan # replanCount'
    <3>1. \A m \in MergedSteps' : m.replan < replanCount'  BY <2>1, ReplanFacts
    <3>2. replanCount' \in Nat  BY ConfigOK DEF Core, TypeOK, MaxReplans
    <3>3. QED  BY <2>1, <3>1, <3>2, ReplanFacts
  <2>3. QED  BY <2>2 DEF Validated
<1>8. CASE UNCHANGED vars
  BY <1>8, CompletedKept DEF vars, Validated
<1>9. QED  BY <1>2, <1>3, <1>4, <1>5, <1>6, <1>7, <1>8, NextCases

(* Execute returns once: nothing happens after that.                       *)
LEMMA ReturnedStays ==
  ASSUME Core, pc = "returned", [Next]_vars
  PROVE  UNCHANGED vars
<1>1. batch = {}  BY TypeParts DEF Core, BatchType
<1>2. QED
  BY <1>1 DEF Next, Main, RejectRequest, CreateRun, CreateRunFails, CreatePlanFails,
     CreatePlan, BuildDAG, BuildDAGFails, StartBatch, AdvanceBatch, Replan, ReplanDAGFails,
     ReplanAnswers, FailRun, Joined, Succeed

(* Success is returned by Succeed, and by no other step.                   *)
LEMMA OnlySucceed ==
  ASSUME Core, [Next]_vars, result' = "succeeded", result # "succeeded"
  PROVE  Succeed
<1>1. \A i \in batch : Goroutine(i) => UNCHANGED result
  BY GoroutineFrame
<1>2. QED
  BY <1>1 DEF Next, Main, RejectRequest, CreateRun, CreateRunFails, CreatePlanFails, CreatePlan,
     BuildDAG, BuildDAGFails, StartBatch, AdvanceBatch, Replan, ReplanDAGFails, FailRun, Return,
     vars

(* The loop that ends without a failure has completed the plan.            *)
LEMMA LoopCompletes ==
  ASSUME Core, Succeed
  PROVE  CompletedNow = Nodes(plan)
<1>1. pc = "loop"  BY DEF Succeed
<1>2. /\ plan \in Seq(PlanStep) /\ inDegree \in [Nodes(plan) -> Int]
      /\ ~RejectedPlan(plan) /\ CompletedNow \subseteq Nodes(plan)
      /\ Exact(plan, inDegree, CompletedNow) /\ completed = Cardinality(CompletedNow)
  BY <1>1, TypeParts DEF Core, CallType, TablesType, Scheduled
<1>3. ~(Cardinality(CompletedNow) < Len(plan)) \/ ReadySteps(inDegree) = {}
  BY <1>2 DEF Succeed
<1>4. QED  BY <1>2, <1>3, LoopEndsComplete

(* A call succeeds only with every step of its plan completed.             *)
LEMMA SuccessNext == Core /\ Validated /\ SuccessIsComplete /\ [Next]_vars => SuccessIsComplete'
<1> SUFFICES ASSUME Core, Validated, SuccessIsComplete, [Next]_vars, result' = "succeeded"
             PROVE  SuccessIsComplete'
  BY DEF SuccessIsComplete
<1>1. CASE result = "succeeded"
  <2>1. UNCHANGED vars  BY <1>1, ReturnedStays DEF Core, Stages
  <2>2. QED  BY <2>1, CompletedKept DEF vars, SuccessIsComplete
<1>2. CASE result # "succeeded"
  <2>1. pc = "loop" /\ UNCHANGED <<plan, replanCount, completedSteps>>
    BY <1>2, OnlySucceed DEF Succeed, planVars
  <2>2. CompletedNow = Nodes(plan)  BY <1>2, OnlySucceed, LoopCompletes
  <2>3. \A m \in MergedSteps : m.output \in {"valid", "invalid", "nil"}
    <3>1. \A k \in DOMAIN completedSteps : completedSteps[k] \in CompletedStep
      BY ElementOfSeq, LenProperties, TypeParts DEF Core, CallType
    <3>2. QED  BY <3>1 DEF MergedSteps, CompletedStep
  <2>4. \A m \in MergedSteps : m.replan = replanCount /\ plan[m.step].agent \in ValidatedAgents
                                 => m.output = "valid"
    BY <1>2, OnlySucceed DEF Succeed, Validated
  <2>5. \A i \in Nodes(plan) : \E m \in MergedSteps : m.replan = replanCount /\ m.step = i
    BY <2>2 DEF CompletedNow
  <2>6. MergedSteps' = MergedSteps  BY <2>1, CompletedKept
  <2>7. QED  BY <2>1, <2>3, <2>4, <2>5, <2>6 DEF SuccessIsComplete
<1>3. QED  BY <1>1, <1>2

(* engine.go:388-400: Execute reports success only when every step of the  *)
(* plan in force has an output that its validator did not reject, however  *)
(* the loop ended and however often the run was replanned.                 *)
THEOREM SuccessComplete == Spec => []SuccessIsComplete
<1>1. Init => Core /\ Validated /\ SuccessIsComplete
  BY CoreInit DEF Init, Validated, SuccessIsComplete
<1>2. Core /\ Validated /\ SuccessIsComplete /\ [Next]_vars
        => (Core /\ Validated /\ SuccessIsComplete)'
  BY CoreNext, ValidatedNext, SuccessNext
<1>3. QED  BY <1>1, <1>2, PTL DEF Spec
-----------------------------------------------------------------------------
(* What a language model may plan.                                         *)

(* The engine in force is the same throughout.                             *)
LEMMA ConfigFixed == [Next]_vars => UNCHANGED config
<1>1. \A i \in batch : Goroutine(i) => UNCHANGED config  BY GoroutineFrame
<1>2. QED
  BY <1>1 DEF Next, Main, RejectRequest, CreateRun, CreateRunFails, CreatePlanFails, CreatePlan,
     BuildDAG, BuildDAGFails, StartBatch, AdvanceBatch, Replan, ReplanDAGFails, FailRun,
     Succeed, planVars, vars

(* A plan taken over is one of the model's, as the parser let it through.  *)
FromModel ==
  Planner = "llm" /\ Replanner \in {"none", "llm"}
    /\ (pc \in {"planned", "loop", "batch"} \/ result = "succeeded")
      => plan # <<>> /\ \A i \in Nodes(plan) : plan[i].agent \in Described

(* The plan of the model names only agents that were described to it.      *)
LEMMA FromModelNext == Core /\ FromModel /\ [Next]_vars => FromModel'
<1> SUFFICES ASSUME Core, FromModel, [Next]_vars, Planner = "llm",
                    Replanner \in {"none", "llm"},
                    pc' \in {"planned", "loop", "batch"} \/ result' = "succeeded"
             PROVE  plan' # <<>> /\ \A i \in Nodes(plan') : plan'[i].agent \in Described
  BY ConfigFixed DEF FromModel, Planner, Replanner
<1>1. PlannersOK  BY ConfigOK DEF Core, TypeOK
<1>2. CASE CreatePlan
  <2>1. plan' \in ModelPlans  BY <1>2 DEF CreatePlan, InitialPlans
  <2>2. QED  BY <1>1, <2>1, ModelPlansType
<1>3. CASE Replan
  <2>1. PICK p \in ReplanAnswers : ReplanWith(p)  BY <1>3 DEF Replan
  <2>2. plan' = p /\ p # ReplanError  BY <2>1 DEF ReplanWith
  <2>3. PICK i \in batch : p \in ReplanResults(plan, i, step[i].class, replanCount + 1)
    BY <2>1, ReplanFacts
  <2>4. plan \in Seq(PlanStep) /\ i \in Nodes(plan)
    BY <2>1, ReplanFacts, StepFacts DEF Core, TypeOK
  <2>5. p \in ModelPlans  BY <1>1, <2>2, <2>3, <2>4, ReplanResultsType
  <2>6. QED  BY <1>1, <2>2, <2>5, ModelPlansType
<1>4. CASE pc \in {"planned", "loop", "batch"} /\ UNCHANGED plan
  BY <1>4 DEF FromModel
<1>5. CASE pc = "returned"
  <2>1. UNCHANGED vars  BY <1>5, ReturnedStays
  <2>2. QED  BY <2>1 DEF vars, FromModel
<1>6. CreatePlan \/ Replan \/ (pc \in {"planned", "loop", "batch"} /\ UNCHANGED plan)
        \/ pc = "returned"
  <2>1. \A i \in batch : Goroutine(i) => pc = "batch" /\ UNCHANGED plan
    BY GoroutineFrame
  <2>2. StartBatch \/ AdvanceBatch \/ BuildDAG \/ Succeed
          => pc \in {"planned", "loop", "batch"} /\ UNCHANGED plan
    BY DEF StartBatch, AdvanceBatch, Joined, BuildDAG, Succeed, planVars
  <2>3. ~(RejectRequest \/ CreateRun \/ CreateRunFails \/ CreatePlanFails \/ BuildDAGFails)
    BY DEF RejectRequest, CreateRun, CreateRunFails, CreatePlanFails, BuildDAGFails, Return,
       Core, Stages
  <2>4. ~(ReplanDAGFails \/ FailRun)  BY DEF ReplanDAGFails, FailRun, Return
  <2>5. UNCHANGED vars => pc \in {"planned", "loop", "batch", "returned"} /\ UNCHANGED plan
    BY DEF vars, Core, Stages
  <2>6. QED  BY <2>1, <2>2, <2>3, <2>4, <2>5 DEF Next, Main
<1>7. QED  BY <1>2, <1>3, <1>4, <1>5, <1>6

(* llm_planner.go:174-211, engine.go:313-314: whatever a language model    *)
(* answers, and whatever its guardrails are, the engine runs only agents   *)
(* the model was offered, and reports success only for work that was done. *)
THEOREM ModelPlansSafe == Spec => []ModelPlansRunnable
<1> DEFINE IInv == Core /\ Validated /\ SuccessIsComplete /\ FromModel
<1>1. Init => IInv
  BY CoreInit DEF Init, Validated, SuccessIsComplete, FromModel
<1>2. IInv /\ [Next]_vars => IInv'
  BY CoreNext, ValidatedNext, SuccessNext, FromModelNext
<1>3. IInv => ModelPlansRunnable
  <2> SUFFICES ASSUME IInv, Planner = "llm", Replanner \in {"none", "llm"}
               PROVE  /\ pc \in {"planned", "loop", "batch"} =>
                           \A i \in Nodes(plan) : plan[i].agent \in Described
                      /\ result = "succeeded" => completedSteps # <<>>
    BY DEF ModelPlansRunnable
  <2>1. ASSUME result = "succeeded" PROVE completedSteps # <<>>
    <3>1. plan # <<>> /\ plan \in Seq(PlanStep)  BY <2>1 DEF FromModel, Core, TypeOK
    <3>2. 1 \in Nodes(plan)  BY <3>1, EmptySeq, LenProperties DEF Nodes
    <3>3. MergedSteps # {}  BY <2>1, <3>2 DEF SuccessIsComplete
    <3>4. QED  BY <3>3 DEF MergedSteps
  <2>2. QED  BY <2>1 DEF FromModel
<1>4. QED  BY <1>1, <1>2, <1>3, PTL DEF Spec
=============================================================================
