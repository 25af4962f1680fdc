----------------------- MODULE EngineLifecycle_proof -----------------------
(***************************************************************************)
(* Theorems about what a call of Engine leaves behind: the status in the   *)
(* row of agent_runs against the result, and the life cycle of a run that  *)
(* RunLifecycle promises.                                                  *)
(***************************************************************************)
EXTENDS Engine_proof

(* The goroutines leave the status of the run alone, and so does a batch.  *)
LEMMA StatusKept ==
  ASSUME Core, \/ StartBatch \/ AdvanceBatch \/ Replan \/ BuildDAG
               \/ \E i \in batch : Goroutine(i)
  PROVE  /\ row \in Row /\ row' \in Row /\ UNCHANGED <<config, result>>
         /\ run'.status = run.status /\ row'.status \in {row.status, run.status}
<1>0. TypeOK /\ run \in Row  BY DEF Core, TypeOK
<1>1. CASE StartBatch \/ AdvanceBatch \/ BuildDAG
  <2>1. UNCHANGED <<config, row, run, result>> /\ pc \notin {"idle", "returned"}
    BY <1>1 DEF StartBatch, AdvanceBatch, Joined, BuildDAG, planVars
  <2>2. QED  BY <2>1 DEF Core, Stages
<1>2. CASE Replan
  <2>1. /\ pc = "batch" /\ SaveRun(run') /\ UNCHANGED <<config, result>>
        /\ \E n : run' = [run EXCEPT !.maxSteps = n]
    BY <1>2 DEF Replan, ReplanAnswers, Joined
  <2>2. run'.status = run.status  BY <1>0, <2>1 DEF Row
  <2>3. row \in Row  BY <2>1 DEF Core, Stages
  <2>4. row' \in Row  BY <1>2, CoreReplan, <2>1 DEF Core, Stages, Replan
  <2>5. row'.status \in {row.status, run'.status}
    BY <2>1, <2>3 DEF SaveRun, Updated, Row
  <2>6. QED  BY <2>1, <2>2, <2>3, <2>4, <2>5
<1>3. CASE \E i \in batch : Goroutine(i)
  <2>1. PICK i \in batch : Goroutine(i)  BY <1>3
  <2>2. pc = "batch" /\ UNCHANGED <<config, result>> /\ row' \in Row
    BY <2>1, GoroutineFrame, GoroutineRun
  <2>3. row \in Row  BY <2>2 DEF Core, Stages
  <2>4. CASE Announce(i)
    <3>1. run'.status = run.status  BY <1>0, <2>4 DEF Announce, Row
    <3>2. row'.status \in {row.status, run'.status}
      BY <2>3, <2>4 DEF Announce, SaveRun, Updated, Row
    <3>3. QED  BY <2>2, <2>3, <3>1, <3>2
  <2>5. CASE ~Announce(i)
    <3>1. UNCHANGED <<row, run>>
      BY <2>1, <2>5 DEF Goroutine, AttemptsExceeded, StartAgent, AgentMissing,
         AgentSucceeds, AgentFails
    <3>2. QED  BY <2>2, <2>3, <3>1
  <2>6. QED  BY <2>4, <2>5
<1>4. QED  BY <1>1, <1>2, <1>3

(* The status that Update writes, and that a run gets when it is closed.   *)
LEMMA StatusWritten ==
  ASSUME Core, row \in Row
  PROVE  /\ \A r \in Row : Updated(r).status = r.status
         /\ \A status : Closed(run, status).status = status
BY DEF Core, TypeOK, Row, Updated, Closed
-----------------------------------------------------------------------------
(* What COMPLETED stands for.                                              *)

(* As long as the call goes on, nothing says that the run completed.       *)
CompletedLast ==
  /\ row # NoRow => (row.status = "COMPLETED" <=> result = "succeeded")
  /\ pc # "returned" => run.status # "COMPLETED"

(* Nothing but success writes COMPLETED, and it writes it last.            *)
LEMMA CompletedLastNext == Core /\ Core' /\ CompletedLast /\ [Next]_vars => CompletedLast'
<1> SUFFICES ASSUME Core, Core', CompletedLast, [Next]_vars PROVE CompletedLast'
  OBVIOUS
<1>0. /\ row # NoRow <=> row \in Row
      /\ run \in Row
      /\ result = "none" <=> pc # "returned"
      /\ pc \notin {"idle", "returned"} => row \in Row
  BY EngineAssumption DEF Core, TypeOK, Stages
<1>1. CASE RejectRequest \/ CreateRunFails \/ ReplanDAGFails
  BY <1>0, <1>1 DEF RejectRequest, CreateRunFails, ReplanDAGFails, Return, ReplanAnswers,
     Joined, CompletedLast
<1>2. CASE CreateRun
  BY <1>0, <1>2 DEF CreateRun, CompletedLast
<1>3. CASE CreatePlanFails \/ BuildDAGFails \/ FailRun
  <2>1. /\ pc \notin {"idle", "returned"} /\ pc' = "returned" /\ result' = "failed"
        /\ run' = Closed(run, "FAILED") /\ SaveRun(run')
    BY <1>3 DEF CreatePlanFails, BuildDAGFails, FailRun, Return, Joined
  <2>2. run' \in Row  BY DEF Core, TypeOK
  <2>3. row'.status # "COMPLETED"
    BY <1>0, <2>1, <2>2, StatusWritten DEF SaveRun, CompletedLast
  <2>4. QED  BY <2>1, <2>3 DEF CompletedLast
<1>4. CASE CreatePlan
  <2>1. run' = [run EXCEPT !.maxSteps = Len(plan'), !.status = "RUNNING"] /\ run' \in Row
    BY <1>4 DEF CreatePlan, Core, TypeOK
  <2>2. run'.status = "RUNNING"  BY <1>0, <2>1 DEF Row
  <2>3. row' \in {row, Updated(run')} /\ result' \in {"none", "error"} /\ pc = "planning"
    BY <1>0, <1>4 DEF CreatePlan, Return
  <2>4. row'.status # "COMPLETED"
    BY <1>0, <2>1, <2>2, <2>3, StatusWritten DEF CompletedLast
  <2>5. QED  BY <2>2, <2>3, <2>4 DEF CompletedLast
<1>5. CASE Succeed
  <2>1. /\ pc = "loop" /\ run' = Closed(run, "COMPLETED") /\ pc' = "returned"
        /\ \/ row' = Updated(run') /\ result' = "succeeded"
           \/ row' = row /\ result' = "error"
    BY <1>5 DEF Succeed, Return
  <2>2. run' \in Row  BY DEF Core, TypeOK
  <2>3. QED  BY <1>0, <2>1, <2>2, StatusWritten DEF CompletedLast
<1>6. CASE \/ StartBatch \/ AdvanceBatch \/ Replan \/ BuildDAG
           \/ \E i \in batch : Goroutine(i)
  <2>1. result = "none" /\ pc # "returned"
    <3>1. \A i \in batch : Goroutine(i) => pc = "batch"  BY GoroutineFrame
    <3>2. pc # "returned"
      BY <1>6, <3>1 DEF StartBatch, AdvanceBatch, Replan, ReplanAnswers, Joined, BuildDAG
    <3>3. QED  BY <1>0, <3>2
  <2>2. QED  BY <1>0, <1>6, <2>1, StatusKept DEF CompletedLast
<1>7. CASE UNCHANGED vars  BY <1>7 DEF vars, CompletedLast
<1>8. QED  BY <1>1, <1>2, <1>3, <1>4, <1>5, <1>6, <1>7 DEF Next, Main

(* engine.go:384-400, 341-375: however writes to the database fail, the    *)
(* row says COMPLETED after a call exactly when the call returned success, *)
(* unless the run id was of a completed run before.                        *)
THEOREM CompletedMeansSuccess ==
  Spec /\ (row # NoRow => row.status # "COMPLETED") => []CompletedIffSucceeded
<1>1. Init /\ (row # NoRow => row.status # "COMPLETED") => Core /\ CompletedLast
  BY CoreInit DEF Init, CompletedLast
<1>2. Core /\ CompletedLast /\ [Next]_vars => (Core /\ CompletedLast)'
  BY CoreNext, CompletedLastNext
<1>3. CompletedLast => CompletedIffSucceeded  BY DEF CompletedLast, CompletedIffSucceeded
<1>4. QED  BY <1>1, <1>2, <1>3, PTL DEF Spec
-----------------------------------------------------------------------------
(* Templates and their replans.                                            *)

(* What copySteps hands out has no dependencies of its own.                *)
LEMMA CopiesSequential ==
  ASSUME NEW p \in Seq(PlanStep)
  PROVE  ~HasDAG(CopySteps(p))
<1>1. Len(p) \in Nat /\ DOMAIN p = 1 .. Len(p)  BY LenProperties
<1>2. CopySteps(p) = [k \in 1 .. Len(p) |->
         [id |-> NoStepID, deps |-> <<>>, agent |-> p[k].agent, policy |-> NoPolicy]]
  BY <1>1 DEF CopySteps
<1>3. Len(CopySteps(p)) = Len(p)  BY <1>1, <1>2
<1>4. QED  BY <1>2, <1>3 DEF HasDAG, Nodes

(* The initial plans of an engine with a ContextAwarePlanner are templates *)
(* (CopiesSequential), as NewContextAwarePlanner makes it plan as well.    *)
Templates == Replanner = "contextAware" => \A p \in InitialPlans : ~HasDAG(p)

(* A sequential plan is completed from its first step on, and what it      *)
(* leaves to do is as long as the rest of the template.                    *)
InOrder ==
  Replanner = "contextAware" =>
    /\ pc = "planned" => plan \in InitialPlans
    /\ pc \in {"loop", "batch"} =>
         /\ ~HasDAG(plan) /\ CompletedNow = 1 .. completed /\ completed <= Len(plan)
         /\ \E p \in InitialPlans :
              Len(p) = Len(completedSteps) + (Len(plan) - completed)

(* What planners may answer does not change during a call.                 *)
LEMMA PlansFixed ==
  ASSUME [Next]_vars
  PROVE  Replanner' = Replanner /\ InitialPlans' = InitialPlans /\ ModelPlans' = ModelPlans
<1>1. config' = config  BY ConfigFixed
<1>2. /\ Replanner' = Replanner /\ Planner' = Planner /\ GivenPlans' = GivenPlans
      /\ Answers' = Answers /\ Guardrails' = Guardrails
  BY <1>1 DEF Replanner, Planner, GivenPlans, Answers, Guardrails
<1>3. \A answer : PlanOf(answer)' = PlanOf(answer)
  BY <1>2 DEF PlanOf, Guarded
<1>4. ModelPlans' = ModelPlans  BY <1>2, <1>3 DEF ModelPlans
<1>5. QED  BY <1>2, <1>4 DEF InitialPlans

(* In a sequential plan only the next step can be in a batch.              *)
LEMMA OneByOne ==
  ASSUME Core, pc = "batch", ~HasDAG(plan), CompletedNow = 1 .. completed
  PROVE  batch \subseteq {completed + 1}
<1>1. completed \in Nat /\ batch \subseteq Nodes(plan) /\ plan \in Seq(PlanStep)
  BY DEF Core, TypeOK
<1>2. ASSUME NEW i \in batch PROVE i = completed + 1
  <2>1. i \in Nat /\ i >= 1 /\ i \notin 1 .. completed
    BY <1>1, StepFacts DEF Nodes, Core, BatchSound
  <2>2. i > 1 => i - 1 \in Parents(plan, i)
    BY DEF Parents, Slots, ParentAt
  <2>3. i > 1 => i - 1 \in 1 .. completed
    BY <2>2 DEF Core, BatchSound
  <2>4. QED  BY <1>1, <2>1, <2>3
<1>3. QED  BY <1>2

(* The batch of a sequential plan is its next step.                        *)
LEMMA InOrderAdvance ==
  ASSUME Core, InOrder, Replanner = "contextAware", AdvanceBatch
  PROVE  /\ ~HasDAG(plan') /\ CompletedNow' = 1 .. completed' /\ completed' <= Len(plan')
         /\ \E p \in InitialPlans :
              Len(p) = Len(completedSteps') + (Len(plan') - completed')
<1>1. /\ pc = "batch" /\ \A i \in batch : Done(i)
      /\ MergeOutputs(batch) /\ completed' = completed + Cardinality(batch)
      /\ plan' = plan
  BY DEF AdvanceBatch, Joined
<1>2. PICK p \in InitialPlans : Len(p) = Len(completedSteps) + (Len(plan) - completed)
  BY <1>1 DEF InOrder
<1>3. /\ ~HasDAG(plan) /\ CompletedNow = 1 .. completed /\ completed <= Len(plan)
      /\ completed \in Nat /\ Len(plan) \in Nat /\ Len(completedSteps) \in Nat
      /\ batch \subseteq Nodes(plan)
  BY <1>1, PlanShape, LenProperties DEF InOrder, Core, TypeOK
<1>4. /\ CompletedNow' = CompletedNow \cup batch
      /\ Len(completedSteps') = Len(completedSteps) + Cardinality(batch)
  BY <1>1, AdvanceEffect, MergeEffect DEF Core
<1>5. CASE batch = {}
  <2>1. Cardinality(batch) = 0  BY <1>5, FS_EmptySet
  <2>2. QED  BY <1>1, <1>2, <1>3, <1>4, <1>5, <2>1
<1>6. CASE batch = {completed + 1}
  <2>1. Cardinality(batch) = 1  BY <1>6, FS_Singleton
  <2>2. completed + 1 <= Len(plan)  BY <1>3, <1>6 DEF Nodes
  <2>3. CompletedNow' = 1 .. completed + 1  BY <1>3, <1>4, <1>6
  <2>4. /\ completed' = completed + 1 /\ Len(completedSteps') = Len(completedSteps) + 1
    BY <1>1, <1>4, <2>1
  <2>5. Len(p) = Len(completedSteps') + (Len(plan) - completed')
    BY <1>2, <1>3, <2>4
  <2>6. QED  BY <1>1, <1>3, <2>2, <2>3, <2>4, <2>5
<1>7. QED  BY <1>1, <1>3, <1>5, <1>6, OneByOne

(* A replan from the template goes on where the plan before it stopped.    *)
LEMMA InOrderReplan ==
  ASSUME Core, InOrder, Replanner = "contextAware", Replan
  PROVE  /\ ~HasDAG(plan') /\ CompletedNow' = 1 .. completed' /\ completed' <= Len(plan')
         /\ \E p \in InitialPlans :
              Len(p) = Len(completedSteps') + (Len(plan') - completed')
<1>1. PICK q \in ReplanAnswers : ReplanWith(q) /\ Schedule(q)  BY DEF Replan
<1>2. /\ pc = "batch" /\ plan' = q /\ completed' = 0 /\ CompletedNow' = {}
      /\ MergeOutputs(Salvaged) /\ q # ReplanError
  BY <1>1, ReplanFacts DEF Schedule, ReplanWith
<1>3. PICK i \in batch :
         FirstFailure(i) /\ q \in ReplanResults(plan, i, step[i].class, replanCount + 1)
  BY <1>1, ReplanFacts
<1>4. PICK p \in InitialPlans : Len(p) = Len(completedSteps) + (Len(plan) - completed)
  BY <1>2 DEF InOrder
<1>5. /\ ~HasDAG(plan) /\ CompletedNow = 1 .. completed /\ completed \in Nat
      /\ plan \in Seq(PlanStep) /\ i \in Nodes(plan) /\ PlannersOK
      /\ Len(plan) \in Nat /\ Len(completedSteps) \in Nat
  <2>1. TypeOK  BY DEF Core
  <2>2. plan \in Seq(PlanStep) /\ completed \in Nat /\ PlannersOK
    BY <2>1, ConfigOK DEF TypeOK
  <2>3. i \in Nodes(plan) /\ Len(plan) \in Nat  BY <1>2, <2>1, StepFacts
  <2>4. Len(completedSteps) \in Nat  BY <2>1, LenProperties DEF TypeOK
  <2>5. QED  BY <1>2, <2>2, <2>3, <2>4 DEF InOrder
<1>6. i = completed + 1 /\ batch = {i}  BY <1>2, <1>5, OneByOne
<1>7. Len(completedSteps') = Len(completedSteps)
  <2>1. Salvaged = {}  BY <1>3, <1>6 DEF Salvaged, FirstFailure, Failed, Done
  <2>2. Len(completedSteps') = Len(completedSteps) + Cardinality({})
    BY <1>2, <2>1, MergeEffect DEF Core
  <2>3. QED  BY <1>5, <2>2, FS_EmptySet
<1>8. /\ q = ContextAwareReplan(plan, i, step[i].class) /\ Len(q) = Len(plan) - i + 1
      /\ ~HasDAG(q)
  BY <1>2, <1>3, <1>5, ReplanResultsType, ContextAwareReplanType
<1>9. Len(q) = Len(plan) - completed /\ Len(q) \in Nat
  <2>1. i \in Nat /\ i <= Len(plan)  BY <1>5 DEF Nodes
  <2>2. QED  BY <1>5, <1>6, <1>8, <2>1
<1>10. Len(p) = Len(completedSteps') + (Len(q) - 0)
  BY <1>4, <1>5, <1>7, <1>9
<1>11. QED  BY <1>2, <1>8, <1>9, <1>10

(* Every step keeps the order in which a template is completed.            *)
LEMMA InOrderNext == Core /\ Core' /\ Templates /\ InOrder /\ [Next]_vars => InOrder'
<1> SUFFICES ASSUME Core, Core', Templates, InOrder, [Next]_vars, Replanner = "contextAware"
             PROVE  /\ pc' = "planned" => plan' \in InitialPlans
                    /\ pc' \in {"loop", "batch"} =>
                         /\ ~HasDAG(plan') /\ CompletedNow' = 1 .. completed'
                         /\ completed' <= Len(plan')
                         /\ \E p \in InitialPlans :
                              Len(p) = Len(completedSteps') + (Len(plan') - completed')
  BY PlansFixed DEF InOrder
<1>1. CASE pc' \notin {"planned", "loop", "batch"}  BY <1>1
<1>2. CASE CreatePlan
  BY <1>2 DEF CreatePlan, Return
<1>3. CASE BuildDAG
  <2>1. /\ pc = "planned" /\ pc' = "loop" /\ UNCHANGED <<plan, completedSteps>>
        /\ completedSteps = <<>> /\ completed' = 0 /\ plan \in Seq(PlanStep)
    BY <1>3 DEF BuildDAG, Schedule, Core, Stages, TypeOK
  <2>2. plan \in InitialPlans /\ ~HasDAG(plan)  BY <2>1 DEF InOrder, Templates
  <2>3. CompletedNow' = {}  BY <2>1 DEF CompletedNow, MergedSteps
  <2>4. Len(plan) \in Nat /\ Len(<<>>) = 0  BY <2>1, PlanShape
  <2>5. Len(plan) = Len(completedSteps') + (Len(plan') - completed')
    BY <2>1, <2>4
  <2>6. QED  BY <2>1, <2>2, <2>3, <2>4, <2>5
<1>4. CASE AdvanceBatch
  BY <1>4, InOrderAdvance DEF AdvanceBatch
<1>5. CASE Replan
  BY <1>5, InOrderReplan DEF Replan
<1>6. CASE \/ StartBatch \/ UNCHANGED vars
           \/ \E i \in batch : Goroutine(i)
  <2>1. UNCHANGED <<plan, completed, replanCount, completedSteps>>
    BY <1>6, GoroutineFrame DEF StartBatch, planVars, vars
  <2>2. \A i \in batch : Goroutine(i) => pc' = pc  BY GoroutineFrame
  <2>3. StartBatch => pc = "loop" /\ pc' = "batch"  BY DEF StartBatch
  <2>4. UNCHANGED vars => pc' = pc  BY DEF vars
  <2>5. pc' = pc \/ (pc = "loop" /\ pc' = "batch")
    BY <1>6, <2>2, <2>3, <2>4
  <2>6. QED  BY <2>1, <2>5, CompletedKept DEF InOrder
<1>7. \/ pc' \notin {"planned", "loop", "batch"} \/ CreatePlan
      \/ BuildDAG \/ StartBatch \/ AdvanceBatch \/ Replan
      \/ \E i \in batch : Goroutine(i)
      \/ UNCHANGED vars
  BY DEF Next, Main, RejectRequest, CreateRun, CreateRunFails, CreatePlanFails,
     BuildDAGFails, ReplanDAGFails, FailRun, Succeed, Return
<1>8. QED  BY <1>1, <1>2, <1>3, <1>4, <1>5, <1>6, <1>7

(* The templates do not change during a call.                              *)
LEMMA TemplatesKept == Templates /\ [Next]_vars => Templates'
BY PlansFixed DEF Templates

(* When the last step is done, each step of the template was done once.    *)
LEMMA OnceNext ==
  Core /\ InOrder /\ TemplateCompletedOnce /\ [Next]_vars => TemplateCompletedOnce'
<1> SUFFICES ASSUME Core, InOrder, TemplateCompletedOnce, [Next]_vars,
                    result' = "succeeded", Replanner = "contextAware"
             PROVE  \E p \in InitialPlans : Len(completedSteps') = Len(p)
  BY PlansFixed DEF TemplateCompletedOnce
<1>1. CASE result = "succeeded"
  <2>1. UNCHANGED vars  BY <1>1, ReturnedStays DEF Core, Stages
  <2>2. QED  BY <1>1, <2>1 DEF vars, TemplateCompletedOnce
<1>2. CASE result # "succeeded"
  <2>1. Succeed  BY <1>2, OnlySucceed
  <2>2. pc = "loop" /\ completedSteps' = completedSteps
    BY <2>1 DEF Succeed, planVars
  <2>3. completed = Len(plan)
    <3>1. CompletedNow = Nodes(plan)  BY <2>1, LoopCompletes
    <3>2. plan \in Seq(PlanStep) /\ completed = Cardinality(CompletedNow)
      BY <2>2 DEF Core, TypeOK, Scheduled
    <3>3. QED  BY <3>1, <3>2, PlanShape
  <2>4. PICK p \in InitialPlans : Len(p) = Len(completedSteps) + (Len(plan) - completed)
    BY <2>2 DEF InOrder
  <2>5. Len(plan) \in Nat /\ Len(completedSteps) \in Nat
    BY LenProperties DEF Core, TypeOK
  <2>6. QED  BY <2>2, <2>3, <2>4, <2>5
<1>3. QED  BY <1>1, <1>2

(* context_aware.go:73-194: a ContextAwarePlanner's template is completed  *)
(* step by step: a successful call completed exactly as many steps as the  *)
(* template has, however often it replanned the rest.                      *)
THEOREM TemplatesOnce == Spec /\ Templates => []TemplateCompletedOnce
<1> DEFINE IInv == Core /\ Templates /\ InOrder /\ TemplateCompletedOnce
<1>1. Init /\ Templates => IInv
  BY CoreInit DEF Init, InOrder, TemplateCompletedOnce
<1>2. IInv /\ [Next]_vars => IInv'
  BY CoreNext, TemplatesKept, InOrderNext, OnceNext
<1>3. QED  BY <1>1, <1>2, PTL DEF Spec
-----------------------------------------------------------------------------
(* The life cycle of a run.                                                *)

(* A run that is new, or that the HTTP handler has created.                *)
FreshRow == row # NoRow => row.status = "CREATED"

(* No replan yields a plan without a schedule.  Otherwise the call returns *)
(* and leaves the row RUNNING, which only looks like a write that is lost. *)
SchedulableReplans ==
  /\ Replanner = "contextAware" => \A p \in InitialPlans : ~HasDAG(p)
  /\ Replanner = "llm" => \A p \in ModelPlans : ~RejectedPlan(p)

(* The status of the run, in the row and in memory, before the call ends.  *)
StatusInStep ==
  /\ pc = "idle" => FreshRow /\ run.status = "CREATED"
  /\ pc = "planning" => row.status = "CREATED" /\ run.status = "CREATED"
  /\ pc \in {"planned", "loop", "batch"} => row.status = "RUNNING" /\ run.status = "RUNNING"

(* The row follows the run in memory, but for the writes that are lost.    *)
LEMMA StatusInStepNext == Core /\ Core' /\ StatusInStep /\ [Next]_vars => StatusInStep'
<1> SUFFICES ASSUME Core, Core', StatusInStep, [Next]_vars PROVE StatusInStep'
  OBVIOUS
<1>0. run \in Row /\ run' \in Row  BY DEF Core, TypeOK
<1>1. CASE pc' = "returned"  BY <1>1 DEF StatusInStep
<1>2. CASE CreateRun  BY <1>2 DEF CreateRun, StatusInStep, FreshRow
<1>3. CASE CreatePlan /\ pc' # "returned"
  <2>1. pc' = "planned" /\ row' = Updated(run') /\ row \in Row
    BY <1>3 DEF CreatePlan, Return, Core, Stages
  <2>2. run'.status = "RUNNING"  BY <1>0, <1>3 DEF CreatePlan, Row
  <2>3. row'.status = "RUNNING"  BY <1>0, <2>1, <2>2, StatusWritten
  <2>4. QED  BY <2>1, <2>2, <2>3 DEF StatusInStep
<1>4. CASE \/ StartBatch \/ AdvanceBatch \/ Replan \/ BuildDAG
           \/ \E i \in batch : Goroutine(i)
  <2>1. \A i \in batch : Goroutine(i) => pc = "batch" /\ pc' = "batch"
    BY GoroutineFrame
  <2>2. pc \in {"planned", "loop", "batch"} /\ pc' \in {"loop", "batch"}
    BY <1>4, <2>1 DEF StartBatch, AdvanceBatch, Replan, ReplanAnswers, Joined, BuildDAG
  <2>3. QED  BY <1>4, <2>2, StatusKept DEF StatusInStep
<1>5. CASE UNCHANGED vars  BY <1>5 DEF vars, StatusInStep, FreshRow
<1>6. QED
  BY <1>1, <1>2, <1>3, <1>4, <1>5 DEF Next, Main, RejectRequest, CreateRunFails,
     CreatePlanFails, BuildDAGFails, ReplanDAGFails, FailRun, Succeed, Return

(* The sequential plans of a ContextAwarePlanner stay sequential.          *)
Sequential ==
  SchedulableReplans /\ Replanner = "contextAware" /\ pc \in {"planned", "loop", "batch"}
    => ~HasDAG(plan)

(* A replan from a template is sequential, so it is never rejected.        *)
LEMMA SequentialReplan ==
  ASSUME Core, Sequential, SchedulableReplans, NEW p \in ReplanAnswers, ReplanWith(p)
  PROVE  /\ ~RejectedPlan(p)
         /\ Replanner = "contextAware" => ~HasDAG(p)
<1>1. pc = "batch" /\ p \in Seq(PlanStep) /\ CanReplan /\ p # ReplanError
  BY ReplanFacts DEF ReplanWith
<1>2. PICK i \in batch : p \in ReplanResults(plan, i, step[i].class, replanCount + 1)
  BY ReplanFacts
<1>3. plan \in Seq(PlanStep) /\ i \in Nodes(plan) /\ PlannersOK
  BY <1>1, StepFacts, ConfigOK DEF Core, TypeOK
<1>4. CASE Replanner = "contextAware"
  <2>1. ~HasDAG(plan)  BY <1>1, <1>4 DEF Sequential
  <2>2. ~HasDAG(p)
    BY <1>1, <1>2, <1>3, <1>4, <2>1, ReplanResultsType, ContextAwareReplanType
  <2>3. QED  BY <1>1, <2>2, SequentialAcyclic
<1>5. CASE Replanner # "contextAware"
  <2>1. p \in ModelPlans  BY <1>1, <1>2, <1>3, <1>5, ReplanResultsType
  <2>2. Replanner = "llm"  BY <1>1, <1>5, ConfigOK DEF CanReplan, Core, TypeOK
  <2>3. QED  BY <1>5, <2>1, <2>2 DEF SchedulableReplans
<1>6. QED  BY <1>4, <1>5

(* The plans of the context-aware replanner stay sequential.               *)
LEMMA SequentialNext == Core /\ Sequential /\ [Next]_vars => Sequential'
<1> SUFFICES ASSUME Core, Sequential, [Next]_vars, SchedulableReplans,
                    Replanner = "contextAware", pc' \in {"planned", "loop", "batch"}
             PROVE  ~HasDAG(plan')
  BY PlansFixed DEF Sequential, SchedulableReplans
<1>1. CASE CreatePlan
  BY <1>1 DEF CreatePlan, SchedulableReplans
<1>2. CASE Replan
  <2>1. PICK p \in ReplanAnswers : ReplanWith(p)  BY <1>2 DEF Replan
  <2>2. plan' = p  BY <2>1 DEF ReplanWith
  <2>3. QED  BY <2>1, <2>2, SequentialReplan
<1>3. CASE StartBatch \/ AdvanceBatch \/ BuildDAG
  BY <1>3 DEF StartBatch, AdvanceBatch, Joined, BuildDAG, planVars, Sequential
<1>4. CASE \E i \in batch : Goroutine(i)
  BY <1>4, GoroutineFrame DEF Sequential
<1>5. CASE UNCHANGED vars  BY <1>5 DEF vars, Sequential
<1>6. QED
  BY <1>1, <1>2, <1>3, <1>4, <1>5 DEF Next, Main, RejectRequest, CreateRun, CreateRunFails,
     CreatePlanFails, BuildDAGFails, ReplanDAGFails, FailRun, Succeed, Return

(* A plan without a schedule is either not there, or hides behind writes   *)
(* that may be lost.                                                       *)
Schedulable == DbMayFail \/ SchedulableReplans

(* What the database and the planners may do does not change in a call.    *)
LEMMA SchedulableKept ==
  ASSUME [Next]_vars
  PROVE  /\ DbMayFail' = DbMayFail
         /\ Schedulable => Schedulable'
<1>1. DbMayFail' = DbMayFail  BY ConfigFixed DEF DbMayFail
<1>2. QED  BY <1>1, PlansFixed DEF Schedulable, SchedulableReplans

(* Each step of the engine is a step of the life cycle, or invisible.      *)
LEMMA LifecycleStep ==
  ASSUME Core, Core', StatusInStep, Sequential, Schedulable, [Next]_vars
  PROVE  [Lifecycle!Next]_(Lifecycle!vars)
<1> USE DEF Lifecycle!Next, Lifecycle!vars, Status
<1>0. /\ run' \in Row /\ (row # NoRow <=> row \in Row) /\ DbMayFail' = DbMayFail
      /\ row' # NoRow <=> row' \in Row
      /\ pc # "returned" <=> result = "none"
      /\ pc \notin {"idle", "returned"} => row \in Row
  BY EngineAssumption, SchedulableKept DEF Core, TypeOK, Stages
<1>1. CASE RejectRequest \/ CreateRunFails
  <2>1. result = "none" /\ result' = "error" /\ row' = row /\ pc = "idle"
    BY <1>0, <1>1 DEF RejectRequest, CreateRunFails, Return
  <2>2. Lifecycle!Refuse
    BY <1>0, <2>1 DEF Lifecycle!Refuse, StatusInStep, FreshRow
  <2>3. QED  BY <2>2
<1>2. CASE CreateRun
  <2>1. CASE row = NoRow
    <3>1. Lifecycle!Create
      BY <1>0, <1>2, <2>1, EngineAssumption DEF CreateRun, Lifecycle!Create, StatusInStep, Core, TypeOK
    <3>2. QED  BY <3>1
  <2>2. CASE row # NoRow  BY <1>0, <1>2, <2>2 DEF CreateRun
  <2>3. QED  BY <2>1, <2>2
<1>3. CASE CreatePlanFails \/ BuildDAGFails \/ FailRun
  <2>1. /\ pc \in {"planning", "planned", "loop", "batch"} /\ result' = "failed"
        /\ run' = Closed(run, "FAILED") /\ SaveRun(run')
    BY <1>3 DEF CreatePlanFails, BuildDAGFails, FailRun, Return, Joined
  <2>2. \/ row' = row /\ DbMayFail
        \/ row' \in Row /\ row'.status = "FAILED"
    <3>1. row' = Updated(run') \/ (row' = row /\ DbMayFail)
      BY <2>1 DEF SaveRun
    <3>2. row' # NoRow  BY <2>1, <1>0, <1>3, <3>1, RowTypes DEF Core
    <3>3. run'.status = "FAILED" /\ row \in Row  BY <1>0, <2>1, StatusWritten
    <3>4. QED  BY <1>0, <3>1, <3>2, <3>3, StatusWritten
  <2>3. Lifecycle!Fail
    BY <1>0, <2>1, <2>2 DEF Lifecycle!Fail, StatusInStep
  <2>4. QED  BY <2>3
<1>4. CASE CreatePlan
  <2>1. pc = "planning" /\ row \in Row /\ row.status = "CREATED"
    BY <1>0, <1>4 DEF CreatePlan, StatusInStep
  <2>2. CASE pc' = "planned"
    <3>1. row' = Updated(run') /\ UNCHANGED result  BY <1>4, <2>2 DEF CreatePlan, Return
    <3>2. row' \in Row /\ row'.status = "RUNNING"
      BY <2>2, StatusInStepNext DEF Core, Stages, StatusInStep
    <3>3. Lifecycle!Start  BY <1>0, <2>1, <3>1, <3>2 DEF Lifecycle!Start
    <3>4. QED  BY <3>3
  <2>3. CASE pc' # "planned"
    <3>1. row' = row /\ result' = "error"  BY <1>4, <2>3 DEF CreatePlan, Return
    <3>2. Lifecycle!Refuse  BY <1>0, <2>1, <3>1 DEF Lifecycle!Refuse
    <3>3. QED  BY <3>2
  <2>4. QED  BY <2>2, <2>3
<1>5. CASE Succeed
  <2>1. /\ pc = "loop" /\ row \in Row /\ row.status = "RUNNING" /\ result = "none"
        /\ run' = Closed(run, "COMPLETED")
        /\ \/ row' = Updated(run') /\ result' = "succeeded"
           \/ DbMayFail /\ row' = row /\ result' = "error"
    BY <1>0, <1>5 DEF Succeed, Return, StatusInStep
  <2>2. CASE row' = Updated(run') /\ result' = "succeeded"
    <3>1. row' \in Row /\ row'.status = "COMPLETED"
      BY <1>0, <2>1, <2>2, StatusWritten, RowTypes DEF Core
    <3>2. Lifecycle!Complete  BY <1>0, <2>1, <2>2, <3>1 DEF Lifecycle!Complete
    <3>3. QED  BY <3>2
  <2>3. CASE DbMayFail /\ row' = row /\ result' = "error"
    <3>1. Lifecycle!Refuse  BY <1>0, <2>1, <2>3 DEF Lifecycle!Refuse
    <3>2. QED  BY <3>1
  <2>4. QED  BY <2>1, <2>2, <2>3
<1>6. CASE ReplanDAGFails
  <2>1. PICK p \in ReplanAnswers :
          ReplanWith(p) /\ RejectedPlan(p) /\ Return("failed") /\ UNCHANGED row
    BY <1>6 DEF ReplanDAGFails
  <2>2. pc = "batch" /\ row \in Row /\ row.status = "RUNNING"
    BY <1>0, <2>1, ReplanFacts DEF StatusInStep
  <2>3. DbMayFail  BY <2>1, SequentialReplan DEF Schedulable
  <2>4. Lifecycle!Fail
    BY <1>0, <2>1, <2>2, <2>3 DEF Lifecycle!Fail, Return
  <2>5. QED  BY <2>4
<1>7. CASE \/ StartBatch \/ AdvanceBatch \/ Replan \/ BuildDAG
           \/ \E i \in batch : Goroutine(i)
  <2>1. \A i \in batch : Goroutine(i) => pc = "batch"  BY GoroutineFrame
  <2>2. pc \in {"planned", "loop", "batch"}
    BY <1>7, <2>1 DEF StartBatch, AdvanceBatch, Replan, ReplanAnswers, Joined, BuildDAG
  <2>3. row'.status = row.status /\ row \in Row /\ row' \in Row /\ UNCHANGED result
    BY <1>7, <2>2, StatusKept DEF StatusInStep
  <2>4. QED  BY <1>0, <2>3
<1>8. CASE UNCHANGED vars  BY <1>0, <1>8 DEF vars
<1>9. QED  BY <1>1, <1>2, <1>3, <1>4, <1>5, <1>6, <1>7, <1>8 DEF Next, Main

(* agent_run.go, engine.go:98-400: a call of Execute for a fresh run keeps *)
(* what the life cycle of a run promises, step by step, for every engine   *)
(* whose replans have a schedule or whose writes may be lost anyway.       *)
THEOREM EngineImplementsLifecycle ==
  Spec /\ FreshRow /\ Schedulable => Lifecycle!Spec
<1> DEFINE IInv == Core /\ StatusInStep /\ Sequential /\ Schedulable
<1>1. Init /\ FreshRow /\ Schedulable => IInv
  BY CoreInit DEF Init, StatusInStep, Sequential
<1>2. IInv /\ [Next]_vars => IInv'
  BY CoreNext, StatusInStepNext, SequentialNext, SchedulableKept
<1>3. Init /\ FreshRow /\ Schedulable => Lifecycle!Init
  <2> SUFFICES ASSUME Init, FreshRow PROVE Lifecycle!Init
    OBVIOUS
  <2>1. DbMayFail \in BOOLEAN  BY ConfigOK DEF Init
  <2>2. QED  BY <2>1 DEF Init, FreshRow, Lifecycle!Init, Status
<1>4. IInv /\ IInv' /\ [Next]_vars => [Lifecycle!Next]_(Lifecycle!vars)
  BY LifecycleStep
<1> HIDE DEF IInv
<1>5. QED  BY <1>1, <1>2, <1>3, <1>4, PTL DEF Spec, Lifecycle!Spec
=============================================================================
