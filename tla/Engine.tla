------------------------------- MODULE Engine -------------------------------
(***************************************************************************)
(* One call of Engine.Execute (orchestrator/engine.go) with the goroutines *)
(* of its batches, each running executeStepWithRetry                       *)
(* (orchestrator/step_executor.go), and what the call leaves in the tables *)
(* agent_runs and agent_steps (storage/sqlite).                            *)
(*                                                                         *)
(* The steps of a batch interleave at their accesses to shared state: the  *)
(* locked update of the run row, the start of an attempt, and its end with *)
(* the record written for it.  What an agent does is a choice among        *)
(* Outcomes, made when the attempt ends.                                   *)
(***************************************************************************)
EXTENDS Planners, Repair, RetryPolicy

CONSTANTS
  ValidatedAgents,  \* the step agents whose output the validator inspects
  NoRow             \* agent_runs has no row with this run id

(* An agent may return an error; an output that is or is not valid; or no  *)
(* output at all.  class is what Classify makes of the error's text, also  *)
(* of the validator's, which need not be the class "validation".           *)
OutcomeType == [kind : {"error", "valid", "invalid", "nil"},
                class : FailureType, correctable : BOOLEAN]

RunStatus == {"CREATED", "RUNNING", "COMPLETED", "FAILED"}

Row == [status : RunStatus, idx : Nat, maxSteps : Nat, completedAt : BOOLEAN]

ASSUME EngineAssumption ==
  /\ \A name \in DOMAIN Configs : LET c == Configs[name] IN
       /\ c.plans \subseteq Seq(PlanStep)
       /\ c.outcomes \subseteq OutcomeType
       /\ c.rows \subseteq Row \cup {NoRow}
       /\ {c.maxReplans, c.repairMax} \subseteq Nat /\ c.policy \in Policy
       /\ c.fallback \in AgentName \cup {NoFallback}
       /\ {c.dbFails, c.plannerFails, c.llmDown} \subseteq BOOLEAN
       /\ c.strategy \in {"none", "simple", "advanced"}
       /\ c.replanner \in {"none", "contextAware", "llm"} /\ c.planner \in {"given", "llm"}
       /\ \A answer \in c.answers : WellFormed(answer)
  /\ NoRow \notin Row
  /\ NoPolicy \in StepPolicy \ Policy /\ StepPolicy \subseteq Policy \cup {NoPolicy}
  /\ Longest \in Nat
  /\ Registered \subseteq AgentName /\ Described \subseteq AgentName

VARIABLES
  pc,              \* where the call is, see TypeOK
  row,             \* the row of agent_runs
  run,             \* the AgentRun in memory
  plan,            \* the current plan
  inDegree,        \* the scheduler of the current plan
  completed,       \* its completed steps
  batch,           \* the steps launched together
  step,            \* per step of the plan its goroutine [at, agent, class, waits]
  attempts,        \* stepAttemptTracker
  replanCount,     \* the number of replans so far
  completedSteps,  \* the successful steps, in the order their outputs enter Vars
  stepRows,        \* the rows of agent_steps
  ended,           \* every attempt of an agent that has ended
  result           \* what the call returned

vars == <<config, pc, row, run, plan, inDegree, completed, batch, step, attempts,
          replanCount, completedSteps, stepRows, ended, result>>
planVars == <<config, plan, inDegree, completed, replanCount, completedSteps>>
stepVars == <<batch, step, attempts, stepRows, ended>>

(* waits are the sleeps of executeStepWithRetry, one before each retry.    *)
Idle == [at |-> "idle", agent |-> NoAgentID, class |-> "unknown", waits |-> <<>>]

Init ==
  /\ config \in DOMAIN Configs
  /\ pc = "idle"
  /\ row \in InitialRows
  /\ run = [status |-> "CREATED", idx |-> 0, maxSteps |-> 0, completedAt |-> FALSE]
  /\ plan = <<>> /\ inDegree = <<>> /\ completed = 0
  /\ batch = {} /\ step = <<>> /\ attempts = <<>>
  /\ replanCount = 0 /\ completedSteps = <<>>
  /\ stepRows = {} /\ ended = {}
  /\ result = "none"
-----------------------------------------------------------------------------
(* Persistence.                                                            *)

(* AgentRunSQLiteRepository.Update writes these columns and no other.      *)
Updated(r) ==
  [row EXCEPT !.status = r.status, !.idx = r.idx, !.completedAt = r.completedAt]

(* runs.Update with its error dropped.                                     *)
SaveRun(r) == row' \in {Updated(r)} \cup (IF DbMayFail THEN {row} ELSE {})

Closed(r, status) == [r EXCEPT !.status = status, !.completedAt = TRUE]

(* steps.Create for attempt n of step i, its error dropped.  The step id   *)
(* "<run>-step-<index>-attempt-<attempt>" is the primary key.              *)
Attempted(i, n, status) ==
  [step |-> i, attempt |-> n, status |-> status, replan |-> replanCount]

(* Mutant of RecordStep: the attempt is missing from the key.              *)
RecordFirstAttempt(r) ==
  stepRows' = IF \E old \in stepRows : old.step = r.step THEN stepRows
              ELSE stepRows \cup {r}

RecordStep(r) ==
  LET taken == \E old \in stepRows : old.step = r.step /\ old.attempt = r.attempt
  IN stepRows' \in (IF taken THEN {} ELSE {stepRows \cup {r}})
                   \cup (IF taken \/ DbMayFail THEN {stepRows} ELSE {})

Return(res) == pc' = "returned" /\ result' = res
-----------------------------------------------------------------------------
(* The start of Execute.                                                   *)

(* An empty task id.                                                       *)
RejectRequest ==
  /\ pc = "idle"
  /\ Return("error")
  /\ UNCHANGED <<row, run, planVars, stepVars>>

(* The row is created; a row that exists already (the HTTP handler created *)
(* it, or the run id is used again) is taken over as it is.                *)
CreateRun ==
  /\ pc = "idle"
  /\ IF row = NoRow THEN row' = run /\ run' = run ELSE run' = row /\ row' = row
  /\ pc' = "planning"
  /\ UNCHANGED <<planVars, stepVars, result>>

(* Neither Create nor GetByID succeeds.                                    *)
CreateRunFails ==
  /\ pc = "idle" /\ DbMayFail
  /\ Return("error")
  /\ UNCHANGED <<row, run, planVars, stepVars>>

CreatePlanFails ==
  /\ pc = "planning" /\ CreatePlanMayFail
  /\ run' = Closed(run, "FAILED")
  /\ SaveRun(run')
  /\ Return("failed")
  /\ UNCHANGED <<planVars, stepVars>>

(* The plan is there; an error of this Update ends the call.               *)
CreatePlan ==
  /\ pc = "planning"
  /\ plan' \in InitialPlans
  /\ run' = [run EXCEPT !.maxSteps = Len(plan'), !.status = "RUNNING"]
  /\ \/ row' = Updated(run') /\ pc' = "planned" /\ UNCHANGED result
     \/ DbMayFail /\ row' = row /\ Return("error")
  /\ UNCHANGED <<config, inDegree, completed, replanCount, completedSteps, stepVars>>

(* Mutant of Schedule: the tracker stays empty.                            *)
ScheduleUntracked(p) ==
  /\ inDegree' = InDegrees(p)
  /\ completed' = 0
  /\ attempts' = <<>>
  /\ step' = [i \in Nodes(p) |-> Idle]

(* newDAGScheduler and a new tracker for the plan p.                       *)
Schedule(p) ==
  /\ inDegree' = InDegrees(p)
  /\ completed' = 0
  /\ attempts' = [i \in Nodes(p) |-> 0]
  /\ step' = [i \in Nodes(p) |-> Idle]

BuildDAG ==
  /\ pc = "planned"
  /\ ~RejectedPlan(plan)
  /\ Schedule(plan)
  /\ pc' = "loop"
  /\ UNCHANGED <<config, row, run, plan, batch, replanCount, completedSteps,
                 stepRows, ended, result>>

(* Mutant of BuildDAGFails: the failure is only returned.                  *)
BuildDAGFailsUnsaved ==
  /\ pc = "planned"
  /\ RejectedPlan(plan)
  /\ Return("failed")
  /\ UNCHANGED <<row, run, planVars, stepVars>>

BuildDAGFails ==
  /\ pc = "planned"
  /\ RejectedPlan(plan)
  /\ run' = Closed(run, "FAILED")
  /\ SaveRun(run')
  /\ Return("failed")
  /\ UNCHANGED <<planVars, stepVars>>
-----------------------------------------------------------------------------
(* The batch loop.                                                         *)

StartBatch ==
  /\ pc = "loop"
  /\ completed < Len(plan) /\ ReadySteps(inDegree) # {}
  /\ batch' = ReadySteps(inDegree)
  /\ step' = [i \in DOMAIN step |->
                IF i \in batch' THEN [Idle EXCEPT !.at = "spawned", !.agent = plan[i].agent]
                ELSE step[i]]
  /\ pc' = "batch"
  /\ UNCHANGED <<row, run, planVars, attempts, stepRows, ended, result>>

(* The goroutine of step i publishes the index, under the mutex.           *)
Announce(i) ==
  /\ pc = "batch" /\ i \in batch /\ step[i].at = "spawned"
  /\ run' = [run EXCEPT !.idx = (i - 1) + Len(completedSteps)]
  /\ SaveRun(run')
  /\ step' = [step EXCEPT ![i].at = "attempt"]
  /\ UNCHANGED <<pc, planVars, batch, attempts, stepRows, ended, result>>

(* The loop of executeStepWithRetry: the attempt is counted first.         *)
Attempt(i) ==
  /\ pc = "batch" /\ i \in batch /\ step[i].at = "attempt"
  /\ attempts' = [attempts EXCEPT ![i] = @ + 1]

PolicyOf(i) == Resolved(plan[i].policy, EnginePolicy)

PolicyAllows(i) == attempts[i] + 1 > 1 => ShouldRetry(PolicyOf(i), attempts[i])

(* The sleeps so far, with the one before the attempt that begins.         *)
Slept(i) ==
  IF attempts[i] = 0 THEN {step[i].waits}
  ELSE {Append(step[i].waits, d) : d \in Sleeps(PolicyOf(i), attempts[i] + 1)}

(* "max retry attempts exceeded": no record; the text has no class.        *)
AttemptsExceeded(i) ==
  /\ Attempt(i)
  /\ ~PolicyAllows(i)
  /\ step' = [step EXCEPT ![i].at = "failed", ![i].class = "unknown"]
  /\ UNCHANGED <<pc, row, run, planVars, batch, stepRows, ended, result>>

StartAgent(i) ==
  /\ Attempt(i)
  /\ PolicyAllows(i) /\ step[i].agent \in Registered
  /\ \E w \in Slept(i) :
       step' = [step EXCEPT ![i].at = "running", ![i].waits = w]
  /\ UNCHANGED <<pc, row, run, planVars, batch, stepRows, ended, result>>

(* The registry does not know the agent: the step fails whatever the       *)
(* repair engine says; the attempt is recorded unless that is "abort".     *)
AgentMissing(i) ==
  LET f == [type |-> "agent", attempt |-> attempts[i] + 1,
            agent |-> step[i].agent, correctable |-> FALSE]
  IN /\ Attempt(i)
     /\ PolicyAllows(i) /\ step[i].agent \notin Registered
     /\ \E w \in Slept(i) :
          step' = [step EXCEPT ![i].at = "failed", ![i].class = "agent", ![i].waits = w]
     /\ IF Strategy # "none" /\ ~HasAbort(RepairPlan(f))
          THEN RecordStep(Attempted(i, attempts[i] + 1, "FAILED"))
          ELSE UNCHANGED stepRows
     /\ UNCHANGED <<pc, row, run, planVars, batch, ended, result>>

(* Mutant of Accepted: the validator's verdict is dropped.                 *)
AcceptedUnchecked(i, o) == o.kind # "error"

(* The agent returned an output that the validator, which sees the agent   *)
(* of the plan and not its replacement, does not reject.                   *)
Accepted(i, o) ==
  /\ o.kind # "error"
  /\ o.kind = "valid" \/ plan[i].agent \notin ValidatedAgents

AgentSucceeds(i) ==
  /\ pc = "batch" /\ i \in batch /\ step[i].at = "running"
  /\ \E o \in Outcomes :
       /\ Accepted(i, o)
       /\ step' = [step EXCEPT ![i].at = o.kind]
  /\ ended' = ended \cup {Attempted(i, attempts[i], "SUCCEEDED")}
  /\ RecordStep(Attempted(i, attempts[i], "SUCCEEDED"))
  /\ UNCHANGED <<pc, row, run, planVars, batch, attempts, result>>

(* The agent failed or its output was rejected: repair decides whether the *)
(* goroutine tries again.                                                  *)
AgentFails(i) ==
  /\ pc = "batch" /\ i \in batch /\ step[i].at = "running"
  /\ \E o \in Outcomes :
       LET f  == [type |-> IF o.kind = "error" THEN o.class ELSE "validation",
                  attempt |-> attempts[i], agent |-> step[i].agent,
                  correctable |-> o.correctable]
           rp == RepairPlan(f)
           again == /\ Strategy # "none" /\ ~HasAbort(rp)
                    /\ ShouldRetryStep(rp, step[i].agent)
       IN /\ ~Accepted(i, o)
          /\ step' = [step EXCEPT
                        ![i].at    = IF again THEN "attempt" ELSE "failed",
                        ![i].agent = IF again THEN NextAgent(rp, @) ELSE @,
                        ![i].class = o.class]
  /\ ended' = ended \cup {Attempted(i, attempts[i], "FAILED")}
  /\ IF Strategy = "none" THEN UNCHANGED stepRows
     ELSE RecordStep(Attempted(i, attempts[i], "FAILED"))
  /\ UNCHANGED <<pc, row, run, planVars, batch, attempts, result>>
-----------------------------------------------------------------------------
(* wg.Wait and what follows it.                                            *)

Done(i) == step[i].at \in {"valid", "invalid", "nil"}

Failed(i) == step[i].at = "failed"

(* Mutant of Joined: a failing goroutine never calls wg.Done.              *)
JoinedWithoutFailures == pc = "batch" /\ \A i \in batch : Done(i)

Joined == pc = "batch" /\ \A i \in batch : Done(i) \/ Failed(i)

(* completedSteps with the steps of S appended in index order.             *)
MergeOutputs(S) ==
  \E q \in Ascending(S) :
     completedSteps' = completedSteps \o
        [k \in DOMAIN q |-> [replan |-> replanCount, step |-> q[k],
                             id |-> plan[q[k]].id, output |-> step[q[k]].at]]

(* Mutant of AdvanceBatch: one success is enough.                          *)
AdvanceOnAnySuccess ==
  /\ Joined
  /\ \E i \in batch : Done(i)
  /\ MergeOutputs(batch)
  /\ inDegree' = MarkAllDone(plan, inDegree, batch)
  /\ completed' = completed + Cardinality(batch)
  /\ batch' = {}
  /\ pc' = "loop"
  /\ UNCHANGED <<config, row, run, plan, step, attempts, replanCount, stepRows,
                 ended, result>>

AdvanceBatch ==
  /\ Joined
  /\ \A i \in batch : Done(i)
  /\ MergeOutputs(batch)
  /\ inDegree' = MarkAllDone(plan, inDegree, batch)
  /\ completed' = completed + Cardinality(batch)
  /\ batch' = {}
  /\ pc' = "loop"
  /\ UNCHANGED <<config, row, run, plan, step, attempts, replanCount, stepRows,
                 ended, result>>

FirstFailure(i) == i \in batch /\ Failed(i) /\ \A j \in batch : Failed(j) => i <= j

CanReplan == Replanner # "none" /\ replanCount < MaxReplans

(* The steps of a failed batch that succeeded with an output.              *)
Salvaged == {i \in batch : Done(i) /\ step[i].at # "nil"}

(* What the replanner may answer to the first failure of the batch.        *)
ReplanAnswers ==
  IF Joined /\ CanReplan
    THEN UNION {ReplanResults(plan, i, step[i].class, replanCount + 1) :
                  i \in {j \in batch : FirstFailure(j)}}
    ELSE {}

(* The engine starts over with the new plan.                               *)
ReplanWith(p) ==
  /\ p # ReplanError
  /\ replanCount' = replanCount + 1
  /\ plan' = p
  /\ MergeOutputs(Salvaged)
  /\ batch' = {}

Replan ==
  \E p \in ReplanAnswers :
     /\ ReplanWith(p)
     /\ ~RejectedPlan(p)
     /\ Schedule(p)
     /\ run' = [run EXCEPT !.maxSteps = Len(completedSteps') + Len(p)]
     /\ SaveRun(run')
     /\ pc' = "loop"
     /\ UNCHANGED <<config, stepRows, ended, result>>

(* The new plan has no schedule: the call returns and leaves the row.      *)
ReplanDAGFails ==
  \E p \in ReplanAnswers :
     /\ ReplanWith(p)
     /\ RejectedPlan(p)
     /\ Return("failed")
     /\ UNCHANGED <<config, row, run, inDegree, completed, step, attempts,
                    stepRows, ended>>

(* Mutant of FailRun: the row is left as it is.                            *)
FailRunUnsaved ==
  /\ Joined /\ \E i \in batch : FirstFailure(i)
  /\ ~CanReplan \/ ReplanError \in ReplanAnswers
  /\ batch' = {}
  /\ Return("failed")
  /\ UNCHANGED <<row, run, planVars, step, attempts, stepRows, ended>>

(* No replan is allowed, or the replanner has no plan.                     *)
FailRun ==
  /\ Joined /\ \E i \in batch : FirstFailure(i)
  /\ ~CanReplan \/ ReplanError \in ReplanAnswers
  /\ IF CanReplan THEN MergeOutputs(Salvaged) ELSE UNCHANGED completedSteps
  /\ run' = Closed(run, "FAILED")
  /\ SaveRun(run')
  /\ batch' = {}
  /\ Return("failed")
  /\ UNCHANGED <<config, plan, inDegree, completed, replanCount, step, attempts,
                 stepRows, ended>>

(* Mutant of Succeed: the error of the last Update is dropped.             *)
SucceedUnchecked ==
  /\ pc = "loop"
  /\ ~(completed < Len(plan)) \/ ReadySteps(inDegree) = {}
  /\ run' = Closed(run, "COMPLETED")
  /\ SaveRun(run')
  /\ Return("succeeded")
  /\ UNCHANGED <<planVars, stepVars>>

(* The loop is over: all steps completed, or the break on no ready step.   *)
Succeed ==
  /\ pc = "loop"
  /\ ~(completed < Len(plan)) \/ ReadySteps(inDegree) = {}
  /\ run' = Closed(run, "COMPLETED")
  /\ \/ row' = Updated(run') /\ Return("succeeded")
     \/ DbMayFail /\ row' = row /\ Return("error")
  /\ UNCHANGED <<planVars, stepVars>>

Goroutine(i) ==
  \/ Announce(i) \/ AttemptsExceeded(i) \/ StartAgent(i) \/ AgentMissing(i)
  \/ AgentSucceeds(i) \/ AgentFails(i)

Main ==
  \/ RejectRequest \/ CreateRun \/ CreateRunFails \/ CreatePlanFails \/ CreatePlan
  \/ BuildDAG \/ BuildDAGFails \/ StartBatch \/ AdvanceBatch
  \/ Replan \/ ReplanDAGFails \/ FailRun \/ Succeed

Next == Main \/ \E i \in batch : Goroutine(i)

Spec == Init /\ [][Next]_vars

(* Go runs some runnable goroutine, and an agent is assumed to return.     *)
FairSpec == Spec /\ WF_vars(Next)
-----------------------------------------------------------------------------
TypeOK ==
  /\ config \in DOMAIN Configs
  /\ pc \in {"idle", "planning", "planned", "loop", "batch", "returned"}
  /\ row \in Row \cup {NoRow}
  /\ run \in Row
  /\ plan \in Seq(PlanStep)
  /\ pc \in {"loop", "batch"} =>
       /\ inDegree \in [Nodes(plan) -> Int]
       /\ attempts \in [Nodes(plan) -> Nat]
       /\ step \in [Nodes(plan) ->
            [at : {"idle", "spawned", "attempt", "running", "valid", "invalid",
                   "nil", "failed"},
             agent : AgentName \cup {NoAgentID}, class : FailureType,
             waits : Seq(Nat)]]
  /\ completed \in Nat /\ replanCount \in 0 .. MaxReplans
  /\ batch \subseteq (IF pc = "batch" THEN Nodes(plan) ELSE {})
  /\ completedSteps \in Seq([replan : Nat, step : Nat,
                             id : StepName \cup {NoStepID},
                             output : {"valid", "invalid", "nil"}])
  /\ stepRows \cup ended \subseteq
       [step : Nat, attempt : Nat, status : {"SUCCEEDED", "FAILED"}, replan : Nat]
  /\ result \in {"none", "succeeded", "failed", "error"}

MergedSteps == {completedSteps[k] : k \in DOMAIN completedSteps}

(* The steps of the current plan whose outputs are in Vars.                *)
CompletedNow == {c.step : c \in {m \in MergedSteps : m.replan = replanCount}}

(* A goroutine runs only for a step that the current plan has not completed *)
(* yet, and finds the outputs of all its dependencies in Vars.             *)
BatchSound ==
  \A i \in batch : i \notin CompletedNow /\ Parents(plan, i) \subseteq CompletedNow

(* Success is reported only when every step of the plan in force completed *)
(* under that plan, with an output its validator did not reject.           *)
SuccessIsComplete ==
  result = "succeeded" =>
    \A i \in Nodes(plan) :
      \E c \in MergedSteps :
        /\ c.replan = replanCount /\ c.step = i
        /\ c.output \in {"valid", "invalid", "nil"}
        /\ plan[i].agent \in ValidatedAgents => c.output = "valid"

(* Whatever a language model answers and however its answers are guarded,  *)
(* only agents it was offered are run, and a success did some work.        *)
ModelPlansRunnable ==
  Planner = "llm" /\ Replanner \in {"none", "llm"} =>
    /\ pc \in {"planned", "loop", "batch"} =>
         \A i \in Nodes(plan) : plan[i].agent \in Described
    /\ result = "succeeded" => completedSteps # <<>>

(* No agent is run more often for a step than both the retry policy and    *)
(* the repair engine allow.                                                *)
AttemptsBounded ==
  pc = "batch" =>
    \A i \in batch : step[i].at = "running" =>
      /\ attempts[i] <= MaxAttempts(PolicyOf(i))
      /\ attempts[i] = 1 \/ attempts[i] <= RepairMaxAttempts

(* policy.go:34-41: no sleep is longer than the cap and a quarter of it    *)
(* for the jitter, however fast the delay grows.                           *)
WaitsBounded ==
  pc = "batch" =>
    \A i \in batch : \A k \in DOMAIN step[i].waits :
      LET max == PolicyOf(i).maxDelay
      IN max > 0 => step[i].waits[k] <= max + max \div 4

(* Backing off: without jitter, and under a cap, a step never sleeps less  *)
(* than before its previous attempt.                                       *)
WaitsGrow ==
  pc = "batch" =>
    \A i \in batch : \A k \in 2 .. Len(step[i].waits) :
      ~PolicyOf(i).jitter /\ PolicyOf(i).maxDelay \in 1 .. Longest
        => step[i].waits[k - 1] <= step[i].waits[k]

(* The row says COMPLETED exactly when the call reported success, even if  *)
(* writes to the database fail.                                            *)
CompletedIffSucceeded ==
  pc = "returned" /\ row # NoRow => (row.status = "COMPLETED" <=> result = "succeeded")

(* An attempt that has ended is recorded with the status it ended with,    *)
(* unless an earlier plan of the run has taken its key.  Writes that fail  *)
(* and engines that do not repair lose attempts.                           *)
AttemptsRecorded ==
  ~DbMayFail /\ Strategy # "none" =>
    \A e \in ended : \E r \in stepRows :
      /\ r.step = e.step /\ r.attempt = e.attempt
      /\ r = e \/ r.replan < e.replan

(* PROJECT.md:70, every agent step is recorded: an attempt that has ended  *)
(* has its row, with the status it ended with.                             *)
EveryAttemptRecorded == ended \subseteq stepRows

(* PROJECT.md:599-601, a failed run is persisted as such.                  *)
FailurePersisted ==
  pc = "returned" /\ result = "failed" => row.status = "FAILED"

(* PROJECT.md:605, "No further steps are allowed" after Completed, and      *)
(* :618, "No other transitions are allowed": none leaves it.               *)
CompletedIsFinal ==
  [][row # NoRow /\ row.status = "COMPLETED" => row'.status = "COMPLETED"]_vars

(* A sequential template is completed step by step, none of its steps      *)
(* twice, however often ContextAwarePlanner replans the rest of it.        *)
TemplateCompletedOnce ==
  result = "succeeded" /\ Replanner = "contextAware" =>
    \E p \in InitialPlans : Len(completedSteps) = Len(p)

(* Every call returns: retries and replans are bounded.                    *)
Returns == <>(pc = "returned")
-----------------------------------------------------------------------------
(* The call implements the life cycle of a run.                            *)
Status == IF row = NoRow THEN "NONE" ELSE row.status

Lifecycle == INSTANCE RunLifecycle
               WITH status <- Status, outcome <- result, lossy <- DbMayFail

LifecycleSpec == Lifecycle!FairSpec
=============================================================================
