------------------------ MODULE EngineAttempts_proof ------------------------
(***************************************************************************)
(* Theorems about the attempts of Engine: how often an agent runs, how     *)
(* long a step waits between attempts, and what is recorded of them        *)
(* (orchestrator/step_executor.go, storage/sqlite).                        *)
(***************************************************************************)
EXTENDS Engine_proof

(* A step whose goroutine has not begun was never attempted under this     *)
(* plan; one that will be attempted again is within the limit of repair.   *)
Tracked ==
  /\ pc \in {"loop", "batch"} =>
       \A i \in Nodes(plan) :
         i \notin CompletedNow /\ (i \in batch => step[i].at = "spawned") => attempts[i] = 0
  /\ pc = "batch" =>
       \A i \in batch : step[i].at = "attempt" =>
         attempts[i] = 0 \/ attempts[i] < RepairMaxAttempts

(* The keys of a plan's rows are behind its tracker: what a goroutine will *)
(* record next, no other attempt under the same plan has recorded.         *)
Recorded ==
  \A r \in stepRows :
    /\ r.replan <= replanCount
    /\ r.replan = replanCount /\ pc \in {"loop", "batch"} =>
         /\ r.step \in Nodes(plan) /\ r.attempt <= attempts[r.step]
         /\ r.step \in batch /\ step[r.step].at = "running" => r.attempt < attempts[r.step]
-----------------------------------------------------------------------------
(* What every run of the engine starts with.                               *)
LEMMA AttemptsInit ==
  Init => Tracked /\ AttemptsBounded /\ WaitsBounded /\ Recorded /\ AttemptsRecorded
BY DEF Init, Tracked, AttemptsBounded, WaitsBounded, Recorded, AttemptsRecorded

(* A batch begins: its steps are new, and have not slept.                  *)
LEMMA BatchBegins ==
  ASSUME Core, StartBatch
  PROVE  /\ pc = "loop" /\ pc' = "batch" /\ batch = {} /\ CompletedNow' = CompletedNow
         /\ UNCHANGED <<config, plan, attempts, replanCount, stepRows, ended>>
         /\ batch' \subseteq Nodes(plan)
         /\ \A i \in batch' : step'[i].at = "spawned" /\ step'[i].waits = <<>>
<1>1. /\ pc = "loop" /\ pc' = "batch" /\ batch' = ReadySteps(inDegree)
      /\ UNCHANGED <<config, plan, attempts, replanCount, completedSteps, stepRows, ended>>
      /\ step' = [i \in DOMAIN step |->
                    IF i \in batch' THEN [Idle EXCEPT !.at = "spawned", !.agent = plan[i].agent]
                    ELSE step[i]]
  BY DEF StartBatch, planVars
<1>2. /\ DOMAIN step = Nodes(plan) /\ DOMAIN inDegree = Nodes(plan) /\ batch = {}
  BY <1>1, TypeParts DEF Core, TablesType, BatchType
<1>3. batch' \subseteq Nodes(plan)  BY <1>1, <1>2 DEF ReadySteps
<1>4. \A agent : /\ [Idle EXCEPT !.at = "spawned", !.agent = agent].at = "spawned"
                 /\ [Idle EXCEPT !.at = "spawned", !.agent = agent].waits = <<>>
  BY DEF Idle
<1>5. \A i \in batch' : step'[i].at = "spawned" /\ step'[i].waits = <<>>
  BY <1>1, <1>2, <1>3, <1>4
<1>6. CompletedNow' = CompletedNow  BY <1>1, CompletedKept
<1>7. QED  BY <1>1, <1>2, <1>3, <1>5, <1>6

(* A plan begins: nothing of it was attempted.                             *)
LEMMA PlanBegins ==
  ASSUME Core, BuildDAG \/ Replan
  PROVE  /\ pc' = "loop" /\ batch' = {}
         /\ \A i \in Nodes(plan') : attempts'[i] = 0
<1>1. CASE BuildDAG
  BY <1>1, TypeParts DEF BuildDAG, Schedule, Core, BatchType
<1>2. CASE Replan
  <2>1. PICK p \in ReplanAnswers : ReplanWith(p) /\ Schedule(p) /\ pc' = "loop"
    BY <1>2 DEF Replan
  <2>2. QED  BY <2>1 DEF ReplanWith, Schedule
<1>3. QED  BY <1>1, <1>2

(* Every step keeps the counters of attempts that the engine tracks.       *)
LEMMA TrackedNext == Core /\ Core' /\ Tracked /\ [Next]_vars => Tracked'
<1> SUFFICES ASSUME Core, Core', Tracked, [Next]_vars PROVE Tracked'
  OBVIOUS
<1>1. CASE pc' \notin {"loop", "batch"}  BY <1>1 DEF Tracked
<1>2. CASE BuildDAG \/ Replan
  BY <1>2, PlanBegins DEF Tracked
<1>3. CASE StartBatch
  BY <1>3, BatchBegins DEF Tracked
<1>4. CASE AdvanceBatch
  <2>1. /\ pc = "batch" /\ pc' = "loop" /\ batch' = {} /\ UNCHANGED <<plan, attempts>>
        /\ CompletedNow' = CompletedNow \cup batch
    BY <1>4, AdvanceEffect DEF AdvanceBatch, Joined
  <2>2. QED  BY <2>1 DEF Tracked
<1>5. CASE \E i \in batch : Goroutine(i)
  <2>1. PICK i \in batch : Goroutine(i)  BY <1>5
  <2>2. /\ pc = "batch" /\ pc' = "batch"
        /\ UNCHANGED <<config, plan, batch, replanCount, completedSteps>>
        /\ batch \subseteq Nodes(plan)
    BY <2>1, GoroutineFrame, TypeParts DEF Core, BatchType
  <2>3. CompletedNow' = CompletedNow /\ i \notin CompletedNow
    BY <2>1, <2>2, CompletedKept DEF Core, BatchSound
  <2>4. step'[i].at # "spawned"
        /\ (step'[i].at = "attempt" => attempts'[i] = 0 \/ attempts'[i] < RepairMaxAttempts)
    BY <2>1, <2>2, <2>3, GoroutineMoves DEF Tracked
  <2>5. \A j \in Nodes(plan) : j # i => step'[j] = step[j] /\ attempts'[j] = attempts[j]
    BY <2>1, GoroutineMoves
  <2>6. RepairMaxAttempts' = RepairMaxAttempts  BY <2>2 DEF RepairMaxAttempts
  <2>7. QED  BY <2>2, <2>3, <2>4, <2>5, <2>6 DEF Tracked
<1>6. CASE UNCHANGED vars
  BY <1>6, CompletedKept DEF vars, Tracked, RepairMaxAttempts
<1>7. QED  BY <1>1, <1>2, <1>3, <1>4, <1>5, <1>6, NextCases
-----------------------------------------------------------------------------
(* How often an agent runs.                                                *)

(* No step starts an attempt beyond the limits of policy and repair.       *)
LEMMA AttemptsNext == Core /\ Tracked /\ AttemptsBounded /\ [Next]_vars => AttemptsBounded'
<1> SUFFICES ASSUME Core, Tracked, AttemptsBounded, [Next]_vars, pc' = "batch",
                    NEW j \in batch', step'[j].at = "running"
             PROVE  /\ attempts'[j] <= MaxAttempts(PolicyOf(j))'
                    /\ attempts'[j] = 1 \/ attempts'[j] <= RepairMaxAttempts'
  BY DEF AttemptsBounded
<1>1. CASE StartBatch
  BY <1>1, BatchBegins
<1>2. CASE \E i \in batch : Goroutine(i)
  <2>1. PICK i \in batch : Goroutine(i)  BY <1>2
  <2>2. /\ pc = "batch" /\ UNCHANGED <<config, plan, batch>>
        /\ batch \subseteq Nodes(plan)
    BY <2>1, GoroutineFrame, TypeParts DEF Core, BatchType
  <2>3. PolicyOf(j)' = PolicyOf(j) /\ RepairMaxAttempts' = RepairMaxAttempts
    BY <2>2 DEF PolicyOf, EnginePolicy, RepairMaxAttempts
  <2>4. CASE j # i
    BY <2>1, <2>2, <2>3, <2>4, GoroutineMoves DEF AttemptsBounded, MaxAttempts
  <2>5. CASE j = i
    <3>1. /\ step[i].at = "attempt" /\ attempts'[i] = attempts[i] + 1 /\ PolicyAllows(i)
      BY <2>1, <2>5, GoroutineMoves
    <3>2. attempts[i] \in Nat /\ RepairMaxAttempts \in Nat
          /\ MaxAttempts(PolicyOf(i)) \in Nat \ {0}
      BY <2>1, <2>2, StepFacts, ConfigOK, MaxAttemptsPositive DEF Core, TypeOK
    <3>3. attempts[i] = 0 \/ attempts[i] < RepairMaxAttempts
      BY <2>1, <2>2, <3>1 DEF Tracked
    <3>4. attempts[i] + 1 <= MaxAttempts(PolicyOf(i))
      BY <3>1, <3>2 DEF PolicyAllows, ShouldRetry
    <3>5. MaxAttempts(PolicyOf(i))' = MaxAttempts(PolicyOf(i))
      BY <2>3, <2>5 DEF MaxAttempts
    <3>6. QED  BY <2>3, <2>5, <3>1, <3>2, <3>3, <3>4, <3>5
  <2>6. QED  BY <2>4, <2>5
<1>3. CASE UNCHANGED vars
  BY <1>3 DEF vars, AttemptsBounded, PolicyOf, EnginePolicy, RepairMaxAttempts, MaxAttempts
<1>4. QED
  BY <1>1, <1>2, <1>3, NextCases, PlanBegins DEF AdvanceBatch

(* step_executor.go:83, 145-215: neither the retry policy nor the repair   *)
(* engine is outvoted by the other: an agent runs for a step at most as    *)
(* often as both allow, and a single time if repair allows no retry.       *)
THEOREM AttemptsLimited == Spec => []AttemptsBounded
<1>1. Core /\ Tracked /\ AttemptsBounded /\ [Next]_vars => (Core /\ Tracked /\ AttemptsBounded)'
  BY CoreNext, TrackedNext, AttemptsNext
<1>2. QED  BY <1>1, CoreInit, AttemptsInit, PTL DEF Spec

(* Every delay that a step adds is within the cap and its jitter.          *)
LEMMA WaitsNext == Core /\ WaitsBounded /\ [Next]_vars => WaitsBounded'
<1> SUFFICES ASSUME Core, WaitsBounded, [Next]_vars, pc' = "batch",
                    NEW j \in batch', NEW k \in DOMAIN step'[j].waits,
                    PolicyOf(j)'.maxDelay > 0
             PROVE  step'[j].waits[k] <= PolicyOf(j)'.maxDelay + PolicyOf(j)'.maxDelay \div 4
  BY DEF WaitsBounded
<1>1. CASE StartBatch
  BY <1>1, BatchBegins
<1>2. CASE \E i \in batch : Goroutine(i)
  <2>1. PICK i \in batch : Goroutine(i)  BY <1>2
  <2>2. /\ pc = "batch" /\ UNCHANGED <<config, plan, batch>>
        /\ batch \subseteq Nodes(plan) /\ j \in batch
    BY <2>1, GoroutineFrame, TypeParts DEF Core, BatchType
  <2>3. PolicyOf(j)' = PolicyOf(j)  BY <2>2 DEF PolicyOf, EnginePolicy
  <2>4. CASE step'[j].waits = step[j].waits
    BY <2>2, <2>3, <2>4 DEF WaitsBounded
  <2>5. CASE step'[j].waits # step[j].waits
    <3>1. j = i /\ step'[j].waits \in Slept(j)
      BY <2>1, <2>2, <2>5, GoroutineMoves
    <3>2. PICK d \in Sleeps(PolicyOf(j), attempts[j] + 1) :
             step'[j].waits = Append(step[j].waits, d)
      BY <2>5, <3>1 DEF Slept
    <3>3. /\ step[j].waits \in Seq(Nat) /\ attempts[j] + 1 \in Nat /\ PolicyOf(j) \in Policy
      BY <2>2, StepFacts DEF StepState, Core
    <3>4. d <= PolicyOf(j).maxDelay + PolicyOf(j).maxDelay \div 4
      BY <2>3, <3>3, SleepsBounded, EngineAssumption
    <3>5. k \in DOMAIN step[j].waits \/ step'[j].waits[k] = d
      BY <3>2, <3>3
    <3>6. k \in DOMAIN step[j].waits => step'[j].waits[k] = step[j].waits[k]
      BY <3>2, <3>3
    <3>7. QED  BY <2>2, <2>3, <3>4, <3>5, <3>6 DEF WaitsBounded
  <2>6. QED  BY <2>4, <2>5
<1>3. CASE UNCHANGED vars
  BY <1>3 DEF vars, WaitsBounded, PolicyOf, EnginePolicy
<1>4. QED
  BY <1>1, <1>2, <1>3, NextCases, PlanBegins DEF AdvanceBatch

(* policy.go:34-41, 100-150: however fast a delay grows, a step never      *)
(* waits longer than its cap and the quarter of it that jitter may add.    *)
THEOREM WaitsLimited == Spec => []WaitsBounded
<1>1. Core /\ WaitsBounded /\ [Next]_vars => (Core /\ WaitsBounded)'
  BY CoreNext, WaitsNext
<1>2. QED  BY <1>1, CoreInit, AttemptsInit, PTL DEF Spec

(* The sleeps of a step are those its policy has for its attempts, one     *)
(* before each attempt but the first.                                      *)
Timely ==
  pc = "batch" =>
    \A i \in batch :
      /\ step[i].at # "failed" =>
           IF attempts[i] = 0 THEN step[i].waits = <<>> ELSE Len(step[i].waits) = attempts[i] - 1
      /\ \A k \in DOMAIN step[i].waits : step[i].waits[k] \in Sleeps(PolicyOf(i), k + 1)

(* A step sleeps as long as its policy says for the attempt it begins.     *)
LEMMA TimelyNext == Core /\ Core' /\ Tracked' /\ Timely /\ [Next]_vars => Timely'
<1> SUFFICES ASSUME Core, Core', Tracked', Timely, [Next]_vars, pc' = "batch", NEW j \in batch'
             PROVE  /\ step'[j].at # "failed" =>
                         IF attempts'[j] = 0 THEN step'[j].waits = <<>>
                         ELSE Len(step'[j].waits) = attempts'[j] - 1
                    /\ \A k \in DOMAIN step'[j].waits :
                         step'[j].waits[k] \in Sleeps(PolicyOf(j), k + 1)'
  BY DEF Timely
<1>1. CASE StartBatch
  <2>1. step'[j].at = "spawned" /\ step'[j].waits = <<>> /\ j \in Nodes(plan')
    BY <1>1, BatchBegins
  <2>2. j \notin CompletedNow'  BY DEF Core, BatchSound
  <2>3. attempts'[j] = 0  BY <2>1, <2>2 DEF Tracked
  <2>4. QED  BY <2>1, <2>3
<1>2. CASE \E i \in batch : Goroutine(i)
  <2>1. PICK i \in batch : Goroutine(i)  BY <1>2
  <2>2. /\ pc = "batch" /\ UNCHANGED <<config, plan, batch>>
        /\ batch \subseteq Nodes(plan) /\ j \in batch
    BY <2>1, GoroutineFrame, TypeParts DEF Core, BatchType
  <2>3. \A k : Sleeps(PolicyOf(j), k)' = Sleeps(PolicyOf(j), k)
    BY <2>2 DEF PolicyOf, EnginePolicy, Sleeps, Delay
  <2>4. /\ step[j].waits \in Seq(Nat) /\ attempts[j] \in Nat
    BY <2>2, StepFacts DEF StepState, Core
  <2>5. /\ step[j].at # "failed" =>
             IF attempts[j] = 0 THEN step[j].waits = <<>> ELSE Len(step[j].waits) = attempts[j] - 1
        /\ \A k \in DOMAIN step[j].waits : step[j].waits[k] \in Sleeps(PolicyOf(j), k + 1)
    BY <2>2 DEF Timely
  <2>6. CASE j # i
    BY <2>1, <2>2, <2>3, <2>5, <2>6, GoroutineMoves
  <2>7. CASE j = i /\ step[j].at \in {"spawned", "running"}
    BY <2>1, <2>3, <2>5, <2>7, GoroutineMoves
  <2>8. CASE j = i /\ step[j].at = "attempt"
    <3>1. /\ step'[j].at \in {"failed", "running"} /\ attempts'[j] = attempts[j] + 1
          /\ step'[j].waits \in Slept(j) \cup {step[j].waits}
          /\ step'[j].at = "running" => step'[j].waits \in Slept(j)
      BY <2>1, <2>8, GoroutineMoves
    <3>2. CASE step'[j].waits = step[j].waits /\ attempts[j] = 0
      BY <2>3, <2>4, <2>5, <2>8, <3>1, <3>2
    <3>3. CASE step'[j].waits = step[j].waits /\ step'[j].at = "failed"
      BY <2>3, <2>5, <3>3
    <3>4. CASE step'[j].waits \in Slept(j) /\ attempts[j] # 0
      <4>1. PICK d \in Sleeps(PolicyOf(j), attempts[j] + 1) :
               step'[j].waits = Append(step[j].waits, d)
        BY <3>4 DEF Slept
      <4>2. Len(step[j].waits) = attempts[j] - 1  BY <2>5, <2>8, <3>4
      <4>3. /\ Len(step'[j].waits) = attempts[j]
            /\ \A k \in DOMAIN step'[j].waits :
                 \/ k \in DOMAIN step[j].waits /\ step'[j].waits[k] = step[j].waits[k]
                 \/ k = attempts[j] /\ step'[j].waits[k] = d
        BY <2>4, <4>1, <4>2
      <4>4. \A k \in DOMAIN step'[j].waits : step'[j].waits[k] \in Sleeps(PolicyOf(j), k + 1)
        BY <2>5, <4>1, <4>3
      <4>5. attempts'[j] # 0 /\ attempts'[j] - 1 = attempts[j]  BY <2>4, <3>1
      <4>6. QED  BY <2>3, <4>3, <4>4, <4>5
    <3>5. QED
      <4>1. attempts[j] = 0 => step'[j].waits = step[j].waits  BY <3>1 DEF Slept
      <4>2. QED  BY <3>1, <3>2, <3>3, <3>4, <4>1
  <2>9. QED  BY <2>1, <2>6, <2>7, <2>8, GoroutineMoves
<1>3. CASE UNCHANGED vars
  BY <1>3 DEF vars, Timely, PolicyOf, EnginePolicy, Sleeps, Delay
<1>4. QED
  BY <1>1, <1>2, <1>3, NextCases, PlanBegins DEF AdvanceBatch

(* policy.go:100-150: backing off never makes a step wait less than before *)
(* its previous attempt, whatever the back-off, for delays under a cap and *)
(* without jitter; PowersGrow is a fact of arithmetic the provers lack.    *)
THEOREM WaitsIncrease == ASSUME PowersGrow PROVE Spec => []WaitsGrow
<1>1. Init => Timely  BY DEF Init, Timely
<1>2. Core /\ Tracked /\ Timely /\ [Next]_vars => (Core /\ Tracked /\ Timely)'
  BY CoreNext, TrackedNext, TimelyNext
<1>3. ASSUME Core, Timely PROVE WaitsGrow
  <2> SUFFICES ASSUME pc = "batch", NEW i \in batch, NEW k \in 2 .. Len(step[i].waits),
                      ~PolicyOf(i).jitter, PolicyOf(i).maxDelay \in 1 .. Longest
               PROVE  step[i].waits[k - 1] <= step[i].waits[k]
    BY DEF WaitsGrow
  <2>1. step[i].waits \in Seq(Nat) /\ PolicyOf(i) \in Policy
    BY <1>3, StepFacts DEF StepState, Core
  <2>2. /\ k \in Nat /\ k >= 2 /\ k - 1 \in DOMAIN step[i].waits /\ k \in DOMAIN step[i].waits
        /\ (k - 1) + 1 = k
    BY <2>1
  <2>3. step[i].waits[k - 1] \in Sleeps(PolicyOf(i), (k - 1) + 1)
        /\ step[i].waits[k] \in Sleeps(PolicyOf(i), k + 1)
    BY <1>3, <2>2 DEF Timely
  <2>4. QED  BY <2>1, <2>2, <2>3, SleepsGrow, EngineAssumption
<1>4. QED  BY <1>1, <1>2, <1>3, CoreInit, AttemptsInit, PTL DEF Spec
-----------------------------------------------------------------------------
(* What is recorded of the attempts.                                       *)

(* What a goroutine adds to the rows is the attempt that ends.             *)
LEMMA RowsAdded ==
  ASSUME Core, NEW i \in batch, Goroutine(i)
  PROVE  /\ stepRows \subseteq stepRows'
         /\ \A r \in stepRows' : r \in stepRows \/
              /\ r.step = i /\ r.attempt = attempts'[i] /\ r.replan = replanCount
              /\ step'[i].at # "running"
<1>1. PICK status \in {"SUCCEEDED", "FAILED"} :
         stepRows' = stepRows \/ RecordStep(Attempted(i, attempts'[i], status))
  BY GoroutineRows
<1>2. stepRows \subseteq stepRows'
      /\ stepRows' \subseteq stepRows \cup {Attempted(i, attempts'[i], status)}
  BY <1>1 DEF RecordStep
<1>3. stepRows' # stepRows => step'[i].at # "running"
  <2>1. StartAgent(i) \/ Announce(i) \/ AttemptsExceeded(i) => stepRows' = stepRows
    BY DEF StartAgent, Announce, AttemptsExceeded
  <2>2. ASSUME AgentMissing(i) PROVE step'[i].at = "failed"
    <3>1. PICK w \in Slept(i) :
            step' = [step EXCEPT ![i].at = "failed", ![i].class = "agent", ![i].waits = w]
      BY <2>2 DEF AgentMissing
    <3>2. i \in DOMAIN step /\ step[i] \in StepState
      BY <2>2, GoroutineFrame, StepFacts DEF Core
    <3>3. QED  BY <3>1, <3>2 DEF StepState
  <2>3. AgentSucceeds(i) \/ AgentFails(i) => step[i].at = "running"
    BY DEF AgentSucceeds, AgentFails
  <2>4. step[i].at = "running" => step'[i].at # "running"
    BY GoroutineMoves
  <2>5. QED  BY <2>1, <2>2, <2>3, <2>4 DEF Goroutine
<1>4. \A r : r = Attempted(i, attempts'[i], status) =>
         r.step = i /\ r.attempt = attempts'[i] /\ r.replan = replanCount
  BY DEF Attempted
<1>5. QED  BY <1>2, <1>3, <1>4

(* Every attempt that ends leaves its row, and no step takes one away.     *)
LEMMA RecordedNext == Core /\ Core' /\ Recorded /\ [Next]_vars => Recorded'
<1> SUFFICES ASSUME Core, Core', Recorded, [Next]_vars PROVE Recorded'
  OBVIOUS
<1>1. replanCount \in Nat /\ replanCount' \in {replanCount, replanCount + 1}
  BY ConfigOK, HistoryKept DEF Core, TypeOK
<1>2. \A r \in stepRows : r.replan \in Nat  BY TypeParts DEF Core, CallType
<1>3. CASE pc' \notin {"loop", "batch"} /\ UNCHANGED stepRows
  BY <1>1, <1>2, <1>3 DEF Recorded
<1>4. CASE BuildDAG
  BY <1>4 DEF BuildDAG, Core, Stages, Recorded
<1>5. CASE StartBatch
  BY <1>5, BatchBegins DEF Recorded
<1>6. CASE AdvanceBatch
  BY <1>6 DEF AdvanceBatch, Joined, Recorded
<1>7. CASE Replan
  <2>1. PICK p \in ReplanAnswers : ReplanWith(p) /\ UNCHANGED stepRows
    BY <1>7 DEF Replan
  <2>2. replanCount' = replanCount + 1  BY <2>1 DEF ReplanWith
  <2>3. \A r \in stepRows : r.replan < replanCount' /\ r.replan <= replanCount'
    BY <1>1, <1>2, <2>2 DEF Recorded
  <2>4. \A r \in stepRows : r.replan # replanCount'  BY <1>1, <1>2, <2>3
  <2>5. QED  BY <2>1, <2>3, <2>4 DEF Recorded
<1>8. CASE \E i \in batch : Goroutine(i)
  <2>1. PICK i \in batch : Goroutine(i)  BY <1>8
  <2>2. /\ pc = "batch" /\ pc' = "batch"
        /\ UNCHANGED <<config, plan, batch, replanCount, completedSteps>>
        /\ batch \subseteq Nodes(plan)
    BY <2>1, GoroutineFrame, TypeParts DEF Core, BatchType
  <2>3. /\ attempts[i] \in Nat
        /\ attempts'[i] \in {attempts[i], attempts[i] + 1}
        /\ step'[i].at = "running" => attempts'[i] = attempts[i] + 1
        /\ \A j \in Nodes(plan) : j # i => step'[j] = step[j] /\ attempts'[j] = attempts[j]
    BY <2>1, <2>2, GoroutineMoves, StepFacts DEF Core
  <2>4. \A r \in stepRows : r.attempt \in Nat  BY TypeParts DEF Core, CallType
  <2> SUFFICES ASSUME NEW r \in stepRows'
               PROVE  /\ r.replan <= replanCount
                      /\ r.replan = replanCount =>
                           /\ r.step \in Nodes(plan) /\ r.attempt <= attempts'[r.step]
                           /\ r.step \in batch /\ step'[r.step].at = "running"
                                => r.attempt < attempts'[r.step]
    BY <2>2 DEF Recorded
  <2>5. CASE r \in stepRows
    <3>1. CASE r.step # i
      BY <2>2, <2>3, <2>5, <3>1 DEF Recorded
    <3>2. CASE r.step = i
      <4>1. r.replan <= replanCount /\ (r.replan = replanCount => r.attempt <= attempts[i])
        BY <2>2, <2>5, <3>2 DEF Recorded
      <4>2. QED  BY <2>1, <2>2, <2>3, <2>4, <2>5, <3>2, <4>1
    <3>3. QED  BY <3>1, <3>2
  <2>6. CASE r \notin stepRows
    <3>1. r.step = i /\ r.attempt = attempts'[i] /\ r.replan = replanCount
          /\ step'[i].at # "running"
      BY <2>1, <2>6, RowsAdded
    <3>2. QED  BY <1>1, <2>1, <2>2, <2>3, <3>1
  <2>7. QED  BY <2>5, <2>6
<1>9. CASE UNCHANGED vars
  BY <1>9 DEF vars, Recorded
<1>10. QED  BY <1>3, <1>4, <1>5, <1>6, <1>7, <1>8, <1>9, NextCases

(* An attempt that ends is recorded under its own key, as long as writes   *)
(* succeed, unless the key is taken; then an earlier plan has taken it.    *)
LEMMA AttemptsRecordedNext ==
  Core /\ Recorded /\ AttemptsRecorded /\ [Next]_vars => AttemptsRecorded'
<1> SUFFICES ASSUME Core, Recorded, AttemptsRecorded, [Next]_vars,
                    ~DbMayFail, Strategy # "none", NEW e \in ended'
             PROVE  \E r \in stepRows' : /\ r.step = e.step /\ r.attempt = e.attempt
                                         /\ r = e \/ r.replan < e.replan
  BY ConfigFixed DEF AttemptsRecorded, DbMayFail, Strategy
<1>1. CASE e \in ended
  <2>1. stepRows \subseteq stepRows'  BY RowsAdded, HistoryKept
  <2>2. QED  BY <1>1, <2>1 DEF AttemptsRecorded
<1>2. CASE e \notin ended
  <2>1. PICK i \in batch : Goroutine(i)  BY <1>2, HistoryKept
  <2>2. /\ pc = "batch" /\ i \in Nodes(plan) /\ replanCount \in Nat /\ attempts[i] \in Nat
        /\ \A r \in stepRows : r.replan \in Nat /\ r.attempt \in Nat
    <3>1. pc = "batch" /\ TypeOK  BY <2>1, GoroutineFrame DEF Core
    <3>2. i \in Nodes(plan) /\ attempts[i] \in Nat  BY <3>1, StepFacts
    <3>3. replanCount \in Nat  BY <3>1, ConfigOK DEF TypeOK
    <3>4. QED  BY <3>1, <3>2, <3>3, TypeParts DEF CallType
  <2>3. PICK status \in {"SUCCEEDED", "FAILED"} :
           /\ step[i].at = "running" /\ e = Attempted(i, attempts[i], status)
           /\ RecordStep(Attempted(i, attempts[i], status))
    <3>1. AgentSucceeds(i) \/ AgentFails(i)
      BY <1>2, <2>1 DEF Goroutine, Announce, AttemptsExceeded, StartAgent, AgentMissing
    <3>2. CASE AgentSucceeds(i)  BY <1>2, <3>2 DEF AgentSucceeds
    <3>3. CASE AgentFails(i)  BY <1>2, <3>3 DEF AgentFails
    <3>4. QED  BY <3>1, <3>2, <3>3
  <2>4. e.step = i /\ e.attempt = attempts[i] /\ e.replan = replanCount
    BY <2>3 DEF Attempted
  <2>5. CASE \E old \in stepRows : old.step = e.step /\ old.attempt = e.attempt
    <3>1. PICK old \in stepRows : old.step = e.step /\ old.attempt = e.attempt
      BY <2>5
    <3>2. old.replan <= replanCount /\ old.replan # replanCount
      BY <2>1, <2>2, <2>3, <2>4, <3>1 DEF Recorded
    <3>3. old.replan < e.replan  BY <2>2, <2>4, <3>1, <3>2
    <3>4. old \in stepRows'  BY <2>1, <3>1, RowsAdded
    <3>5. QED  BY <3>1, <3>3, <3>4
  <2>6. CASE ~\E old \in stepRows : old.step = e.step /\ old.attempt = e.attempt
    <3>1. stepRows' = stepRows \cup {e}  BY <2>3, <2>6 DEF RecordStep
    <3>2. QED  BY <3>1
  <2>7. QED  BY <2>5, <2>6
<1>3. QED  BY <1>1, <1>2

(* step_executor.go:258-307: with a database that does not fail and an     *)
(* engine that repairs, every attempt that has ended has its row with the  *)
(* status it ended with, or an earlier plan of the run holds its key.      *)
THEOREM AttemptsAreRecorded == Spec => []AttemptsRecorded
<1>1. Core /\ Recorded /\ AttemptsRecorded /\ [Next]_vars
        => (Core /\ Recorded /\ AttemptsRecorded)'
  BY CoreNext, RecordedNext, AttemptsRecordedNext
<1>2. QED  BY <1>1, CoreInit, AttemptsInit, PTL DEF Spec
=============================================================================
