---------------------------- MODULE DagScheduler ----------------------------
(***************************************************************************)
(* The scheduler of orchestrator/dag.go and the loop of Engine.Execute     *)
(* that drives it.                                                         *)
(*                                                                         *)
(* newDAGScheduler validates the plan, builds the in-degrees and runs      *)
(* Kahn's algorithm to reject a cyclic plan; the engine then repeats:      *)
(* take all ready steps as a batch, wait for all of them, mark each done   *)
(* in index order.  Here every step of a batch succeeds: what happens to   *)
(* a batch with a failure is the subject of the module Engine.             *)
(***************************************************************************)
EXTENDS Plans

CONSTANT PlanSet        \* the plans a planner may hand to the scheduler

ASSUME PlanSetAssumption == \A p \in PlanSet : p \in Seq(PlanStep)

VARIABLES
  plan,        \* the plan being scheduled
  phase,       \* "build", "kahn", "rejected", "run", "finished"
  tempDeg,     \* Kahn's copy of the in-degrees
  queue,       \* Kahn's queue
  popped,      \* the nodes Kahn has taken from the queue
  reachable,   \* ... and the counter the code keeps of them
  inDegree,    \* dagNode.inDegree, -1 once the step is done
  batch,       \* the steps of the current batch still to be marked done
  done         \* the steps marked done

vars == <<plan, phase, tempDeg, queue, popped, reachable, inDegree, batch, done>>
kahnVars == <<tempDeg, queue, popped, reachable>>
runVars  == <<inDegree, batch, done>>

Init ==
  /\ plan \in PlanSet
  /\ phase = "build"
  /\ tempDeg = [i \in Nodes(plan) |-> 0]
  /\ queue = <<>>
  /\ popped = {}
  /\ reachable = 0
  /\ inDegree = [i \in Nodes(plan) |-> 0]
  /\ batch = {}
  /\ done = {}

(* Empty and sequential plans are accepted as they are.                    *)
BuildSequential ==
  /\ phase = "build"
  /\ ~HasDAG(plan)
  /\ phase' = "run"
  /\ inDegree' = InDegrees(plan)
  /\ UNCHANGED <<plan, kahnVars, batch, done>>

(* A StepID is missing or duplicated, or a dependency is unknown.          *)
BuildFails ==
  /\ phase = "build"
  /\ BuildError(plan)
  /\ phase' = "rejected"
  /\ UNCHANGED <<plan, kahnVars, runVars>>

(* The graph is built and the roots are queued.                            *)
BuildGraph ==
  /\ phase = "build"
  /\ HasDAG(plan) /\ ~BuildError(plan)
  /\ phase' = "kahn"
  /\ inDegree' = InDegrees(plan)
  /\ tempDeg' = InDegrees(plan)
  /\ \E q \in Ascending(ReadySteps(InDegrees(plan))) : queue' = q
  /\ UNCHANGED <<plan, popped, reachable, batch, done>>

(* One round of Kahn's loop: pop a node, decrement its children, append    *)
(* each child whose degree reaches zero.                                   *)
KahnStep ==
  /\ phase = "kahn"
  /\ queue # <<>>
  /\ LET cur  == Head(queue)
         deg  == Relax(plan, tempDeg, cur)
         zero == {c \in Nodes(plan) : SlotsFrom(plan, cur, c) # {} /\ deg[c] = 0}
     IN /\ tempDeg' = deg
        /\ popped' = popped \cup {cur}
        /\ \E q \in Ascending(zero) : queue' = Tail(queue) \o q
  /\ reachable' = reachable + 1
  /\ UNCHANGED <<plan, phase, runVars>>

(* Mutant of KahnVerdict: some node was reached.                           *)
KahnVerdictAny ==
  /\ phase = "kahn"
  /\ queue = <<>>
  /\ phase' = IF reachable = 0 THEN "rejected" ELSE "run"
  /\ UNCHANGED <<plan, kahnVars, runVars>>

(* The queue is empty: the plan is accepted when every node was reached.   *)
KahnVerdict ==
  /\ phase = "kahn"
  /\ queue = <<>>
  /\ phase' = IF reachable # Len(plan) THEN "rejected" ELSE "run"
  /\ UNCHANGED <<plan, kahnVars, runVars>>

(* The engine takes all ready steps as the next batch ...                  *)
TakeBatch ==
  /\ phase = "run"
  /\ batch = {}
  /\ Cardinality(done) < Len(plan)
  /\ ReadySteps(inDegree) # {}
  /\ batch' = ReadySteps(inDegree)
  /\ UNCHANGED <<plan, phase, kahnVars, inDegree, done>>

(* ... and marks them done in index order once all of them have succeeded. *)
MarkBatchStep ==
  /\ phase = "run"
  /\ \E i \in batch :
       /\ \A j \in batch : i <= j
       /\ inDegree' = MarkDone(plan, inDegree, i)
       /\ done' = done \cup {i}
       /\ batch' = batch \ {i}
  /\ UNCHANGED <<plan, phase, kahnVars>>

(* The loop ends, when everything is done or by the break on an empty      *)
(* ready set.                                                              *)
Finish ==
  /\ phase = "run"
  /\ batch = {}
  /\ ~(Cardinality(done) < Len(plan)) \/ ReadySteps(inDegree) = {}
  /\ phase' = "finished"
  /\ UNCHANGED <<plan, kahnVars, runVars>>

Next ==
  \/ BuildSequential \/ BuildFails \/ BuildGraph
  \/ KahnStep \/ KahnVerdict
  \/ TakeBatch \/ MarkBatchStep \/ Finish

Spec == Init /\ [][Next]_vars

(* The scheduler is sequential code that nothing blocks.                   *)
FairSpec == Spec /\ WF_vars(Next)
-----------------------------------------------------------------------------
TypeOK ==
  /\ plan \in PlanSet
  /\ phase \in {"build", "kahn", "rejected", "run", "finished"}
  /\ tempDeg \in [Nodes(plan) -> Int]
  /\ queue \in Seq(Nodes(plan))
  /\ popped \in SUBSET Nodes(plan)
  /\ reachable \in Nat
  /\ inDegree \in [Nodes(plan) -> Int]
  /\ batch \in SUBSET Nodes(plan)
  /\ done \in SUBSET Nodes(plan)

(* newDAGScheduler accepts a plan only if it is well formed and acyclic,   *)
(* and rejects only the others: the count that Kahn's loop compares with   *)
(* the number of nodes decides acyclicity, repeated dependencies included. *)
VerdictCorrect ==
  /\ phase \in {"run", "finished"} => ~RejectedPlan(plan)
  /\ phase = "rejected" => RejectedPlan(plan)

(* While the plan runs, ReadySteps returns exactly the steps that are not  *)
(* done and whose dependencies all are: the counters that MarkDone         *)
(* decrements never drift from the graph.                                  *)
ReadyExact ==
  phase = "run" =>
    ReadySteps(inDegree) =
      {i \in Nodes(plan) : i \notin done /\ Parents(plan, i) \subseteq done}

(* The break of engine.go:232-235 that "should never happen" does not:     *)
(* the loop ends with every step of the plan done.                         *)
NeverStuck == phase = "finished" => done = Nodes(plan)

(* No step is done before the steps it depends on, and none is undone:     *)
(* also within a batch, no step of which depends on another one.           *)
DependencyOrder ==
  [][/\ done \subseteq done'
     /\ \A i \in done' \ done : Parents(plan, i) \subseteq done]_vars

(* Every plan is either rejected or run to its end.                        *)
Terminates == <>(phase \in {"rejected", "finished"})
=============================================================================
