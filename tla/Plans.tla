------------------------------- MODULE Plans -------------------------------
(***************************************************************************)
(* The plans of planner/planner.go as the scheduler of orchestrator/dag.go *)
(* reads them.  A plan is a sequence of steps                              *)
(*                                                                         *)
(*    [id |-> StepID, deps |-> the sequence DependsOn, agent |-> AgentID,  *)
(*     policy |-> RetryPolicy]                                             *)
(*                                                                         *)
(* Step i of the code (0-based) is node i + 1.  DependsOn is kept as a     *)
(* sequence because newDAGScheduler counts a dependency that is named      *)
(* twice twice: an edge of the graph is a position ("slot") of DependsOn.  *)
(***************************************************************************)
EXTENDS Integers, Sequences, FiniteSets

CONSTANTS
  StepName,     \* the StepIDs a plan may use, the dangling ones included
  NoStepID,     \* the empty StepID ""
  AgentName,    \* the agent ids a plan may name
  StepPolicy    \* the retry policies of its steps

PlanStep == [id : StepName \cup {NoStepID}, deps : Seq(StepName \cup {NoStepID}),
             agent : AgentName, policy : StepPolicy]

Nodes(plan) == 1 .. Len(plan)

(* Does any step use the DAG fields?  Otherwise the plan is sequential.    *)
HasDAG(plan) ==
  \E i \in Nodes(plan) : plan[i].id # NoStepID \/ plan[i].deps # <<>>

StepIDs(plan) == {plan[i].id : i \in Nodes(plan)}

MissingID(plan) == NoStepID \in StepIDs(plan)

DuplicateID(plan) ==
  \E i, j \in Nodes(plan) : i # j /\ plan[i].id = plan[j].id

UnknownDependency(plan) ==
  \E i \in Nodes(plan) : \E k \in DOMAIN plan[i].deps :
      plan[i].deps[k] \notin StepIDs(plan)

(* The early returns of newDAGScheduler before cycle detection.            *)
BuildError(plan) ==
  HasDAG(plan) /\ (MissingID(plan) \/ DuplicateID(plan) \/ UnknownDependency(plan))

(* The incoming edges of node i and the parent each of them comes from.    *)
Slots(plan, i) ==
  IF HasDAG(plan) THEN DOMAIN plan[i].deps ELSE IF i > 1 THEN {1} ELSE {}

ParentAt(plan, i, k) ==
  IF HasDAG(plan)
    THEN CHOOSE j \in Nodes(plan) : plan[j].id = plan[i].deps[k]
    ELSE i - 1

Parents(plan, i) == {ParentAt(plan, i, k) : k \in Slots(plan, i)}

(* The slots of i that are fed by p: how often i occurs in children[p].    *)
SlotsFrom(plan, p, i) == {k \in Slots(plan, i) : ParentAt(plan, i, k) = p}

(* Mutants of InDegrees: nodes without dependencies are forgotten; a       *)
(* repeated dependency is counted once.                                    *)
InDegreesOfChildren(plan) ==
  [i \in {c \in Nodes(plan) : Slots(plan, c) # {}} |-> Cardinality(Slots(plan, i))]
InDegreesOfParents(plan) ==
  [i \in Nodes(plan) |-> Cardinality(Parents(plan, i))]

(* dagNode.inDegree as newDAGScheduler leaves it.                          *)
InDegrees(plan) == [i \in Nodes(plan) |-> Cardinality(Slots(plan, i))]

(* The effect of one pass over children[p] on a table of in-degrees.       *)
Relax(plan, deg, p) ==
  [i \in DOMAIN deg |-> deg[i] - Cardinality(SlotsFrom(plan, p, i))]

(* Mutant of ReadySteps: one open dependency is overlooked.                *)
ReadyTooEarly(deg) == {i \in DOMAIN deg : deg[i] \in {0, 1}}

(* dagScheduler.ReadySteps and dagScheduler.MarkDone.                      *)
ReadySteps(deg) == {i \in DOMAIN deg : deg[i] = 0}

(* Mutants of MarkDone: it works on a copy; it decrements a child once     *)
(* however many of its dependencies are met.                               *)
MarkDoneOnCopy(plan, deg, p) == deg
MarkDoneOnce(plan, deg, p) ==
  [i \in DOMAIN deg |-> IF i = p THEN -1
                        ELSE IF SlotsFrom(plan, p, i) # {} THEN deg[i] - 1 ELSE deg[i]]

MarkDone(plan, deg, p) == Relax(plan, [deg EXCEPT ![p] = -1], p)

(* Mutant of MarkAllDone: the steps of the batch stay ready.               *)
RelaxAll(plan, deg, B) ==
  [i \in DOMAIN deg |->
     deg[i] - Cardinality({k \in Slots(plan, i) : ParentAt(plan, i, k) \in B})]

(* Marking a whole batch, none of whose steps waits for another of them.   *)
MarkAllDone(plan, deg, B) ==
  [i \in DOMAIN deg |->
     IF i \in B THEN -1
     ELSE deg[i] - Cardinality({k \in Slots(plan, i) : ParentAt(plan, i, k) \in B})]

(* A set of nodes as the sequence a loop over increasing indices visits.   *)
Ascending(S) ==
  {q \in [1 .. Cardinality(S) -> S] :
      /\ \A i \in S : \E a \in DOMAIN q : q[a] = i
      /\ \A a, b \in DOMAIN q : a < b => q[a] < q[b]}

(* The reference notion of a plan that can be executed: every nonempty set *)
(* of steps has a step that waits for none of the others.                  *)
Acyclic(plan) ==
  \A S \in SUBSET Nodes(plan) :
      S # {} => \E i \in S : Parents(plan, i) \cap S = {}

(* newDAGScheduler returns an error exactly for these plans: the module    *)
(* DagScheduler models the algorithm, and its proofs show the equivalence. *)
RejectedPlan(plan) == ~(~BuildError(plan) /\ Acyclic(plan))
=============================================================================
