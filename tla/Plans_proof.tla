---------------------------- MODULE Plans_proof ----------------------------
(***************************************************************************)
(* Facts about plans and the in-degrees the scheduler keeps, for every     *)
(* plan; the proofs about DagScheduler and about Engine rest on them.      *)
(***************************************************************************)
EXTENDS Plans, FiniteSetTheorems, SequenceTheorems, WellFoundedInduction, TLAPS

(* The slots of i whose parent is not in D.                                *)
Waiting(p, i, D) == {k \in Slots(p, i) : ParentAt(p, i, k) \notin D}
-----------------------------------------------------------------------------
(* Facts about plans.                                                      *)

(* A plan has finitely many nodes, and each node finitely many slots.      *)
LEMMA PlanShape ==
  ASSUME NEW p \in Seq(PlanStep)
  PROVE  /\ Len(p) \in Nat
         /\ IsFiniteSet(Nodes(p))
         /\ Cardinality(Nodes(p)) = Len(p)
         /\ \A i \in Nodes(p) :
              /\ p[i].id \in StepName \cup {NoStepID}
              /\ p[i].deps \in Seq(StepName \cup {NoStepID})
<1>1. Len(p) \in Nat  BY LenProperties
<1>2. IsFiniteSet(Nodes(p)) /\ Cardinality(Nodes(p)) = Len(p)
  BY <1>1, FS_Interval DEF Nodes
<1>3. \A i \in Nodes(p) : p[i] \in PlanStep
  BY ElementOfSeq DEF Nodes
<1>4. QED  BY <1>1, <1>2, <1>3 DEF PlanStep

(* The first n positions of a list are a finite set.                       *)
LEMMA InitialSegmentFinite == \A n \in Nat : IsFiniteSet(1 .. n)
BY FS_Interval

(* The incoming edges of a node are a finite set.                          *)
LEMMA SlotsFinite ==
  ASSUME NEW p \in Seq(PlanStep), NEW i \in Nodes(p)
  PROVE  IsFiniteSet(Slots(p, i))
<1>1. CASE HasDAG(p)
  <2>1. p[i].deps \in Seq(StepName \cup {NoStepID})  BY PlanShape
  <2>2. DOMAIN p[i].deps = 1 .. Len(p[i].deps) /\ Len(p[i].deps) \in Nat
    BY <2>1, LenProperties
  <2>3. IsFiniteSet(1 .. Len(p[i].deps))  BY <2>2, InitialSegmentFinite
  <2>4. Slots(p, i) = 1 .. Len(p[i].deps)  BY <1>1, <2>2 DEF Slots
  <2>5. QED  BY <2>3, <2>4
<1>2. CASE ~HasDAG(p)
  <2>1. Slots(p, i) = {} \/ Slots(p, i) = {1}  BY <1>2 DEF Slots
  <2>2. IsFiniteSet({}) /\ IsFiniteSet({1})  BY FS_Singleton, FS_EmptySet
  <2>3. QED  BY <2>1, <2>2
<1>3. QED  BY <1>1, <1>2

(* In a plan that is built, every slot is fed by a node of the plan.       *)
LEMMA ParentIsNode ==
  ASSUME NEW p \in Seq(PlanStep), ~BuildError(p),
         NEW i \in Nodes(p), NEW k \in Slots(p, i)
  PROVE  ParentAt(p, i, k) \in Nodes(p)
<1>1. CASE HasDAG(p)
  <2>1. k \in DOMAIN p[i].deps  BY <1>1 DEF Slots
  <2>2. p[i].deps[k] \in StepIDs(p)
    BY <1>1, <2>1 DEF BuildError, UnknownDependency
  <2>3. \E j \in Nodes(p) : p[j].id = p[i].deps[k]
    BY <2>2 DEF StepIDs
  <2>4. QED  BY <1>1, <2>3 DEF ParentAt
<1>2. CASE ~HasDAG(p)
  <2>1. i > 1  BY <1>2 DEF Slots
  <2>2. Len(p) \in Nat /\ i \in 1 .. Len(p)  BY PlanShape DEF Nodes
  <2>3. QED  BY <1>2, <2>1, <2>2 DEF ParentAt, Nodes
<1>3. QED  BY <1>1, <1>2

(* Nothing is waited for when every parent is in D, and conversely.        *)
LEMMA WaitingZero ==
  ASSUME NEW p \in Seq(PlanStep), NEW i \in Nodes(p), NEW D
  PROVE  /\ Cardinality(Waiting(p, i, D)) \in Nat
         /\ Cardinality(Waiting(p, i, D)) = 0 <=> Parents(p, i) \subseteq D
<1>1. IsFiniteSet(Waiting(p, i, D))
  BY SlotsFinite, FS_Subset DEF Waiting
<1>2. Waiting(p, i, D) = {} <=> Parents(p, i) \subseteq D
  BY DEF Waiting, Parents
<1>3. QED  BY <1>1, <1>2, FS_CardinalityType, FS_EmptySet

(* The count that Relax subtracts is the count by which waiting drops,     *)
(* however often the same parent is named.                                 *)
LEMMA WaitingStep ==
  ASSUME NEW p \in Seq(PlanStep), NEW i \in Nodes(p), NEW D, NEW n, n \notin D
  PROVE  /\ Cardinality(SlotsFrom(p, n, i)) \in Nat
         /\ Cardinality(Waiting(p, i, D \cup {n})) =
              Cardinality(Waiting(p, i, D)) - Cardinality(SlotsFrom(p, n, i))
<1> DEFINE A == Waiting(p, i, D \cup {n})
           B == SlotsFrom(p, n, i)
<1>1. IsFiniteSet(A) /\ IsFiniteSet(B)
  BY SlotsFinite, FS_Subset DEF Waiting, SlotsFrom
<1>2. A \cap B = {} /\ A \cup B = Waiting(p, i, D)
  BY DEF Waiting, SlotsFrom
<1>3. /\ Cardinality(A) \in Nat /\ Cardinality(B) \in Nat
      /\ Cardinality(A \cup B) = Cardinality(A) + Cardinality(B) - Cardinality(A \cap B)
  BY <1>1, FS_CardinalityType, FS_Union
<1>4. Cardinality(A \cap B) = 0  BY <1>2, FS_EmptySet
<1> HIDE DEF A, B
<1>5. Cardinality(Waiting(p, i, D)) = Cardinality(A \cup B)
  BY <1>2, Zenon
<1>6. Cardinality(A) = Cardinality(Waiting(p, i, D)) - Cardinality(B)
  BY <1>3, <1>4, <1>5
<1>7. QED  BY <1>3, <1>6 DEF A, B

(* newDAGScheduler leaves in each node the number of its incoming edges,   *)
(* that is, of the edges whose parent is not yet in the empty set.         *)
LEMMA InDegreesWaiting ==
  ASSUME NEW p \in Seq(PlanStep), NEW i \in Nodes(p)
  PROVE  InDegrees(p)[i] = Cardinality(Waiting(p, i, {}))
<1>1. Waiting(p, i, {}) = Slots(p, i)  BY DEF Waiting
<1>2. QED  BY <1>1 DEF InDegrees

(* The in-degrees are a table of natural numbers over the nodes.           *)
LEMMA InDegreesType ==
  ASSUME NEW p \in Seq(PlanStep)
  PROVE  InDegrees(p) \in [Nodes(p) -> Int]
<1>1. \A i \in Nodes(p) : Cardinality(Slots(p, i)) \in Nat
  BY SlotsFinite, FS_CardinalityType
<1>2. QED  BY <1>1 DEF InDegrees

(* Decrementing the children of a node keeps the table an integer table.   *)
LEMMA RelaxType ==
  ASSUME NEW p \in Seq(PlanStep), NEW deg \in [Nodes(p) -> Int], NEW n
  PROVE  Relax(p, deg, n) \in [Nodes(p) -> Int]
<1>1. \A i \in Nodes(p) : Cardinality(SlotsFrom(p, n, i)) \in Nat
  BY SlotsFinite, FS_Subset, FS_CardinalityType DEF SlotsFrom
<1>2. QED  BY <1>1 DEF Relax

(* The sequential fallback is acyclic: each set of steps has a first one.  *)
LEMMA SequentialAcyclic ==
  ASSUME NEW p \in Seq(PlanStep), ~HasDAG(p)
  PROVE  ~RejectedPlan(p)
<1>1. ~BuildError(p)  BY DEF BuildError
<1>2. ASSUME NEW S \in SUBSET Nodes(p), S # {}
      PROVE  \E i \in S : Parents(p, i) \cap S = {}
  <2>1. S \subseteq Nat  BY PlanShape DEF Nodes
  <2>2. PICK i \in S : \A j \in S : ~(<<j, i>> \in OpToRel(<, Nat))
    BY <1>2, <2>1, WFMin, NatLessThanWellFounded
  <2>3. \A j \in S : ~(j < i)  BY <2>1, <2>2 DEF OpToRel
  <2>4. \A q \in Parents(p, i) : q = i - 1  BY DEF Parents, ParentAt
  <2>5. QED  BY <2>1, <2>3, <2>4
<1>3. QED  BY <1>1, <1>2 DEF RejectedPlan, Acyclic

(* The sequence a loop appends holds each member of the set exactly once.  *)
LEMMA AscendingSeq ==
  ASSUME NEW S, IsFiniteSet(S), S \subseteq Nat, NEW q \in Ascending(S)
  PROVE  /\ q \in Seq(S)
         /\ \A i \in S : \E a \in DOMAIN q : q[a] = i
         /\ \A a, b \in DOMAIN q : q[a] = q[b] => a = b
<1>1. Cardinality(S) \in Nat  BY FS_CardinalityType
<1>2. /\ q \in [1 .. Cardinality(S) -> S]
      /\ \A i \in S : \E a \in DOMAIN q : q[a] = i
      /\ \A a, b \in DOMAIN q : a < b => q[a] < q[b]
  BY DEF Ascending
<1>3. q \in Seq(S)  BY <1>1, <1>2
<1>4. \A a, b \in DOMAIN q : q[a] = q[b] => a = b
  <2> SUFFICES ASSUME NEW a \in DOMAIN q, NEW b \in DOMAIN q, q[a] = q[b], a # b
               PROVE FALSE
    OBVIOUS
  <2>0. a \in 1 .. Cardinality(S) /\ b \in 1 .. Cardinality(S)  BY <1>2
  <2>1. a \in Int /\ b \in Int  BY <1>1, <2>0
  <2>2. q[a] \in S /\ q[b] \in S  BY <1>2, <2>0
  <2>3. a \in Int /\ b \in Int /\ q[a] \in Nat /\ q[b] \in Nat
    BY <2>1, <2>2
  <2>4. a < b \/ b < a  BY <2>3
  <2>5. q[a] < q[b] \/ q[b] < q[a]  BY <1>2, <2>4
  <2>6. QED  BY <2>3, <2>5
<1>5. QED  BY <1>2, <1>3, <1>4

(* Two sets without a common member are counted apart.                     *)
LEMMA DisjointUnion ==
  ASSUME NEW A, NEW B, IsFiniteSet(A), IsFiniteSet(B), A \cap B = {}
  PROVE  /\ Cardinality(A \cup B) = Cardinality(A) + Cardinality(B)
         /\ Cardinality(A) \in Nat /\ Cardinality(B) \in Nat
<1>1. Cardinality(A) \in Nat /\ Cardinality(B) \in Nat  BY FS_CardinalityType
<1>2. Cardinality(A \cap B) = 0  BY FS_EmptySet
<1>3. Cardinality(A \cup B) = Cardinality(A) + Cardinality(B) - Cardinality(A \cap B)
  BY FS_Union
<1>4. QED  BY <1>1, <1>2, <1>3

(* The in-degrees of the plan p once the steps of D are done.              *)
Exact(p, deg, D) ==
  \A i \in Nodes(p) :
    deg[i] = IF i \in D THEN -1 ELSE Cardinality(Waiting(p, i, D))

(* The counters of a fresh scheduler are exact: nothing is done.           *)
LEMMA InDegreesExact ==
  ASSUME NEW p \in Seq(PlanStep)
  PROVE  Exact(p, InDegrees(p), {})
BY InDegreesWaiting DEF Exact

(* With exact counters the ready steps are those not done whose            *)
(* dependencies are.                                                       *)
LEMMA ReadyWhenExact ==
  ASSUME NEW p \in Seq(PlanStep), NEW deg \in [Nodes(p) -> Int], NEW D,
         Exact(p, deg, D)
  PROVE  ReadySteps(deg) = {i \in Nodes(p) : i \notin D /\ Parents(p, i) \subseteq D}
<1>1. \A i \in Nodes(p) : deg[i] = 0 <=> i \notin D /\ Parents(p, i) \subseteq D
  BY WaitingZero DEF Exact
<1>2. QED  BY <1>1 DEF ReadySteps

(* Marking the steps of a batch keeps the counters exact.                  *)
LEMMA MarkAllDoneExact ==
  ASSUME NEW p \in Seq(PlanStep), NEW deg \in [Nodes(p) -> Int],
         NEW D, NEW B, Exact(p, deg, D), B \cap D = {},
         \A i \in D \cap Nodes(p) : Parents(p, i) \subseteq D
  PROVE  /\ MarkAllDone(p, deg, B) \in [Nodes(p) -> Int]
         /\ Exact(p, MarkAllDone(p, deg, B), D \cup B)
<1> DEFINE new == MarkAllDone(p, deg, B)
           From(i) == {k \in Slots(p, i) : ParentAt(p, i, k) \in B}
<1>1. new = [i \in Nodes(p) |-> IF i \in B THEN -1 ELSE deg[i] - Cardinality(From(i))]
  BY DEF MarkAllDone
<1>2. \A i \in Nodes(p) : IsFiniteSet(From(i)) /\ Cardinality(From(i)) \in Nat
  BY SlotsFinite, FS_Subset, FS_CardinalityType
<1>3. ASSUME NEW i \in Nodes(p), i \in D
      PROVE  new[i] = -1
  <2>1. From(i) = {}  BY <1>3 DEF Parents
  <2>2. i \notin B /\ deg[i] = -1  BY <1>3 DEF Exact
  <2>3. QED  BY <1>1, <2>1, <2>2, FS_EmptySet
<1>4. ASSUME NEW i \in Nodes(p), i \notin D, i \notin B
      PROVE  new[i] = Cardinality(Waiting(p, i, D \cup B))
  <2> DEFINE A == Waiting(p, i, D \cup B)
  <2>1. IsFiniteSet(A)  BY SlotsFinite, FS_Subset DEF Waiting
  <2>2. Waiting(p, i, D) = A \cup From(i) /\ A \cap From(i) = {}
    BY DEF Waiting
  <2>3. deg[i] = Cardinality(A \cup From(i))  BY <1>4, <2>2 DEF Exact
  <2>4. new[i] = deg[i] - Cardinality(From(i))  BY <1>1, <1>4
  <2> HIDE DEF new, From, A
  <2>5. /\ Cardinality(A \cup From(i)) = Cardinality(A) + Cardinality(From(i))
        /\ Cardinality(A) \in Nat
    BY <1>2, <2>1, <2>2, DisjointUnion
  <2>6. new[i] = Cardinality(A)  BY <1>2, <2>3, <2>4, <2>5
  <2>7. QED  BY <2>6 DEF A
<1>5. new \in [Nodes(p) -> Int]
  <2> HIDE DEF From
  <2>1. \A i \in Nodes(p) : deg[i] - Cardinality(From(i)) \in Int  BY <1>2
  <2>2. QED  BY <1>1, <2>1
<1>6. \A i \in Nodes(p) :
         new[i] = IF i \in D \cup B THEN -1 ELSE Cardinality(Waiting(p, i, D \cup B))
  BY <1>1, <1>3, <1>4
<1>7. QED  BY <1>5, <1>6 DEF Exact

(* The loop over an accepted plan does not end before all steps are done:  *)
(* neither are all counted when some are missing, nor is none ready.       *)
LEMMA LoopEndsComplete ==
  ASSUME NEW p \in Seq(PlanStep), ~RejectedPlan(p),
         NEW deg \in [Nodes(p) -> Int], NEW D \in SUBSET Nodes(p),
         Exact(p, deg, D),
         ~(Cardinality(D) < Len(p)) \/ ReadySteps(deg) = {}
  PROVE  D = Nodes(p)
<1> DEFINE N == Nodes(p)
<1>1. CASE ~(Cardinality(D) < Len(p))
  <2>1. /\ IsFiniteSet(N) /\ Cardinality(N) = Len(p) /\ Len(p) \in Nat
        /\ Cardinality(D) <= Len(p)
    BY PlanShape, FS_Subset
  <2>2. Cardinality(D) \in Nat  BY <2>1, FS_Subset, FS_CardinalityType
  <2>3. Cardinality(D) = Cardinality(N)  BY <1>1, <2>1, <2>2
  <2>4. QED  BY <2>1, <2>3, FS_Subset
<1>2. CASE ReadySteps(deg) = {}
  <2>1. /\ {i \in N : i \notin D /\ Parents(p, i) \subseteq D} = {}
        /\ Acyclic(p) /\ ~BuildError(p)
    BY <1>2, ReadyWhenExact DEF RejectedPlan
  <2>2. \A i \in N : Parents(p, i) \subseteq N
    BY <2>1, ParentIsNode DEF Parents
  <2>3. \A i \in N \ D : Parents(p, i) \cap (N \ D) # {}
    BY <2>1, <2>2
  <2>4. N \ D = {}  BY <2>1, <2>3 DEF Acyclic
  <2>5. QED  BY <2>4
<1>3. QED  BY <1>1, <1>2

(* MarkAllDone is what the engine's loop of MarkDone calls computes, from  *)
(* nothing marked and one step of the batch after the other, in any order, *)
(* because no step of a batch waits for another one of it.                 *)
THEOREM MarkedStepByStep ==
  ASSUME NEW p \in Seq(PlanStep), NEW deg \in [Nodes(p) -> Int],
         NEW B, NEW n \in Nodes(p), n \notin B,
         \A i \in B \cup {n} : Parents(p, i) \cap (B \cup {n}) = {}
  PROVE  /\ MarkAllDone(p, deg, {}) = deg
         /\ MarkDone(p, MarkAllDone(p, deg, B), n) = MarkAllDone(p, deg, B \cup {n})
<1> DEFINE From(i, C) == {k \in Slots(p, i) : ParentAt(p, i, k) \in C}
           old == MarkAllDone(p, deg, B)
           one == MarkDone(p, old, n)
           all == MarkAllDone(p, deg, B \cup {n})
<1>1. \A C : MarkAllDone(p, deg, C) =
         [i \in Nodes(p) |-> IF i \in C THEN -1 ELSE deg[i] - Cardinality(From(i, C))]
  BY DEF MarkAllDone
<1>2. one = [i \in Nodes(p) |->
               (IF i = n THEN -1 ELSE old[i]) - Cardinality(From(i, {n}))]
  <2>1. \A i : SlotsFrom(p, n, i) = From(i, {n})  BY DEF SlotsFrom
  <2>2. DOMAIN old = Nodes(p)  BY <1>1
  <2> HIDE DEF From, old
  <2>3. QED  BY <2>1, <2>2 DEF MarkDone, Relax
<1>3. \A C : \A i \in Nodes(p) : IsFiniteSet(From(i, C)) /\ Cardinality(From(i, C)) \in Nat
  BY SlotsFinite, FS_Subset, FS_CardinalityType
<1>4. MarkAllDone(p, deg, {}) = deg
  <2>1. \A i : From(i, {}) = {}  OBVIOUS
  <2> HIDE DEF From
  <2>2. \A i : Cardinality(From(i, {})) = 0  BY <2>1, FS_EmptySet, Zenon
  <2>3. \A i \in Nodes(p) : deg[i] - Cardinality(From(i, {})) = deg[i]
    BY <2>2
  <2>4. QED  BY <1>1, <2>3
<1>5. ASSUME NEW i \in Nodes(p)
      PROVE  one[i] = all[i]
  <2>1. CASE i \in B \cup {n}
    <3>1. From(i, {n}) = {}  BY <2>1 DEF Parents
    <3>2. Cardinality(From(i, {n})) = 0  BY <3>1, FS_EmptySet
    <3>3. old[i] = -1 \/ i = n  BY <1>1, <2>1
    <3>4. all[i] = -1  BY <1>1, <2>1
    <3> HIDE DEF From, old, one, all
    <3>5. QED  BY <1>2, <3>2, <3>3, <3>4
  <2>2. CASE i \notin B \cup {n}
    <3>1. From(i, B \cup {n}) = From(i, B) \cup From(i, {n})
      OBVIOUS
    <3>2. From(i, B) \cap From(i, {n}) = {}  OBVIOUS
    <3>3. old[i] = deg[i] - Cardinality(From(i, B))  BY <1>1, <2>2
    <3>4. all[i] = deg[i] - Cardinality(From(i, B \cup {n}))  BY <1>1, <2>2
    <3> HIDE DEF From, old, one, all
    <3>5. Cardinality(From(i, B \cup {n})) =
            Cardinality(From(i, B)) + Cardinality(From(i, {n}))
      BY <1>3, <3>1, <3>2, DisjointUnion
    <3>6. one[i] = old[i] - Cardinality(From(i, {n}))  BY <1>2, <2>2
    <3>7. /\ Cardinality(From(i, B)) \in Nat /\ Cardinality(From(i, {n})) \in Nat
          /\ deg[i] \in Int
      BY <1>3
    <3>8. QED  BY <3>3, <3>4, <3>5, <3>6, <3>7
  <2>3. QED  BY <2>1, <2>2
<1>6. one = all
  <2>1. all = [i \in Nodes(p) |-> all[i]] /\ one = [i \in Nodes(p) |-> one[i]]
    <3>1. all = [i \in Nodes(p) |-> IF i \in B \cup {n} THEN -1
                                   ELSE deg[i] - Cardinality(From(i, B \cup {n}))]
      BY <1>1
    <3> HIDE DEF From, old, one, all
    <3>2. QED  BY <1>2, <3>1
  <2> HIDE DEF From, old, one, all
  <2>2. QED  BY <1>5, <2>1
<1>7. QED  BY <1>4, <1>6
=============================================================================
