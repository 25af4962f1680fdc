------------------------ MODULE DagScheduler_proof ------------------------
(***************************************************************************)
(* Proofs about DagScheduler, for every set of plans: Kahn's loop accepts  *)
(* exactly the acyclic plans, the ready set is exact, dependencies are     *)
(* respected and the engine's loop never ends early.                       *)
(***************************************************************************)
EXTENDS DagScheduler, Plans_proof

-----------------------------------------------------------------------------
(* The inductive invariant.                                                *)

InQueue(i) == \E a \in DOMAIN queue : queue[a] = i

KahnInv ==
  phase = "kahn" =>
    /\ HasDAG(plan) /\ ~BuildError(plan)
    /\ inDegree = InDegrees(plan)
    /\ \A i \in Nodes(plan) : tempDeg[i] = Cardinality(Waiting(plan, i, popped))
    /\ \A i \in Nodes(plan) : tempDeg[i] = 0 <=> i \in popped \/ InQueue(i)
    /\ \A a \in DOMAIN queue : queue[a] \notin popped
    /\ \A a, b \in DOMAIN queue : queue[a] = queue[b] => a = b
    /\ reachable = Cardinality(popped)
    /\ \A S \in SUBSET Nodes(plan) : S \cap popped # {} =>
          \E i \in S : Parents(plan, i) \cap S = {}

RunInv ==
  phase \in {"run", "finished"} =>
    /\ ~RejectedPlan(plan)
    /\ \A i \in Nodes(plan) :
         inDegree[i] = IF i \in done THEN -1
                       ELSE Cardinality(Waiting(plan, i, done))
    /\ \A i \in done : Parents(plan, i) \subseteq done
    /\ \A i \in batch : i \notin done /\ Parents(plan, i) \subseteq done

IdleInv == phase \in {"build", "kahn", "rejected"} => batch = {} /\ done = {}

BuildInv == phase = "build" => popped = {} /\ reachable = 0

RejectInv == phase = "rejected" => RejectedPlan(plan)

Inv ==
  /\ TypeOK /\ KahnInv /\ RunInv /\ IdleInv /\ BuildInv /\ RejectInv
  /\ NeverStuck
-----------------------------------------------------------------------------
(* A fact about queues.                                                    *)

(* Popping the head of a duplicate-free queue and appending a disjoint     *)
(* duplicate-free sequence.                                                *)
LEMMA PopAndAppend ==
  ASSUME NEW N, NEW s \in Seq(N), s # <<>>, NEW q \in Seq(N),
         \A a, b \in DOMAIN s : s[a] = s[b] => a = b,
         \A a, b \in DOMAIN q : q[a] = q[b] => a = b,
         \A a \in DOMAIN s, b \in DOMAIN q : s[a] # q[b]
  PROVE  LET t == Tail(s) \o q
         IN  /\ t \in Seq(N)
             /\ Head(s) = s[1] /\ 1 \in DOMAIN s
             /\ \A i \in N : (\E a \in DOMAIN t : t[a] = i) <=>
                  \/ i # Head(s) /\ \E a \in DOMAIN s : s[a] = i
                  \/ \E a \in DOMAIN q : q[a] = i
             /\ \A a, b \in DOMAIN t : t[a] = t[b] => a = b
<1> DEFINE t == Tail(s) \o q
           m == Len(s) - 1
<1>1. /\ Len(s) \in Nat /\ DOMAIN s = 1 .. Len(s)
      /\ Len(q) \in Nat /\ DOMAIN q = 1 .. Len(q)
  BY LenProperties
<1>2. Len(s) \in Nat \ {0}  BY EmptySeq
<1>3. /\ Tail(s) \in Seq(N) /\ Len(Tail(s)) = m
      /\ \A i \in 1 .. m : Tail(s)[i] = s[i + 1]
  BY HeadTailProperties
<1>4. Head(s) = s[1] /\ 1 \in DOMAIN s  BY <1>1, <1>2
<1>5. /\ t \in Seq(N) /\ Len(t) = m + Len(q)
      /\ \A i \in 1 .. m + Len(q) : t[i] = IF i <= m THEN Tail(s)[i] ELSE q[i - m]
  BY <1>3, ConcatProperties
<1>6. DOMAIN t = 1 .. m + Len(q)  BY <1>5, LenProperties
<1>7. m \in Nat  BY <1>2
<1>8. \A i \in 1 .. m : t[i] = s[i + 1] /\ i + 1 \in DOMAIN s /\ i \in DOMAIN t
  BY <1>1, <1>3, <1>5, <1>6, <1>7
<1>9. \A i \in m + 1 .. m + Len(q) : t[i] = q[i - m] /\ i - m \in DOMAIN q
  BY <1>1, <1>5, <1>7
<1>10. \A i \in DOMAIN q : i + m \in DOMAIN t /\ t[i + m] = q[i]
  <2> SUFFICES ASSUME NEW i \in DOMAIN q
               PROVE  i + m \in DOMAIN t /\ t[i + m] = q[i]
    OBVIOUS
  <2>1. i \in 1 .. Len(q)  BY <1>1
  <2>2. i + m \in m + 1 .. m + Len(q) /\ (i + m) - m = i
    BY <1>1, <1>7, <2>1
  <2>3. QED  BY <1>1, <1>6, <1>7, <1>9, <2>1, <2>2
<1>11. \A i \in DOMAIN t : i \in 1 .. m \/ i \in m + 1 .. m + Len(q)
  BY <1>1, <1>6, <1>7
<1> HIDE DEF t, m
<1>12. ASSUME NEW i \in N
       PROVE (\E a \in DOMAIN t : t[a] = i) <=>
                  \/ i # Head(s) /\ \E a \in DOMAIN s : s[a] = i
                  \/ \E a \in DOMAIN q : q[a] = i
  <2>1. ASSUME NEW a \in DOMAIN t, t[a] = i
        PROVE  \/ i # Head(s) /\ \E b \in DOMAIN s : s[b] = i
               \/ \E b \in DOMAIN q : q[b] = i
    <3>1. CASE a \in 1 .. m
      <4>1. a + 1 # 1  BY <1>7, <3>1
      <4>2. t[a] = s[a + 1] /\ a + 1 \in DOMAIN s  BY <1>8, <3>1
      <4>3. QED  BY <1>4, <2>1, <4>1, <4>2
    <3>2. CASE a \in m + 1 .. m + Len(q)
      BY <1>9, <2>1, <3>2
    <3>3. QED  BY <1>11, <3>1, <3>2
  <2>2. ASSUME NEW a \in DOMAIN s, s[a] = i, i # Head(s)
        PROVE  \E b \in DOMAIN t : t[b] = i
    <3>1. a # 1 /\ a \in 1 .. Len(s)  BY <1>1, <1>4, <2>2
    <3>2. a - 1 \in 1 .. m /\ (a - 1) + 1 = a  BY <1>1, <3>1 DEF m
    <3>3. QED  BY <1>8, <2>2, <3>2
  <2>3. ASSUME NEW a \in DOMAIN q, q[a] = i
        PROVE  \E b \in DOMAIN t : t[b] = i
    BY <1>10, <2>3
  <2>4. QED  BY <2>1, <2>2, <2>3
<1>13. ASSUME NEW a \in DOMAIN t, NEW b \in DOMAIN t, t[a] = t[b]
       PROVE  a = b
  <2>1. CASE a \in 1 .. m /\ b \in 1 .. m
    <3>1. s[a + 1] = s[b + 1] /\ a + 1 \in DOMAIN s /\ b + 1 \in DOMAIN s
      BY <1>8, <1>13, <2>1
    <3>2. a + 1 = b + 1  BY <3>1
    <3>3. QED  BY <1>7, <2>1, <3>2
  <2>2. CASE a \in m + 1 .. m + Len(q) /\ b \in m + 1 .. m + Len(q)
    <3>1. q[a - m] = q[b - m] /\ a - m \in DOMAIN q /\ b - m \in DOMAIN q
      BY <1>9, <1>13, <2>2
    <3>2. a - m = b - m  BY <3>1
    <3>3. QED  BY <1>1, <1>7, <2>2, <3>2
  <2>3. CASE a \in 1 .. m /\ b \in m + 1 .. m + Len(q)
    BY <1>8, <1>9, <1>13, <2>3
  <2>4. CASE a \in m + 1 .. m + Len(q) /\ b \in 1 .. m
    BY <1>8, <1>9, <1>13, <2>4
  <2>5. QED  BY <1>11, <2>1, <2>2, <2>3, <2>4
<1>14. QED  BY <1>4, <1>5, <1>12, <1>13 DEF t

(* The plans under test are sequences of steps.                            *)
LEMMA PlanInSeq == plan \in PlanSet => plan \in Seq(PlanStep)
BY PlanSetAssumption

-----------------------------------------------------------------------------
(* The invariant holds initially and is preserved by each action.          *)

(* Initially nothing is built, queued or done.                             *)
LEMMA InitInv == Init => Inv
<1> SUFFICES ASSUME Init PROVE Inv  OBVIOUS
<1> USE DEF Init
<1>1. TypeOK
  <2>1. queue \in Seq(Nodes(plan))  BY EmptySeq
  <2>2. QED  BY <2>1 DEF TypeOK
<1>2. KahnInv /\ RunInv /\ IdleInv /\ BuildInv /\ RejectInv /\ NeverStuck
  BY DEF KahnInv, RunInv, IdleInv, BuildInv, RejectInv, NeverStuck
<1>3. QED  BY <1>1, <1>2 DEF Inv

(* A sequential plan is acyclic, and its counters are the waiting edges.   *)
LEMMA BuildSequentialInv == Inv /\ BuildSequential => Inv'
<1> SUFFICES ASSUME Inv, BuildSequential PROVE Inv'  OBVIOUS
<1> USE DEF BuildSequential
<1>1. plan \in Seq(PlanStep)  BY PlanInSeq DEF Inv, TypeOK
<1>2. batch = {} /\ done = {}  BY DEF Inv, IdleInv
<1>3. TypeOK'
  BY <1>1, InDegreesType DEF Inv, TypeOK, kahnVars
<1>4. ~RejectedPlan(plan)  BY <1>1, SequentialAcyclic
<1>5. RunInv'
  BY <1>1, <1>2, <1>4, InDegreesWaiting DEF RunInv
<1>6. KahnInv' /\ IdleInv' /\ BuildInv' /\ RejectInv' /\ NeverStuck'
  BY DEF KahnInv, IdleInv, BuildInv, RejectInv, NeverStuck
<1>7. QED  BY <1>3, <1>5, <1>6 DEF Inv

(* The early returns reject only malformed plans.                          *)
LEMMA BuildFailsInv == Inv /\ BuildFails => Inv'
<1> SUFFICES ASSUME Inv, BuildFails PROVE Inv'  OBVIOUS
<1> USE DEF BuildFails
<1>1. TypeOK'  BY DEF Inv, TypeOK, kahnVars, runVars
<1>2. KahnInv' /\ RunInv' /\ BuildInv' /\ NeverStuck'
  BY DEF KahnInv, RunInv, BuildInv, NeverStuck
<1>3. RejectInv'  BY DEF RejectInv, RejectedPlan
<1>4. IdleInv'  BY DEF Inv, IdleInv, runVars
<1>5. QED  BY <1>1, <1>2, <1>3, <1>4 DEF Inv

(* Kahn's queue starts with exactly the nodes that wait for nothing.       *)
LEMMA BuildGraphInv == Inv /\ BuildGraph => Inv'
<1> SUFFICES ASSUME Inv, BuildGraph PROVE Inv'  OBVIOUS
<1> USE DEF BuildGraph
<1>1. plan \in Seq(PlanStep)  BY PlanInSeq DEF Inv, TypeOK
<1> DEFINE roots == ReadySteps(InDegrees(plan))
<1>2. popped = {} /\ reachable = 0 /\ batch = {} /\ done = {}
  BY DEF Inv, IdleInv, BuildInv
<1>3. roots = {i \in Nodes(plan) : InDegrees(plan)[i] = 0}
  BY DEF ReadySteps, InDegrees
<1>4. roots \subseteq Nodes(plan) /\ roots \subseteq Nat /\ IsFiniteSet(roots)
  BY <1>1, <1>3, PlanShape, FS_Subset DEF Nodes
<1>5. queue' \in Ascending(roots)  OBVIOUS
<1> HIDE DEF roots
<1>6. /\ queue' \in Seq(roots)
      /\ \A i \in roots : \E a \in DOMAIN queue' : queue'[a] = i
      /\ \A a, b \in DOMAIN queue' : queue'[a] = queue'[b] => a = b
  BY <1>4, <1>5, AscendingSeq
<1>7. queue' \in Seq(Nodes(plan)) /\ \A a \in DOMAIN queue' : queue'[a] \in roots
  <2>1. queue' \in Seq(Nodes(plan))  BY <1>4, <1>6, SeqMonotonic
  <2>2. queue' \in [1 .. Len(queue') -> roots]  BY <1>6, LenProperties
  <2>3. QED  BY <2>1, <2>2
<1>8. TypeOK'
  BY <1>1, <1>7, InDegreesType DEF Inv, TypeOK
<1>9. KahnInv'
  <2>1. \A i \in Nodes(plan) : tempDeg'[i] = Cardinality(Waiting(plan, i, popped'))
    BY <1>1, <1>2, InDegreesWaiting
  <2>2. \A i \in Nodes(plan) : tempDeg'[i] = 0 <=> i \in popped' \/ InQueue(i)'
    BY <1>2, <1>3, <1>6, <1>7 DEF InQueue
  <2>3. reachable' = Cardinality(popped')  BY <1>2, FS_EmptySet
  <2>4. QED  BY <1>2, <1>6, <2>1, <2>2, <2>3 DEF KahnInv
<1>10. RunInv' /\ IdleInv' /\ BuildInv' /\ RejectInv' /\ NeverStuck'
  BY <1>2 DEF RunInv, IdleInv, BuildInv, RejectInv, NeverStuck
<1>11. QED  BY <1>8, <1>9, <1>10 DEF Inv

(* One round of Kahn's loop keeps queue, counters and popped set in step.  *)
LEMMA KahnStepInv == Inv /\ KahnStep => Inv'
<1> SUFFICES ASSUME Inv, KahnStep PROVE Inv'  OBVIOUS
<1> DEFINE N == Nodes(plan)
           cur == Head(queue)
           deg == Relax(plan, tempDeg, cur)
           zero == {c \in N : SlotsFrom(plan, cur, c) # {} /\ deg[c] = 0}
<1>1. plan \in Seq(PlanStep)  BY PlanInSeq DEF Inv, TypeOK
<1>2. /\ phase = "kahn" /\ queue # <<>>
      /\ HasDAG(plan) /\ ~BuildError(plan)
      /\ inDegree = InDegrees(plan)
      /\ queue \in Seq(N) /\ popped \in SUBSET N /\ reachable \in Nat
      /\ tempDeg \in [N -> Int]
  BY DEF Inv, TypeOK, KahnInv, KahnStep
<1>3. /\ \A i \in N : tempDeg[i] = Cardinality(Waiting(plan, i, popped))
      /\ \A i \in N : tempDeg[i] = 0 <=> i \in popped \/ InQueue(i)
      /\ \A a \in DOMAIN queue : queue[a] \notin popped
      /\ \A a, b \in DOMAIN queue : queue[a] = queue[b] => a = b
      /\ reachable = Cardinality(popped)
      /\ \A S \in SUBSET N : S \cap popped # {} =>
            \E i \in S : Parents(plan, i) \cap S = {}
  BY <1>2 DEF Inv, KahnInv
<1>4. /\ tempDeg' = deg /\ popped' = popped \cup {cur} /\ reachable' = reachable + 1
      /\ \E q \in Ascending(zero) : queue' = Tail(queue) \o q
      /\ UNCHANGED <<plan, phase, inDegree, batch, done>>
  BY DEF KahnStep, runVars
<1>5. PICK q \in Ascending(zero) : queue' = Tail(queue) \o q  BY <1>4
<1>6. /\ cur = queue[1] /\ 1 \in DOMAIN queue /\ cur \in N
      /\ cur \notin popped /\ InQueue(cur)
  <2>1. Len(queue) \in Nat \ {0} /\ DOMAIN queue = 1 .. Len(queue)
    BY <1>2, EmptySeq, LenProperties
  <2>2. cur = queue[1] /\ 1 \in DOMAIN queue /\ cur \in N
    BY <1>2, <2>1, HeadTailProperties
  <2>3. QED  BY <1>3, <2>2 DEF InQueue
<1> HIDE DEF cur
<1>7. \A i \in N : /\ deg[i] = Cardinality(Waiting(plan, i, popped \cup {cur}))
                   /\ deg[i] = tempDeg[i] - Cardinality(SlotsFrom(plan, cur, i))
                   /\ deg[i] \in Nat /\ tempDeg[i] \in Nat
                   /\ Cardinality(SlotsFrom(plan, cur, i)) \in Nat
  <2> SUFFICES ASSUME NEW i \in N
               PROVE  /\ deg[i] = Cardinality(Waiting(plan, i, popped \cup {cur}))
                      /\ deg[i] = tempDeg[i] - Cardinality(SlotsFrom(plan, cur, i))
                      /\ deg[i] \in Nat /\ tempDeg[i] \in Nat
                      /\ Cardinality(SlotsFrom(plan, cur, i)) \in Nat
    OBVIOUS
  <2>1. deg[i] = tempDeg[i] - Cardinality(SlotsFrom(plan, cur, i))
    BY <1>2 DEF Relax
  <2>2. /\ Cardinality(SlotsFrom(plan, cur, i)) \in Nat
        /\ Cardinality(Waiting(plan, i, popped \cup {cur})) =
             Cardinality(Waiting(plan, i, popped)) - Cardinality(SlotsFrom(plan, cur, i))
    BY <1>1, <1>6, WaitingStep
  <2>3. tempDeg[i] \in Nat  BY <1>1, <1>3, WaitingZero
  <2>4. Cardinality(Waiting(plan, i, popped \cup {cur})) \in Nat
    BY <1>1, WaitingZero
  <2> HIDE DEF deg
  <2>5. deg[i] = Cardinality(Waiting(plan, i, popped \cup {cur}))
    BY <1>3, <2>1, <2>2
  <2>6. QED  BY <2>1, <2>2, <2>3, <2>4, <2>5
<1>8. deg \in [N -> Int]  BY <1>1, <1>2, RelaxType
<1> HIDE DEF deg
<1>9. \A i \in N : SlotsFrom(plan, cur, i) = {} <=> Cardinality(SlotsFrom(plan, cur, i)) = 0
  <2>1. \A i \in N : IsFiniteSet(SlotsFrom(plan, cur, i))
    BY <1>1, SlotsFinite, FS_Subset DEF SlotsFrom
  <2>2. QED  BY <2>1, FS_EmptySet
<1>10. \A i \in N : i \in zero <=> tempDeg[i] # 0 /\ deg[i] = 0
  BY <1>7, <1>9
<1>11. \A i \in N : deg[i] = 0 <=> tempDeg[i] = 0 \/ i \in zero
  BY <1>7, <1>10
<1>12. zero \subseteq N /\ zero \subseteq Nat /\ IsFiniteSet(zero)
  BY <1>1, PlanShape, FS_Subset DEF Nodes
<1> HIDE DEF zero
<1>13. /\ q \in Seq(zero)
       /\ \A i \in zero : \E a \in DOMAIN q : q[a] = i
       /\ \A a, b \in DOMAIN q : q[a] = q[b] => a = b
  BY <1>12, AscendingSeq
<1>14. q \in Seq(N) /\ \A a \in DOMAIN q : q[a] \in zero
  <2>1. q \in [1 .. Len(q) -> zero]  BY <1>13, LenProperties
  <2>2. q \in Seq(N)  BY <1>12, <1>13, SeqMonotonic
  <2>3. QED  BY <2>1, <2>2
<1>15. \A a \in DOMAIN queue : queue[a] \in N /\ tempDeg[queue[a]] = 0
  <2>1. queue \in [1 .. Len(queue) -> N]  BY <1>2, LenProperties
  <2>2. QED  BY <1>3, <2>1 DEF InQueue
<1>16. \A a \in DOMAIN queue, b \in DOMAIN q : queue[a] # q[b]
  BY <1>10, <1>12, <1>14, <1>15
<1>17. /\ queue' \in Seq(N)
       /\ \A i \in N : (\E a \in DOMAIN queue' : queue'[a] = i) <=>
            \/ i # cur /\ \E a \in DOMAIN queue : queue[a] = i
            \/ \E a \in DOMAIN q : q[a] = i
       /\ \A a, b \in DOMAIN queue' : queue'[a] = queue'[b] => a = b
  <2>1. LET t == Tail(queue) \o q
        IN  /\ t \in Seq(N)
            /\ Head(queue) = queue[1] /\ 1 \in DOMAIN queue
            /\ \A i \in N : (\E a \in DOMAIN t : t[a] = i) <=>
                 \/ i # Head(queue) /\ \E a \in DOMAIN queue : queue[a] = i
                 \/ \E a \in DOMAIN q : q[a] = i
            /\ \A a, b \in DOMAIN t : t[a] = t[b] => a = b
    BY <1>2, <1>3, <1>13, <1>14, <1>16, PopAndAppend
  <2>2. QED  BY <1>5, <2>1 DEF cur
<1>18. \A i \in N : InQueue(i)' <=> (i # cur /\ InQueue(i)) \/ i \in zero
  BY <1>12, <1>13, <1>14, <1>17 DEF InQueue
<1>19. \A i \in N : tempDeg'[i] = 0 <=> i \in popped' \/ InQueue(i)'
  BY <1>3, <1>4, <1>6, <1>11, <1>18
<1>20. \A a \in DOMAIN queue' : queue'[a] \notin popped'
  <2>1. \A a \in DOMAIN queue' : queue'[a] \in N
    <3>1. queue' \in [1 .. Len(queue') -> N]  BY <1>17, LenProperties
    <3>2. QED  BY <3>1
  <2>2. \A i \in N : InQueue(i) => i \notin popped
    BY <1>3 DEF InQueue
  <2>3. ASSUME NEW i \in N, InQueue(i)'
        PROVE  i \notin popped'
    <3>1. (i # cur /\ InQueue(i)) \/ i \in zero  BY <1>18, <2>3
    <3>2. i \in zero => i \notin popped /\ i # cur
      BY <1>3, <1>6, <1>10
    <3>3. QED  BY <1>4, <2>2, <3>1, <3>2
  <2>4. QED  BY <2>1, <2>3 DEF InQueue
<1>21. reachable' = Cardinality(popped')
  <2>1. IsFiniteSet(popped)  BY <1>1, <1>2, PlanShape, FS_Subset
  <2>2. QED  BY <1>3, <1>4, <1>6, <2>1, FS_AddElement
<1>22. Parents(plan, cur) \subseteq popped
  BY <1>1, <1>3, <1>6, WaitingZero
<1>23. ASSUME NEW S \in SUBSET N, S \cap popped' # {}
       PROVE  \E i \in S : Parents(plan, i) \cap S = {}
  <2>1. CASE S \cap popped # {}  BY <1>3, <2>1
  <2>2. CASE S \cap popped = {}
    <3>1. cur \in S  BY <1>4, <1>23, <2>2
    <3>2. Parents(plan, cur) \cap S = {}  BY <1>22, <2>2
    <3>3. QED  BY <3>1, <3>2
  <2>3. QED  BY <2>1, <2>2
<1>24. KahnInv'
  <2>1. \A i \in N : tempDeg'[i] = Cardinality(Waiting(plan, i, popped'))
    BY <1>4, <1>7
  <2>2. QED
    BY <1>2, <1>4, <1>17, <1>19, <1>20, <1>21, <1>23, <2>1 DEF KahnInv
<1>25. TypeOK'
  BY <1>2, <1>4, <1>6, <1>8, <1>17 DEF Inv, TypeOK
<1>26. RunInv' /\ IdleInv' /\ BuildInv' /\ RejectInv' /\ NeverStuck'
  BY <1>2, <1>4 DEF Inv, RunInv, IdleInv, BuildInv, RejectInv, NeverStuck
<1>27. QED  BY <1>24, <1>25, <1>26 DEF Inv

(* The verdict: with an empty queue every node of degree zero was popped.  *)
LEMMA KahnVerdictInv == Inv /\ KahnVerdict => Inv'
<1> SUFFICES ASSUME Inv, KahnVerdict PROVE Inv'  OBVIOUS
<1> DEFINE N == Nodes(plan)
<1>1. plan \in Seq(PlanStep)  BY PlanInSeq DEF Inv, TypeOK
<1>2. /\ phase = "kahn" /\ queue = <<>> /\ HasDAG(plan) /\ ~BuildError(plan)
      /\ phase' = IF reachable # Len(plan) THEN "rejected" ELSE "run"
      /\ UNCHANGED <<plan, tempDeg, queue, popped, reachable, inDegree, batch, done>>
      /\ inDegree = InDegrees(plan) /\ popped \in SUBSET N
      /\ batch = {} /\ done = {}
  BY DEF Inv, TypeOK, KahnInv, IdleInv, KahnVerdict, kahnVars, runVars
<1>3. /\ \A i \in N : tempDeg[i] = Cardinality(Waiting(plan, i, popped))
      /\ \A i \in N : tempDeg[i] = 0 <=> i \in popped \/ InQueue(i)
      /\ reachable = Cardinality(popped)
      /\ \A S \in SUBSET N : S \cap popped # {} =>
            \E i \in S : Parents(plan, i) \cap S = {}
  BY <1>2 DEF Inv, KahnInv
<1>4. reachable = Len(plan) <=> popped = N
  BY <1>1, <1>2, <1>3, PlanShape, FS_Subset
<1>5. CASE popped = N
  <2>1. Acyclic(plan)
    <3> SUFFICES ASSUME NEW S \in SUBSET N, S # {}
                 PROVE  \E i \in S : Parents(plan, i) \cap S = {}
      BY DEF Acyclic
    <3>1. S \cap popped # {}  BY <1>5
    <3>2. QED  BY <1>3, <3>1
  <2>2. ~RejectedPlan(plan) /\ phase' = "run"
    BY <1>2, <1>4, <1>5, <2>1 DEF RejectedPlan
  <2>3. RunInv'
    BY <1>1, <1>2, <2>2, InDegreesWaiting DEF RunInv
  <2>4. TypeOK'  BY <1>2, <2>2 DEF Inv, TypeOK
  <2>5. KahnInv' /\ IdleInv' /\ BuildInv' /\ RejectInv' /\ NeverStuck'
    BY <2>2 DEF KahnInv, IdleInv, BuildInv, RejectInv, NeverStuck
  <2>6. QED  BY <2>3, <2>4, <2>5 DEF Inv
<1>6. CASE popped # N
  <2>1. ~Acyclic(plan)
    <3> DEFINE S == N \ popped
    <3>1. S \in SUBSET N /\ S # {}  BY <1>2, <1>6
    <3>2. ASSUME NEW i \in S PROVE Parents(plan, i) \cap S # {}
      <4>1. ~InQueue(i)  BY <1>2 DEF InQueue
      <4>2. tempDeg[i] # 0  BY <1>3, <4>1
      <4>3. ~(Parents(plan, i) \subseteq popped)
        BY <1>1, <1>3, <4>2, WaitingZero
      <4>4. Parents(plan, i) \subseteq N
        BY <1>1, <1>2, ParentIsNode DEF Parents
      <4>5. QED  BY <4>3, <4>4
    <3>3. QED  BY <3>1, <3>2 DEF Acyclic
  <2>2. RejectedPlan(plan) /\ phase' = "rejected"
    BY <1>2, <1>4, <1>6, <2>1 DEF RejectedPlan
  <2>3. TypeOK'  BY <1>2, <2>2 DEF Inv, TypeOK
  <2>4. KahnInv' /\ RunInv' /\ IdleInv' /\ BuildInv' /\ RejectInv' /\ NeverStuck'
    BY <1>2, <2>2 DEF KahnInv, RunInv, IdleInv, BuildInv, RejectInv, NeverStuck
  <2>5. QED  BY <2>3, <2>4 DEF Inv
<1>7. QED  BY <1>5, <1>6

-----------------------------------------------------------------------------
(* The running plan.                                                       *)

(* The ready set is exact in every state of the loop.                      *)
LEMMA RunReady ==
  ASSUME Inv, phase \in {"run", "finished"}
  PROVE  ReadySteps(inDegree) =
           {i \in Nodes(plan) : i \notin done /\ Parents(plan, i) \subseteq done}
<1>1. plan \in Seq(PlanStep) /\ inDegree \in [Nodes(plan) -> Int]
  BY PlanInSeq DEF Inv, TypeOK
<1>2. Exact(plan, inDegree, done)  BY DEF Inv, RunInv, Exact
<1>3. QED  BY <1>1, <1>2, ReadyWhenExact

(* A batch is a set of ready steps: none of them depends on another one.   *)
LEMMA TakeBatchInv == Inv /\ TakeBatch => Inv'
<1> SUFFICES ASSUME Inv, TakeBatch PROVE Inv'  OBVIOUS
<1>1. /\ phase = "run" /\ batch' = ReadySteps(inDegree)
      /\ UNCHANGED <<plan, phase, tempDeg, queue, popped, reachable, inDegree, done>>
  BY DEF TakeBatch, kahnVars
<1>2. batch' = {i \in Nodes(plan) : i \notin done /\ Parents(plan, i) \subseteq done}
  BY <1>1, RunReady
<1>3. TypeOK'  BY <1>1, <1>2 DEF Inv, TypeOK
<1>4. RunInv'  BY <1>1, <1>2 DEF Inv, RunInv
<1>5. KahnInv' /\ IdleInv' /\ BuildInv' /\ RejectInv' /\ NeverStuck'
  BY <1>1 DEF KahnInv, IdleInv, BuildInv, RejectInv, NeverStuck
<1>6. QED  BY <1>3, <1>4, <1>5 DEF Inv

(* Marking a step done keeps every counter equal to the waiting edges.     *)
LEMMA MarkBatchStepInv == Inv /\ MarkBatchStep => Inv'
<1> SUFFICES ASSUME Inv, MarkBatchStep PROVE Inv'  OBVIOUS
<1> DEFINE N == Nodes(plan)
<1>1. PICK n \in batch : /\ inDegree' = MarkDone(plan, inDegree, n)
                         /\ done' = done \cup {n}
                         /\ batch' = batch \ {n}
  BY DEF MarkBatchStep
<1>2. /\ phase = "run"
      /\ UNCHANGED <<plan, phase, tempDeg, queue, popped, reachable>>
  BY DEF MarkBatchStep, kahnVars
<1>3. /\ plan \in Seq(PlanStep) /\ inDegree \in [N -> Int]
      /\ batch \in SUBSET N /\ done \in SUBSET N
  BY PlanInSeq DEF Inv, TypeOK
<1>4. /\ ~RejectedPlan(plan)
      /\ \A i \in N : inDegree[i] = IF i \in done THEN -1
                                    ELSE Cardinality(Waiting(plan, i, done))
      /\ \A i \in done : Parents(plan, i) \subseteq done
      /\ \A i \in batch : i \notin done /\ Parents(plan, i) \subseteq done
  BY <1>2 DEF Inv, RunInv
<1>5. n \in N /\ n \notin done /\ Parents(plan, n) \subseteq done
  BY <1>1, <1>3, <1>4
<1>6. [inDegree EXCEPT ![n] = -1] \in [N -> Int]  BY <1>3
<1>7. inDegree' \in [N -> Int]
  BY <1>1, <1>3, <1>6, RelaxType DEF MarkDone
<1>8. \A i \in N : i \in done \cup {n} => SlotsFrom(plan, n, i) = {}
  BY <1>4, <1>5 DEF SlotsFrom, Parents
<1>9. ASSUME NEW i \in N
      PROVE  inDegree'[i] = IF i \in done \cup {n} THEN -1
                            ELSE Cardinality(Waiting(plan, i, done \cup {n}))
  <2> DEFINE c == Cardinality(SlotsFrom(plan, n, i))
  <2>1. inDegree'[i] = (IF i = n THEN -1 ELSE inDegree[i]) - c
    BY <1>1, <1>3, <1>6 DEF MarkDone, Relax
  <2>2. /\ c \in Nat
        /\ Cardinality(Waiting(plan, i, done \cup {n})) =
             Cardinality(Waiting(plan, i, done)) - c
    BY <1>3, <1>5, WaitingStep
  <2>3. i \in done \cup {n} => c = 0
    BY <1>8, FS_EmptySet
  <2> HIDE DEF c
  <2>4. CASE i \in done \cup {n}
    BY <1>4, <2>1, <2>3, <2>4
  <2>5. CASE i \notin done \cup {n}
    BY <1>4, <2>1, <2>2, <2>5
  <2>6. QED  BY <2>4, <2>5
<1>10. TypeOK'
  BY <1>1, <1>2, <1>3, <1>5, <1>7 DEF Inv, TypeOK
<1>11. RunInv'
  <2>1. \A i \in done' : Parents(plan', i) \subseteq done'
    BY <1>1, <1>2, <1>4, <1>5
  <2>2. \A i \in batch' : i \notin done' /\ Parents(plan', i) \subseteq done'
    BY <1>1, <1>2, <1>4
  <2>3. QED  BY <1>1, <1>2, <1>4, <1>9, <2>1, <2>2 DEF RunInv
<1>12. KahnInv' /\ IdleInv' /\ BuildInv' /\ RejectInv' /\ NeverStuck'
  BY <1>2 DEF KahnInv, IdleInv, BuildInv, RejectInv, NeverStuck
<1>13. QED  BY <1>10, <1>11, <1>12 DEF Inv

(* An acyclic plan with steps left has a ready one.                        *)
LEMMA FinishInv == Inv /\ Finish => Inv'
<1> SUFFICES ASSUME Inv, Finish PROVE Inv'  OBVIOUS
<1> DEFINE N == Nodes(plan)
<1>1. /\ phase = "run" /\ phase' = "finished"
      /\ ~(Cardinality(done) < Len(plan)) \/ ReadySteps(inDegree) = {}
      /\ UNCHANGED <<plan, tempDeg, queue, popped, reachable, inDegree, batch, done>>
  BY DEF Finish, kahnVars, runVars
<1>2. plan \in Seq(PlanStep) /\ done \in SUBSET N
  BY PlanInSeq DEF Inv, TypeOK
<1>3. done = N
  <2>1. /\ inDegree \in [Nodes(plan) -> Int] /\ ~RejectedPlan(plan)
        /\ Exact(plan, inDegree, done)
    BY <1>1 DEF Inv, TypeOK, RunInv, Exact
  <2>2. QED  BY <1>1, <1>2, <2>1, LoopEndsComplete
<1>4. TypeOK'  BY <1>1 DEF Inv, TypeOK
<1>5. RunInv'  BY <1>1 DEF Inv, RunInv
<1>6. KahnInv' /\ IdleInv' /\ BuildInv' /\ RejectInv' /\ NeverStuck'
  BY <1>1, <1>3 DEF KahnInv, IdleInv, BuildInv, RejectInv, NeverStuck
<1>7. QED  BY <1>4, <1>5, <1>6 DEF Inv

(* A stuttering step changes nothing the invariant speaks of.              *)
LEMMA StutterInv == Inv /\ UNCHANGED vars => Inv'
BY DEF Inv, vars, TypeOK, KahnInv, RunInv, IdleInv, BuildInv, RejectInv,
       NeverStuck, InQueue

-----------------------------------------------------------------------------
(* The theorems.                                                           *)

(* The invariant holds in every reachable state, for every set of plans.   *)
THEOREM Invariance == Spec => []Inv
<1>1. Init => Inv  BY InitInv
<1>2. Inv /\ [Next]_vars => Inv'
  <2> SUFFICES ASSUME Inv, [Next]_vars PROVE Inv'  OBVIOUS
  <2>1. CASE BuildSequential  BY <2>1, BuildSequentialInv
  <2>2. CASE BuildFails       BY <2>2, BuildFailsInv
  <2>3. CASE BuildGraph       BY <2>3, BuildGraphInv
  <2>4. CASE KahnStep         BY <2>4, KahnStepInv
  <2>5. CASE KahnVerdict      BY <2>5, KahnVerdictInv
  <2>6. CASE TakeBatch        BY <2>6, TakeBatchInv
  <2>7. CASE MarkBatchStep    BY <2>7, MarkBatchStepInv
  <2>8. CASE Finish           BY <2>8, FinishInv
  <2>9. CASE UNCHANGED vars   BY <2>9, StutterInv
  <2>10. QED
    BY <2>1, <2>2, <2>3, <2>4, <2>5, <2>6, <2>7, <2>8, <2>9 DEF Next
<1>3. QED  BY <1>1, <1>2, PTL DEF Spec

(* Every variable keeps its type, for every set of plans.                  *)
THEOREM TypeCorrect == Spec => []TypeOK
<1>1. Inv => TypeOK  BY DEF Inv
<1>2. QED  BY <1>1, Invariance, PTL

(* newDAGScheduler decides acyclicity: it accepts exactly the well-formed  *)
(* acyclic plans, of any size and with any repetition of dependencies.     *)
THEOREM KahnIsCorrect == Spec => []VerdictCorrect
<1>1. Inv => VerdictCorrect  BY DEF Inv, RunInv, RejectInv, VerdictCorrect
<1>2. QED  BY <1>1, Invariance, PTL

(* ReadySteps returns exactly the steps that may start, in every state of  *)
(* the engine's loop over every plan.                                      *)
THEOREM ReadyIsExact == Spec => []ReadyExact
<1>1. Inv => ReadyExact  BY RunReady DEF ReadyExact
<1>2. QED  BY <1>1, Invariance, PTL

(* The loop never takes the break of engine.go:232-235 with steps left.    *)
THEOREM LoopRunsToTheEnd == Spec => []NeverStuck
<1>1. Inv => NeverStuck  BY DEF Inv
<1>2. QED  BY <1>1, Invariance, PTL

(* A step is marked done only after all the steps it depends on.           *)
THEOREM DependenciesFirst == Spec => DependencyOrder
<1>1. Inv /\ [Next]_vars =>
        [/\ done \subseteq done'
         /\ \A i \in done' \ done : Parents(plan, i) \subseteq done]_vars
  <2> SUFFICES ASSUME Inv, Next
               PROVE  /\ done \subseteq done'
                      /\ \A i \in done' \ done : Parents(plan, i) \subseteq done
    OBVIOUS
  <2>1. CASE MarkBatchStep
    <3>1. \A i \in batch : Parents(plan, i) \subseteq done
      BY <2>1 DEF Inv, RunInv, MarkBatchStep
    <3>2. QED  BY <2>1, <3>1 DEF MarkBatchStep
  <2>2. CASE ~MarkBatchStep
    <3>1. done' = done
      BY <2>2 DEF Next, BuildSequential, BuildFails, BuildGraph, KahnStep,
                  KahnVerdict, TakeBatch, Finish, runVars
    <3>2. QED  BY <3>1
  <2>3. QED  BY <2>1, <2>2
<1>2. QED  BY <1>1, Invariance, PTL DEF Spec, DependencyOrder
=============================================================================
