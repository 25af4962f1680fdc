--------------------------- MODULE MCDagScheduler ---------------------------
(***************************************************************************)
(* TLC instance of DagScheduler: every plan of up to 2 steps over MCIDs    *)
(* and StepName, every dependency multigraph on MCMaxSteps steps (a        *)
(* repeated dependency, two parents and self-dependencies included), and   *)
(* every wider plan whose steps depend on earlier ones only.               *)
(***************************************************************************)
EXTENDS DagScheduler

CONSTANTS MCIDs, MCMaxSteps, MCMaxDeps, NoPolicy

MCAgent == CHOOSE a \in AgentName : TRUE

SeqsUpTo(S, n) == UNION {[1 .. m -> S] : m \in 0 .. n}

(* Any StepID, missing and duplicated ones included, short dependencies.   *)
SmallPlans ==
  SeqsUpTo([id : MCIDs \cup {NoStepID}, deps : SeqsUpTo(StepName, 1),
            agent : AgentName, policy : StepPolicy], 2)

(* Plans with distinct StepIDs: every dependency multigraph on them.       *)
DistinctIDs == {s \in [1 .. MCMaxSteps -> MCIDs] :
                  \A a, b \in 1 .. MCMaxSteps : a # b => s[a] # s[b]}

GraphPlans ==
  LET ids == CHOOSE s \in DistinctIDs : TRUE
  IN {[i \in 1 .. MCMaxSteps |-> [id |-> ids[i], deps |-> d[i], agent |-> MCAgent, policy |-> NoPolicy]] :
        d \in [1 .. MCMaxSteps -> SeqsUpTo(MCIDs, MCMaxDeps)]}

(* Steps that depend on any set of the steps before them: batches of       *)
(* several steps that later ones join, such as the diamond.                *)
LayeredPlans ==
  LET ids     == CHOOSE f \in [1 .. 4 -> StepName] : \A m, n \in 1 .. 4 : m # n => f[m] # f[n]
      List(S) == CHOOSE q \in Ascending(S) : TRUE
  IN {[i \in 1 .. 4 |->
         [id |-> ids[i], deps |-> [k \in 1 .. Cardinality(d[i]) |-> ids[List(d[i])[k]]],
          agent |-> MCAgent, policy |-> NoPolicy]] :
        d \in {f \in [1 .. 4 -> SUBSET (1 .. 3)] : \A i \in 1 .. 4 : f[i] \subseteq 1 .. i - 1}}

(* The sequential fallback.                                                *)
SequentialPlans ==
  {[i \in 1 .. n |-> [id |-> NoStepID, deps |-> <<>>, agent |-> MCAgent, policy |-> NoPolicy]] : n \in 0 .. 4}

MCPlans == SmallPlans \cup GraphPlans \cup LayeredPlans \cup SequentialPlans
=============================================================================
