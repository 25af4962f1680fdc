---------------------------- MODULE SharedEngine ----------------------------
(***************************************************************************)
(* One Engine that several callers use: Engine.Execute and Engine.Replay   *)
(* (orchestrator/engine.go) as far as they share the fields e.tools and    *)
(* e.toolRecorder, the collector of the grounding validator and the table  *)
(* tool_calls, with the tool executors of tools/.                          *)
(*                                                                         *)
(* Every run has the same plan: the steps Step, side by side, each of      *)
(* which makes the tool calls of its script in order and then claims       *)
(* evidence.  Which plans there are and how steps depend on each other is  *)
(* the subject of Engine.  An executor is RealTools or a call c, standing  *)
(* for the ReplayExecutor that the replay c has built.                     *)
(***************************************************************************)
EXTENDS Integers, Sequences, FiniteSets

CONSTANTS
  Call,          \* calls of Execute and Replay
  Source,        \* Source[c]: the execution that c replays, or NoCall
  NoCall,
  RealTools,     \* the executor of the registered tools
  Step,          \* the steps of the plan
  Script,        \* Script[s]: the arguments of the tool calls of step s
  Output,        \* what a tool may return
  ToolError,     \* ... or this
  MaxAttempts,   \* attempts per step
  MaxRounds,     \* plans per run, the first one and the replans
  MaxActive      \* bound on overlapping calls; the code has none

ASSUME SharedEngineAssumption ==
  /\ Source \in [Call -> Call \cup {NoCall}] /\ NoCall \notin Call
  /\ RealTools \notin Call
  /\ \A s \in Step : Script[s] \in Seq({Script[s][k] : k \in DOMAIN Script[s]})
  /\ ToolError \notin Output
  /\ {MaxAttempts, MaxRounds, MaxActive} \subseteq Nat \ {0}

VARIABLES
  tools,        \* Engine.tools
  recorder,     \* whether Engine.toolRecorder is set
  collector,    \* the call whose collector the grounding validator has
  toolRows,     \* the table tool_calls
  pc,           \* per call, where it is
  saved,        \* per call, Replay's origTools and origRecorder
  inner,        \* per call, the executor that Execute has taken from e.tools
  entries,      \* per call, the entries of its ReplayExecutor
  collected,    \* per call, the outputs in its ToolCallCollector
  clock,        \* per call, the number of tool calls it has started
  round,        \* per call, which plan it is at
  gor,          \* per call and step, the goroutine
  returned,     \* history: what each tool call returned
  claims        \* history: the verdicts of the grounding validator

vars == <<tools, recorder, collector, toolRows, pc, saved, inner, entries,
          collected, clock, round, gor, returned, claims>>
engineVars == <<tools, recorder, collector>>
callVars   == <<saved, inner, entries, collected, clock>>
history    == <<returned, claims>>

IsReplay(c) == Source[c] # NoCall

Idle == [at |-> "idle", attempt |-> 0, next |-> 1, seq |-> 0, start |-> 0,
         recorded |-> FALSE]

Init ==
  /\ tools = RealTools /\ recorder = TRUE /\ collector = NoCall
  /\ toolRows = {}
  /\ pc = [c \in Call |-> "idle"]
  /\ saved = [c \in Call |-> [tools |-> RealTools, recorder |-> TRUE]]
  /\ inner = [c \in Call |-> RealTools]
  /\ entries = [c \in Call |-> <<>>]
  /\ collected = [c \in Call |-> {}]
  /\ clock = [c \in Call |-> 0]
  /\ round = [c \in Call |-> 0]
  /\ gor = [c \in Call |-> [s \in Step |-> Idle]]
  /\ returned = {} /\ claims = {}

Goto(c, from, to) == pc[c] = from /\ pc' = [pc EXCEPT ![c] = to]

Active == {c \in Call : pc[c] \notin {"idle", "returned"}}

MayStart == Cardinality(Active) < MaxActive
-----------------------------------------------------------------------------
(* Replay around Execute.                                                  *)

(* The rows of a run in the order of started_at, failed ones left out.     *)
StoredCalls(run) ==
  LET rows == {r \in toolRows : r.run = run /\ r.out # ToolError}
      orders == {q \in [1 .. Cardinality(rows) -> rows] :
                   \A m, n \in DOMAIN q : m < n => q[m].start < q[n].start}
  IN {[k \in DOMAIN q |-> [args |-> q[k].args, out |-> q[k].out, consumed |-> FALSE]] :
        q \in orders}

(* The run exists; its calls are loaded into a new ReplayExecutor.         *)
LoadReplay(c) ==
  /\ IsReplay(c) /\ MayStart
  /\ pc[Source[c]] # "idle"
  /\ Goto(c, "idle", "save")
  /\ \E calls \in StoredCalls(Source[c]) : entries' = [entries EXCEPT ![c] = calls]
  /\ UNCHANGED <<engineVars, toolRows, saved, inner, collected, clock, round,
                 gor, history>>

SaveExecutors(c) ==
  /\ Goto(c, "save", "swap tools")
  /\ saved' = [saved EXCEPT ![c] = [tools |-> tools, recorder |-> recorder]]
  /\ UNCHANGED <<engineVars, toolRows, inner, entries, collected, clock, round,
                 gor, history>>

(* Mutant of SwapTools: the assignment of e.tools is missing.              *)
SwapToolsForgotten(c) ==
  /\ Goto(c, "swap tools", "swap recorder")
  /\ UNCHANGED <<engineVars, toolRows, callVars, round, gor, history>>

SwapTools(c) ==
  /\ Goto(c, "swap tools", "swap recorder")
  /\ tools' = c
  /\ UNCHANGED <<recorder, collector, toolRows, callVars, round, gor, history>>

SwapRecorder(c) ==
  /\ Goto(c, "swap recorder", "execute")
  /\ recorder' = FALSE
  /\ UNCHANGED <<tools, collector, toolRows, callVars, round, gor, history>>

RestoreTools(c) ==
  /\ Goto(c, "restore tools", "restore recorder")
  /\ tools' = saved[c].tools
  /\ UNCHANGED <<recorder, collector, toolRows, callVars, round, gor, history>>

(* Mutant of RestoreRecorder: recording stays off.                         *)
RestoreRecorderForgotten(c) ==
  /\ Goto(c, "restore recorder", "returned")
  /\ UNCHANGED <<engineVars, toolRows, callVars, round, gor, history>>

RestoreRecorder(c) ==
  /\ Goto(c, "restore recorder", "returned")
  /\ recorder' = saved[c].recorder
  /\ UNCHANGED <<tools, collector, toolRows, callVars, round, gor, history>>
-----------------------------------------------------------------------------
(* Execute.                                                                *)

StartExecute(c) ==
  /\ ~IsReplay(c) /\ MayStart
  /\ Goto(c, "idle", "execute")
  /\ UNCHANGED <<engineVars, toolRows, callVars, round, gor, history>>

(* The execution context takes e.tools, wrapped into a new collector.      *)
CaptureTools(c) ==
  /\ Goto(c, "execute", "set collector")
  /\ inner' = [inner EXCEPT ![c] = tools]
  /\ UNCHANGED <<engineVars, toolRows, saved, entries, collected, clock, round,
                 gor, history>>

(* Mutant of SetCollector: a collector that is set already is kept.        *)
SetCollectorOnce(c) ==
  /\ Goto(c, "set collector", "plan")
  /\ collector' = IF collector = NoCall THEN c ELSE collector
  /\ UNCHANGED <<tools, recorder, toolRows, callVars, round, gor, history>>

SetCollector(c) ==
  /\ Goto(c, "set collector", "plan")
  /\ collector' = c
  /\ UNCHANGED <<tools, recorder, toolRows, callVars, round, gor, history>>

(* A first plan or a replan: all steps start side by side.                 *)
StartRound(c) ==
  /\ Goto(c, "plan", "batch")
  /\ round' = [round EXCEPT ![c] = @ + 1]
  /\ gor' = [gor EXCEPT ![c] = [s \in Step |-> [Idle EXCEPT !.at = "spawned"]]]
  /\ UNCHANGED <<engineVars, toolRows, callVars, history>>

Ended(c) == \A s \in Step : gor[c][s].at \in {"done", "failed"}

(* Mutant of EndRound: one replan too many.                                *)
EndRoundOnceMore(c) ==
  LET failed == \E s \in Step : gor[c][s].at = "failed"
  IN /\ Ended(c)
     /\ Goto(c, "batch", IF failed /\ round[c] <= MaxRounds THEN "plan"
                         ELSE IF IsReplay(c) THEN "restore tools" ELSE "returned")
     /\ UNCHANGED <<engineVars, toolRows, callVars, round, gor, history>>

EndRound(c) ==
  LET failed == \E s \in Step : gor[c][s].at = "failed"
      close  == IF IsReplay(c) THEN "restore tools" ELSE "returned"
  IN /\ Ended(c)
     /\ Goto(c, "batch", IF failed /\ round[c] < MaxRounds THEN "plan" ELSE close)
     /\ UNCHANGED <<engineVars, toolRows, callVars, round, gor, history>>
-----------------------------------------------------------------------------
(* The goroutine of a step.                                                *)

At(c, s, where) == pc[c] = "batch" /\ gor[c][s].at = where

(* A PersistingExecutor with seq 0 wraps the run's executor if there is a  *)
(* recorder at this moment; it is kept over all attempts of the step.      *)
StartStep(c, s) ==
  /\ At(c, s, "spawned")
  /\ gor' = [gor EXCEPT ![c][s].at = "ready", ![c][s].attempt = 1,
                        ![c][s].recorded = recorder]
  /\ UNCHANGED <<engineVars, toolRows, pc, callVars, round, history>>

CallTool(c, s) ==
  /\ At(c, s, "ready") /\ gor[c][s].next <= Len(Script[s])
  /\ clock' = [clock EXCEPT ![c] = @ + 1]
  /\ gor' = [gor EXCEPT ![c][s].at = "calling", ![c][s].seq = @ + 1,
                        ![c][s].start = clock'[c]]
  /\ UNCHANGED <<engineVars, toolRows, pc, saved, inner, entries, collected,
                 round, history>>

Args(c, s) == Script[s][gor[c][s].next]

(* The result passes the collector and the PersistingExecutor, whose       *)
(* insert fails silently if the key <run, step, seq> is taken.             *)
Answered(c, s, out, real) ==
  LET g   == gor[c][s]
      row == [run |-> c, step |-> s, seq |-> g.seq, args |-> Args(c, s),
              out |-> out, start |-> g.start]
      taken == \E r \in toolRows : r.run = c /\ r.step = s /\ r.seq = g.seq
      fails == out = ToolError
  IN /\ returned' = returned \cup
          {[call |-> c, round |-> round[c], step |-> s, seq |-> g.seq,
            args |-> Args(c, s), out |-> out, real |-> real]}
     /\ collected' = [collected EXCEPT ![c] = @ \cup ({out} \ {ToolError})]
     /\ toolRows' = toolRows \cup (IF g.recorded /\ ~taken THEN {row} ELSE {})
     /\ gor' = [gor EXCEPT ![c][s].at = IF fails THEN "erred" ELSE "ready",
                           ![c][s].next = IF fails THEN @ ELSE @ + 1]
     /\ UNCHANGED <<engineVars, pc, saved, inner, clock, round, claims>>

(* A registered tool: the files it reads may have changed meanwhile.       *)
ToolReturns(c, s) ==
  /\ At(c, s, "calling") /\ inner[c] = RealTools
  /\ \E out \in Output \cup {ToolError} : Answered(c, s, out, TRUE)
  /\ UNCHANGED entries

(* Mutant of Matching: an entry may be used again.                         *)
MatchingAny(x, args) == {k \in DOMAIN entries[x] : entries[x][k].args = args}

(* The entries of x's ReplayExecutor that may answer a call.               *)
Matching(x, args) ==
  {k \in DOMAIN entries[x] : ~entries[x][k].consumed /\ entries[x][k].args = args}

ReplayReturns(c, s) ==
  LET x == inner[c]
  IN /\ At(c, s, "calling") /\ x # RealTools
     /\ \E k \in Matching(x, Args(c, s)) :
          /\ \A j \in Matching(x, Args(c, s)) : k <= j
          /\ Answered(c, s, entries[x][k].out, FALSE)
          /\ entries' = [entries EXCEPT ![x][k].consumed = TRUE]

(* No entry is left for the call: the divergence is an error.              *)
ReplayDiverges(c, s) ==
  /\ At(c, s, "calling") /\ inner[c] # RealTools
  /\ Matching(inner[c], Args(c, s)) = {}
  /\ Answered(c, s, ToolError, FALSE)
  /\ UNCHANGED entries

(* The agent is through with its script and claims an output as evidence,  *)
(* or nothing; the grounding validator looks it up in its collector.       *)
Claim(c, s) ==
  /\ At(c, s, "ready") /\ gor[c][s].next > Len(Script[s])
  /\ \E claim \in SUBSET Output :
       LET accepted == claim = {} \/ collector = NoCall \/ claim \subseteq collected[collector]
       IN /\ Cardinality(claim) <= 1
          /\ claims' = claims \cup
               {[accepted |-> accepted,
                 grounded |-> claim \subseteq {r.out : r \in {q \in returned : q.call = c}}]}
          /\ gor' = [gor EXCEPT ![c][s].at = IF accepted THEN "done" ELSE "erred"]
  /\ UNCHANGED <<engineVars, toolRows, pc, callVars, round, returned>>

(* Mutant of Retry: a new PersistingExecutor for every attempt.            *)
RetryAnew(c, s) ==
  /\ At(c, s, "erred") /\ gor[c][s].attempt < MaxAttempts
  /\ gor' = [gor EXCEPT ![c][s].at = "ready", ![c][s].attempt = @ + 1,
                        ![c][s].next = 1, ![c][s].seq = 0]
  /\ UNCHANGED <<engineVars, toolRows, pc, callVars, round, history>>

(* Repair either tries the step again from the start of its script ...     *)
Retry(c, s) ==
  /\ At(c, s, "erred") /\ gor[c][s].attempt < MaxAttempts
  /\ gor' = [gor EXCEPT ![c][s].at = "ready", ![c][s].attempt = @ + 1,
                        ![c][s].next = 1]
  /\ UNCHANGED <<engineVars, toolRows, pc, callVars, round, history>>

(* ... or gives up.                                                        *)
GiveUp(c, s) ==
  /\ At(c, s, "erred")
  /\ gor' = [gor EXCEPT ![c][s].at = "failed"]
  /\ UNCHANGED <<engineVars, toolRows, pc, callVars, round, history>>

Replaying(c) ==
  \/ LoadReplay(c) \/ SaveExecutors(c) \/ SwapTools(c) \/ SwapRecorder(c)
  \/ RestoreTools(c) \/ RestoreRecorder(c)

Executing(c) ==
  \/ StartExecute(c) \/ CaptureTools(c) \/ SetCollector(c)
  \/ StartRound(c) \/ EndRound(c)

Goroutine(c, s) ==
  \/ StartStep(c, s) \/ CallTool(c, s) \/ ToolReturns(c, s) \/ ReplayReturns(c, s)
  \/ ReplayDiverges(c, s) \/ Claim(c, s) \/ Retry(c, s) \/ GiveUp(c, s)

Next ==
  \E c \in Call : Replaying(c) \/ Executing(c) \/ \E s \in Step : Goroutine(c, s)

Spec == Init /\ [][Next]_vars
-----------------------------------------------------------------------------
TypeOK ==
  /\ tools \in {RealTools} \cup Call
  /\ recorder \in BOOLEAN /\ collector \in Call \cup {NoCall}
  /\ toolRows \subseteq
       [run : Call, step : Step, seq : Nat, start : Nat,
        args : UNION {{Script[s][k] : k \in DOMAIN Script[s]} : s \in Step},
        out : Output \cup {ToolError}]
  /\ saved \in [Call -> [tools : {RealTools} \cup Call, recorder : BOOLEAN]]
  /\ inner \in [Call -> {RealTools} \cup Call]
  /\ collected \in [Call -> SUBSET Output]
  /\ round \in [Call -> 0 .. MaxRounds] /\ clock \in [Call -> Nat]
  /\ \A c \in Call : \A s \in Step :
       gor[c][s].attempt \in 0 .. MaxAttempts /\ gor[c][s].next \in 1 .. Len(Script[s]) + 1

(* README.md:53, a replay does not touch the original files: none of its   *)
(* tool calls reaches a registered tool.                                   *)
ReplayTouchesNoTool ==
  \A r \in returned : IsReplay(r.call) => ~r.real

(* engine.go:449, the executor is swapped temporarily: with no call under  *)
(* way the engine has its own tools and its recorder again.                *)
EngineRestored == Active = {} => tools = RealTools /\ recorder

(* replay_executor.go:16-19, a replayed tool call returns what the same    *)
(* call of the original run returned, or the divergence is an error.       *)
DivergenceSurfaced ==
  \A r \in returned : IsReplay(r.call) /\ r.out # ToolError =>
    \E o \in returned :
      /\ o.call = Source[r.call] /\ o.out = r.out
      /\ <<o.round, o.step, o.seq, o.args>> = <<r.round, r.step, r.seq, r.args>>

(* PROJECT.md:71, every tool call of a run is in the table with its result. *)
EveryToolCallRecorded ==
  \A r \in returned : ~IsReplay(r.call) =>
    \E t \in toolRows :
      /\ <<t.run, t.step, t.seq>> = <<r.call, r.step, r.seq>>
      /\ <<t.args, t.out>> = <<r.args, r.out>>

(* engine.go:156-157, evidence is checked against all the tool calls of    *)
(* the run and of no other: what is grounded is accepted and conversely.   *)
GroundingExact == \A v \in claims : v.accepted <=> v.grounded
=============================================================================
