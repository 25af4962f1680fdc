------------------------- MODULE SharedEngine_proof -------------------------
(***************************************************************************)
(* Theorems about SharedEngine, for all sets of calls, scripts and tools:  *)
(* what the fields that its callers share still guarantee when one call    *)
(* runs at a time, and what they guarantee to executions side by side.     *)
(***************************************************************************)
EXTENDS SharedEngine, FiniteSetTheorems, TLAPS

Argument == UNION {{Script[s][k] : k \in DOMAIN Script[s]} : s \in Step}

PC == {"idle", "save", "swap tools", "swap recorder", "execute", "set collector", "plan",
       "batch", "restore tools", "restore recorder", "returned"}

GState == [at : {"idle", "spawned", "ready", "calling", "erred", "done", "failed"},
           attempt : 0 .. MaxAttempts, next : Nat, seq : Nat, start : Nat,
           recorded : BOOLEAN]

Entry == [args : Argument, out : Output, consumed : BOOLEAN]

RowType == [run : Call, step : Step, seq : Nat, start : Nat, args : Argument,
            out : Output \cup {ToolError}]

(* The parts of the type invariant: what the calls share and keep, the     *)
(* goroutines, and the entries of the replays.                             *)
CallsType ==
  /\ tools \in {RealTools} \cup Call
  /\ recorder \in BOOLEAN /\ collector \in Call \cup {NoCall}
  /\ toolRows \subseteq RowType
  /\ saved \in [Call -> [tools : {RealTools} \cup Call, recorder : BOOLEAN]]
  /\ inner \in [Call -> {RealTools} \cup Call]
  /\ collected \in [Call -> SUBSET Output]
  /\ clock \in [Call -> Nat]

(* A call is at its first plan at the earliest when it runs goroutines.    *)
RoundsType ==
  /\ pc \in [Call -> PC]
  /\ round \in [Call -> 0 .. MaxRounds]
  /\ \A c \in Call :
       /\ pc[c] \notin {"plan", "batch", "restore tools", "restore recorder", "returned"} =>
            round[c] = 0
       /\ pc[c] = "plan" => round[c] < MaxRounds

GorType ==
  /\ gor \in [Call -> [Step -> GState]]
  /\ \A c \in Call : \A s \in Step :
       /\ gor[c][s].next \in 1 .. Len(Script[s]) + 1
       /\ gor[c][s].at = "calling" => gor[c][s].next <= Len(Script[s])

EntriesType ==
  /\ DOMAIN entries = Call
  /\ \A c \in Call : \A k \in DOMAIN entries[c] : entries[c][k] \in Entry

Typed == CallsType /\ RoundsType /\ GorType /\ EntriesType

(* The inductive form of the types implies the type invariant.             *)
LEMMA TypedTypeOK == Typed => TypeOK
<1> SUFFICES ASSUME Typed PROVE TypeOK
  OBVIOUS
<1>1. \A c \in Call : \A s \in Step :
         gor[c][s].attempt \in 0 .. MaxAttempts /\ gor[c][s].next \in 1 .. Len(Script[s]) + 1
  BY DEF Typed, GorType, GState
<1>2. QED  BY <1>1 DEF Typed, CallsType, RoundsType, TypeOK, RowType, Argument

(* The arguments of a tool call are arguments of the script.               *)
LEMMA ScriptArgument ==
  ASSUME NEW s \in Step, NEW n \in 1 .. Len(Script[s])
  PROVE  Script[s][n] \in Argument
<1>1. Script[s] \in Seq({Script[s][k] : k \in DOMAIN Script[s]})
  BY SharedEngineAssumption
<1>2. DOMAIN Script[s] = 1 .. Len(Script[s])  BY <1>1
<1>3. QED  BY <1>2 DEF Argument

(* A step makes finitely many calls.                                       *)
LEMMA ScriptLength == ASSUME NEW s \in Step PROVE Len(Script[s]) \in Nat
<1>1. Script[s] \in Seq({Script[s][k] : k \in DOMAIN Script[s]})
  BY SharedEngineAssumption
<1>2. QED  BY <1>1

(* The types hold when no call has begun.                                  *)
LEMMA TypedInit == Init => Typed
<1> SUFFICES ASSUME Init PROVE Typed
  OBVIOUS
<1>1. CallsType
  BY DEF Init, CallsType
<1>2. RoundsType
  BY SharedEngineAssumption DEF Init, RoundsType, PC
<1>3. GorType
  <2>1. Idle \in GState  BY SharedEngineAssumption DEF Idle, GState
  <2>2. Idle.next = 1 /\ Idle.at = "idle"  BY DEF Idle
  <2>3. gor = [c \in Call |-> [s \in Step |-> Idle]]  BY DEF Init
  <2>4. gor \in [Call -> [Step -> GState]]  BY <2>1, <2>3
  <2>5. \A c \in Call : \A s \in Step : gor[c][s] = Idle  BY <2>3
  <2>6. QED  BY <2>2, <2>4, <2>5, ScriptLength DEF GorType
<1>4. EntriesType  BY DEF Init, EntriesType
<1>5. QED  BY <1>1, <1>2, <1>3, <1>4 DEF Typed
-----------------------------------------------------------------------------
(* The steps of a call outside its goroutines.                             *)

Main(c) == Replaying(c) \/ Executing(c)

(* Such a step moves the call alone, and leaves the history alone.         *)
LEMMA MainFrame ==
  ASSUME Typed, NEW c \in Call, Main(c)
  PROVE  /\ pc'[c] \in PC /\ pc' = [pc EXCEPT ![c] = pc'[c]]
         /\ UNCHANGED <<toolRows, collected, clock, returned, claims>>
         /\ pc[c] # "plan" => UNCHANGED <<round, gor>>
<1>1. pc \in [Call -> PC]  BY DEF Typed, RoundsType
<1>2. CASE Replaying(c)
  BY <1>1, <1>2 DEF Replaying, LoadReplay, SaveExecutors, SwapTools, SwapRecorder,
     RestoreTools, RestoreRecorder, Goto, PC, callVars, engineVars, history
<1>3. CASE Executing(c)
  <2>1. CASE EndRound(c)
    BY <1>1, <2>1 DEF EndRound, Goto, PC, callVars, history
  <2>2. CASE ~EndRound(c)
    BY <1>1, <1>3, <2>2 DEF Executing, StartExecute, CaptureTools, SetCollector, StartRound,
       Goto, PC, callVars, engineVars, history
  <2>3. QED  BY <2>1, <2>2
<1>4. QED  BY <1>2, <1>3 DEF Main

(* The calls themselves keep the types.                                    *)
LEMMA TypedMain ==
  ASSUME Typed, NEW c \in Call, Main(c)
  PROVE  Typed'
<1> USE DEF Typed
<1>1. CallsType'
  <2>1. UNCHANGED <<toolRows, collected, clock>>  BY MainFrame
  <2>2. /\ tools' \in {RealTools} \cup Call /\ recorder' \in BOOLEAN
        /\ collector' \in Call \cup {NoCall}
        /\ saved' \in [Call -> [tools : {RealTools} \cup Call, recorder : BOOLEAN]]
        /\ inner' \in [Call -> {RealTools} \cup Call]
    <3>1. CASE LoadReplay(c) \/ SwapRecorder(c) \/ StartExecute(c) \/ StartRound(c) \/ EndRound(c)
      BY <3>1 DEF CallsType, LoadReplay, SwapRecorder, StartExecute, StartRound, EndRound,
         callVars, engineVars
    <3>2. CASE SaveExecutors(c)
      <4>1. /\ saved' = [saved EXCEPT ![c] = [tools |-> tools, recorder |-> recorder]]
            /\ UNCHANGED <<tools, recorder, collector, inner>>
        BY <3>2 DEF SaveExecutors, engineVars
      <4>2. [tools |-> tools, recorder |-> recorder]
               \in [tools : {RealTools} \cup Call, recorder : BOOLEAN]
        BY DEF CallsType
      <4>3. QED  BY <4>1, <4>2 DEF CallsType
    <3>3. CASE SwapTools(c) \/ SetCollector(c)
      BY <3>3 DEF CallsType, SwapTools, SetCollector, callVars
    <3>4. CASE RestoreTools(c) \/ RestoreRecorder(c)
      <4>1. saved[c].tools \in {RealTools} \cup Call /\ saved[c].recorder \in BOOLEAN
        BY DEF CallsType
      <4>2. /\ tools' \in {tools, saved[c].tools} /\ recorder' \in {recorder, saved[c].recorder}
            /\ UNCHANGED <<collector, saved, inner>>
        BY <3>4 DEF RestoreTools, RestoreRecorder, callVars
      <4>3. recorder' \in BOOLEAN  BY <4>1, <4>2, Zenon DEF CallsType
      <4>4. QED  BY <4>1, <4>2, <4>3 DEF CallsType
    <3>5. CASE CaptureTools(c)
      BY <3>5 DEF CallsType, CaptureTools, engineVars
    <3>6. QED  BY <3>1, <3>2, <3>3, <3>4, <3>5 DEF Main, Replaying, Executing
  <2>3. QED  BY <2>1, <2>2 DEF CallsType
<1>2. RoundsType'
  <2>1. pc' \in [Call -> PC] /\ \A d \in Call : d # c => pc'[d] = pc[d]
    BY MainFrame DEF RoundsType
  <2>2. CASE StartRound(c)
    <3>1. /\ pc[c] = "plan" /\ pc'[c] = "batch" /\ round' = [round EXCEPT ![c] = @ + 1]
      BY <2>2 DEF StartRound, Goto, RoundsType
    <3>2. round[c] \in 0 .. MaxRounds /\ round[c] < MaxRounds /\ MaxRounds \in Nat
      BY <3>1, SharedEngineAssumption DEF RoundsType
    <3>3. round[c] + 1 \in 0 .. MaxRounds  BY <3>2
    <3>4. round' \in [Call -> 0 .. MaxRounds] /\ \A d \in Call : d # c => round'[d] = round[d]
      BY <3>1, <3>3 DEF RoundsType
    <3>5. QED  BY <2>1, <3>1, <3>4 DEF RoundsType
  <2>3. CASE ~StartRound(c)
    <3>1. round' = round
      BY <2>3 DEF Main, Replaying, Executing, LoadReplay, SaveExecutors, SwapTools,
         SwapRecorder, RestoreTools, RestoreRecorder, StartExecute, CaptureTools, SetCollector,
         EndRound
    <3>2. /\ pc'[c] \notin {"plan", "batch", "restore tools", "restore recorder", "returned"} =>
               pc[c] \notin {"plan", "batch", "restore tools", "restore recorder", "returned"}
          /\ pc'[c] = "plan" => round[c] < MaxRounds
      <4>1. 0 < MaxRounds  BY SharedEngineAssumption
      <4>2. CASE Replaying(c)
        BY <4>2 DEF Replaying, LoadReplay, SaveExecutors, SwapTools, SwapRecorder,
           RestoreTools, RestoreRecorder, Goto, RoundsType
      <4>3. CASE Executing(c)
        BY <2>3, <4>1, <4>3 DEF Executing, StartExecute, CaptureTools, SetCollector, EndRound,
           Goto, RoundsType
      <4>4. QED  BY <4>2, <4>3 DEF Main
    <3>3. QED  BY <2>1, <3>1, <3>2 DEF RoundsType
  <2>4. QED  BY <2>2, <2>3
<1>3. GorType'
  <2>1. CASE StartRound(c)
    <3> DEFINE new == [Idle EXCEPT !.at = "spawned"]
    <3>1. new \in GState /\ new.next = 1 /\ new.at = "spawned"
      <4>1. Idle \in GState /\ Idle.next = 1
        BY SharedEngineAssumption DEF Idle, GState
      <4>2. \A g \in GState : /\ [g EXCEPT !.at = "spawned"] \in GState
                              /\ [g EXCEPT !.at = "spawned"].next = g.next
                              /\ [g EXCEPT !.at = "spawned"].at = "spawned"
        BY DEF GState
      <4>3. QED  BY <4>1, <4>2
    <3>2. gor' = [gor EXCEPT ![c] = [s \in Step |-> new]]  BY <2>1 DEF StartRound
    <3> HIDE DEF new
    <3>3. gor' \in [Call -> [Step -> GState]]  BY <3>1, <3>2 DEF GorType
    <3>4. \A d \in Call : \A s \in Step : gor'[d][s] = IF d = c THEN new ELSE gor[d][s]
      BY <3>2 DEF GorType
    <3>5. QED  BY <3>1, <3>3, <3>4, ScriptLength DEF GorType
  <2>2. CASE ~StartRound(c)
    <3>1. gor' = gor
      BY <2>2 DEF Main, Replaying, Executing, LoadReplay, SaveExecutors, SwapTools,
         SwapRecorder, RestoreTools, RestoreRecorder, StartExecute, CaptureTools, SetCollector,
         EndRound
    <3>2. QED  BY <3>1 DEF GorType
  <2>3. QED  BY <2>1, <2>2
<1>4. EntriesType'
  <2>1. CASE LoadReplay(c)
    <3>1. PICK calls \in StoredCalls(Source[c]) : entries' = [entries EXCEPT ![c] = calls]
      BY <2>1 DEF LoadReplay
    <3>2. \A k \in DOMAIN calls : calls[k] \in Entry
      <4> DEFINE rows == {r \in toolRows : r.run = Source[c] /\ r.out # ToolError}
      <4>1. PICK q \in [1 .. Cardinality(rows) -> rows] :
              calls = [k \in DOMAIN q |->
                         [args |-> q[k].args, out |-> q[k].out, consumed |-> FALSE]]
        BY <3>1 DEF StoredCalls
      <4>2. \A r \in rows : r.args \in Argument /\ r.out \in Output
        BY DEF CallsType, RowType
      <4> HIDE DEF rows
      <4>3. \A k \in DOMAIN q : q[k] \in rows  OBVIOUS
      <4>4. QED  BY <4>1, <4>2, <4>3 DEF Entry
    <3>3. QED  BY <3>1, <3>2 DEF EntriesType
  <2>2. CASE ~LoadReplay(c)
    <3>1. entries' = entries
      BY <2>2 DEF Main, Replaying, Executing, SaveExecutors, SwapTools,
         SwapRecorder, RestoreTools, RestoreRecorder, StartExecute, CaptureTools, SetCollector,
         StartRound, EndRound, callVars
    <3>2. QED  BY <3>1 DEF EntriesType
  <2>3. QED  BY <2>1, <2>2
<1>5. QED  BY <1>1, <1>2, <1>3, <1>4
-----------------------------------------------------------------------------
(* The steps of a goroutine.                                               *)

(* A tool call is answered, by a tool or by an entry of a replay.          *)
Replied(c, s) == \E out \in Output \cup {ToolError}, real \in BOOLEAN :
                   At(c, s, "calling") /\ Answered(c, s, out, real)

(* Each way in which a call of a tool ends is an answer to it.             *)
LEMMA RepliedWhen ==
  ASSUME Typed, NEW c \in Call, NEW s \in Step
  PROVE  ToolReturns(c, s) \/ ReplayReturns(c, s) \/ ReplayDiverges(c, s) => Replied(c, s)
<1>1. ToolReturns(c, s) => Replied(c, s)  BY DEF ToolReturns, Replied
<1>2. ReplayDiverges(c, s) => Replied(c, s)  BY DEF ReplayDiverges, Replied
<1>3. ASSUME ReplayReturns(c, s) PROVE Replied(c, s)
  <2>1. PICK k \in Matching(inner[c], Args(c, s)) :
          Answered(c, s, entries[inner[c]][k].out, FALSE) /\ At(c, s, "calling")
    BY <1>3 DEF ReplayReturns
  <2>2. inner[c] \in Call  BY <1>3 DEF ReplayReturns, Typed, CallsType
  <2>3. entries[inner[c]][k].out \in Output
    BY <2>2 DEF Matching, Typed, EntriesType, Entry
  <2>4. QED  BY <2>1, <2>3 DEF Replied
<1>4. QED  BY <1>1, <1>2, <1>3

(* A goroutine leaves the fields of the engine to the calls.               *)
LEMMA GoroutineFrame ==
  ASSUME Typed, NEW c \in Call, NEW s \in Step, Goroutine(c, s)
  PROVE  /\ pc[c] = "batch"
         /\ UNCHANGED <<tools, recorder, collector, pc, saved, inner, round>>
         /\ ~Claim(c, s) => UNCHANGED claims
         /\ ~Replied(c, s) => UNCHANGED <<toolRows, collected, returned>>
<1>1. Goroutine(c, s) => \/ StartStep(c, s) \/ CallTool(c, s) \/ Replied(c, s)
                         \/ Claim(c, s) \/ Retry(c, s) \/ GiveUp(c, s)
  BY RepliedWhen DEF Goroutine
<1>2. QED
  BY <1>1 DEF StartStep, CallTool, Replied, Answered, Claim, Retry, GiveUp, At, engineVars,
     callVars, history

(* A goroutine after its first move, with the recorder that it has found,  *)
(* and one that has called a tool.                                         *)
Started(g, n, b) == [g EXCEPT !.at = "ready", !.attempt = n, !.recorded = b]

Calling(g, n) == [g EXCEPT !.at = "calling", !.seq = @ + 1, !.start = n]

(* A goroutine that starts an attempt has the type of one.                 *)
LEMMA StartedGoroutine ==
  ASSUME NEW g \in GState, NEW n \in 0 .. MaxAttempts, NEW b \in BOOLEAN
  PROVE  /\ Started(g, n, b) \in GState
         /\ Started(g, n, b).at = "ready" /\ Started(g, n, b).recorded = b
         /\ Started(g, n, b).seq = g.seq /\ Started(g, n, b).next = g.next
<1> SUFFICES ASSUME NEW y, y = Started(g, n, b)
             PROVE  /\ y \in GState /\ y.at = "ready" /\ y.recorded = b
                    /\ y.seq = g.seq /\ y.next = g.next
  OBVIOUS
<1>1. y = [at |-> "ready", attempt |-> n, next |-> g.next, seq |-> g.seq,
           start |-> g.start, recorded |-> b]
  BY DEF GState, Started
<1>2. g.next \in Nat /\ g.seq \in Nat /\ g.start \in Nat  BY DEF GState
<1>3. QED  BY <1>1, <1>2 DEF GState

(* A goroutine that calls a tool has the type of one.                      *)
LEMMA CallingGoroutine ==
  ASSUME NEW g \in GState, NEW n \in Nat
  PROVE  /\ Calling(g, n) \in GState
         /\ Calling(g, n).at = "calling" /\ Calling(g, n).recorded = g.recorded
         /\ Calling(g, n).seq = g.seq + 1 /\ Calling(g, n).next = g.next
<1> SUFFICES ASSUME NEW y, y = Calling(g, n)
             PROVE  /\ y \in GState /\ y.at = "calling" /\ y.recorded = g.recorded
                    /\ y.seq = g.seq + 1 /\ y.next = g.next
  OBVIOUS
<1>1. y = [at |-> "calling", attempt |-> g.attempt, next |-> g.next, seq |-> g.seq + 1,
           start |-> n, recorded |-> g.recorded]
  BY DEF GState, Calling
<1>2. /\ g.next \in Nat /\ g.seq \in Nat /\ g.attempt \in 0 .. MaxAttempts
      /\ g.recorded \in BOOLEAN
  BY DEF GState
<1>3. QED  BY <1>1, <1>2 DEF GState

(* What a goroutine does to its own state.                                 *)
LEMMA GoroutineMoves ==
  ASSUME Typed, NEW c \in Call, NEW s \in Step, Goroutine(c, s)
  PROVE  /\ gor' \in [Call -> [Step -> GState]]
         /\ \A d \in Call : \A t \in Step : d # c \/ t # s => gor'[d][t] = gor[d][t]
         /\ \/ /\ gor[c][s].at = "spawned" /\ gor'[c][s].at = "ready"
               /\ gor'[c][s].recorded = recorder
               /\ gor'[c][s].seq = gor[c][s].seq /\ gor'[c][s].next = gor[c][s].next
            \/ /\ gor[c][s].at = "ready" /\ gor'[c][s].at = "calling"
               /\ gor'[c][s].recorded = gor[c][s].recorded
               /\ gor'[c][s].seq = gor[c][s].seq + 1 /\ gor'[c][s].next = gor[c][s].next
               /\ gor[c][s].next <= Len(Script[s])
            \/ /\ gor[c][s].at \in {"calling", "ready", "erred"}
               /\ gor'[c][s].at \in {"ready", "erred", "done", "failed"}
               /\ gor'[c][s].recorded = gor[c][s].recorded
               /\ gor'[c][s].seq = gor[c][s].seq
               /\ \/ gor'[c][s].next \in {1, gor[c][s].next}
                  \/ gor[c][s].at = "calling" /\ gor'[c][s].next = gor[c][s].next + 1
<1> DEFINE g == gor[c][s]
<1>0. gor \in [Call -> [Step -> GState]] /\ g \in GState
  BY DEF Typed, GorType
<1>1. CASE StartStep(c, s)
  <2> DEFINE h == Started(g, 1, recorder)
  <2>1. recorder \in BOOLEAN /\ 1 \in 0 .. MaxAttempts
    BY SharedEngineAssumption DEF Typed, CallsType
  <2>2. gor' = [gor EXCEPT ![c] = [gor[c] EXCEPT ![s] = h]]
    BY <1>1 DEF StartStep, Started
  <2>3. g.at = "spawned"  BY <1>1 DEF StartStep, At
  <2>4. /\ h \in GState /\ h.at = "ready" /\ h.recorded = recorder
        /\ h.seq = g.seq /\ h.next = g.next
    BY <1>0, <2>1, StartedGoroutine
  <2> HIDE DEF h
  <2>5. /\ gor' \in [Call -> [Step -> GState]] /\ gor'[c][s] = h
        /\ \A d \in Call : \A t \in Step : d # c \/ t # s => gor'[d][t] = gor[d][t]
    BY <1>0, <2>2, <2>4
  <2>6. QED  BY <2>3, <2>4, <2>5
<1>2. CASE CallTool(c, s)
  <2> DEFINE n == clock'[c]
             h == Calling(g, n)
  <2>1. n \in Nat
    BY <1>2 DEF CallTool, Typed, CallsType
  <2>2. gor' = [gor EXCEPT ![c][s].at = "calling", ![c][s].seq = @ + 1, ![c][s].start = n]
    BY <1>2 DEF CallTool
  <2>3. g.at = "ready" /\ g.next <= Len(Script[s])  BY <1>2 DEF CallTool, At
  <2> HIDE DEF n
  <2>4. gor' = [gor EXCEPT ![c] = [gor[c] EXCEPT ![s] = h]]
    BY <2>2 DEF Calling
  <2>5. /\ h \in GState /\ h.at = "calling" /\ h.recorded = g.recorded
        /\ h.seq = g.seq + 1 /\ h.next = g.next
    BY <1>0, <2>1, CallingGoroutine
  <2> HIDE DEF h
  <2>6. /\ gor' \in [Call -> [Step -> GState]] /\ gor'[c][s] = h
        /\ \A d \in Call : \A t \in Step : d # c \/ t # s => gor'[d][t] = gor[d][t]
    BY <1>0, <2>4, <2>5
  <2>7. QED  BY <2>3, <2>5, <2>6
<1>3. CASE Replied(c, s)
  <2>1. PICK out \in Output \cup {ToolError} :
          /\ gor[c][s].at = "calling"
          /\ gor' = [gor EXCEPT ![c][s].at = IF out = ToolError THEN "erred" ELSE "ready",
                                ![c][s].next = IF out = ToolError THEN @ ELSE @ + 1]
    BY <1>3 DEF Replied, Answered, At
  <2>2. CASE out = ToolError  BY <1>0, <2>1, <2>2 DEF GState
  <2>3. CASE out # ToolError  BY <1>0, <2>1, <2>3 DEF GState
  <2>4. QED  BY <2>2, <2>3
<1>4. CASE Claim(c, s)
  <2>1. PICK at \in {"done", "erred"} : gor' = [gor EXCEPT ![c][s].at = at]
    BY <1>4 DEF Claim
  <2>2. gor[c][s].at = "ready"  BY <1>4 DEF Claim, At
  <2>3. QED  BY <1>0, <2>1, <2>2 DEF GState
<1>5. CASE Retry(c, s)
  <2>1. g.attempt + 1 \in 0 .. MaxAttempts
    BY <1>0, <1>5, SharedEngineAssumption DEF Retry, GState
  <2>2. QED  BY <1>0, <1>5, <2>1 DEF Retry, At, GState
<1>6. CASE GiveUp(c, s)
  BY <1>0, <1>6 DEF GiveUp, At, GState
<1>7. QED  BY <1>1, <1>2, <1>3, <1>4, <1>5, <1>6, RepliedWhen DEF Goroutine

(* The goroutines keep the types.                                          *)
LEMMA TypedGoroutine ==
  ASSUME Typed, NEW c \in Call, NEW s \in Step, Goroutine(c, s)
  PROVE  Typed'
<1> DEFINE g == gor[c][s]
<1>0. g \in GState  BY DEF Typed, GorType
<1>1. CallsType'
  <2>1. clock' \in [Call -> Nat]
    <3>1. CASE CallTool(c, s)  BY <3>1 DEF CallTool, Typed, CallsType
    <3>2. CASE ~CallTool(c, s)
      <4>1. clock' = clock
        BY <3>2, RepliedWhen DEF Goroutine, StartStep, Replied, Answered, Claim, Retry, GiveUp,
           callVars
      <4>2. QED  BY <4>1 DEF Typed, CallsType
    <3>3. QED  BY <3>1, <3>2
  <2>2. toolRows' \subseteq RowType /\ collected' \in [Call -> SUBSET Output]
    <3>1. CASE Replied(c, s)
      <4>1. PICK out \in Output \cup {ToolError}, real \in BOOLEAN :
              At(c, s, "calling") /\ Answered(c, s, out, real)
        BY <3>1 DEF Replied
      <4> DEFINE row == [run |-> c, step |-> s, seq |-> g.seq, args |-> Args(c, s),
                         out |-> out, start |-> g.start]
      <4>2. Args(c, s) \in Argument
        <5>1. g.next \in 1 .. Len(Script[s]) + 1 /\ g.next <= Len(Script[s])
          BY <4>1 DEF At, Typed, GorType
        <5>2. QED  BY <5>1, ScriptLength, ScriptArgument DEF Args
      <4>3. row \in RowType
        BY <1>0, <4>2 DEF GState, RowType
      <4> HIDE DEF row
      <4>4. toolRows' \subseteq toolRows \cup {row}
        BY <4>1 DEF Answered, row
      <4>5. collected' = [collected EXCEPT ![c] = @ \cup ({out} \ {ToolError})]
        BY <4>1 DEF Answered
      <4>6. {out} \ {ToolError} \subseteq Output  OBVIOUS
      <4>7. QED  BY <4>3, <4>4, <4>5, <4>6 DEF Typed, CallsType
    <3>2. CASE ~Replied(c, s)  BY <3>2, GoroutineFrame DEF Typed, CallsType
    <3>3. QED  BY <3>1, <3>2
  <2>3. UNCHANGED <<tools, recorder, collector, saved, inner>>  BY GoroutineFrame
  <2>4. QED  BY <2>1, <2>2, <2>3 DEF Typed, CallsType
<1>2. RoundsType'
  <2>1. UNCHANGED <<pc, round>>  BY GoroutineFrame
  <2>2. QED  BY <2>1 DEF Typed, RoundsType
<1>3. GorType'
  <2>1. /\ gor' \in [Call -> [Step -> GState]]
        /\ \A d \in Call : \A t \in Step : d # c \/ t # s => gor'[d][t] = gor[d][t]
    BY GoroutineMoves
  <2>2. /\ g.next \in 1 .. Len(Script[s]) + 1
        /\ g.at = "calling" => g.next <= Len(Script[s])
    BY DEF Typed, GorType
  <2>3. /\ gor'[c][s].next \in 1 .. Len(Script[s]) + 1
        /\ gor'[c][s].at = "calling" => gor'[c][s].next <= Len(Script[s])
    BY <1>0, <2>2, GoroutineMoves, ScriptLength
  <2>4. QED  BY <2>1, <2>3 DEF Typed, GorType
<1>4. EntriesType'
  <2>1. CASE ReplayReturns(c, s)
    <3> DEFINE x == inner[c]
    <3>1. PICK k \in Matching(x, Args(c, s)) :
            entries' = [entries EXCEPT ![x][k].consumed = TRUE]
      BY <2>1 DEF ReplayReturns
    <3>2. x \in Call /\ k \in DOMAIN entries[x]
      BY <2>1, <3>1 DEF ReplayReturns, Matching, Typed, CallsType
    <3>3. entries[x][k] \in Entry  BY <3>2 DEF Typed, EntriesType
    <3> DEFINE e == [entries[x][k] EXCEPT !.consumed = TRUE]
    <3>4. e \in Entry  BY <3>3 DEF Entry
    <3>5. entries' = [entries EXCEPT ![x] = [entries[x] EXCEPT ![k] = e]]
      BY <3>1
    <3> HIDE DEF e, x
    <3>6. QED  BY <3>2, <3>4, <3>5 DEF Typed, EntriesType
  <2>2. CASE ~ReplayReturns(c, s)
    <3>1. entries' = entries
      BY <2>2 DEF Goroutine, StartStep, CallTool, ToolReturns, ReplayDiverges, Claim, Retry,
         GiveUp, callVars
    <3>2. QED  BY <3>1 DEF Typed, EntriesType
  <2>3. QED  BY <2>1, <2>2
<1>5. QED  BY <1>1, <1>2, <1>3, <1>4 DEF Typed

(* The types hold in every reachable state.                                *)
LEMMA TypedInvariant == Spec => []Typed
<1>1. Typed /\ [Next]_vars => Typed'
  <2> SUFFICES ASSUME Typed, [Next]_vars PROVE Typed'
    OBVIOUS
  <2>1. CASE Next
    BY <2>1, TypedMain, TypedGoroutine DEF Next, Main
  <2>2. CASE UNCHANGED vars
    BY <2>2 DEF vars, Typed, CallsType, RoundsType, GorType, EntriesType
  <2>3. QED  BY <2>1, <2>2
<1>2. QED  BY <1>1, TypedInit, PTL DEF Spec

(* The fields of the engine, its rows and the state of its calls have      *)
(* their types, and attempts and plans stay below their maxima.            *)
THEOREM TypesCorrect == Spec => []TypeOK
BY TypedInvariant, TypedTypeOK, PTL
-----------------------------------------------------------------------------
(* One call at a time.  Nothing in the code enforces it, and the engine    *)
(* keeps its promises about replays and evidence only then: with MaxActive *)
(* = 2 runs violate all of them.                                           *)

(* The engine has its own tools and its recorder.                          *)
Own == tools = RealTools /\ recorder = TRUE

Alone == \A c, d \in Active : c = d

(* Where a replay has saved the executors, and what it still has to        *)
(* restore of them; what Execute finds in the fields it takes.             *)
SerialAt(c) ==
  /\ pc[c] \in {"save", "swap tools", "swap recorder", "restore tools", "restore recorder"} =>
       IsReplay(c)
  /\ pc[c] \in {"save", "swap tools"} => Own
  /\ IsReplay(c) /\ pc[c] # "save" => saved[c].tools = RealTools /\ saved[c].recorder = TRUE
  /\ IsReplay(c) /\ pc[c] \notin {"save", "swap tools", "restore recorder"} => tools = c
  /\ pc[c] = "restore recorder" => tools = RealTools
  /\ IsReplay(c) /\ pc[c] \notin {"save", "swap tools", "swap recorder"} => recorder = FALSE
  /\ ~IsReplay(c) => Own
  /\ pc[c] \in {"set collector", "plan", "batch"} =>
       inner[c] = IF IsReplay(c) THEN c ELSE RealTools
  /\ pc[c] \in {"plan", "batch"} => collector = c

Serial ==
  /\ Alone
  /\ Active = {} => Own
  /\ \A c \in Active : SerialAt(c)

(* Who may start when calls run one at a time finds nobody under way.      *)
LEMMA StartsAlone ==
  ASSUME MaxActive = 1, Alone, MayStart
  PROVE  Active = {}
<1> SUFFICES ASSUME NEW c \in Active PROVE FALSE
  OBVIOUS
<1>1. Active = {c}  BY DEF Alone
<1>2. Cardinality(Active) = 1  BY <1>1, FS_Singleton
<1>3. QED  BY <1>2 DEF MayStart

(* One call at a time finds the fields as the last one restored them.      *)
LEMMA SerialMain ==
  ASSUME MaxActive = 1, Typed, Serial, NEW c \in Call, Main(c)
  PROVE  Serial'
<1>0. /\ pc \in [Call -> PC] /\ pc'[c] \in PC /\ pc' = [pc EXCEPT ![c] = pc'[c]]
      /\ saved \in [Call -> [tools : {RealTools} \cup Call, recorder : BOOLEAN]]
      /\ inner \in [Call -> {RealTools} \cup Call]
  BY MainFrame DEF Typed, RoundsType, CallsType
<1>1. \A d \in Active' : d = c
  <2>1. CASE LoadReplay(c) \/ StartExecute(c)
    <3>1. Active = {}
      BY <2>1, StartsAlone DEF LoadReplay, StartExecute, Serial
    <3>2. QED  BY <1>0, <3>1 DEF Active
  <2>2. CASE ~(LoadReplay(c) \/ StartExecute(c))
    <3>1. c \in Active
      BY <2>2 DEF Main, Replaying, Executing, SaveExecutors, SwapTools, SwapRecorder,
         RestoreTools, RestoreRecorder, CaptureTools, SetCollector, StartRound, EndRound,
         Goto, Active
    <3>2. QED  BY <1>0, <3>1 DEF Active, Serial, Alone
  <2>3. QED  BY <2>1, <2>2
<1>2. /\ pc'[c] # "returned" => SerialAt(c)'
      /\ pc'[c] = "returned" => Own'
  <2>1. CASE LoadReplay(c) \/ StartExecute(c)
    <3>1. Active = {} /\ Own
      BY <2>1, StartsAlone DEF LoadReplay, StartExecute, Serial
    <3>2. Own' /\ pc'[c] = (IF IsReplay(c) THEN "save" ELSE "execute")
      BY <1>0, <2>1, <3>1 DEF LoadReplay, StartExecute, Goto, Own, engineVars
    <3>3. IsReplay(c)' <=> IsReplay(c)  BY DEF IsReplay
    <3>4. QED  BY <3>2, <3>3 DEF SerialAt
  <2>2. CASE ~(LoadReplay(c) \/ StartExecute(c))
    <3>1. SerialAt(c)
      BY <2>2 DEF Main, Replaying, Executing, SaveExecutors, SwapTools, SwapRecorder,
         RestoreTools, RestoreRecorder, CaptureTools, SetCollector, StartRound, EndRound,
         Goto, Active, Serial
    <3>2. CASE SaveExecutors(c)
      BY <1>0, <3>1, <3>2 DEF SaveExecutors, Goto, SerialAt, Own, IsReplay, engineVars
    <3>3. CASE SwapTools(c)
      BY <1>0, <3>1, <3>3 DEF SwapTools, Goto, SerialAt, Own, IsReplay, callVars
    <3>4. CASE SwapRecorder(c)
      BY <1>0, <3>1, <3>4 DEF SwapRecorder, Goto, SerialAt, Own, IsReplay, callVars
    <3>5. CASE RestoreTools(c)
      BY <1>0, <3>1, <3>5 DEF RestoreTools, Goto, SerialAt, Own, IsReplay, callVars
    <3>6. CASE RestoreRecorder(c)
      BY <1>0, <3>1, <3>6 DEF RestoreRecorder, Goto, SerialAt, Own, IsReplay, callVars
    <3>7. CASE CaptureTools(c)
      BY <1>0, <3>1, <3>7 DEF CaptureTools, Goto, SerialAt, Own, IsReplay, engineVars
    <3>8. CASE SetCollector(c)
      BY <1>0, <3>1, <3>8 DEF SetCollector, Goto, SerialAt, Own, IsReplay, callVars
    <3>9. CASE StartRound(c)
      BY <1>0, <3>1, <3>9 DEF StartRound, Goto, SerialAt, Own, IsReplay, engineVars, callVars
    <3>10. CASE EndRound(c)
      BY <1>0, <3>1, <3>10 DEF EndRound, Goto, SerialAt, Own, IsReplay, engineVars, callVars
    <3>11. QED
      BY <2>2, <3>2, <3>3, <3>4, <3>5, <3>6, <3>7, <3>8, <3>9, <3>10
         DEF Main, Replaying, Executing
  <2>3. QED  BY <2>1, <2>2
<1>3. Active' = {} => Own'
  <2>1. pc'[c] # "idle"
    <3>1. CASE EndRound(c)  BY <1>0, <3>1 DEF EndRound, Goto
    <3>2. CASE ~EndRound(c)
      BY <1>0, <3>2 DEF Main, Replaying, Executing, LoadReplay, SaveExecutors, SwapTools,
         SwapRecorder, RestoreTools, RestoreRecorder, StartExecute, CaptureTools,
         SetCollector, StartRound, Goto
    <3>3. QED  BY <3>1, <3>2
  <2>2. QED  BY <1>2, <2>1 DEF Active
<1>4. QED  BY <1>1, <1>2, <1>3 DEF Serial, Alone, Active

(* What a goroutine leaves alone.                                          *)
LEMMA SerialFrame ==
  ASSUME Serial, UNCHANGED <<tools, recorder, collector, pc, saved, inner>>
  PROVE  Serial'
<1>1. Active' = Active  BY DEF Active
<1>2. Alone' /\ (Active' = {} => Own')  BY <1>1 DEF Serial, Alone, Own
<1>3. \A c \in Active : SerialAt(c)'  BY DEF Serial, SerialAt, Own
<1>4. QED  BY <1>1, <1>2, <1>3 DEF Serial

(* With one call at a time the fields belong to the call that is active.   *)
LEMMA SerialInvariant == ASSUME MaxActive = 1 PROVE Spec => []Serial
<1>1. Init => Serial
  BY DEF Init, Serial, Active, Alone, Own
<1>2. Serial /\ Typed /\ [Next]_vars => Serial'
  <2> SUFFICES ASSUME Serial, Typed, [Next]_vars PROVE Serial'
    OBVIOUS
  <2>1. ASSUME NEW c \in Call, Main(c) PROVE Serial'
    BY <2>1, SerialMain
  <2>2. ASSUME NEW c \in Call, NEW s \in Step, Goroutine(c, s) PROVE Serial'
    BY <2>2, GoroutineFrame, SerialFrame
  <2>3. CASE UNCHANGED vars
    BY <2>3, SerialFrame DEF vars
  <2>4. QED  BY <2>1, <2>2, <2>3 DEF Next, Main
<1>3. QED  BY <1>1, <1>2, TypedInvariant, PTL DEF Spec

(* With no call under way the engine has its own tools and its recorder    *)
(* again (the deferred restore of Replay), if calls run one at a time.     *)
THEOREM EngineIsRestored == ASSUME MaxActive = 1 PROVE Spec => []EngineRestored
<1>1. Serial => EngineRestored  BY DEF Serial, Own, EngineRestored
<1>2. QED  BY <1>1, SerialInvariant, PTL
-----------------------------------------------------------------------------
(* What a goroutine adds to the history of tool calls.                     *)
LEMMA ReturnedNext ==
  ASSUME Typed, NEW c \in Call, NEW s \in Step, Goroutine(c, s)
  PROVE  \A r \in returned' \ returned :
           /\ r.call = c /\ r.step = s /\ r.seq = gor[c][s].seq
           /\ gor[c][s].at = "calling"
           /\ r.real => inner[c] = RealTools
<1>1. CASE ToolReturns(c, s)
  BY <1>1 DEF ToolReturns, Answered, At
<1>2. CASE ReplayReturns(c, s)
  <2>1. PICK k \in Matching(inner[c], Args(c, s)) :
          Answered(c, s, entries[inner[c]][k].out, FALSE) /\ At(c, s, "calling")
    BY <1>2 DEF ReplayReturns
  <2>2. QED  BY <2>1 DEF Answered, At
<1>3. CASE ReplayDiverges(c, s)
  BY <1>3 DEF ReplayDiverges, Answered, At
<1>4. CASE ~(ToolReturns(c, s) \/ ReplayReturns(c, s) \/ ReplayDiverges(c, s))
  <2>1. returned' = returned
    BY <1>4 DEF Goroutine, StartStep, CallTool, Claim, Retry, GiveUp, history
  <2>2. QED  BY <2>1
<1>5. QED  BY <1>1, <1>2, <1>3, <1>4

(* No tool call of a replay reaches a registered tool, if calls run one at *)
(* a time (Replay swaps e.tools for its ReplayExecutor).                   *)
THEOREM ReplayTouchesNothing == ASSUME MaxActive = 1 PROVE Spec => []ReplayTouchesNoTool
<1>1. Init => ReplayTouchesNoTool  BY DEF Init, ReplayTouchesNoTool
<1>2. ReplayTouchesNoTool /\ Typed /\ Serial /\ [Next]_vars => ReplayTouchesNoTool'
  <2> SUFFICES ASSUME ReplayTouchesNoTool, Typed, Serial, [Next]_vars
               PROVE  ReplayTouchesNoTool'
    OBVIOUS
  <2>1. ASSUME NEW c \in Call, NEW s \in Step, Goroutine(c, s) PROVE ReplayTouchesNoTool'
    <3>1. IsReplay(c) => inner[c] = c
      <4>1. pc[c] = "batch" /\ c \in Active  BY <2>1, GoroutineFrame DEF Active
      <4>2. QED  BY <4>1 DEF Serial, SerialAt
    <3>2. \A r \in returned' \ returned : r.call = c /\ (r.real => inner[c] = RealTools)
      BY <2>1, ReturnedNext
    <3>3. QED  BY <3>1, <3>2, SharedEngineAssumption DEF ReplayTouchesNoTool, IsReplay
  <2>2. CASE UNCHANGED returned
    BY <2>2 DEF ReplayTouchesNoTool, IsReplay
  <2>3. QED  BY <2>1, <2>2, MainFrame DEF Next, Main, vars
<1>3. QED  BY <1>1, <1>2, TypedInvariant, SerialInvariant, PTL DEF Spec
-----------------------------------------------------------------------------
(* The collector of a run has the outputs of its successful tool calls.    *)
Outputs(c) == {r.out : r \in {q \in returned : q.call = c}}

Collected == \A c \in Call : collected[c] = Outputs(c) \ {ToolError}

(* The collector of a run has what the tools returned to the run.          *)
LEMMA CollectedStep ==
  ASSUME Typed, Collected, [Next]_vars
  PROVE  Collected'
<1>1. ASSUME NEW c \in Call, NEW s \in Step, Replied(c, s) PROVE Collected'
  <2>1. PICK out \in Output \cup {ToolError}, real \in BOOLEAN : Answered(c, s, out, real)
    BY <1>1 DEF Replied
  <2> DEFINE r == [call |-> c, round |-> round[c], step |-> s, seq |-> gor[c][s].seq,
                   args |-> Args(c, s), out |-> out, real |-> real]
  <2>2. /\ returned' = returned \cup {r} /\ r.call = c /\ r.out = out
        /\ collected' = [collected EXCEPT ![c] = @ \cup ({out} \ {ToolError})]
    BY <2>1 DEF Answered
  <2> HIDE DEF r
  <2>3. Outputs(c)' = Outputs(c) \cup {out}  BY <2>2 DEF Outputs
  <2>4. \A d \in Call : d # c => Outputs(d)' = Outputs(d)  BY <2>2 DEF Outputs
  <2>5. collected \in [Call -> SUBSET Output]  BY DEF Typed, CallsType
  <2> HIDE DEF Outputs
  <2>6. QED  BY <2>2, <2>3, <2>4, <2>5 DEF Collected
<1>2. CASE UNCHANGED <<collected, returned>>
  BY <1>2 DEF Collected, Outputs
<1>3. QED  BY <1>1, <1>2, MainFrame, GoroutineFrame DEF Next, Main, vars

(* The collectors are exact in every reachable state.                      *)
LEMMA CollectedInvariant == Spec => []Collected
<1>1. Init => Collected  BY DEF Init, Collected, Outputs
<1>2. QED  BY <1>1, CollectedStep, TypedInvariant, PTL DEF Spec

(* Evidence is accepted if and only if it is in an output that a tool call *)
(* of the same run has returned, if calls run one at a time (the grounding *)
(* validator has the collector of the run that set it last).               *)
THEOREM EvidenceGrounded == ASSUME MaxActive = 1 PROVE Spec => []GroundingExact
<1>1. Init => GroundingExact  BY DEF Init, GroundingExact
<1>2. GroundingExact /\ Typed /\ Serial /\ Collected /\ [Next]_vars => GroundingExact'
  <2> SUFFICES ASSUME GroundingExact, Typed, Serial, Collected, [Next]_vars
               PROVE  GroundingExact'
    OBVIOUS
  <2>1. ASSUME NEW c \in Call, NEW s \in Step, Claim(c, s) PROVE GroundingExact'
    <3>1. pc[c] = "batch" /\ c \in Active  BY <2>1 DEF Claim, At, Active
    <3>2. collector = c  BY <3>1 DEF Serial, SerialAt
    <3>3. PICK claim \in SUBSET Output :
            claims' = claims \cup
              {[accepted |-> claim = {} \/ collector = NoCall
                              \/ claim \subseteq collected[collector],
                grounded |-> claim \subseteq Outputs(c)]}
      BY <2>1 DEF Claim, Outputs
    <3>4. claim \subseteq collected[c] <=> claim \subseteq Outputs(c)
      BY SharedEngineAssumption DEF Collected
    <3>5. (claim = {} \/ collector = NoCall \/ claim \subseteq collected[collector])
            <=> claim \subseteq Outputs(c)
      BY <3>2, <3>4, SharedEngineAssumption
    <3>6. QED  BY <3>3, <3>5 DEF GroundingExact
  <2>2. CASE UNCHANGED claims  BY <2>2 DEF GroundingExact
  <2>3. QED  BY <2>1, <2>2, MainFrame, GoroutineFrame DEF Next, Main, vars
<1>3. QED  BY <1>1, <1>2, TypedInvariant, SerialInvariant, CollectedInvariant, PTL DEF Spec
-----------------------------------------------------------------------------
(* The table of tool calls.  A replan starts the sequence numbers of the   *)
(* steps over, and a replay beside it switches the recorder off: where     *)
(* neither happens no call is lost, however many runs overlap and however  *)
(* often a step is tried again.                                            *)

NoReplayBeside == MaxActive = 1 \/ \A c \in Call : ~IsReplay(c)

RecorderOn == \A c \in Call : ~IsReplay(c) /\ pc[c] = "batch" => recorder = TRUE

(* Without replays nobody touches the recorder.                            *)
Unswapped ==
  /\ recorder = TRUE
  /\ \A c \in Call : pc[c] \in {"idle", "execute", "set collector", "plan", "batch", "returned"}

(* Without a replay beside it, a run keeps the persisting recorder.        *)
LEMMA RecorderInvariant == ASSUME NoReplayBeside PROVE Spec => []RecorderOn
<1>1. CASE MaxActive = 1
  <2>1. Serial => RecorderOn  BY DEF Serial, SerialAt, RecorderOn, Active, Own
  <2>2. QED  BY <1>1, <2>1, SerialInvariant, PTL
<1>2. CASE \A c \in Call : ~IsReplay(c)
  <2>1. Init => Unswapped  BY DEF Init, Unswapped
  <2>2. Unswapped /\ Typed /\ [Next]_vars => Unswapped'
    <3> SUFFICES ASSUME Unswapped, Typed, [Next]_vars PROVE Unswapped'
      OBVIOUS
    <3>1. pc \in [Call -> PC]  BY DEF Typed, RoundsType
    <3>2. ASSUME NEW c \in Call, Executing(c) PROVE Unswapped'
      <4>1. ~IsReplay(c)  BY <1>2
      <4>2. CASE EndRound(c)
        BY <3>1, <4>1, <4>2 DEF EndRound, Goto, Unswapped, engineVars
      <4>3. CASE ~EndRound(c)
        BY <3>1, <3>2, <4>3 DEF Executing, StartExecute, CaptureTools, SetCollector,
           StartRound, Goto, Unswapped, engineVars
      <4>4. QED  BY <4>2, <4>3
    <3>3. ASSUME NEW c \in Call PROVE ~Replaying(c)
      BY <1>2 DEF Unswapped, Replaying, LoadReplay, SaveExecutors, SwapTools, SwapRecorder,
         RestoreTools, RestoreRecorder, Goto
    <3>4. ASSUME NEW c \in Call, NEW s \in Step, Goroutine(c, s) PROVE Unswapped'
      BY <3>4, GoroutineFrame DEF Unswapped
    <3>5. CASE UNCHANGED vars  BY <3>5 DEF Unswapped, vars
    <3>6. QED  BY <3>2, <3>3, <3>4, <3>5 DEF Next
  <2>3. Unswapped => RecorderOn  BY DEF Unswapped, RecorderOn
  <2>4. QED  BY <2>1, <2>2, <2>3, TypedInvariant, PTL DEF Spec
<1>3. QED  BY <1>1, <1>2 DEF NoReplayBeside

(* The rows of a step have sequence numbers below that of the call that    *)
(* its goroutine is making, which is why the key of its row is free.       *)
RowsBelow ==
  /\ \A c \in Call : pc[c] = "batch" => round[c] >= 1
  /\ \A t \in toolRows :
       /\ round[t.run] >= 1
       /\ t.seq <= gor[t.run][t.step].seq
       /\ gor[t.run][t.step].at = "calling" => t.seq < gor[t.run][t.step].seq

KeepsRecorder ==
  \A c \in Call : \A s \in Step :
    ~IsReplay(c) /\ gor[c][s].at \notin {"idle", "spawned"} => gor[c][s].recorded = TRUE

(* An attempt keeps the recorder it has begun with.                        *)
LEMMA KeepsRecorderStep ==
  ASSUME Typed, RecorderOn, KeepsRecorder, [Next]_vars
  PROVE  KeepsRecorder'
<1>1. ASSUME NEW c \in Call, Main(c) PROVE KeepsRecorder'
  <2>1. CASE StartRound(c)
    <3>1. \A s \in Step : gor'[c][s].at = "spawned"
      <4>1. gor' = [gor EXCEPT ![c] = [s \in Step |-> [Idle EXCEPT !.at = "spawned"]]]
        BY <2>1 DEF StartRound
      <4>2. QED  BY <4>1 DEF Typed, GorType, Idle
    <3>2. \A d \in Call : d # c => gor'[d] = gor[d]
      BY <2>1 DEF StartRound, Typed, GorType
    <3>3. QED  BY <3>1, <3>2 DEF KeepsRecorder, IsReplay
  <2>2. CASE ~StartRound(c)
    <3>1. gor' = gor
      BY <1>1, <2>2 DEF Main, Replaying, Executing, LoadReplay, SaveExecutors, SwapTools,
         SwapRecorder, RestoreTools, RestoreRecorder, StartExecute, CaptureTools, SetCollector,
         EndRound
    <3>2. QED  BY <3>1 DEF KeepsRecorder, IsReplay
  <2>3. QED  BY <2>1, <2>2
<1>2. ASSUME NEW c \in Call, NEW s \in Step, Goroutine(c, s) PROVE KeepsRecorder'
  <2>1. ~IsReplay(c) => recorder = TRUE
    BY <1>2, GoroutineFrame DEF RecorderOn
  <2>2. ~IsReplay(c) => gor'[c][s].recorded = TRUE
    <3>1. \/ gor'[c][s].recorded = recorder
          \/ /\ gor[c][s].at \notin {"idle", "spawned"}
             /\ gor'[c][s].recorded = gor[c][s].recorded
      BY <1>2, GoroutineMoves
    <3>2. QED  BY <2>1, <3>1, Zenon DEF KeepsRecorder
  <2>3. \A d \in Call : \A t \in Step : d # c \/ t # s => gor'[d][t] = gor[d][t]
    BY <1>2, GoroutineMoves
  <2>4. QED  BY <2>2, <2>3 DEF KeepsRecorder, IsReplay
<1>3. CASE UNCHANGED vars  BY <1>3 DEF KeepsRecorder, IsReplay, vars
<1>4. QED  BY <1>1, <1>2, <1>3 DEF Next, Main

(* No row has a number that a goroutine has yet to give.                   *)
LEMMA RowsBelowStep ==
  ASSUME MaxRounds = 1, Typed, RowsBelow, [Next]_vars
  PROVE  RowsBelow'
<1>0. /\ \A t \in toolRows : t.run \in Call /\ t.step \in Step /\ t.seq \in Nat
      /\ gor \in [Call -> [Step -> GState]]
      /\ round \in [Call -> 0 .. MaxRounds]
  BY DEF Typed, CallsType, RowType, GorType, RoundsType
<1>1. ASSUME NEW c \in Call, Main(c) PROVE RowsBelow'
  <2>1. toolRows' = toolRows /\ pc' = [pc EXCEPT ![c] = pc'[c]]
    BY <1>1, MainFrame
  <2>2. CASE StartRound(c)
    <3>1. pc[c] = "plan" /\ round' = [round EXCEPT ![c] = @ + 1]
      BY <2>2 DEF StartRound, Goto
    <3>2. round[c] = 0
      <4>1. round[c] < 1  BY <3>1 DEF Typed, RoundsType
      <4>2. round[c] \in Nat  BY <1>0
      <4>3. QED  BY <4>1, <4>2
    <3>3. round'[c] = 1 /\ \A d \in Call : d # c => round'[d] = round[d] /\ gor'[d] = gor[d]
      BY <1>0, <2>2, <3>2, <3>1 DEF StartRound
    <3>4. \A t \in toolRows : t.run # c  BY <3>2 DEF RowsBelow
    <3>5. \A d \in Call : d # c => pc'[d] = pc[d]
      BY <2>1 DEF Typed, RoundsType
    <3>6. QED  BY <1>0, <2>1, <3>3, <3>4, <3>5 DEF RowsBelow
  <2>3. CASE ~StartRound(c)
    <3>1. gor' = gor /\ round' = round
      BY <1>1, <2>3 DEF Main, Replaying, Executing, LoadReplay, SaveExecutors, SwapTools,
         SwapRecorder, RestoreTools, RestoreRecorder, StartExecute, CaptureTools, SetCollector,
         EndRound
    <3>2. pc'[c] # "batch"
      <4>1. pc \in [Call -> PC]  BY DEF Typed, RoundsType
      <4>2. CASE EndRound(c)  BY <4>1, <4>2 DEF EndRound, Goto
      <4>3. CASE ~EndRound(c)
        BY <1>1, <2>3, <4>1, <4>3 DEF Main, Replaying, Executing, LoadReplay, SaveExecutors,
           SwapTools, SwapRecorder, RestoreTools, RestoreRecorder, StartExecute, CaptureTools,
           SetCollector, Goto
      <4>4. QED  BY <4>2, <4>3
    <3>3. \A d \in Call : d # c => pc'[d] = pc[d]
      BY <2>1 DEF Typed, RoundsType
    <3>4. QED  BY <2>1, <3>1, <3>2, <3>3 DEF RowsBelow
  <2>4. QED  BY <2>2, <2>3
<1>2. ASSUME NEW c \in Call, NEW s \in Step, Goroutine(c, s) PROVE RowsBelow'
  <2>1. /\ \A d \in Call : \A t \in Step : d # c \/ t # s => gor'[d][t] = gor[d][t]
        /\ pc[c] = "batch" /\ pc' = pc /\ round' = round
    BY <1>2, GoroutineMoves, GoroutineFrame
  <2>2. gor[c][s].seq \in Nat  BY <1>0 DEF GState
  <2>3. /\ gor[c][s].seq \in Nat
        /\ \/ gor'[c][s].at # "calling" /\ gor'[c][s].seq = gor[c][s].seq
           \/ gor'[c][s].seq = gor[c][s].seq + 1
    BY <1>2, <2>2, GoroutineMoves
  <2>4. \A r \in toolRows' \ toolRows :
           /\ r.run = c /\ r.step = s /\ r.seq = gor[c][s].seq
           /\ gor'[c][s].at # "calling"
    <3>1. CASE Replied(c, s)
      <4>1. PICK out \in Output \cup {ToolError}, real \in BOOLEAN :
              At(c, s, "calling") /\ Answered(c, s, out, real)
        BY <3>1 DEF Replied
      <4>2. gor[c][s].at = "calling"  BY <4>1 DEF At
      <4>3. gor'[c][s].at # "calling"  BY <1>2, <4>2, GoroutineMoves
      <4>4. QED  BY <4>1, <4>3 DEF Answered
    <3>2. CASE ~Replied(c, s)  BY <1>2, <3>2, GoroutineFrame
    <3>3. QED  BY <3>1, <3>2
  <2>5. \A d \in Call : \A t \in Step : gor[d][t].seq \in Nat
    BY <1>0 DEF GState
  <2>6. ASSUME NEW r \in toolRows'
        PROVE  /\ round[r.run] >= 1
               /\ r.seq <= gor'[r.run][r.step].seq
               /\ gor'[r.run][r.step].at = "calling" => r.seq < gor'[r.run][r.step].seq
    <3>1. CASE r \in toolRows
      <4>1. CASE r.run = c /\ r.step = s  BY <1>0, <2>3, <3>1, <4>1 DEF RowsBelow
      <4>2. CASE ~(r.run = c /\ r.step = s)  BY <1>0, <2>1, <3>1, <4>2 DEF RowsBelow
      <4>3. QED  BY <4>1, <4>2
    <3>2. CASE r \notin toolRows  BY <2>1, <2>3, <2>4, <3>2 DEF RowsBelow
    <3>3. QED  BY <3>1, <3>2
  <2>7. QED  BY <2>1, <2>6 DEF RowsBelow
<1>3. CASE UNCHANGED vars  BY <1>3 DEF RowsBelow, vars
<1>4. QED  BY <1>1, <1>2, <1>3 DEF Next, Main

(* Every answer of a tool is in the table, and stays there.                *)
LEMMA RecordedStep ==
  ASSUME Typed, RowsBelow, KeepsRecorder, EveryToolCallRecorded, [Next]_vars
  PROVE  EveryToolCallRecorded'
<1>1. ASSUME NEW c \in Call, NEW s \in Step, Replied(c, s) PROVE EveryToolCallRecorded'
  <2>1. PICK out \in Output \cup {ToolError}, real \in BOOLEAN :
          At(c, s, "calling") /\ Answered(c, s, out, real)
    BY <1>1 DEF Replied
  <2> DEFINE g   == gor[c][s]
             row == [run |-> c, step |-> s, seq |-> g.seq, args |-> Args(c, s),
                     out |-> out, start |-> g.start]
             r   == [call |-> c, round |-> round[c], step |-> s, seq |-> g.seq,
                     args |-> Args(c, s), out |-> out, real |-> real]
  <2>2. g.at = "calling" /\ g.seq \in Nat
    BY <2>1 DEF At, Typed, GorType, GState
  <2>3. ~\E t \in toolRows : t.run = c /\ t.step = s /\ t.seq = g.seq
    BY <2>2 DEF RowsBelow
  <2>4. ~IsReplay(c) => g.recorded = TRUE
    BY <2>2 DEF KeepsRecorder
  <2>5. returned' = returned \cup {r} /\ toolRows \subseteq toolRows'
    BY <2>1 DEF Answered
  <2>6. ~IsReplay(c) => row \in toolRows'
    BY <2>1, <2>3, <2>4 DEF Answered
  <2>7. /\ r.call = c /\ <<row.run, row.step, row.seq>> = <<r.call, r.step, r.seq>>
        /\ <<row.args, row.out>> = <<r.args, r.out>>
    OBVIOUS
  <2> HIDE DEF row, r
  <2>8. QED  BY <2>5, <2>6, <2>7 DEF EveryToolCallRecorded, IsReplay
<1>2. CASE UNCHANGED <<toolRows, returned>>
  BY <1>2 DEF EveryToolCallRecorded, IsReplay
<1>3. QED  BY <1>1, <1>2, MainFrame, GoroutineFrame DEF Next, Main, vars

(* Every tool call of an execution is in the table, under its own number   *)
(* and with its result, if no replan starts the numbers over and no replay *)
(* runs beside an execution (StepExecutor wraps the tools once per step,   *)
(* not once per attempt).                                                  *)
THEOREM ToolCallsRecorded ==
  ASSUME MaxRounds = 1, NoReplayBeside PROVE Spec => []EveryToolCallRecorded
<1>1. Init => RowsBelow /\ KeepsRecorder /\ EveryToolCallRecorded
  BY DEF Init, RowsBelow, KeepsRecorder, EveryToolCallRecorded, Idle
<1>2. /\ RowsBelow /\ KeepsRecorder /\ EveryToolCallRecorded
      /\ Typed /\ RecorderOn /\ [Next]_vars
      => RowsBelow' /\ KeepsRecorder' /\ EveryToolCallRecorded'
  BY KeepsRecorderStep, RowsBelowStep, RecordedStep
<1>3. QED  BY <1>1, <1>2, TypedInvariant, RecorderInvariant, PTL DEF Spec
-----------------------------------------------------------------------------
(* Replays.  A replay finds its entries by the arguments of a call, so it  *)
(* can follow the run only where no two calls of the plan are the same and *)
(* no attempt repeats them; then, however often the plan is replanned, an  *)
(* entry comes from the first round, and a replay that needs an answer of  *)
(* a later one is told of the divergence.                                  *)

OwnCalls ==
  \A s, t \in Step : \A j \in DOMAIN Script[s] : \A k \in DOMAIN Script[t] :
    Script[s][j] = Script[t][k] => s = t /\ j = k

HasRow(c, s, k) == \E t \in toolRows : t.run = c /\ t.step = s /\ t.seq = k

HasError(c, s, k) ==
  \E t \in toolRows : t.run = c /\ t.step = s /\ t.seq = k /\ t.out = ToolError

(* Executions record their calls, replays do not.                          *)
Recording(c, s) ==
  gor[c][s].at \notin {"idle", "spawned"} => gor[c][s].recorded = ~IsReplay(c)

(* A goroutine counts its calls, and there is one attempt.                 *)
Counts(c, s) ==
  LET g == gor[c][s] IN
  /\ round[c] = 0 => g.at = "idle"
  /\ g.at \in {"idle", "spawned"} => g.next = 1 /\ g.seq = 0
  /\ g.at \notin {"idle", "spawned"} => g.attempt = 1 /\ round[c] >= 1
  /\ g.at \in {"ready", "done"} => g.seq = g.next - 1
  /\ g.at = "calling" => g.seq = g.next
  /\ g.at = "done" => g.next > Len(Script[s])
  /\ pc[c] = "plan" /\ round[c] >= 1 => g.at \in {"done", "failed"}
  /\ Recording(c, s)

(* A step of a goroutine that is not an answer to it ...                   *)
Silent(c, s) ==
  LET g == gor[c][s]
      h == gor'[c][s]
  IN /\ UNCHANGED <<toolRows, returned, entries>>
     /\ h.next = g.next
     /\ \/ /\ g.at = "spawned" /\ h.at = "ready"
           /\ h.seq = g.seq /\ h.attempt = 1 /\ h.recorded = recorder
        \/ /\ h.attempt = g.attempt /\ h.recorded = g.recorded
           /\ \/ g.at = "ready" /\ h.at = "calling" /\ h.seq = g.seq + 1
              \/ /\ g.at = "ready" /\ h.at \in {"done", "erred"}
                 /\ h.seq = g.seq /\ g.next > Len(Script[s])
              \/ g.at = "erred" /\ h.at = "failed" /\ h.seq = g.seq

(* ... and one that is.                                                    *)
Replies(c, s, out) ==
  LET g == gor[c][s]
      h == gor'[c][s]
      row == [run |-> c, step |-> s, seq |-> g.seq, args |-> Args(c, s),
              out |-> out, start |-> g.start]
  IN /\ g.at = "calling" /\ h.attempt = g.attempt /\ h.recorded = g.recorded /\ h.seq = g.seq
     /\ IF out = ToolError THEN h.at = "erred" /\ h.next = g.next
        ELSE h.at = "ready" /\ h.next = g.next + 1
     /\ \E real \in BOOLEAN :
          returned' = returned \cup
            {[call |-> c, round |-> round[c], step |-> s, seq |-> g.seq,
              args |-> Args(c, s), out |-> out, real |-> real]}
     /\ toolRows' = toolRows \cup (IF g.recorded /\ ~HasRow(c, s, g.seq) THEN {row} ELSE {})
     /\ IF ~IsReplay(c) THEN entries' = entries
        ELSE \/ /\ out = ToolError /\ entries' = entries
                /\ Matching(c, Args(c, s)) = {}
             \/ \E k \in Matching(c, Args(c, s)) :
                  out = entries[c][k].out /\ entries' = [entries EXCEPT ![c][k].consumed = TRUE]

(* What a goroutine does, if there is one attempt and one call at a time.  *)
LEMMA GoroutineReplies ==
  ASSUME MaxAttempts = 1, Typed, Serial, NEW c \in Call, NEW s \in Step, Counts(c, s),
         Goroutine(c, s)
  PROVE  Silent(c, s) \/ \E out \in Output \cup {ToolError} : Replies(c, s, out)
<1> DEFINE g == gor[c][s]
<1>0. gor \in [Call -> [Step -> GState]] /\ g \in GState
  BY DEF Typed, GorType
<1>1. inner[c] = IF IsReplay(c) THEN c ELSE RealTools
  <2>1. pc[c] = "batch" /\ c \in Active  BY GoroutineFrame DEF Active
  <2>2. QED  BY <2>1 DEF Serial, SerialAt
<1>2. CASE StartStep(c, s)
  <2>1. gor' = [gor EXCEPT ![c][s].at = "ready", ![c][s].attempt = 1, ![c][s].recorded = recorder]
        /\ UNCHANGED <<toolRows, returned, entries>> /\ g.at = "spawned"
    BY <1>2 DEF StartStep, callVars, history, At
  <2>2. QED  BY <1>0, <2>1 DEF Silent, GState
<1>3. CASE CallTool(c, s)
  <2>1. PICK n : gor' = [gor EXCEPT ![c][s].at = "calling", ![c][s].seq = @ + 1, ![c][s].start = n]
    BY <1>3 DEF CallTool
  <2>2. UNCHANGED <<toolRows, returned, entries>> /\ g.at = "ready"
    BY <1>3 DEF CallTool, history, At
  <2>3. QED  BY <1>0, <2>1, <2>2 DEF Silent, GState
<1>4. CASE Claim(c, s)
  <2>1. PICK at \in {"done", "erred"} : gor' = [gor EXCEPT ![c][s].at = at]
    BY <1>4 DEF Claim
  <2>2. /\ UNCHANGED <<toolRows, returned, entries>> /\ g.at = "ready"
        /\ g.next > Len(Script[s])
    BY <1>4 DEF Claim, callVars, At
  <2>3. QED  BY <1>0, <2>1, <2>2 DEF Silent, GState
<1>5. CASE GiveUp(c, s)
  <2>1. /\ UNCHANGED <<toolRows, returned, entries>> /\ g.at = "erred"
        /\ gor' = [gor EXCEPT ![c][s].at = "failed"]
    BY <1>5 DEF GiveUp, callVars, history, At
  <2>2. QED  BY <1>0, <2>1 DEF Silent, GState
<1>6. ~Retry(c, s)
  <2>1. g.at = "erred" => g.attempt = 1  BY DEF Counts
  <2>2. QED  BY <2>1 DEF Retry, At
<1>7. ASSUME NEW out, NEW real \in BOOLEAN, At(c, s, "calling"), Answered(c, s, out, real)
      PROVE  LET h == gor'[c][s]
                 row == [run |-> c, step |-> s, seq |-> g.seq, args |-> Args(c, s),
                         out |-> out, start |-> g.start]
             IN /\ g.at = "calling" /\ h.attempt = g.attempt /\ h.recorded = g.recorded
                /\ h.seq = g.seq
                /\ IF out = ToolError THEN h.at = "erred" /\ h.next = g.next
                   ELSE h.at = "ready" /\ h.next = g.next + 1
                /\ \E r \in BOOLEAN :
                     returned' = returned \cup
                       {[call |-> c, round |-> round[c], step |-> s, seq |-> g.seq,
                         args |-> Args(c, s), out |-> out, real |-> r]}
                /\ toolRows' = toolRows \cup
                     (IF g.recorded /\ ~HasRow(c, s, g.seq) THEN {row} ELSE {})
  <2>1. gor' = [gor EXCEPT ![c][s].at = IF out = ToolError THEN "erred" ELSE "ready",
                           ![c][s].next = IF out = ToolError THEN @ ELSE @ + 1]
    BY <1>7 DEF Answered
  <2>2. g.at = "calling"  BY <1>7 DEF At
  <2>3. /\ gor'[c][s].attempt = g.attempt /\ gor'[c][s].seq = g.seq
        /\ gor'[c][s].recorded = g.recorded
    BY <1>0, <2>1 DEF GState
  <2>4. IF out = ToolError THEN gor'[c][s].at = "erred" /\ gor'[c][s].next = g.next
        ELSE gor'[c][s].at = "ready" /\ gor'[c][s].next = g.next + 1
    BY <1>0, <2>1 DEF GState
  <2>5. returned' = returned \cup
          {[call |-> c, round |-> round[c], step |-> s, seq |-> g.seq,
            args |-> Args(c, s), out |-> out, real |-> real]}
    BY <1>7 DEF Answered
  <2>6. toolRows' = toolRows \cup
          (IF g.recorded /\ ~HasRow(c, s, g.seq)
             THEN {[run |-> c, step |-> s, seq |-> g.seq, args |-> Args(c, s),
                    out |-> out, start |-> g.start]} ELSE {})
    BY <1>7 DEF Answered, HasRow
  <2>7. QED  BY <2>2, <2>3, <2>4, <2>5, <2>6
<1>8. CASE ToolReturns(c, s)
  <2>1. ~IsReplay(c) /\ entries' = entries
    BY <1>1, <1>8, SharedEngineAssumption DEF ToolReturns
  <2>2. PICK out \in Output \cup {ToolError} : At(c, s, "calling") /\ Answered(c, s, out, TRUE)
    BY <1>8 DEF ToolReturns
  <2>3. Replies(c, s, out)  BY <1>7, <2>1, <2>2 DEF Replies
  <2>4. QED  BY <2>3
<1>9. CASE ReplayDiverges(c, s)
  <2>1. /\ IsReplay(c) /\ entries' = entries /\ Matching(c, Args(c, s)) = {}
        /\ At(c, s, "calling") /\ Answered(c, s, ToolError, FALSE)
    BY <1>1, <1>9 DEF ReplayDiverges
  <2>2. Replies(c, s, ToolError)  BY <1>7, <2>1 DEF Replies
  <2>3. QED  BY <2>2
<1>10. CASE ReplayReturns(c, s)
  <2>1. IsReplay(c) /\ inner[c] = c  BY <1>1, <1>10 DEF ReplayReturns
  <2>2. PICK k \in Matching(c, Args(c, s)) :
          /\ At(c, s, "calling") /\ Answered(c, s, entries[c][k].out, FALSE)
          /\ entries' = [entries EXCEPT ![c][k].consumed = TRUE]
    BY <1>10, <2>1 DEF ReplayReturns
  <2>3. entries[c][k].out \in Output  BY DEF Matching, Typed, EntriesType, Entry
  <2>4. Replies(c, s, entries[c][k].out)  BY <1>7, <2>1, <2>2 DEF Replies
  <2>5. QED  BY <2>3, <2>4
<1>11. QED
  BY <1>2, <1>3, <1>4, <1>5, <1>6, <1>8, <1>9, <1>10 DEF Goroutine

(* A call that starts a round spawns its goroutines.                       *)
LEMMA NewRound ==
  ASSUME Typed, NEW c \in Call, StartRound(c)
  PROVE  /\ pc[c] = "plan" /\ pc' = [pc EXCEPT ![c] = "batch"]
         /\ round' = [round EXCEPT ![c] = @ + 1]
         /\ round'[c] = round[c] + 1 /\ round[c] \in Nat
         /\ \A d \in Call : d # c => gor'[d] = gor[d] /\ round'[d] = round[d] /\ pc'[d] = pc[d]
         /\ \A s \in Step : LET h == gor'[c][s] IN h.at = "spawned" /\ h.next = 1 /\ h.seq = 0
         /\ UNCHANGED <<toolRows, returned, entries>>
<1>1. /\ pc \in [Call -> PC] /\ round \in [Call -> 0 .. MaxRounds]
      /\ gor \in [Call -> [Step -> GState]]
  BY DEF Typed, RoundsType, GorType
<1>2. gor' = [gor EXCEPT ![c] = [s \in Step |-> [Idle EXCEPT !.at = "spawned"]]]
  BY DEF StartRound
<1>3. round[c] \in Nat  BY <1>1
<1>4. QED  BY <1>1, <1>2, <1>3 DEF StartRound, Goto, Idle, callVars, history

(* The other steps of a call leave the goroutines alone.                   *)
LEMMA OtherMain ==
  ASSUME Typed, NEW c \in Call, Main(c), ~StartRound(c)
  PROVE  /\ UNCHANGED <<gor, round, toolRows, returned>>
         /\ ~LoadReplay(c) => entries' = entries
         /\ \A d \in Call : d # c => pc'[d] = pc[d]
         /\ pc'[c] = "plan" => round[c] = 0 \/ Ended(c)
<1>1. pc \in [Call -> PC]  BY DEF Typed, RoundsType
<1>2. CASE Replaying(c)
  BY <1>1, <1>2 DEF Replaying, LoadReplay, SaveExecutors, SwapTools, SwapRecorder,
     RestoreTools, RestoreRecorder, Goto, callVars, history
<1>3. CASE EndRound(c)
  BY <1>1, <1>3 DEF EndRound, Goto, callVars, history
<1>4. CASE StartExecute(c) \/ CaptureTools(c)
  BY <1>1, <1>4 DEF StartExecute, CaptureTools, Goto, callVars, history
<1>5. CASE SetCollector(c)
  <2>1. round[c] = 0  BY <1>5 DEF SetCollector, Goto, Typed, RoundsType
  <2>2. QED  BY <1>1, <1>5, <2>1 DEF SetCollector, Goto, callVars, history
<1>6. QED  BY <1>2, <1>3, <1>4, <1>5 DEF Main, Executing

(* The counters are numbers.                                               *)
LEMMA CountsAreNumbers ==
  ASSUME Typed, NEW c \in Call
  PROVE  /\ round[c] \in Nat
         /\ \A s \in Step : /\ gor[c][s].next \in Nat /\ gor[c][s].next >= 1
                           /\ gor[c][s].seq \in Nat
<1>1. round \in [Call -> 0 .. MaxRounds]  BY DEF Typed, RoundsType
<1>2. \A s \in Step : gor[c][s] \in GState /\ gor[c][s].next \in 1 .. Len(Script[s]) + 1
  BY DEF Typed, GorType
<1>3. QED  BY <1>1, <1>2 DEF GState

AllCount == \A c \in Call : \A s \in Step : Counts(c, s)

(* The goroutines count on.                                                *)
LEMMA CountsStep ==
  ASSUME MaxAttempts = 1, Typed, Serial, AllCount, [Next]_vars
  PROVE  AllCount'
<1>1. ASSUME NEW c \in Call, Main(c) PROVE AllCount'
  <2> SUFFICES ASSUME NEW d \in Call, NEW s \in Step PROVE Counts(d, s)'
    BY DEF AllCount
  <2>1. Counts(d, s)  BY DEF AllCount
  <2>2. CASE StartRound(c) /\ d = c
    <3>1. /\ gor'[c][s].at = "spawned" /\ gor'[c][s].next = 1 /\ gor'[c][s].seq = 0
          /\ round'[c] # 0 /\ pc'[c] = "batch"
      <4>1. pc \in [Call -> PC]  BY DEF Typed, RoundsType
      <4>2. QED  BY <2>2, <4>1, NewRound
    <3>2. Recording(c, s)'  BY <3>1 DEF Recording
    <3>3. QED  BY <2>2, <3>1, <3>2 DEF Counts
  <2>3. CASE StartRound(c) /\ d # c
    <3>1. gor'[d] = gor[d] /\ round'[d] = round[d] /\ pc'[d] = pc[d]  BY <2>3, NewRound
    <3>2. Recording(d, s)'  BY <2>1, <3>1, Zenon DEF Recording, Counts, IsReplay
    <3>3. QED  BY <2>1, <3>1, <3>2 DEF Counts
  <2>4. CASE ~StartRound(c)
    <3>1. /\ gor' = gor /\ round' = round /\ (d # c => pc'[d] = pc[d])
          /\ pc'[c] = "plan" => round[c] = 0 \/ Ended(c)
      BY <1>1, <2>4, OtherMain
    <3>2. pc'[d] = "plan" /\ round[d] >= 1 => gor[d][s].at \in {"done", "failed"}
      <4>1. CASE d = c
        <5>1. round[c] \in Nat  BY CountsAreNumbers
        <5>2. QED  BY <3>1, <4>1, <5>1 DEF Ended
      <4>2. CASE d # c  BY <2>1, <3>1, <4>2 DEF Counts
      <4>3. QED  BY <4>1, <4>2
    <3>3. Recording(d, s)'  BY <2>1, <3>1, Zenon DEF Recording, Counts, IsReplay
    <3>4. QED  BY <2>1, <3>1, <3>2, <3>3 DEF Counts
  <2>5. QED  BY <2>2, <2>3, <2>4
<1>2. ASSUME NEW c \in Call, NEW s \in Step, Goroutine(c, s) PROVE AllCount'
  <2>1. /\ \A d \in Call : \A t \in Step : d # c \/ t # s => gor'[d][t] = gor[d][t]
        /\ pc' = pc /\ round' = round /\ pc[c] = "batch"
    BY <1>2, GoroutineMoves, GoroutineFrame
  <2>2. Counts(c, s)  BY DEF AllCount
  <2>3. Counts(c, s)'
    <3> DEFINE g == gor[c][s]
               h == gor'[c][s]
    <3>1. g.next \in Nat /\ g.seq \in Nat /\ round[c] \in Nat
      BY CountsAreNumbers
    <3>2. Silent(c, s) \/ \E out \in Output \cup {ToolError} : Replies(c, s, out)
      BY <1>2, <2>2, GoroutineReplies
    <3>3. g.at \notin {"idle", "done", "failed"} /\ h.at \notin {"idle", "spawned"}
      BY <3>2 DEF Silent, Replies
    <3>4. round[c] >= 1  BY <2>2, <3>1, <3>3 DEF Counts
    <3>5. h.attempt = 1
      <4>1. CASE g.at = "spawned"  BY <3>2, <4>1 DEF Silent, Replies
      <4>2. CASE g.at # "spawned"
        <5>1. g.attempt = 1  BY <2>2, <3>3, <4>2 DEF Counts
        <5>2. QED  BY <3>2, <4>2, <5>1 DEF Silent, Replies
      <4>3. QED  BY <4>1, <4>2
    <3>6. h.recorded = ~IsReplay(c)
      <4>1. CASE g.at = "spawned"
        <5>1. h.recorded = recorder  BY <3>2, <4>1 DEF Silent, Replies
        <5>2. c \in Active  BY <2>1 DEF Active
        <5>3. recorder = IF IsReplay(c) THEN FALSE ELSE TRUE
          BY <2>1, <5>2 DEF Serial, SerialAt, Own
        <5>4. QED  BY <5>1, <5>3, Zenon
      <4>2. CASE g.at # "spawned"
        <5>1. g.recorded = ~IsReplay(c)  BY <2>2, <3>3, <4>2, Zenon DEF Counts, Recording
        <5>2. h.recorded = g.recorded  BY <3>2, <4>2 DEF Silent, Replies
        <5>3. QED  BY <5>1, <5>2, Zenon
      <4>3. QED  BY <4>1, <4>2
    <3>7. /\ h.at \in {"ready", "done"} => h.seq = h.next - 1
          /\ h.at = "calling" => h.seq = h.next
          /\ h.at = "done" => h.next > Len(Script[s])
      <4>1. CASE Silent(c, s)
        <5>1. g.at = "spawned" => g.next = 1 /\ g.seq = 0  BY <2>2 DEF Counts
        <5>2. g.at = "ready" => g.seq = g.next - 1  BY <2>2 DEF Counts
        <5> HIDE DEF g, h
        <5>3. QED  BY <3>1, <4>1, <5>1, <5>2 DEF Silent, g, h
      <4>2. ASSUME NEW out, Replies(c, s, out)
            PROVE  /\ h.at \in {"ready", "done"} => h.seq = h.next - 1
                   /\ h.at \notin {"calling", "done"}
        <5>1. g.at = "calling" /\ g.seq = g.next  BY <2>2, <4>2 DEF Counts, Replies
        <5>2. QED  BY <3>1, <4>2, <5>1 DEF Replies
      <4>3. QED  BY <3>2, <4>1, <4>2
    <3>8. pc'[c] # "plan" /\ round'[c] # 0  BY <2>1, <3>4
    <3>9. Recording(c, s)'  BY <3>6, Zenon DEF Recording, IsReplay
    <3> HIDE DEF g
    <3>10. QED  BY <2>1, <3>3, <3>4, <3>5, <3>7, <3>8, <3>9 DEF Counts
  <2>4. ASSUME NEW d \in Call, NEW t \in Step, d # c \/ t # s PROVE Counts(d, t)'
    <3>1. gor'[d][t] = gor[d][t] /\ Counts(d, t)  BY <2>1, <2>4 DEF AllCount
    <3>2. Recording(d, t)'  BY <3>1, Zenon DEF Recording, Counts, IsReplay
    <3>3. QED  BY <2>1, <3>1, <3>2 DEF Counts
  <2>5. QED  BY <2>3, <2>4 DEF AllCount
<1>3. CASE UNCHANGED vars  BY <1>3 DEF AllCount, Counts, Recording, IsReplay, vars
<1>4. QED  BY <1>1, <1>2, <1>3 DEF Next, Main

(* Each call of a step has a row, or one before it has failed.             *)
Settled(c, s) ==
  \A k \in DOMAIN Script[s] : HasRow(c, s, k) \/ \E m \in 1 .. k - 1 : HasError(c, s, m)

(* What the row says is what the same call of the first round was answered.*)
FirstAnswered(t) ==
  \E o \in returned : /\ o.call = t.run /\ o.round = 1 /\ o.step = t.step /\ o.seq = t.seq
                      /\ o.args = t.args /\ o.out = t.out

(* The rows are those of executions, with numbers that say which call of   *)
(* the script they are of.  A row of a later round comes after a failure.  *)
SoundRow(t) ==
  /\ ~IsReplay(t.run) /\ round[t.run] >= 1
  /\ t.seq \in DOMAIN Script[t.step] /\ t.args = Script[t.step][t.seq]
  /\ \A u \in toolRows : u.run = t.run /\ u.step = t.step /\ u.seq = t.seq => u = t
  /\ FirstAnswered(t) \/ \E m \in 1 .. t.seq - 1 : HasError(t.run, t.step, m)

Table == \A t \in toolRows : SoundRow(t)

(* How far the rows of a step are in the first round, and afterwards.      *)
FirstRound(c, s) ==
  LET g == gor[c][s] IN
  /\ \A t \in toolRows : t.run = c /\ t.step = s =>
       t.seq < g.next \/ (t.seq = g.next /\ g.at \in {"erred", "failed"})
  /\ \A j \in 1 .. g.next - 1 : HasRow(c, s, j)
  /\ g.at \in {"erred", "failed"} /\ g.next <= Len(Script[s]) => HasError(c, s, g.next)

InTable(c, s) ==
  ~IsReplay(c) => /\ round[c] = 1 => FirstRound(c, s)
                  /\ round[c] >= 2 => Settled(c, s)

AllInTable == \A c \in Call : \A s \in Step : InTable(c, s)

(* Rows and answers stay.                                                  *)
LEMMA RowsKept ==
  ASSUME toolRows \subseteq toolRows', returned \subseteq returned'
  PROVE  /\ \A c, s, k : HasRow(c, s, k) => HasRow(c, s, k)'
         /\ \A c, s, k : HasError(c, s, k) => HasError(c, s, k)'
         /\ \A c, s : Settled(c, s) => Settled(c, s)'
         /\ \A t : FirstAnswered(t) => FirstAnswered(t)'
<1>1. \A c, s, k : HasRow(c, s, k) => HasRow(c, s, k)'  BY DEF HasRow
<1>2. \A c, s, k : HasError(c, s, k) => HasError(c, s, k)'  BY DEF HasError
<1>3. \A c, s : Settled(c, s) => Settled(c, s)'  BY <1>1, <1>2 DEF Settled
<1>4. \A t : FirstAnswered(t) => FirstAnswered(t)'  BY DEF FirstAnswered
<1>5. QED  BY <1>1, <1>2, <1>3, <1>4

(* The positions of a script.                                              *)
LEMMA ScriptDomain ==
  ASSUME NEW s \in Step
  PROVE  DOMAIN Script[s] = 1 .. Len(Script[s]) /\ Len(Script[s]) \in Nat
BY SharedEngineAssumption

(* What an answer adds to the table: nothing, or one row with a new key.   *)
LEMMA RowAdded ==
  ASSUME Typed, NEW c \in Call, NEW s \in Step, Counts(c, s), InTable(c, s),
         NEW out \in Output \cup {ToolError}, Replies(c, s, out)
  PROVE  LET k == gor[c][s].next IN
         /\ gor[c][s].seq = k /\ gor[c][s].at = "calling" /\ k \in DOMAIN Script[s]
         /\ \/ toolRows' = toolRows /\ (IsReplay(c) \/ HasRow(c, s, k))
            \/ \E t : /\ toolRows' = toolRows \cup {t} /\ ~IsReplay(c) /\ ~HasRow(c, s, k)
                      /\ t.run = c /\ t.step = s /\ t.seq = k
                      /\ t.args = Script[s][k] /\ t.out = out
         /\ \E o \in returned' : /\ o.call = c /\ o.round = round[c] /\ o.step = s /\ o.seq = k
                                 /\ o.args = Script[s][k] /\ o.out = out
         /\ toolRows \subseteq toolRows' /\ returned \subseteq returned'
<1> DEFINE g == gor[c][s]
           row == [run |-> c, step |-> s, seq |-> g.seq, args |-> Args(c, s),
                   out |-> out, start |-> g.start]
<1>1. /\ g.at = "calling"
      /\ toolRows' = toolRows \cup (IF g.recorded /\ ~HasRow(c, s, g.seq) THEN {row} ELSE {})
  BY DEF Replies
<1>2. PICK real : returned' = returned \cup
            {[call |-> c, round |-> round[c], step |-> s, seq |-> g.seq,
              args |-> Args(c, s), out |-> out, real |-> real]}
  BY DEF Replies
<1>3. g.seq = g.next /\ g.next \in DOMAIN Script[s]
  <2>1. g.seq = g.next  BY <1>1 DEF Counts
  <2>2. g.next \in 1 .. Len(Script[s]) + 1 /\ g.next <= Len(Script[s])
    BY <1>1 DEF Typed, GorType
  <2>3. QED  BY <2>1, <2>2, ScriptDomain
<1>4. Args(c, s) = Script[s][g.next]  BY DEF Args
<1>5. g.recorded = ~IsReplay(c)  BY <1>1, Zenon DEF Counts, Recording
<1>6. g.at = "calling" /\ toolRows \subseteq toolRows' /\ returned \subseteq returned'
  BY <1>1, <1>2
<1>7. \E o \in returned' : /\ o.call = c /\ o.round = round[c] /\ o.step = s /\ o.seq = g.next
                           /\ o.args = Script[s][g.next] /\ o.out = out
  <2> DEFINE o == [call |-> c, round |-> round[c], step |-> s, seq |-> g.seq,
                   args |-> Args(c, s), out |-> out, real |-> real]
  <2>1. /\ o.call = c /\ o.round = round[c] /\ o.step = s /\ o.seq = g.seq
        /\ o.args = Args(c, s) /\ o.out = out
    OBVIOUS
  <2>2. o \in returned'  BY <1>2
  <2> HIDE DEF o
  <2>3. QED  BY <1>3, <1>4, <2>1, <2>2
<1>8. CASE g.recorded /\ ~HasRow(c, s, g.seq)
  <2>1. ~IsReplay(c)  BY <1>5, <1>8, Zenon
  <2>2. row.run = c /\ row.step = s /\ row.seq = g.next /\ row.args = Script[s][g.next] /\ row.out = out
    BY <1>3, <1>4
  <2> HIDE DEF row
  <2>3. toolRows' = toolRows \cup {row}  BY <1>1, <1>8
  <2>4. ~HasRow(c, s, g.next)  BY <1>3, <1>8, Zenon
  <2>5. QED  BY <1>6, <1>7, <1>3, <1>4, <2>1, <2>2, <2>3, <2>4
<1>9. CASE ~(g.recorded /\ ~HasRow(c, s, g.seq))
  <2>1. toolRows' = toolRows  BY <1>1, <1>9
  <2>2. IsReplay(c) \/ HasRow(c, s, g.next)  BY <1>3, <1>5, <1>9, Zenon
  <2>3. QED  BY <1>6, <1>7, <1>3, <1>4, <2>1, <2>2
<1>10. QED  BY <1>8, <1>9

(* The table stays sound.                                                  *)
LEMMA TableReply ==
  ASSUME Typed, NEW c \in Call, NEW s \in Step, Counts(c, s), InTable(c, s), Table,
         NEW out \in Output \cup {ToolError}, Replies(c, s, out), round' = round
  PROVE  Table'
<1> DEFINE k == gor[c][s].next
<1>1. /\ gor[c][s].at = "calling" /\ k \in DOMAIN Script[s]
      /\ toolRows \subseteq toolRows' /\ returned \subseteq returned'
  BY RowAdded
<1>2. PICK o \in returned' : /\ o.call = c /\ o.round = round[c] /\ o.step = s /\ o.seq = k
                             /\ o.args = Script[s][k] /\ o.out = out
  BY RowAdded
<1>3. CASE toolRows' = toolRows
  BY <1>1, <1>3, RowsKept DEF Table, SoundRow, IsReplay
<1>4. ASSUME NEW t, toolRows' = toolRows \cup {t}, ~IsReplay(c), ~HasRow(c, s, k),
             t.run = c, t.step = s, t.seq = k, t.args = Script[s][k], t.out = out
      PROVE  Table'
  <2> SUFFICES ASSUME NEW u \in toolRows' PROVE SoundRow(u)'
    BY DEF Table
  <2>1. CASE u \in toolRows
    <3>1. SoundRow(u)  BY <2>1 DEF Table
    <3>2. u.run = c /\ u.step = s => u.seq # k  BY <1>4, <2>1 DEF HasRow
    <3>3. FirstAnswered(u)' \/ \E m \in 1 .. u.seq - 1 : HasError(u.run, u.step, m)'
      BY <1>1, <3>1, RowsKept DEF SoundRow
    <3>4. \A v \in toolRows' : v.run = u.run /\ v.step = u.step /\ v.seq = u.seq => v = u
      BY <1>4, <3>1, <3>2 DEF SoundRow
    <3>5. QED  BY <3>1, <3>3, <3>4 DEF SoundRow, IsReplay
  <2>2. CASE u = t
    <3>1. round[c] >= 1 /\ round[c] \in Nat  BY <1>1, CountsAreNumbers DEF Counts
    <3>2. \A v \in toolRows' : v.run = c /\ v.step = s /\ v.seq = k => v = t
      BY <1>4 DEF HasRow
    <3>3. FirstAnswered(t)' \/ \E m \in 1 .. k - 1 : HasError(c, s, m)'
      <4>1. CASE round[c] = 1  BY <1>2, <1>4, <4>1 DEF FirstAnswered
      <4>2. CASE round[c] # 1
        <5>1. Settled(c, s)  BY <1>4, <3>1, <4>2 DEF InTable
        <5>2. PICK m \in 1 .. k - 1 : HasError(c, s, m)  BY <1>1, <1>4, <5>1 DEF Settled
        <5>3. QED  BY <1>1, <5>2, RowsKept
      <4>3. QED  BY <4>1, <4>2
    <3>4. QED  BY <1>1, <1>4, <2>2, <3>1, <3>2, <3>3 DEF SoundRow, IsReplay
  <2>3. QED  BY <1>4, <2>1, <2>2
<1>5. QED  BY <1>3, <1>4, RowAdded

(* An answer moves the first round of its step on ...                      *)
LEMMA FirstRoundReply ==
  ASSUME Typed, NEW c \in Call, NEW s \in Step, Counts(c, s), InTable(c, s), ~IsReplay(c),
         round[c] = 1, NEW out \in Output \cup {ToolError}, Replies(c, s, out)
  PROVE  FirstRound(c, s)'
<1> DEFINE g == gor[c][s]
           h == gor'[c][s]
<1>0. PICK k \in Nat : k = g.next  BY CountsAreNumbers
<1>1. FirstRound(c, s)  BY DEF InTable
<1>2. /\ g.at = "calling" /\ k \in DOMAIN Script[s]
      /\ toolRows \subseteq toolRows' /\ returned \subseteq returned'
  BY <1>0, RowAdded
<1>3. \A t \in toolRows : t.run = c /\ t.step = s => t.seq < k  BY <1>0, <1>1, <1>2 DEF FirstRound
<1>4. ~HasRow(c, s, k)  BY <1>2, <1>3 DEF HasRow
<1>5. PICK t : /\ toolRows' = toolRows \cup {t} /\ t.run = c /\ t.step = s /\ t.seq = k
               /\ t.out = out
  BY <1>0, <1>4, RowAdded
<1>6. HasRow(c, s, k)' /\ (out = ToolError => HasError(c, s, k)')  BY <1>5 DEF HasRow, HasError
<1>7. \A j \in 1 .. k - 1 : HasRow(c, s, j)'  BY <1>0, <1>1, <1>2, RowsKept DEF FirstRound
<1>8. \A u \in toolRows' : u.run = c /\ u.step = s => u.seq < k \/ u.seq = k  BY <1>3, <1>5
<1>9. \A u \in toolRows' : u.run = c /\ u.step = s => u.seq \in Nat
  BY <1>2, <1>5 DEF Typed, CallsType, RowType
<1>10. CASE out = ToolError
  <2>1. h.at = "erred" /\ h.next = k  BY <1>0, <1>10 DEF Replies
  <2> HIDE DEF h, g
  <2>2. QED  BY <1>6, <1>7, <1>8, <1>10, <2>1 DEF FirstRound, h
<1>11. CASE out # ToolError
  <2>1. h.at = "ready" /\ h.next = k + 1  BY <1>0, <1>11 DEF Replies
  <2> HIDE DEF h, g
  <2>2. \A j \in 1 .. (k + 1) - 1 : j \in 1 .. k - 1 \/ j = k  BY <1>2
  <2>3. \A u \in toolRows' : u.run = c /\ u.step = s => u.seq < k + 1  BY <1>2, <1>8, <1>9
  <2>4. QED  BY <1>6, <1>7, <2>1, <2>2, <2>3 DEF FirstRound, h
<1>12. QED  BY <1>10, <1>11

(* ... and a step without an answer leaves it where it is.                 *)
LEMMA FirstRoundSilent ==
  ASSUME Typed, NEW c \in Call, NEW s \in Step, FirstRound(c, s), Silent(c, s)
  PROVE  FirstRound(c, s)'
<1> DEFINE g == gor[c][s]
           h == gor'[c][s]
<1>0. PICK k : k = g.next  OBVIOUS
<1>1. toolRows' = toolRows /\ returned' = returned /\ h.next = k  BY <1>0 DEF Silent
<1>2. g.at \in {"erred", "failed"} => h.at \in {"erred", "failed"}  BY DEF Silent
<1>3. h.at \in {"erred", "failed"} => g.at \in {"erred", "failed"} \/ k > Len(Script[s])
  BY <1>0 DEF Silent
<1>4. /\ g.at \in {"erred", "failed"} /\ k <= Len(Script[s]) => HasError(c, s, k)
      /\ \A j \in 1 .. k - 1 : HasRow(c, s, j)
      /\ \A t \in toolRows : t.run = c /\ t.step = s =>
           t.seq < k \/ (t.seq = k /\ g.at \in {"erred", "failed"})
  BY <1>0 DEF FirstRound
<1>5. \A j \in 1 .. k - 1 : HasRow(c, s, j)'  BY <1>1, <1>4, RowsKept
<1>6. HasError(c, s, k) => HasError(c, s, k)'  BY <1>1, RowsKept
<1>7. h.at \in {"erred", "failed"} /\ k <= Len(Script[s]) => HasError(c, s, k)'
  <2>1. k <= Len(Script[s]) => ~(k > Len(Script[s]))
    BY <1>0, CountsAreNumbers, ScriptDomain
  <2>2. QED  BY <1>3, <1>4, <1>6, <2>1
<1> HIDE DEF g, h
<1>8. QED  BY <1>1, <1>2, <1>4, <1>5, <1>7 DEF FirstRound, h

(* A step that has ended in the first round is settled for good.           *)
LEMMA EndedSettled ==
  ASSUME Typed, NEW c \in Call, NEW s \in Step, Counts(c, s), FirstRound(c, s),
         gor[c][s].at \in {"done", "failed"}
  PROVE  Settled(c, s)
<1> DEFINE g == gor[c][s]
<1>1. g.next \in Nat  BY CountsAreNumbers
<1>2. /\ \A j \in 1 .. g.next - 1 : HasRow(c, s, j)
      /\ g.at = "failed" /\ g.next <= Len(Script[s]) => HasError(c, s, g.next)
      /\ g.at = "done" => g.next > Len(Script[s])
  BY DEF FirstRound, Counts
<1> SUFFICES ASSUME NEW k \in DOMAIN Script[s]
             PROVE  HasRow(c, s, k) \/ \E m \in 1 .. k - 1 : HasError(c, s, m)
  BY DEF Settled
<1>3. k \in Nat /\ 1 <= k /\ k <= Len(Script[s]) /\ Len(Script[s]) \in Nat  BY ScriptDomain
<1>4. g.next >= 1  BY CountsAreNumbers
<1>5. g.at \in {"done", "failed"}  OBVIOUS
<1> HIDE DEF g
<1>6. CASE k < g.next  BY <1>1, <1>2, <1>3, <1>6
<1>7. CASE k >= g.next
  <2>1. HasError(c, s, g.next)  BY <1>1, <1>2, <1>3, <1>5, <1>7
  <2>2. CASE k = g.next  BY <2>1, <2>2 DEF HasError, HasRow
  <2>3. CASE k > g.next
    <3>1. g.next \in 1 .. k - 1  BY <1>1, <1>3, <1>4, <2>3
    <3>2. QED  BY <2>1, <3>1
  <2>4. QED  BY <1>1, <1>3, <1>7, <2>2, <2>3
<1>8. QED  BY <1>1, <1>3, <1>6, <1>7

(* A call keeps the table and how far its steps are.                       *)
LEMMA TableMain ==
  ASSUME Typed, AllCount, Table, AllInTable, NEW c \in Call, Main(c)
  PROVE  Table' /\ AllInTable'
<1>1. toolRows' = toolRows /\ returned' = returned  BY MainFrame
<1>2. \A d \in Call : round[d] \in Nat /\ (round'[d] = round[d] \/ round'[d] = round[d] + 1)
  <2>1. \A d \in Call : round[d] \in Nat  BY CountsAreNumbers
  <2>2. CASE StartRound(c)  BY <2>1, <2>2, NewRound
  <2>3. CASE ~StartRound(c)  BY <2>1, <2>3, OtherMain
  <2>4. QED  BY <2>2, <2>3
<1>3. Table'
  <2> SUFFICES ASSUME NEW t \in toolRows PROVE SoundRow(t)'
    BY <1>1 DEF Table
  <2>1. SoundRow(t) /\ t.run \in Call  BY DEF Table, Typed, CallsType, RowType
  <2>2. round'[t.run] >= 1  BY <1>2, <2>1 DEF SoundRow
  <2>3. FirstAnswered(t)' \/ \E m \in 1 .. t.seq - 1 : HasError(t.run, t.step, m)'
    BY <1>1, <2>1, RowsKept DEF SoundRow
  <2>4. QED  BY <1>1, <2>1, <2>2, <2>3 DEF SoundRow, IsReplay
<1>4. ASSUME NEW d \in Call, NEW s \in Step PROVE InTable(d, s)'
  <2>1. InTable(d, s) /\ Counts(d, s)  BY DEF AllInTable, AllCount
  <2>2. CASE gor'[d] = gor[d] /\ round'[d] = round[d]
    <3>1. FirstRound(d, s) => FirstRound(d, s)'
      BY <1>1, <2>2 DEF FirstRound, HasRow, HasError
    <3>2. Settled(d, s) => Settled(d, s)'  BY <1>1, RowsKept
    <3>3. QED  BY <2>1, <2>2, <3>1, <3>2 DEF InTable, IsReplay
  <2>3. CASE ~(gor'[d] = gor[d] /\ round'[d] = round[d])
    <3>1. StartRound(c) /\ d = c  BY <2>3, OtherMain, NewRound
    <3>2. /\ gor'[d][s].at = "spawned" /\ gor'[d][s].next = 1
          /\ pc[d] = "plan" /\ round'[d] = round[d] + 1 /\ round[d] \in Nat
      BY <3>1, NewRound
    <3>3. round'[d] = 1 => FirstRound(d, s)'
      <4> SUFFICES ASSUME round'[d] = 1 PROVE FirstRound(d, s)'
        OBVIOUS
      <4>1. round[d] = 0  BY <3>2
      <4>2. \A t \in toolRows : t.run # d  BY <4>1 DEF Table, SoundRow
      <4>3. QED  BY <1>1, <3>2, <4>2 DEF FirstRound
    <3>4. round'[d] >= 2 /\ ~IsReplay(d) => Settled(d, s)'
      <4> SUFFICES ASSUME round'[d] >= 2, ~IsReplay(d) PROVE Settled(d, s)'
        OBVIOUS
      <4>1. CASE round[d] = 1
        <5>1. gor[d][s].at \in {"done", "failed"}  BY <2>1, <3>2, <4>1 DEF Counts
        <5>2. FirstRound(d, s)  BY <2>1, <4>1 DEF InTable
        <5>3. QED  BY <1>1, <2>1, <5>1, <5>2, EndedSettled, RowsKept
      <4>2. CASE round[d] # 1
        <5>1. round[d] >= 2  BY <3>2, <4>2
        <5>2. Settled(d, s)  BY <2>1, <5>1 DEF InTable
        <5>3. QED  BY <1>1, <5>2, RowsKept
      <4>3. QED  BY <4>1, <4>2
    <3>5. QED  BY <3>3, <3>4 DEF InTable, IsReplay
  <2>4. QED  BY <2>2, <2>3
<1>5. QED  BY <1>3, <1>4 DEF AllInTable

(* So does a goroutine.                                                    *)
LEMMA TableGoroutine ==
  ASSUME MaxAttempts = 1, Typed, Serial, AllCount, Table, AllInTable,
         NEW c \in Call, NEW s \in Step, Goroutine(c, s)
  PROVE  Table' /\ AllInTable' /\ toolRows \subseteq toolRows'
<1>1. /\ \A d \in Call : \A t \in Step : d # c \/ t # s => gor'[d][t] = gor[d][t]
      /\ round' = round
  BY GoroutineMoves, GoroutineFrame
<1>2. Counts(c, s) /\ InTable(c, s)  BY DEF AllCount, AllInTable
<1>3. Silent(c, s) \/ \E out \in Output \cup {ToolError} : Replies(c, s, out)
  BY <1>2, GoroutineReplies
<1>4. CASE Silent(c, s)
  <2>1. toolRows' = toolRows /\ returned' = returned  BY <1>4 DEF Silent
  <2>2. Table'  BY <1>1, <2>1, RowsKept DEF Table, SoundRow, IsReplay
  <2>3. FirstRound(c, s) => FirstRound(c, s)'  BY <1>4, FirstRoundSilent
  <2>4. InTable(c, s)'  BY <1>1, <1>2, <2>1, <2>3, RowsKept DEF InTable, IsReplay
  <2>5. ASSUME NEW d \in Call, NEW t \in Step, d # c \/ t # s PROVE InTable(d, t)'
    <3>1. gor'[d][t] = gor[d][t] /\ InTable(d, t)  BY <1>1, <2>5 DEF AllInTable
    <3>2. FirstRound(d, t) => FirstRound(d, t)'
      BY <2>1, <3>1 DEF FirstRound, HasRow, HasError
    <3>3. QED  BY <1>1, <2>1, <3>1, <3>2, RowsKept DEF InTable, IsReplay
  <2>6. QED  BY <2>1, <2>2, <2>4, <2>5 DEF AllInTable
<1>5. ASSUME NEW out \in Output \cup {ToolError}, Replies(c, s, out)
      PROVE  Table' /\ AllInTable' /\ toolRows \subseteq toolRows'
  <2>1. Table'  BY <1>1, <1>2, <1>5, TableReply
  <2>2. /\ toolRows \subseteq toolRows' /\ returned \subseteq returned'
        /\ \A u \in toolRows' : u \in toolRows \/ (u.run = c /\ u.step = s)
    BY <1>2, <1>5, RowAdded
  <2>3. InTable(c, s)'
    <3>1. ~IsReplay(c) /\ round[c] = 1 => FirstRound(c, s)'
      BY <1>2, <1>5, FirstRoundReply
    <3>2. Settled(c, s) => Settled(c, s)'  BY <2>2, RowsKept
    <3>3. QED  BY <1>1, <1>2, <3>1, <3>2 DEF InTable, IsReplay
  <2>4. ASSUME NEW d \in Call, NEW t \in Step, d # c \/ t # s PROVE InTable(d, t)'
    <3>1. gor'[d][t] = gor[d][t] /\ InTable(d, t)  BY <1>1, <2>4 DEF AllInTable
    <3>2. FirstRound(d, t) => FirstRound(d, t)'
      <4> SUFFICES ASSUME FirstRound(d, t) PROVE FirstRound(d, t)'
        OBVIOUS
      <4> DEFINE g == gor[d][t]
      <4>1. PICK n, at : n = g.next /\ at = g.at  OBVIOUS
      <4>2. gor'[d][t].next = n /\ gor'[d][t].at = at  BY <3>1, <4>1
      <4>3. /\ \A u \in toolRows : u.run = d /\ u.step = t =>
                 u.seq < n \/ (u.seq = n /\ at \in {"erred", "failed"})
            /\ \A j \in 1 .. n - 1 : HasRow(d, t, j)
            /\ at \in {"erred", "failed"} /\ n <= Len(Script[t]) => HasError(d, t, n)
        BY <4>1 DEF FirstRound
      <4>4. \A u \in toolRows' : u.run = d /\ u.step = t =>
                 u.seq < n \/ (u.seq = n /\ at \in {"erred", "failed"})
        BY <2>2, <2>4, <4>3
      <4>5. /\ \A j \in 1 .. n - 1 : HasRow(d, t, j)'
            /\ at \in {"erred", "failed"} /\ n <= Len(Script[t]) => HasError(d, t, n)'
        BY <2>2, <4>3, RowsKept
      <4>6. QED  BY <4>2, <4>4, <4>5 DEF FirstRound
    <3>3. QED  BY <1>1, <2>2, <3>1, <3>2, RowsKept DEF InTable, IsReplay
  <2>5. QED  BY <2>1, <2>2, <2>3, <2>4 DEF AllInTable
<1>6. QED  BY <1>3, <1>4, <1>5

(* The invariant of executions, when calls run one at a time.              *)
Executed == AllCount /\ Table /\ AllInTable

(* No step breaks it, and none takes a row away.                           *)
LEMMA ExecutedNext ==
  ASSUME MaxAttempts = 1, Typed, Serial, Executed, [Next]_vars
  PROVE  Executed' /\ toolRows \subseteq toolRows'
<1>1. AllCount'  BY CountsStep DEF Executed
<1>2. ASSUME NEW c \in Call, Main(c) PROVE Table' /\ AllInTable' /\ toolRows' = toolRows
  BY <1>2, TableMain, MainFrame DEF Executed
<1>3. ASSUME NEW c \in Call, NEW s \in Step, Goroutine(c, s)
      PROVE  Table' /\ AllInTable' /\ toolRows \subseteq toolRows'
  BY <1>3, TableGoroutine DEF Executed
<1>4. CASE UNCHANGED vars
  <2>1. Table'
    BY <1>4 DEF Executed, Table, SoundRow, IsReplay, FirstAnswered, HasError, vars
  <2>2. AllInTable'
    BY <1>4 DEF Executed, AllInTable, InTable, IsReplay, FirstRound, Settled, HasRow, HasError, vars
  <2>3. QED  BY <1>1, <1>4, <2>1, <2>2 DEF Executed, vars
<1>5. QED  BY <1>1, <1>2, <1>3, <1>4 DEF Next, Main, Executed
-----------------------------------------------------------------------------
(* The entries of a replay come from rows of its source, at most one for   *)
(* every call of the script.                                               *)
FromTable(x) ==
  /\ \A k \in DOMAIN entries[x] :
       \E t \in toolRows : /\ t.run = Source[x] /\ t.out # ToolError
                           /\ t.args = entries[x][k].args /\ t.out = entries[x][k].out
  /\ \A j, k \in DOMAIN entries[x] : entries[x][j].args = entries[x][k].args => j = k

Consumed(x, k) == entries[x][k].consumed

(* The replay has used the entry of the j-th call of the step.             *)
Used(x, s, j) ==
  \E k \in DOMAIN entries[x] : entries[x][k].args = Script[s][j] /\ Consumed(x, k)

(* There is no entry (left) for the first call of the step.                *)
Spent(x, s) ==
  Script[s] # <<>> =>
    \A k \in DOMAIN entries[x] : entries[x][k].args = Script[s][1] => Consumed(x, k)

(* How far a step of the replay is, and that a second plan gets no answer. *)
InEntries(x, s) ==
  LET g == gor[x][s] IN
  /\ \A j \in 1 .. g.next - 1 : Used(x, s, j)
  /\ round[x] >= 2 => g.next = 1
  /\ round[x] >= 2 \/ g.at \in {"erred", "done", "failed"} \/ g.next >= 2 => Spent(x, s)

Follows(x) == IsReplay(x) => FromTable(x) /\ \A s \in Step : InEntries(x, s)

AllFollow == \A x \in Call : Follows(x)

(* The arguments tell which row of a run it is.                            *)
LEMMA RowOfArguments ==
  ASSUME OwnCalls, Typed, Table, NEW t \in toolRows, NEW u \in toolRows,
         t.run = u.run, t.args = u.args
  PROVE  t = u
<1>1. t.step \in Step /\ u.step \in Step  BY DEF Typed, CallsType, RowType
<1>2. SoundRow(t) /\ SoundRow(u)  BY DEF Table
<1>3. /\ t.seq \in DOMAIN Script[t.step] /\ t.args = Script[t.step][t.seq]
      /\ u.seq \in DOMAIN Script[u.step] /\ u.args = Script[u.step][u.seq]
      /\ t.run = u.run /\ t.step = u.step /\ t.seq = u.seq => t = u
  BY <1>2 DEF SoundRow
<1>4. t.step = u.step /\ t.seq = u.seq
  <2>1. \A j \in DOMAIN Script[t.step] : \A k \in DOMAIN Script[u.step] :
          Script[t.step][j] = Script[u.step][k] => t.step = u.step /\ j = k
    BY <1>1 DEF OwnCalls
  <2>2. Script[t.step][t.seq] = Script[u.step][u.seq]  BY <1>3
  <2>3. QED  BY <1>3, <2>1, <2>2
<1>5. QED  BY <1>3, <1>4

(* A replay loads its entries from the table.                              *)
LEMMA Loaded ==
  ASSUME OwnCalls, Typed, Table, NEW x \in Call, LoadReplay(x)
  PROVE  FromTable(x)' /\ \A d \in Call : d # x => entries'[d] = entries[d]
<1>1. PICK calls \in StoredCalls(Source[x]) : entries' = [entries EXCEPT ![x] = calls]
  BY DEF LoadReplay
<1> DEFINE rows == {r \in toolRows : r.run = Source[x] /\ r.out # ToolError}
<1>2. PICK q \in [1 .. Cardinality(rows) -> rows] :
        /\ \A m, n \in DOMAIN q : m < n => q[m].start < q[n].start
        /\ calls = [k \in DOMAIN q |-> [args |-> q[k].args, out |-> q[k].out, consumed |-> FALSE]]
  BY <1>1 DEF StoredCalls
<1>3. DOMAIN entries = Call /\ toolRows' = toolRows  BY DEF Typed, EntriesType, LoadReplay
<1>4. /\ DOMAIN calls = DOMAIN q
      /\ \A k \in DOMAIN q : calls[k].args = q[k].args /\ calls[k].out = q[k].out
  BY <1>2
<1>5. \A k \in DOMAIN q : /\ q[k] \in toolRows /\ q[k].run = Source[x] /\ q[k].out # ToolError
                         /\ q[k].start \in Nat /\ k \in Int
  BY <1>2 DEF Typed, CallsType, RowType
<1> HIDE DEF rows
<1>6. ASSUME NEW j \in DOMAIN q, NEW k \in DOMAIN q, q[j].args = q[k].args PROVE j = k
  <2>1. q[j] = q[k]  BY <1>5, <1>6, RowOfArguments
  <2>2. ~(q[j].start < q[k].start) /\ ~(q[k].start < q[j].start)  BY <1>5, <2>1
  <2>3. QED  BY <1>2, <1>5, <2>2
<1>7. entries'[x] = calls /\ \A d \in Call : d # x => entries'[d] = entries[d]
  BY <1>1, <1>3
<1>8. QED  BY <1>3, <1>4, <1>5, <1>6, <1>7 DEF FromTable

(* The entries keep what they say, and stay consumed.                      *)
Grown(x) ==
  /\ DOMAIN entries'[x] = DOMAIN entries[x]
  /\ \A k \in DOMAIN entries[x] :
       /\ entries'[x][k].args = entries[x][k].args /\ entries'[x][k].out = entries[x][k].out
       /\ Consumed(x, k) => Consumed(x, k)'

(* With such entries a replay keeps what it owes to its source.            *)
LEMMA EntriesKept ==
  ASSUME NEW x \in Call, Grown(x), toolRows \subseteq toolRows'
  PROVE  /\ FromTable(x) => FromTable(x)'
         /\ \A s, j : Used(x, s, j) => Used(x, s, j)'
         /\ \A s : Spent(x, s) => Spent(x, s)'
<1>1. FromTable(x) => FromTable(x)'  BY DEF FromTable, Grown
<1>2. \A s, j : Used(x, s, j) => Used(x, s, j)'  BY DEF Used, Grown
<1>3. \A s : Spent(x, s) => Spent(x, s)'  BY DEF Spent, Grown
<1>4. QED  BY <1>1, <1>2, <1>3

(* An answer of a replay uses an entry, or there is none.                  *)
LEMMA EntryUsed ==
  ASSUME Typed, NEW c \in Call, NEW s \in Step, IsReplay(c), NEW out, Replies(c, s, out)
  PROVE  /\ Grown(c) /\ \A d \in Call : d # c => entries'[d] = entries[d]
         /\ \/ out = ToolError /\ \A k \in DOMAIN entries[c] :
                 entries[c][k].args = Args(c, s) => Consumed(c, k)
            \/ \E k \in DOMAIN entries[c] :
                 /\ entries[c][k].args = Args(c, s) /\ entries[c][k].out = out /\ out \in Output
                 /\ ~Consumed(c, k) /\ Consumed(c, k)'
<1>1. CASE out = ToolError /\ entries' = entries /\ Matching(c, Args(c, s)) = {}
  <2>1. \A k \in DOMAIN entries[c] : entries[c][k].args = Args(c, s) => Consumed(c, k)
    BY <1>1 DEF Matching, Consumed
  <2>2. Grown(c)  BY <1>1 DEF Grown, Consumed
  <2>3. QED  BY <1>1, <2>1, <2>2
<1>2. ASSUME NEW k \in Matching(c, Args(c, s)), out = entries[c][k].out,
             entries' = [entries EXCEPT ![c][k].consumed = TRUE]
      PROVE  /\ Grown(c) /\ \A d \in Call : d # c => entries'[d] = entries[d]
             /\ \E j \in DOMAIN entries[c] :
                  /\ entries[c][j].args = Args(c, s) /\ entries[c][j].out = out /\ out \in Output
                  /\ ~Consumed(c, j) /\ Consumed(c, j)'
  <2>1. k \in DOMAIN entries[c] /\ entries[c][k].args = Args(c, s) /\ ~Consumed(c, k)
    BY DEF Matching, Consumed
  <2>2. entries[c][k] \in Entry /\ DOMAIN entries = Call  BY <2>1 DEF Typed, EntriesType
  <2>3. \A d \in Call : d # c => entries'[d] = entries[d]  BY <1>2, <2>2
  <2>4. /\ DOMAIN entries'[c] = DOMAIN entries[c]
        /\ \A j \in DOMAIN entries[c] : j # k => entries'[c][j] = entries[c][j]
    BY <1>2, <2>2
  <2>5. entries'[c][k] = [entries[c][k] EXCEPT !.consumed = TRUE]  BY <1>2, <2>1, <2>2
  <2>6. /\ entries'[c][k].args = entries[c][k].args /\ entries'[c][k].out = entries[c][k].out
        /\ entries'[c][k].consumed = TRUE
    BY <2>2, <2>5 DEF Entry
  <2>7. Consumed(c, k)'  BY <2>6 DEF Consumed
  <2>8. \A j \in DOMAIN entries[c] : Consumed(c, j) => Consumed(c, j)'
    BY <2>4, <2>7 DEF Consumed
  <2>9. Grown(c)  BY <2>4, <2>6, <2>8 DEF Grown
  <2>10. out \in Output  BY <1>2, <2>2 DEF Entry
  <2>11. QED  BY <1>2, <2>1, <2>3, <2>7, <2>9, <2>10
<1>3. QED  BY <1>1, <1>2 DEF Replies
(* A call keeps the replays on the track of their sources.                 *)
LEMMA FollowMain ==
  ASSUME OwnCalls, Typed, AllCount, Table, AllFollow, NEW c \in Call, Main(c)
  PROVE  AllFollow'
<1>1. toolRows' = toolRows  BY MainFrame
<1> SUFFICES ASSUME NEW x \in Call, IsReplay(x)
             PROVE  FromTable(x)' /\ \A s \in Step : InEntries(x, s)'
  BY DEF AllFollow, Follows, IsReplay
<1>2. FromTable(x) /\ \A s \in Step : InEntries(x, s)  BY DEF AllFollow, Follows
<1>3. CASE LoadReplay(c) /\ x = c
  <2>1. FromTable(x)'  BY <1>3, Loaded
  <2>2. gor' = gor /\ round' = round  BY <1>3 DEF LoadReplay
  <2>3. round[x] = 0  BY <1>3 DEF LoadReplay, Goto, Typed, RoundsType
  <2>4. \A s \in Step : gor[x][s].next = 1 /\ gor[x][s].at = "idle"
    BY <2>3 DEF AllCount, Counts
  <2>5. QED  BY <2>1, <2>2, <2>3, <2>4 DEF InEntries
<1>4. CASE ~(LoadReplay(c) /\ x = c)
  <2>1. entries'[x] = entries[x]
    <3>1. CASE LoadReplay(c)  BY <1>4, <3>1, Loaded
    <3>2. CASE StartRound(c)  BY <3>2, NewRound
    <3>3. CASE ~StartRound(c) /\ ~LoadReplay(c)  BY <3>3, OtherMain
    <3>4. QED  BY <3>1, <3>2, <3>3
  <2>2. Grown(x)  BY <2>1, Zenon DEF Grown, Consumed
  <2>3. FromTable(x)'  BY <1>1, <1>2, <2>2, EntriesKept
  <2>4. ASSUME NEW s \in Step PROVE InEntries(x, s)'
    <3>1. CASE StartRound(c) /\ x = c
      <4>1. /\ gor'[x][s].next = 1 /\ gor'[x][s].at = "spawned" /\ pc[x] = "plan"
            /\ round'[x] = round[x] + 1 /\ round[x] \in Nat
        BY <3>1, NewRound
      <4>2. round'[x] >= 2 => gor[x][s].at \in {"done", "failed"}
        BY <4>1 DEF AllCount, Counts
      <4>3. round'[x] >= 2 => Spent(x, s)  BY <1>2, <4>2 DEF InEntries
      <4>4. round'[x] >= 2 => Spent(x, s)'  BY <1>1, <2>2, <4>3, EntriesKept
      <4>5. QED  BY <4>1, <4>4 DEF InEntries
    <3>2. CASE ~(StartRound(c) /\ x = c)
      <4>1. gor'[x] = gor[x] /\ round'[x] = round[x]
        BY <3>2, NewRound, OtherMain
      <4>2. InEntries(x, s)  BY <1>2
      <4>3. /\ \A j : Used(x, s, j) => Used(x, s, j)'
            /\ Spent(x, s) => Spent(x, s)'
        BY <1>1, <2>2, EntriesKept
      <4>4. QED  BY <4>1, <4>2, <4>3 DEF InEntries
    <3>3. QED  BY <3>1, <3>2
  <2>5. QED  BY <2>3, <2>4
<1>5. QED  BY <1>3, <1>4

(* So does a goroutine of a replay, for its own step ...                   *)
LEMMA FollowSilent ==
  ASSUME Typed, NEW c \in Call, NEW s \in Step, Counts(c, s), InEntries(c, s), Silent(c, s),
         round' = round, Grown(c), toolRows \subseteq toolRows'
  PROVE  InEntries(c, s)'
<1>0. PICK n : n = gor[c][s].next  OBVIOUS
<1>1. gor'[c][s].next = n  BY <1>0 DEF Silent
<1>2. n \in Nat /\ n >= 1  BY <1>0, CountsAreNumbers
<1>3. \A j \in 1 .. n - 1 : Used(c, s, j)'  BY <1>0, EntriesKept DEF InEntries
<1>4. Spent(c, s) => Spent(c, s)'  BY EntriesKept
<1>5. round[c] >= 2 => n = 1 /\ Spent(c, s)  BY <1>0 DEF InEntries
<1>6. gor'[c][s].at \in {"erred", "done", "failed"} \/ n >= 2 => Spent(c, s)
  <2>1. n >= 2 => Spent(c, s)  BY <1>0 DEF InEntries
  <2>2. gor[c][s].at \in {"erred", "done", "failed"} => Spent(c, s)  BY DEF InEntries
  <2>3. n > Len(Script[s]) => Spent(c, s)
    <3>1. CASE Script[s] = <<>>  BY <3>1 DEF Spent
    <3>2. CASE Script[s] # <<>>
      <4>1. Len(Script[s]) >= 1  BY <3>2, ScriptDomain, SharedEngineAssumption
      <4>2. n > Len(Script[s]) => n >= 2  BY <1>2, <4>1, ScriptDomain
      <4>3. QED  BY <2>1, <4>2
    <3>3. QED  BY <3>1, <3>2
  <2>4. gor'[c][s].at \in {"erred", "done", "failed"} =>
          n > Len(Script[s]) \/ gor[c][s].at \in {"erred", "done", "failed"}
    BY <1>0 DEF Silent
  <2>5. QED  BY <2>1, <2>2, <2>3, <2>4
<1>7. QED  BY <1>1, <1>3, <1>4, <1>5, <1>6 DEF InEntries

(* ... whether or not an entry answers it.                                 *)
LEMMA FollowReply ==
  ASSUME Typed, NEW c \in Call, NEW s \in Step, Counts(c, s), InEntries(c, s), IsReplay(c),
         FromTable(c), InTable(c, s), NEW out \in Output \cup {ToolError},
         Replies(c, s, out), round' = round
  PROVE  /\ InEntries(c, s)'
         /\ out # ToolError => round[c] = 1 /\ \E k \in DOMAIN entries[c] :
               entries[c][k].args = Script[s][gor[c][s].next] /\ entries[c][k].out = out
<1>0. PICK n \in Nat : n = gor[c][s].next /\ n >= 1  BY CountsAreNumbers
<1>1. /\ toolRows \subseteq toolRows' /\ gor[c][s].at = "calling" /\ n \in DOMAIN Script[s]
  BY <1>0, RowAdded
<1>2. Args(c, s) = Script[s][n] /\ Script[s] # <<>>  BY <1>0, <1>1 DEF Args
<1>3. Grown(c)  BY EntryUsed
<1>4. /\ \A j \in 1 .. n - 1 : Used(c, s, j)
      /\ round[c] >= 2 => n = 1
      /\ round[c] >= 2 \/ n >= 2 => Spent(c, s)
  BY <1>0 DEF InEntries
<1>5. /\ \A j \in 1 .. n - 1 : Used(c, s, j)'
      /\ Spent(c, s) => Spent(c, s)'
  BY <1>1, <1>3, <1>4, EntriesKept
<1>6. CASE out = ToolError /\ \A k \in DOMAIN entries[c] :
             entries[c][k].args = Args(c, s) => Consumed(c, k)
  <2>1. gor'[c][s].next = n  BY <1>0, <1>6 DEF Replies
  <2>2. Spent(c, s)
    <3>1. CASE n = 1  BY <1>2, <1>6, <3>1 DEF Spent
    <3>2. CASE n # 1  BY <1>0, <1>4, <3>2
    <3>3. QED  BY <3>1, <3>2
  <2>3. QED  BY <1>4, <1>5, <1>6, <2>1, <2>2 DEF InEntries
<1>7. ASSUME NEW k \in DOMAIN entries[c], entries[c][k].args = Args(c, s),
             entries[c][k].out = out, out \in Output, ~Consumed(c, k), Consumed(c, k)'
      PROVE  /\ InEntries(c, s)' /\ round[c] = 1
             /\ \E j \in DOMAIN entries[c] :
                  entries[c][j].args = Script[s][n] /\ entries[c][j].out = out
  <2>1. out # ToolError  BY <1>7, SharedEngineAssumption
  <2>2. gor'[c][s].next = n + 1 /\ gor'[c][s].at = "ready"  BY <1>0, <2>1 DEF Replies
  <2>3. Used(c, s, n)'  BY <1>2, <1>3, <1>7 DEF Used, Grown
  <2>4. round[c] = 1
    <3>1. n = 1 => ~Spent(c, s)  BY <1>2, <1>7 DEF Spent
    <3>2. ~(round[c] >= 2)  BY <1>4, <3>1
    <3>3. round[c] \in Nat /\ round[c] >= 1  BY <1>1, CountsAreNumbers DEF Counts
    <3>4. QED  BY <3>2, <3>3
  <2>5. Spent(c, s)'
    <3>1. CASE n = 1
      <4>1. \A j \in DOMAIN entries[c] : entries[c][j].args = Script[s][1] => j = k
        BY <1>2, <1>7, <3>1 DEF FromTable
      <4>2. QED  BY <1>3, <1>7, <4>1 DEF Spent, Grown
    <3>2. CASE n # 1  BY <1>0, <1>4, <1>5, <3>2
    <3>3. QED  BY <3>1, <3>2
  <2>6. \A j \in 1 .. (n + 1) - 1 : Used(c, s, j)'
    <3>1. \A j \in 1 .. (n + 1) - 1 : j \in 1 .. n - 1 \/ j = n  BY <1>0
    <3>2. QED  BY <1>5, <2>3, <3>1
  <2>7. QED  BY <1>2, <1>7, <2>2, <2>4, <2>5, <2>6 DEF InEntries
<1>8. \/ out = ToolError /\ \A k \in DOMAIN entries[c] :
             entries[c][k].args = Args(c, s) => Consumed(c, k)
      \/ \E k \in DOMAIN entries[c] :
             /\ entries[c][k].args = Args(c, s) /\ entries[c][k].out = out /\ out \in Output
             /\ ~Consumed(c, k) /\ Consumed(c, k)'
  BY EntryUsed
<1>9. QED  BY <1>0, <1>6, <1>7, <1>8
(* A goroutine keeps all replays on the track of their sources.            *)
LEMMA FollowGoroutine ==
  ASSUME MaxAttempts = 1, OwnCalls, Typed, Serial, Executed, AllFollow,
         NEW c \in Call, NEW s \in Step, Goroutine(c, s)
  PROVE  AllFollow'
<1>1. /\ \A d \in Call : \A t \in Step : d # c \/ t # s => gor'[d][t] = gor[d][t]
      /\ round' = round
  BY GoroutineMoves, GoroutineFrame
<1>2. Counts(c, s) /\ InTable(c, s)  BY DEF Executed, AllCount, AllInTable
<1>3. Silent(c, s) \/ \E out \in Output \cup {ToolError} : Replies(c, s, out)
  BY <1>2, GoroutineReplies
<1>4. toolRows \subseteq toolRows'
  <2>1. CASE Silent(c, s)  BY <2>1 DEF Silent
  <2>2. ASSUME NEW out \in Output \cup {ToolError}, Replies(c, s, out)
        PROVE  toolRows \subseteq toolRows'
    BY <1>2, <2>2, RowAdded
  <2>3. QED  BY <1>3, <2>1, <2>2
<1> SUFFICES ASSUME NEW x \in Call, IsReplay(x)
             PROVE  FromTable(x)' /\ \A t \in Step : InEntries(x, t)'
  BY DEF AllFollow, Follows, IsReplay
<1>5. FromTable(x) /\ \A t \in Step : InEntries(x, t)  BY DEF AllFollow, Follows
<1>6. Grown(x)
  <2>1. entries'[x] = entries[x] => Grown(x)  BY Zenon DEF Grown, Consumed
  <2>2. CASE Silent(c, s)  BY <2>1, <2>2 DEF Silent
  <2>3. ASSUME NEW out \in Output \cup {ToolError}, Replies(c, s, out) PROVE Grown(x)
    <3>1. CASE IsReplay(c)  BY <2>1, <2>3, <3>1, EntryUsed
    <3>2. CASE ~IsReplay(c)  BY <2>1, <2>3, <3>2 DEF Replies
    <3>3. QED  BY <3>1, <3>2
  <2>4. QED  BY <1>3, <2>2, <2>3
<1>7. FromTable(x)'  BY <1>4, <1>5, <1>6, EntriesKept
<1>8. ASSUME NEW t \in Step PROVE InEntries(x, t)'
  <2>1. CASE x = c /\ t = s
    <3>1. CASE Silent(c, s)
      BY <1>1, <1>2, <1>4, <1>5, <1>6, <2>1, <3>1, FollowSilent
    <3>2. ASSUME NEW out \in Output \cup {ToolError}, Replies(c, s, out) PROVE InEntries(c, s)'
      BY <1>1, <1>2, <1>5, <2>1, <3>2, FollowReply
    <3>3. QED  BY <1>3, <2>1, <3>1, <3>2
  <2>2. CASE ~(x = c /\ t = s)
    <3>1. gor'[x][t] = gor[x][t] /\ InEntries(x, t)  BY <1>1, <1>5, <2>2
    <3>2. /\ \A j : Used(x, t, j) => Used(x, t, j)'
          /\ Spent(x, t) => Spent(x, t)'
      BY <1>4, <1>6, EntriesKept
    <3>3. QED  BY <1>1, <3>1, <3>2 DEF InEntries
  <2>3. QED  BY <2>1, <2>2
<1>9. QED  BY <1>7, <1>8

(* An answer of an entry is the answer of the source.                      *)
LEMMA AnswerOfSource ==
  ASSUME OwnCalls, Typed, Table, NEW x \in Call, NEW s \in Step, FromTable(x), InEntries(x, s),
         NEW n \in DOMAIN Script[s], n = gor[x][s].next,
         NEW k \in DOMAIN entries[x], entries[x][k].args = Script[s][n]
  PROVE  \E o \in returned : /\ o.call = Source[x] /\ o.round = 1 /\ o.step = s /\ o.seq = n
                              /\ o.args = Script[s][n] /\ o.out = entries[x][k].out
<1>1. PICK t \in toolRows : /\ t.run = Source[x] /\ t.args = Script[s][n]
                            /\ t.out = entries[x][k].out
  BY DEF FromTable
<1>2. SoundRow(t) /\ t.step \in Step  BY DEF Table, Typed, CallsType, RowType
<1>3. t.step = s /\ t.seq = n
  <2>1. t.seq \in DOMAIN Script[t.step] /\ Script[t.step][t.seq] = Script[s][n]
    BY <1>1, <1>2 DEF SoundRow
  <2>2. \A j \in DOMAIN Script[t.step] : Script[t.step][j] = Script[s][n] => t.step = s /\ j = n
    BY <1>2 DEF OwnCalls
  <2>3. QED  BY <2>1, <2>2
<1>4. ASSUME NEW m \in 1 .. n - 1, HasError(Source[x], s, m) PROVE FALSE
  <2>1. PICK u \in toolRows : /\ u.run = Source[x] /\ u.step = s /\ u.seq = m
                              /\ u.out = ToolError
    BY <1>4 DEF HasError
  <2>2. u.args = Script[s][m]  BY <2>1 DEF Table, SoundRow
  <2>3. PICK j \in DOMAIN entries[x] : entries[x][j].args = Script[s][m]
    BY DEF InEntries, Used
  <2>4. PICK v \in toolRows : v.run = Source[x] /\ v.out # ToolError /\ v.args = Script[s][m]
    BY <2>3 DEF FromTable
  <2>5. u = v  BY <2>1, <2>2, <2>4, RowOfArguments
  <2>6. QED  BY <2>1, <2>4, <2>5
<1>5. FirstAnswered(t)
  BY <1>1, <1>2, <1>3, <1>4 DEF SoundRow
<1>6. QED  BY <1>1, <1>3, <1>5 DEF FirstAnswered

(* No step returns an answer to a replay that its source did not get.      *)
LEMMA FaithfulNext ==
  ASSUME MaxAttempts = 1, OwnCalls, Typed, Serial, Executed, AllFollow, DivergenceSurfaced,
         [Next]_vars
  PROVE  DivergenceSurfaced'
<1>1. CASE returned' = returned  BY <1>1 DEF DivergenceSurfaced, IsReplay
<1>2. ASSUME NEW c \in Call, NEW s \in Step, Goroutine(c, s), NEW out \in Output \cup {ToolError},
             Replies(c, s, out)
      PROVE  DivergenceSurfaced'
  <2>0. PICK n : n = gor[c][s].next  OBVIOUS
  <2>1. Counts(c, s) /\ InTable(c, s) /\ Table
    BY DEF Executed, AllCount, AllInTable
  <2>2. gor[c][s].seq = n /\ n \in DOMAIN Script[s] /\ returned \subseteq returned'
    BY <1>2, <2>0, <2>1, RowAdded
  <2>3. PICK real : returned' = returned \cup
            {[call |-> c, round |-> round[c], step |-> s, seq |-> gor[c][s].seq,
              args |-> Args(c, s), out |-> out, real |-> real]}
    BY <1>2 DEF Replies
  <2>4. Args(c, s) = Script[s][n]  BY <2>0 DEF Args
  <2>5. IsReplay(c) /\ out # ToolError =>
          \E o \in returned : /\ o.call = Source[c] /\ o.round = round[c] /\ o.step = s
                              /\ o.seq = n /\ o.args = Script[s][n] /\ o.out = out
    <3> SUFFICES ASSUME IsReplay(c), out # ToolError
                 PROVE  \E o \in returned :
                          /\ o.call = Source[c] /\ o.round = round[c] /\ o.step = s
                          /\ o.seq = n /\ o.args = Script[s][n] /\ o.out = out
      OBVIOUS
    <3>1. FromTable(c) /\ InEntries(c, s)  BY DEF AllFollow, Follows
    <3>2. round' = round  BY <1>2, GoroutineFrame
    <3>3. /\ round[c] = 1
          /\ \E k \in DOMAIN entries[c] :
                entries[c][k].args = Script[s][n] /\ entries[c][k].out = out
      BY <1>2, <2>0, <2>1, <3>1, <3>2, FollowReply
    <3>4. QED  BY <2>0, <2>1, <2>2, <3>1, <3>3, AnswerOfSource
  <2> DEFINE new == [call |-> c, round |-> round[c], step |-> s, seq |-> gor[c][s].seq,
                     args |-> Args(c, s), out |-> out, real |-> real]
  <2>6. /\ new.call = c /\ new.round = round[c] /\ new.step = s /\ new.seq = n
        /\ new.args = Script[s][n] /\ new.out = out
    BY <2>2, <2>4
  <2>7. returned' = returned \cup {new}  BY <2>3
  <2> HIDE DEF new
  <2> SUFFICES ASSUME NEW r \in returned', IsReplay(r.call), r.out # ToolError
               PROVE  \E o \in returned' :
                        /\ o.call = Source[r.call] /\ o.out = r.out
                        /\ <<o.round, o.step, o.seq, o.args>> = <<r.round, r.step, r.seq, r.args>>
    BY DEF DivergenceSurfaced, IsReplay
  <2>8. CASE r \in returned  BY <2>2, <2>8 DEF DivergenceSurfaced
  <2>9. CASE r = new  BY <2>2, <2>5, <2>6, <2>9
  <2>10. QED  BY <2>7, <2>8, <2>9
<1>3. ASSUME NEW c \in Call, NEW s \in Step, Goroutine(c, s) PROVE DivergenceSurfaced'
  <2>1. Counts(c, s)  BY DEF Executed, AllCount
  <2>2. CASE Silent(c, s)  BY <1>1, <2>2 DEF Silent
  <2>3. QED  BY <1>2, <1>3, <2>1, <2>2, GoroutineReplies
<1>4. ASSUME NEW c \in Call, Main(c) PROVE DivergenceSurfaced'
  BY <1>1, <1>4, MainFrame
<1>5. CASE UNCHANGED vars  BY <1>1, <1>5 DEF vars
<1>6. QED  BY <1>3, <1>4, <1>5 DEF Next, Main

(* replay_executor.go:16-19, 56-75: a replay does what the run did, as far *)
(* as it gets: with calls that run one at a time, one attempt for each     *)
(* step and no two equal calls in the plan, what a replayed call returns   *)
(* was returned to the same call of the same step in the same round of the *)
(* source; everything else is an error.                                    *)
THEOREM DivergenceIsSurfaced ==
  ASSUME MaxActive = 1, MaxAttempts = 1, OwnCalls
  PROVE  Spec => []DivergenceSurfaced
<1> DEFINE I == Executed /\ AllFollow /\ DivergenceSurfaced
<1>1. Init => I
  <2> SUFFICES ASSUME Init PROVE I
    OBVIOUS
  <2>1. /\ toolRows = {} /\ returned = {}
        /\ \A c \in Call : round[c] = 0 /\ entries[c] = <<>> /\ pc[c] = "idle"
        /\ \A c \in Call : \A s \in Step : gor[c][s] = Idle
    BY DEF Init
  <2>2. Idle.at = "idle" /\ Idle.next = 1 /\ Idle.seq = 0  BY DEF Idle
  <2>3. Executed
    BY <2>1, <2>2 DEF Executed, AllCount, Counts, Recording, Table, AllInTable, InTable
  <2>4. AllFollow
    BY <2>1, <2>2 DEF AllFollow, Follows, FromTable, InEntries
  <2>5. QED  BY <2>1, <2>3, <2>4 DEF DivergenceSurfaced
<1>2. Typed /\ Serial /\ I /\ [Next]_vars => I'
  <2> SUFFICES ASSUME Typed, Serial, I, [Next]_vars PROVE I'
    OBVIOUS
  <2>1. Executed'  BY ExecutedNext
  <2>2. AllFollow'
    <3>1. ASSUME NEW c \in Call, Main(c) PROVE AllFollow'
      BY <3>1, FollowMain DEF Executed
    <3>2. ASSUME NEW c \in Call, NEW s \in Step, Goroutine(c, s) PROVE AllFollow'
      BY <3>2, FollowGoroutine
    <3>3. CASE UNCHANGED vars
      <4>1. ASSUME NEW x \in Call, Follows(x) PROVE Follows(x)'
        BY <3>3, <4>1 DEF Follows, IsReplay, FromTable, InEntries, Used, Spent, Consumed, vars
      <4>2. QED  BY <4>1 DEF AllFollow
    <3>4. QED  BY <3>1, <3>2, <3>3 DEF Next, Main
  <2>3. DivergenceSurfaced'  BY FaithfulNext
  <2>4. QED  BY <2>1, <2>2, <2>3
<1>3. QED  BY <1>1, <1>2, TypedInvariant, SerialInvariant, PTL DEF Spec
=============================================================================
