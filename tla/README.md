# A verification development for agent-orchestrator-go

TLA+ models of the orchestrator in `src/`, TLC runs that check them on small
instances, and TLAPS proofs for every instance.  Paths below are relative to
`src/`.

## 1. The system

A **run** executes the plan a planner makes for a task.  A plan is a list of
steps, each naming an agent, perhaps with step ids and dependencies.  The engine
schedules the steps as a DAG, runs every ready step in a goroutine, retries
failing steps as the repair engine says, asks a replanner for a new plan when
that does not help, and writes rows about runs, step attempts and tool calls to
SQLite.  An HTTP server starts runs in the background on one shared engine;
a persisted run can be replayed with its stored tool outputs.

| Component | State it keeps | Operations | Correct when | Hard because of |
|---|---|---|---|---|
| DAG scheduler, `orchestrator/dag.go` | in-degree per step, children | `newDAGScheduler`, `ReadySteps`, `MarkDone` | rejects exactly malformed and cyclic plans; ready set exact; never stuck | multigraph counters, repeated dependencies, the -1 marker |
| Execution engine, `orchestrator/engine.go` | plan, scheduler, completed steps, Vars, replan count, the run | `Execute`, `Replay` | success means every step of the plan; row and result agree; it returns | goroutines, one of several failing, nested retry and replan loops, dropped write errors |
| Step executor, `orchestrator/step_executor.go` | attempt tracker, current agent | attempt, repair, record | attempts bounded by two limits; each attempt recorded | two limits that disagree, keys that restart after a replan |
| Repair, retry, failure, `repair/ retry/ failure/` | none (configuration) | classify, plan a repair, limit, back off | actions respect limit and class | limits of zero, first deciding action |
| Planners, `planner/` | templates, fallback agent | `CreatePlan`, `Replan` | new plan holds exactly the remaining steps | index order is not dependency order |
| Validators, `orchestrator/*validator.go` | the collector of the grounding validator | `Validate`, `SetCollector` | accept exactly valid output of this run | the validator is shared by all runs |
| Tool layer, `tools/` | collected outputs, sequence numbers, replay entries | `Execute` of each wrapper | calls recorded once with their results; replays reach no tool | parallel steps, retries, replays swapping a shared field |
| Storage, `storage/sqlite/`, `agent/agent_run.go` | three tables | create, read, update | status follows the life cycle | primary keys, partial updates, failing writes |
| LLM client and its planner, `llm/`, `planner/llm_planner.go` | none (guardrails) | `Chat`, `Check`, `parsePlanSteps` | a plan is made only of agents that were offered | guardrail and parser read one text by different rules |
| File tools and agents, `tools/fs_*.go`, `agent/log_*.go` | the findings of a scan | list, grep, analyze | the report accounts for what the tools found | files change between calls, failing greps are skipped, types differ after decoding |
| HTTP API, `api/` | none of its own | create, list, read, replay, upload, metrics | an accepted run is known before it executes, and is closed in the end | requests overlap; the process may stop |
| Run metrics, `orchestrator/metrics.go` | none | `Evaluate`, `EvaluateAll` | the counters of one answer fit together | three reads per run while the run goes on |
| MCP server, `cmd/mcp/main.go` | none | `analyze_logs`, `list_runs`, `get_report` | a report is shown in full and can be retrieved later | live results and stored ones have different Go types |
| Server start-up, configuration, dashboard | none | wiring | | a restart finds the rows of the process before |

Interaction: handler → `Engine.Execute` (goroutine) → planner → scheduler →
one goroutine per ready step → agent → collector → persisting executor → tool;
validator and repair engine after each attempt; the row of the run is written at
each transition.  Goroutines of a batch share the run row (under a mutex), the
attempt tracker, the collector and the tables; runs share the engine's fields.

## 2. Modules

| Module | Models | State and actions against the code |
|---|---|---|
| `Plans` | plans and the graph `dag.go` builds from one | operators only; node i+1 is step i; `DependsOn` stays a sequence, an edge is a position in it, because a repeated dependency counts twice |
| `DagScheduler` | `newDAGScheduler` line by line (`BuildSequential`, `BuildFails`, `BuildGraph`, `KahnStep`, `KahnVerdict`) and the loop of `Execute` that drives it (`TakeBatch`, `MarkBatchStep`, `Finish`) | `inDegree` is `dagNode.inDegree`, `tempDeg`, `queue`, `reachable` are the locals; `popped` and `done` are the sets the counters stand for |
| `EngineConfig` | what `NewEngine`, its setters and the constructors of planner and repair engine fix, and what the environment may do | `config` names one of the engines in `Configs` and never changes |
| `RetryPolicy` | `retry/policy.go`: merging, limit and delays | operators only; a delay is a set, because of the jitter and of conversions that overflow |
| `LLMPlanning` | guardrails, schema and `parsePlanSteps` | operators only; an answer is a JSON value and the text around it |
| `Repair` | classes of failure, `Engine.Repair`, both strategies, `applyRepairActions` | operators only |
| `Planners` | `ContextAwarePlanner.Replan`, `copySteps`, what `CreatePlan` and `Replan` may return | operators only |
| `Engine` | one call of `Execute` with its goroutines and what it leaves in `agent_runs` and `agent_steps` | `pc` is the place of the caller, `step[i]` the goroutine of step i; an action is the code between two accesses to shared state |
| `RunLifecycle` | abstract specification: what a caller and a reader of `agent_runs` may rely on | `status`, `outcome`, and `lossy` for writes that may be lost; implemented by `Engine` (fairness included) and by every run of `Service` |
| `SharedEngine` | `Execute` and `Replay` of several callers on one engine, with the executors of `tools/` and the table `tool_calls` | `tools`, `recorder`, `collector` are the shared fields; every single read and assignment of them is an action; plans are reduced to a set of parallel steps with scripts of tool calls |
| `LogAnalysis` | file tools, both agents, both validators, the counters of the metrics, `formatReport` | operators only; a line is the set of its keywords and a time stamp; a value remembers whether it went through JSON |
| `Service` | clients, the HTTP server or the MCP server, `Execute` with the two-step plan, the database, log files that change, a process that crashes | `exec[x]` is the execution of run x in memory, `runRow`, `stepRows`, `toolRows` are the tables; an action is one access to disk or database |
| `MCDagScheduler`, `MCEngine`, `MCSharedEngine`, `MCService` | TLC instances | plans, engines, answers, scripts, files |
| `Plans_proof`, `DagScheduler_proof` | proofs about plans and the scheduler | section 6 |
| `EngineRules_proof`, `Engine_proof`, `EngineAttempts_proof`, `EngineLifecycle_proof` | proofs about policies, planners and repair, and about `Execute` | section 6 |
| `SharedEngine_proof`, `Service_proof` | proofs about callers that share an engine, and about the program as deployed | section 6 |

`Engine` extends `Planners` (which extends `LLMPlanning`, `Plans`, `RetryPolicy`)
and `Repair`; it does not rerun Kahn's algorithm but uses `RejectedPlan`, which
`DagScheduler` is shown to decide.  Likewise `MarkAllDone` is the batch of
`MarkDone` calls of one merge loop.  `Service` extends `LogAnalysis` and narrows
`Execute` to the one plan the deployed program has, with its data; `Engine` is
`Execute` for any plan without the data, `SharedEngine` the fields that overlapping
calls share, without either.

Abstractions.  Strings are model values.  In `Engine`, outputs are a verdict
("valid", "invalid", "nil"), Vars are the sequence of completed steps whose outputs
entered it.  The text patterns of the classifier are a choice of the class, made
together with the outcome; a validator's message may fall into any class, so the
class the replanner sees is independent of the class "validation" the repair engine
gets.  Time stamps are counters; a sleep takes no time but is remembered in `waits`.
Delays are whole units and multipliers whole numbers.  The context of `Execute` is
never consulted by it and is left out.  `SharedEngine` treats one read or write of
an interface-valued field as atomic; the Go memory model promises less.  In
`Service` one execution runs at a time, and a text is found in the corpus when the
line is.  `repairEng.Repair` never returns an error with the strategies there are,
so that branch is not modelled.  A replay of an unknown run returns before it
changes anything and is left out.

Definitions named as mutants (`...Unsaved`, `...Once`, ...) are plausible bugs;
none is used by a specification.  Each property has been seen to fail under one.

## 3. Runs

| Run | Instance | Question |
|---|---|---|
| `MCDagScheduler` | all plans of up to 2 steps over any ids, all dependency multigraphs on 3 steps with up to 2 dependencies each (self-dependencies, repeated ones and cycles among them), all 64 layered plans of 4 steps, sequential plans | does the scheduler decide and respect the graph, and does it end? |
| `MCEngine` | the fourteen engines below | is `Execute` right whatever its configuration? |
| `MCReplaySerial` | two parallel steps, up to two tool calls each, two plans per run, an execution and a replay one after the other | is a replay faithful, is the engine restored, is evidence judged by the right calls? |
| `MCSharedExecutes` | two overlapping executions, two parallel steps making the same call, two attempts | is every tool call recorded under its own key? |
| `MCService` | one run and its replay over HTTP or MCP, two requests (default keywords at the root, a search in a directory), two file systems, one request for metrics at a time, a fault | does the program as deployed keep what it tells its clients? |

| Engine of `MCEngine` | What is special |
|---|---|
| `plain` | simple strategy, limit 3, as `cmd/server` builds it |
| `unrepaired`, `neverRepaired` | no repair engine; a repair limit of 0; on plans with parallel steps |
| `linear`, `constant`, `steep`, `uncapped`, `jitters` | each back-off, with 5 attempts; exponential delays beyond the largest duration, with a cap and without; jitter; a step with a cap of its own |
| `batches` | 8 plans (empty, sequential, diamond, backward, cyclic, dangling, one try only, unknown agent), every class of failure, advanced strategy, repair limit 4 against policy limit 3, planner may fail |
| `guided`, `unguarded` | a language model plans; 20 answers, most of them wrong in one way each; all four guardrails, or none |
| `llm` | a batch that fails in part and goes on with a new plan, twice |
| `context` | a template of three steps, `ContextAwarePlanner` with fallback agent, up to 3 replans (the default) |
| `faults` | each write may fail, replans may be malformed |

| Property | Says |
|---|---|
| `VerdictCorrect` | accepted plans are well formed and acyclic, rejected ones are not |
| `ReadyExact`, `NeverStuck`, `DependencyOrder`, `Terminates` | the counters agree with the graph; the loop ends with all steps done; dependencies first, no step undone; every plan is rejected or finished |
| `BatchSound` | a goroutine runs only for a step not completed under the current plan, with the outputs of its dependencies merged |
| `SuccessIsComplete` | a success covers each step of the plan in force, with an output its validator did not reject |
| `AttemptsRecorded` | every attempt that ended has its row, unless an earlier plan took its key (section 4) |
| `AttemptsBounded` | attempts stay within the retry policy and the repair limit |
| `WaitsBounded`, `WaitsGrow` | sleeps stay within the cap and its jitter however fast delays grow, and never shrink without jitter |
| `ModelPlansRunnable` | whatever the model answers, only agents it was offered run, and success did some work |
| `TemplateCompletedOnce` | replanning a template neither repeats nor loses a step |
| `CompletedIffSucceeded` | the row says COMPLETED exactly when the call reported success, with failing writes |
| `LifecycleSpec`, `Returns` | the refinement of `RunLifecycle`; the call returns |
| `ReplayTouchesNoTool`, `EngineRestored`, `DivergenceSurfaced`, `GroundingExact`, `EveryToolCallRecorded` | what sharing must not break, see section 2 |
| `AcceptedIsKnown`, `AcceptedRunCloses` | a client that was told 202 finds the run at any time; the run is closed in the end unless the process stopped |
| `CompletedHasReport` | a COMPLETED run has a valid, grounded report in the tables, whatever crashed in between |
| `ReportMatchesToolCalls` | the report counts what the recorded tool calls found, and leaves out nothing graver than what it shows |
| `ReportsAccepted` | the validators never reject what the analyzer builds |
| `NoFalseHallucination`, `MetricsConsistent` | metrics read during a run never see a report without its calls, and their counters fit together |
| `ReportRetrievable` | what `analyze_logs` answered, `get_report` shows in full |

**Why the bounds are enough.**  Three steps with two dependencies each give every
shape of repeated, mutual and self-dependency, the four-step layered plans give
batches that join; the theorems cover all larger plans.  Retry counts go beyond
both limits, so each of the two limits is the one that stops a step in some
behaviour.  `Longest` = 127 stands for the largest duration: with it a delay
overflows after two retries instead of about thirty, and the arithmetic has no
other use of the number.  Two replans let a replan follow a replan.  Two calls are
all a shared field needs to be overwritten, and two parallel steps with two attempts
all a key needs to repeat.  `MaxActive` in `SharedEngine` bounds how many calls
overlap: the code has no such bound, and the runs with 1 and 2 say what depends on
it.  In `MCService` limits of 2 (for 200 matches of a grep and 20 items of evidence)
are exceeded by the files there are; the order and the severity of keywords, lines with two keywords,
unreadable and ignored files all occur; `MaxFaults` bounds crashes and changes of
the files together, each of which may come between any two accesses.

**Fairness.**  `WF_vars(Next)` for `DagScheduler` and `Engine`: something runnable
runs.  Go schedules some runnable goroutine, a goroutine blocks only in `wg.Wait`
and on a mutex held for a few statements, and agents, planners and writes are
assumed to return (the code gives them no timeout).  No action is given fairness of
its own, because every behaviour of the two makes progress with each step.
`Service` has `WF_vars(\E x \in Run : Step(x))`: some execution that can go on does.
Clients, readers, crashes and changes of the files are not fair; nothing has to
happen.

Deadlock is not checked: the models stop when the call or the scheduler has
returned, or when no client asks for anything, and `Terminates`, `Returns` and
`AcceptedRunCloses` say that they stop nowhere else.

## 4. Where the code and its documents disagree

Seven disagreements have a run that ends in a counterexample (`MCFind*.cfg`):

* `MCFindReplayTools`: two replays at the same time; one restores `e.tools` before
  the other uses its own executor, which then runs the real tools.
* `MCFindCollector`: two runs at the same time; evidence is judged against the
  tool calls of the other run.
* `MCFindReplanDAG`: a replan whose plan is rejected leaves the row RUNNING.
* `MCFindLostRecords`: attempts after a replan reuse the keys of earlier ones and
  are not recorded.
* `MCFindReuse`: a run id that is used again, as that of every second replay, reopens
  a COMPLETED row (`engine.go:140`, against PROJECT.md:605, 618).
* `MCFindReplay`: a replay of a run that found something reports the all-clear:
  `match_count` is a float64 after decoding and `.(int)` yields 0
  (`log_reader.go:120`).  With another directory than "." the replay fails, as it
  gets no input (`engine.go:466`).
* `MCFindReport`: the answer of `analyze_logs` has neither evidence nor next steps:
  `formatReport` asserts `[]any` on native slices (`cmd/mcp/main.go:377, 400`).

Others were met while modelling, follow from the same definitions, and have no run:

* a failing planner takes a row from CREATED to FAILED (`engine.go:180`), a
  transition PROJECT.md:612-618 does not list;
* a process that stops leaves rows CREATED or RUNNING, and nothing resumes them
  (against PROJECT.md:10, 95);
* `CurrentStepIndex` adds the completed steps to an index that already counts
  them (`engine.go:256`);
* `max_steps` is never written after `Create` (`agent_run_repository.go:70`);
* a replan of `ContextAwarePlanner` repeats steps that completed beside the
  failed one (`context_aware.go:95`, against `replanner.go:44-45`), and drops a step
  of a lower index that waits for the failed one (`context_aware.go:184`): the run
  succeeds without it.  Its own templates are sequential (`copySteps`), so this takes
  a planner and a replanner of different kinds;
* a fallback agent's output is not validated, because validators decide by the
  agent id of the plan's step (`step_executor.go:174`);
* keys of tool calls restart after a replan as well (`persisting_executor.go:50`),
  and a replay hands the outputs of a failed attempt to the retried one;
* two overlapping replays can leave the engine with the executor of a finished
  replay and without a recorder (`engine.go:455-458`);
* with the default limits (3 and 3) the advanced strategy's third-attempt actions
  are unreachable, and `replace_step` without an agent id is always ignored;
* `MaxDelay` "caps the computed delay" (`policy.go:35`), but the jitter is added
  after the cap: a sleep may be a quarter longer (`WaitsBounded` states that much);
* without a cap an exponential delay leaves the range of `time.Duration`; depending
  on the machine the step then sleeps for ever or not at all;
* `Merge` fills "zero-valued fields" (`policy.go:70`), but neither `Jitter` nor
  `RetryableErrors`; `CalculateDelay` (`repair/config.go:53`) divides by zero for
  delays below two nanoseconds and its jitter is no random one; it has no caller;
* "error" and "ERROR" are both default keywords of a search that ignores case, so
  most lines are counted twice (`log_reader.go:45`);
* a scan whose greps all fail reports the all-clear with High confidence
  (`log_reader.go:117`, `log_analyzer.go:42`); uploads accept `.err`, `.json` and
  `.csv` (`upload_handler.go:103`), which the scan ignores;
* replays record no tool calls, so once a replay found something its evidence would
  count as hallucinated in the metrics (`engine.go:454`, `metrics.go:147`).

## 5. Hazards

`PROJECT.json` lists them at their lines.  Those without a property say why.

## 6. Proofs

The theorems below hold for every value of the constants that the modules' `ASSUME`s
admit; hypotheses beyond those stand in the theorem and are explained here.  The
assumptions (`PlanSetAssumption`, `EngineAssumption`, `SharedEngineAssumption`,
`ServiceAssumption`, `LogAnalysisAssumption`, ...) give the constants their types, say
that special values are special, and are evaluated by TLC on each run.

**Plans and the scheduler** (`Plans_proof`, `DagScheduler_proof`).

| Theorem | Statement |
|---|---|
| `TypeCorrect` | `Spec => []TypeOK` |
| `KahnIsCorrect` | `Spec => []VerdictCorrect` |
| `ReadyIsExact` | `Spec => []ReadyExact` |
| `LoopRunsToTheEnd` | `Spec => []NeverStuck` |
| `DependenciesFirst` | `Spec => DependencyOrder` |
| `MarkedStepByStep` | one `MarkDone` after the other, in any order, is `MarkAllDone` |

The properties say nothing of how counters, queue and sets belong together, so
none of them is inductive.  The invariant `Inv` adds: during Kahn's loop `tempDeg[i]`
is the number of edges into i from nodes not yet popped (`Waiting`), the nodes of
degree zero are exactly those popped or queued, the queue has no duplicates and
nothing popped, `reachable` counts the popped nodes, and every set of nodes that
meets the popped ones has a member that waits for none of the set; during the loop,
`inDegree[i]` is -1 for done steps and the number of edges from steps not done for
the others, and the parents of done and batched steps are done.

`WaitingStep` is the lemma at the heart of it: popping p lowers the count by the
number of edges from p, however often p is named.  `KahnVerdictInv` then has two
directions: with an empty queue every node of degree zero has been popped, so the
unpopped nodes, if any, form a set in which each waits for another one; if all were
popped, the last conjunct above is acyclicity.  One lemma per action carries `Inv`
through a step; `Invariance` puts them together.  `MarkedStepByStep` is what lets
`Engine` mark a whole batch in one action.

**Execute** (`Engine_proof`, `EngineAttempts_proof`, `EngineLifecycle_proof`; the facts
about policies, planners, parsers and repair plans are lemmas of `EngineRules_proof`).

| Theorem | Statement |
|---|---|
| `TypesCorrect` | `Spec => []TypeOK` |
| `BatchesSound` | `Spec => []BatchSound` |
| `SuccessComplete` | `Spec => []SuccessIsComplete` |
| `ModelPlansSafe` | `Spec => []ModelPlansRunnable` |
| `AttemptsLimited`, `WaitsLimited` | `Spec => []AttemptsBounded`, `Spec => []WaitsBounded` |
| `WaitsIncrease` | `Spec => []WaitsGrow`, given that powers of a positive number do not shrink |
| `AttemptsAreRecorded` | `Spec => []AttemptsRecorded` |
| `CompletedMeansSuccess` | `Spec => []CompletedIffSucceeded` if the row was not COMPLETED before |
| `TemplatesOnce` | `Spec /\ Templates => []TemplateCompletedOnce` |
| `EngineImplementsLifecycle` | `Spec /\ FreshRow /\ Schedulable => Lifecycle!Spec` |

`Core` is inductive: the types, `Stages` (what is still empty before the batches, that
there is a row while the call runs, and a result once it returned), `Scheduled` (the
plan in force has a schedule, its completed steps are closed under dependencies, the
in-degrees are exact for them, and nothing was merged under a later plan), and `BatchSound`.
`TypeOK` alone is not inductive: that a replan has the type of a plan rests on the
completed steps being steps of it.  On top of `Core`: `Validated` (what is
merged passed its validator) for `SuccessIsComplete`; `FromModel` (the kinds of
the plan's steps were offered) for `ModelPlansRunnable`; `Tracked` (an unspawned
step has no attempts, one that will be repeated is below the repair limit) for
`AttemptsBounded`; `Timely` (the sleeps of a step are those its policy has for its
attempts, one before each but the first) for `WaitsGrow`; `Recorded` (keys of rows are behind the tracker) for
`AttemptsRecorded`.  `CompletedLast`, `InOrder`, `StatusInStep` and `Sequential` do
the same in `EngineLifecycle_proof`.

`WaitsIncrease` assumes `PowersGrow`, a fact of arithmetic about `^`, which the provers
treat as an unknown function; it says nothing of the program.  Three other theorems have
hypotheses about the program, two of which a run shows to be needed:
a run id of a completed run reopens its row (`MCFindReuse`), so `CompletedMeansSuccess`
and the refinement speak of rows that were not completed (`FreshRow`: created at most);
a replan whose plan is rejected leaves the row RUNNING (`MCFindReplanDAG`), so the
refinement asks for replans with a schedule or for writes that may be lost, which
`RunLifecycle` allows for (`Schedulable`); and `ContextAwarePlanner` replans by index,
which is right for the sequential plans its own templates are (`Templates`, section 4).

**Callers that share an engine** (`SharedEngine_proof`).

| Theorem | Statement | Needs |
|---|---|---|
| `TypesCorrect` | `Spec => []TypeOK` | |
| `EngineIsRestored` | `Spec => []EngineRestored` | `MaxActive = 1` |
| `ReplayTouchesNothing` | `Spec => []ReplayTouchesNoTool` | `MaxActive = 1` |
| `EvidenceGrounded` | `Spec => []GroundingExact` | `MaxActive = 1` |
| `ToolCallsRecorded` | `Spec => []EveryToolCallRecorded` | `MaxRounds = 1`, no replay beside an execution |
| `DivergenceIsSurfaced` | `Spec => []DivergenceSurfaced` | `MaxActive = 1`, `MaxAttempts = 1`, `OwnCalls` |

The code gives these promises under conditions it does not enforce, and the theorems
say which.  With two calls under way the middle three fail (`MCFindReplayTools`,
`MCFindCollector`, and section 4 for the fields left behind); after a replan the
sequence numbers of tool calls start over, so the next record is lost.  Under their
hypotheses they hold for any number of calls, steps, scripts and, except for the
last, attempts.

`Serial` is the invariant for `MaxActive = 1`: whoever is active is alone, an engine
at rest has its own fields, and for each place in a replay it says which of the
fields are swapped and what is saved (`SerialAt`).  `Collected` says that a collector
holds what its call's tools returned.  `RowsBelow`, `KeepsRecorder` and `RecorderOn`
say that the keys of a step's rows are behind its counter and that a goroutine
which started beside executions records.

`DivergenceSurfaced` needs more, because a replay looks its entries up by arguments and
not by position.  `OwnCalls` says that arguments tell a call of the plan; without
retries the number of a call is its place in the script (`Counts`).  `Executed` then
describes the table: a row is the answer of the first round, or an earlier call of the
step has failed (`SoundRow`), and how far a step is in its first round (`FirstRound`).
`Follows` describes a replay: its entries are rows of the source, one per call; calls
before the one at hand have used theirs; and once the first call of a step has used
its entry, or has found none, a second round of the step gets no answer (`Spent`).  So
an answer is one of the first round, all calls before it succeeded in the source, and
a row of a later round, which exists only behind a failure, is never replayed.
With retries the entry for a call may come from another attempt than the number
says, and with equal calls in two parallel steps from the other step.

**The program as deployed** (`Service_proof`), without further hypotheses.

| Theorem | Statement |
|---|---|
| `TypesCorrect` | `Spec => []TypeOK` |
| `AcceptedRunsAreKnown` | `Spec => []AcceptedIsKnown` |
| `CompletedMeansReported` | `Spec => []CompletedHasReport` |
| `EveryReportAccepted` | `Spec => []ReportsAccepted` |
| `ReportsAccountForCalls` | `Spec => []ReportMatchesToolCalls` |
| `NoHallucinationReported`, `MetricsAgree` | `Spec => []NoFalseHallucination`, `Spec => []MetricsConsistent` |
| `ReportsStayRetrievable` | `Spec => []ReportRetrievable` |
| `RunsFollowLifecycle` | `Spec => LifecycleSpec`, one `RunLifecycle` per run |

The inductive invariant is `Inv`: the shape of the state and, for each run, `Life` (its
place and the status in its row go together), `Numbered` (its tool calls are numbered
without gaps, as many as the execution counted; a replay has none), `Founded` (its
findings come from outputs its collector has, which are those in the table; a replay
has no findings) and `Recorded` (failed scans, then a scan that succeeded, then a report
that is valid and grounded in the table).  `Spawns`, `Works`
and `Rests` split a step of the program: one run is started, one moves, the others
stay.  `EveryReportAccepted` rests on lemmas about `Analyze` for all logs: it
builds evidence only from lines a tool returned.

`Accounting` is what counting needs besides: the findings in memory are the matches of
the recorded calls in their order (`Tallied`), and a report that is not yet a row counts
them.  The lemmas below it say that concatenating the matches call by call and
counting rows in the table give one number (`MatchesCounted`), and that the k-th
place of an order names the lines that are left out (`FewerBelow`, `KthPlace`,
`FirstAreGravest`).  `ReaderInv` bounds what `EvaluateAll` has read: statuses it read as
COMPLETED are final, its rows are still in the table, and its totals are balanced
(`Balanced`: all evidence grounded, no more runs succeeded than structured, and
repairable ones counted against runs and repairs), `Open` being the runs still to count.  `Surroundings` covers clients and the budget of faults.

**Only model-checked**: liveness (`Terminates`, `Returns`, `AcceptedRunCloses`) and the fairness part of the
refinement by `Engine`, because liveness under fairness and `ENABLED` are out of the
prover's reach; what recursive definitions compute.  The seven disagreements of section
4 are counterexamples, so there is nothing to prove about them.

## 7. Plan

1. `Plans`, `DagScheduler` and its proofs: done.
2. `RetryPolicy`, `LLMPlanning`, `Repair`, `Planners`, `Engine`, `RunLifecycle`: done.
3. `SharedEngine`: done for the shared fields and the tool layer.
4. `LogAnalysis`, `Service`: done for one execution at a time; overlapping executions
   of the HTTP server are `SharedEngine`'s subject.
5. Proofs of every safety property the passing runs check: done.
6. Next: `DivergenceSurfaced` with retries, where a weaker statement (the answer is one
   that the source got for the same arguments) needs neither `OwnCalls` nor
   `MaxAttempts = 1`; the four hazards without a property.

## 8. Not modelled

* Wording: prompts, summaries, log lines character by character; the normalisation of
  white space in the text searches; rates in the metrics, which are quotients of the
  counters there are.
* The HTTP and JSON-RPC envelopes (methods, paths, status codes) and single reads
  (`GET /runs`, `list_runs`): they return a row the invariants already speak of.
* `fs_read_file.go`: no agent calls it.  Uploads: one of the ways files change; no
  document speaks of an order between an upload and a run.
* `parseGoMapLiteral` (a format no writer produces any more), `RetryableErrors` (read
  by no code), `CorrectInput` and `ModifyInput`'s new input (never reaches an agent),
  `CalculateDelay` (no caller), `IntelligentStrategy` (delegates to the simple one).
* `web/`, `config/`, `demo/`: presentation and configuration.

## 9. Running

    tlc -workers 2 -config MCEngine.cfg MCEngine
    tlapm DagScheduler_proof.tla        # and each other *_proof.tla

Every cfg names its module in `PROJECT.json`.  The runs take seconds, except
`MCEngine`, `MCService`, `MCReplaySerial` and `MCSharedExecutes`, which take one to
three minutes.
