------------------------------ MODULE Service ------------------------------
(***************************************************************************)
(* The program as deployed: clients, the process (cmd/server with its      *)
(* handlers, or cmd/mcp), Engine.Execute with the two-step plan of         *)
(* LogAnalysisPlanner, and the database that outlives the process.  The    *)
(* log files may change and the process may crash at any time.             *)
(*                                                                         *)
(* Steps are the accesses to disk and database: each of them is a point    *)
(* where a crash, a change of the files or a reader can come in between.   *)
(* What overlapping executions do to the fields of the engine they share   *)
(* is the subject of SharedEngine, here one execution runs at a time       *)
(* (NoneActive); failing writes and other plans are that of Engine.        *)
(***************************************************************************)
EXTENDS LogAnalysis

CONSTANTS
  Request,          \* the run ids that POST /runs or analyze_logs generate
  Input,            \* what a request may ask for: [dir, keywords]
  DefaultKeywords,  \* ... and what LogReaderAgent takes when it is not asked
  Frontend,         \* which processes to consider, a subset of {"http", "mcp"}
  Disks,            \* the file systems at the start and after a change
  MaxAttempts,      \* attempts at a step: RepairMaxAttempts and the default policy are 3
  MaxFaults         \* bound on the crashes and the changes of the file system together

ASSUME ServiceAssumption ==
  /\ Frontend \subseteq {"http", "mcp"}
  /\ \A d \in Disks : \A dir \in DOMAIN d : \A f \in DOMAIN d[dir] :
       d[dir][f] = Unreadable \/ d[dir][f] \in Seq(Range(d[dir][f]))
  /\ MaxAttempts \in Nat \ {0} /\ MaxFaults \in Nat

(* The replay of a run has the id "replay-<run id>".                       *)
Run == [request : Request, replay : BOOLEAN]

Original(r) == [request |-> r, replay |-> FALSE]
Replay(r)   == [request |-> r, replay |-> TRUE]

VARIABLES
  frontend,   \* the process that is running
  disk,       \* the file system
  runRow,     \* the table agent_runs: the status per run, "NONE" without a row
  stepRows,   \* the table agent_steps per run
  toolRows,   \* the table tool_calls per run, in the order of started_at
  exec,       \* per run its execution in the memory of the process
  accepted,   \* the runs for which a client got its answer 202
  reader,     \* a request for metrics that is being answered
  changes,    \* how often the file system has changed
  crashes     \* how often the process has crashed

vars == <<frontend, disk, runRow, stepRows, toolRows, exec, accepted, reader,
          changes, crashes>>
tables      == <<runRow, stepRows, toolRows>>
environment == <<frontend, disk, changes, crashes>>

NoReply    == [kind |-> "none"]
ErrorReply == [kind |-> "error"]

NoExec == [pc |-> "none"]

Exec(in, source, entries) ==
  [pc |-> "spawned", input |-> in, source |-> source, entries |-> entries, outputs |-> {},
   attempt |-> 1, seq |-> 0, todo |-> <<>>, files |-> 0,
   findings |-> <<>>, total |-> 0, report |-> NoReply, reply |-> NoReply]

NoReader == [at |-> "idle"]

Init ==
  /\ frontend \in Frontend
  /\ disk \in Disks
  /\ runRow = [x \in Run |-> "NONE"]
  /\ stepRows = [x \in Run |-> {}] /\ toolRows = [x \in Run |-> <<>>]
  /\ exec = [x \in Run |-> NoExec]
  /\ accepted = {} /\ reader = NoReader
  /\ changes = 0 /\ crashes = 0

Active(x) == exec[x].pc \notin {"none", "spawned", "returned"}

NoneActive == \A x \in Run : ~Active(x)

At(x, where) == exec[x].pc = where
-----------------------------------------------------------------------------
(* Requests that start an execution.                                       *)

(* Mutant of CreateRun: the row is left to Engine.Execute.                 *)
CreateRunLater(r) ==
  /\ frontend = "http" /\ At(Original(r), "none") /\ runRow[Original(r)] = "NONE"
  /\ \E in \in Input : exec' = [exec EXCEPT ![Original(r)] = Exec(in, "none", <<>>)]
  /\ UNCHANGED <<tables, accepted, reader, environment>>

(* POST /runs creates the row and spawns the execution ...                 *)
CreateRun(r) ==
  /\ frontend = "http" /\ At(Original(r), "none") /\ runRow[Original(r)] = "NONE"
  /\ runRow' = [runRow EXCEPT ![Original(r)] = "CREATED"]
  /\ \E in \in Input : exec' = [exec EXCEPT ![Original(r)] = Exec(in, "none", <<>>)]
  /\ UNCHANGED <<stepRows, toolRows, accepted, reader, environment>>

(* ... and answers 202.                                                    *)
Accept(r) ==
  /\ frontend = "http" /\ ~At(Original(r), "none")
  /\ accepted' = accepted \cup {Original(r)}
  /\ UNCHANGED <<tables, exec, reader, environment>>

(* analyze_logs: the loop of the MCP server serves one request at a time,  *)
(* with tools whose root is the directory asked for.                       *)
AnalyzeLogs(r) ==
  /\ frontend = "mcp" /\ NoneActive /\ \A x \in Run : ~At(x, "spawned")
  /\ At(Original(r), "none") /\ runRow[Original(r)] = "NONE"
  /\ \E in \in Input : exec' = [exec EXCEPT ![Original(r)] = Exec(in, "none", <<>>)]
  /\ UNCHANGED <<tables, accepted, reader, environment>>

(* The calls of the run that succeeded, in order.                          *)
StoredCalls(x) ==
  LET ok == {k \in DOMAIN toolRows[x] : toolRows[x][k].data.ok}
      row(n) == toolRows[x][Kth(ok, Less(ok), n)]
  IN [n \in 1 .. Cardinality(ok) |-> [call |-> row(n).call, data |-> JSON(row(n).data)]]

(* POST /runs/:id/replay.  Execute gets no input but the stored calls; one *)
(* replay per run is considered.                                           *)
ReplayRun(r) ==
  /\ frontend = "http" /\ NoneActive
  /\ runRow[Original(r)] # "NONE" /\ runRow[Replay(r)] = "NONE" /\ At(Replay(r), "none")
  /\ exec' = [exec EXCEPT ![Replay(r)] =
                Exec([dir |-> ".", keywords |-> DefaultKeywords],
                     runRow[Original(r)], StoredCalls(Original(r)))]
  /\ UNCHANGED <<tables, accepted, reader, environment>>
-----------------------------------------------------------------------------
(* Engine.Execute with its two steps.                                      *)

(* A row that is there already is taken over.                              *)
Create(x) ==
  /\ At(x, "spawned") /\ NoneActive
  /\ runRow' = [runRow EXCEPT ![x] = IF @ = "NONE" THEN "CREATED" ELSE @]
  /\ exec' = [exec EXCEPT ![x].pc = "created"]
  /\ UNCHANGED <<stepRows, toolRows, accepted, reader, environment>>

Start(x) ==
  /\ At(x, "created")
  /\ runRow' = [runRow EXCEPT ![x] = "RUNNING"]
  /\ exec' = [exec EXCEPT ![x].pc = "list"]
  /\ UNCHANGED <<stepRows, toolRows, accepted, reader, environment>>

(* The directory the agent passes on; the MCP server always asks for ".".  *)
Dir(x) == IF frontend = "mcp" THEN "." ELSE exec[x].input.dir

(* ... which its tools resolve under their root.                           *)
Visible(x) ==
  IF frontend = "http" THEN disk
  ELSE [d \in {"."} \cap {"." : e \in {exec[x].input.dir} \cap DOMAIN disk} |->
          disk[exec[x].input.dir]]

Unconsumed(x, call) == {k \in DOMAIN exec[x].entries : exec[x].entries[k].call = call}

(* What the tool executor of the engine may answer, and the entries that   *)
(* remain for later calls: the tools know one answer, a replay the first   *)
(* entry of the call.                                                      *)
Answers(x, call) ==
  IF ~x.replay THEN {[data |-> RunTool(Visible(x), call), entries |-> <<>>]}
  ELSE IF Unconsumed(x, call) = {} THEN {[data |-> Failure, entries |-> exec[x].entries]}
  ELSE {[data |-> exec[x].entries[k].data, entries |-> RemoveAt(exec[x].entries, k)]
          : k \in {Min(Unconsumed(x, call))}}

(* The persisting executor's row, except in a replay; an insert with a key *)
(* that is taken fails, and nobody notices.                                *)
Record(x, call, data) ==
  LET row == [seq |-> exec[x].seq + 1, call |-> call, data |-> data]
  IN toolRows' = IF x.replay \/ \E k \in DOMAIN toolRows[x] : toolRows[x][k].seq = row.seq
                   THEN toolRows
                   ELSE [toolRows EXCEPT ![x] = Append(@, row)]

(* Mutant of Called: only calls that succeed are counted.                  *)
CalledIfOk(x, a) ==
  [exec[x] EXCEPT !.seq = IF a.data.ok THEN @ + 1 ELSE @, !.entries = a.entries,
                  !.outputs = IF a.data.ok THEN @ \cup {a.data} ELSE @]

(* The execution after a call: the collector has seen what succeeded.      *)
Called(x, a) ==
  [exec[x] EXCEPT !.seq = @ + 1, !.entries = a.entries,
                  !.outputs = IF a.data.ok THEN @ \cup {a.data} ELSE @]

StepRow(step, attempt, status, output) ==
  [step |-> step, attempt |-> attempt, status |-> status, output |-> output]

ErrorText == [kind |-> "error", form |-> "native"]

ListDirectory(x) ==
  /\ At(x, "list")
  /\ \E a \in Answers(x, ListCall(Dir(x))) :
       /\ a.data.ok
       /\ Record(x, ListCall(Dir(x)), a.data)
       /\ exec' = [exec EXCEPT ![x] =
            [Called(x, a) EXCEPT
               !.pc = "grep",
               !.files = Len(SelectSeq(a.data.entries, IsLogFile)),
               !.todo = GrepCalls(Dir(x), a.data.entries, exec[x].input.keywords)]]
  /\ UNCHANGED <<runRow, stepRows, accepted, reader, environment>>

(* The agent fails with the tool's error, which is one to retry.           *)
ListDirectoryFails(x) ==
  /\ At(x, "list")
  /\ \E a \in Answers(x, ListCall(Dir(x))) :
       /\ ~a.data.ok
       /\ Record(x, ListCall(Dir(x)), a.data)
       /\ exec' = [exec EXCEPT ![x] = [Called(x, a) EXCEPT !.pc = "scan failed"]]
  /\ UNCHANGED <<runRow, stepRows, accepted, reader, environment>>

(* Mutant of ScanFails: one attempt more.                                  *)
ScanFailsOnceMore(x) ==
  /\ At(x, "scan failed")
  /\ stepRows' = [stepRows EXCEPT ![x] = @ \cup
                    {StepRow("scan", exec[x].attempt, "FAILED", ErrorText)}]
  /\ \/ /\ exec[x].attempt <= MaxAttempts
        /\ exec' = [exec EXCEPT ![x].pc = "list", ![x].attempt = @ + 1]
     \/ /\ exec[x].attempt > MaxAttempts
        /\ exec' = [exec EXCEPT ![x].pc = "fail"]
  /\ UNCHANGED <<runRow, toolRows, accepted, reader, environment>>

(* Mutant of ScanFails: nobody ends the run after the last attempt.        *)
ScanFailsSilently(x) ==
  /\ At(x, "scan failed") /\ exec[x].attempt < MaxAttempts
  /\ stepRows' = [stepRows EXCEPT ![x] = @ \cup
                    {StepRow("scan", exec[x].attempt, "FAILED", ErrorText)}]
  /\ exec' = [exec EXCEPT ![x] = [@ EXCEPT !.pc = "list", !.attempt = @ + 1]]
  /\ UNCHANGED <<runRow, toolRows, accepted, reader, environment>>

ScanFails(x) ==
  /\ At(x, "scan failed")
  /\ stepRows' = [stepRows EXCEPT ![x] = @ \cup
                    {StepRow("scan", exec[x].attempt, "FAILED", ErrorText)}]
  /\ \/ /\ exec[x].attempt < MaxAttempts
        /\ exec' = [exec EXCEPT ![x].pc = "list", ![x].attempt = @ + 1]
     \/ /\ exec[x].attempt >= MaxAttempts
        /\ exec' = [exec EXCEPT ![x].pc = "fail"]
  /\ UNCHANGED <<runRow, toolRows, accepted, reader, environment>>

GrepNext(x) ==
  /\ At(x, "grep") /\ exec[x].todo # <<>>
  /\ \E call \in {Head(exec[x].todo)} : \E a \in Answers(x, call) :
       /\ Record(x, call, a.data)
       /\ exec' = [exec EXCEPT ![x] =
            [Called(x, a) EXCEPT
               !.todo = Tail(@),
               !.findings = @ \o Findings(call, a.data),
               !.total = @ + (IF a.data.ok THEN MatchCount(a.data) ELSE 0)]]
  /\ UNCHANGED <<runRow, stepRows, accepted, reader, environment>>

(* The analyzer computes from what the scan returned and touches nothing   *)
(* else, so its report is there at once.                                   *)
ScanSucceeds(x) ==
  /\ At(x, "grep") /\ exec[x].todo = <<>>
  /\ stepRows' = [stepRows EXCEPT ![x] = @ \cup
       {StepRow("scan", exec[x].attempt, "SUCCEEDED",
                JSON(Scan(exec[x].files, exec[x].findings, exec[x].total)))}]
  /\ exec' = [exec EXCEPT ![x] =
       [@ EXCEPT !.pc = "analyze", !.report = Analyze(exec[x].findings, exec[x].total)]]
  /\ UNCHANGED <<runRow, toolRows, accepted, reader, environment>>

(* The report is recorded if the validators let it pass.  A rejected one   *)
(* is a validation failure, for which the simple strategy wants a replan:  *)
(* the step fails at once.                                                 *)
JudgeReport(x) ==
  LET valid == Valid(exec[x].report, exec[x].outputs)
      row   == IF valid THEN StepRow("analyze", 1, "SUCCEEDED", JSON(exec[x].report))
               ELSE StepRow("analyze", 1, "FAILED", ErrorText)
  IN /\ At(x, "analyze")
     /\ stepRows' = [stepRows EXCEPT ![x] = @ \cup {row}]
     /\ exec' = [exec EXCEPT ![x].pc = IF valid THEN "complete" ELSE "fail"]
     /\ UNCHANGED <<runRow, toolRows, accepted, reader, environment>>

(* Mutant of Complete: the run is closed before its report is recorded.    *)
CompleteEarly(x) ==
  /\ At(x, "analyze") \/ At(x, "complete")
  /\ runRow' = [runRow EXCEPT ![x] = "COMPLETED"]
  /\ exec' = [exec EXCEPT ![x] = [@ EXCEPT !.pc = "returned", !.reply = FormatReport(exec[x].report)]]
  /\ UNCHANGED <<stepRows, toolRows, accepted, reader, environment>>

(* The end of Execute.  analyze_logs answers with the report as the agents *)
(* built it.                                                               *)
Complete(x) ==
  /\ At(x, "complete")
  /\ runRow' = [runRow EXCEPT ![x] = "COMPLETED"]
  /\ exec' = [exec EXCEPT ![x] = [@ EXCEPT !.pc = "returned", !.reply = FormatReport(exec[x].report)]]
  /\ UNCHANGED <<stepRows, toolRows, accepted, reader, environment>>

(* Mutant of Fail: the row is not written.                                 *)
FailUnsaved(x) ==
  /\ At(x, "fail")
  /\ exec' = [exec EXCEPT ![x] = [@ EXCEPT !.pc = "returned", !.reply = ErrorReply]]
  /\ UNCHANGED <<tables, accepted, reader, environment>>

Fail(x) ==
  /\ At(x, "fail")
  /\ runRow' = [runRow EXCEPT ![x] = "FAILED"]
  /\ exec' = [exec EXCEPT ![x] = [@ EXCEPT !.pc = "returned", !.reply = ErrorReply]]
  /\ UNCHANGED <<stepRows, toolRows, accepted, reader, environment>>
-----------------------------------------------------------------------------
(* GET /metrics and GET /metrics/:id: the rows of the runs are read first, *)
(* then for one run after the other its steps and, later, its tool calls.  *)

Zero == [runs |-> 0, succeeded |-> 0, structured |-> 0, items |-> 0, grounded |-> 0,
         repairable |-> 0, repaired |-> 0]

Listed == {x \in Run : runRow[x] # "NONE"}

RequestMetrics ==
  /\ frontend = "http" /\ reader.at = "idle"
  /\ \E todo \in {Listed} \cup {{x} : x \in Listed} :
       /\ todo # {}
       /\ reader' = [at |-> "steps", todo |-> todo, status |-> runRow, run |-> NoExec,
                     steps |-> {}, totals |-> [Zero EXCEPT !.runs = Cardinality(todo)]]
  /\ UNCHANGED <<tables, exec, accepted, environment>>

ReadSteps ==
  /\ reader.at = "steps"
  /\ \E x \in reader.todo :
       reader' = [reader EXCEPT !.at = "tools", !.todo = @ \ {x}, !.run = x,
                                !.steps = stepRows[x]]
  /\ UNCHANGED <<tables, exec, accepted, environment>>

Indicator(condition) == IF condition THEN 1 ELSE 0

Counted(totals, status, steps, calls) ==
  [totals EXCEPT
     !.succeeded  = @ + Indicator(status = "COMPLETED"),
     !.structured = @ + Indicator(HasValidStructuredOutput(steps)),
     !.items      = @ + Cardinality(EvidenceItems(steps)),
     !.grounded   = @ + Cardinality(GroundedItems(steps, calls)),
     !.repairable = @ + Cardinality(Repairable(steps)),
     !.repaired   = @ + Cardinality(Repaired(steps))]

(* Mutant of ReadTools: the status is that of the moment.                  *)
ReadToolsAndStatus ==
  /\ reader.at = "tools"
  /\ reader' = [reader EXCEPT
       !.at = IF reader.todo = {} THEN "answer" ELSE "steps",
       !.totals = Counted(@, runRow[reader.run], reader.steps, Range(toolRows[reader.run]))]
  /\ UNCHANGED <<tables, exec, accepted, environment>>

ReadTools ==
  /\ reader.at = "tools"
  /\ reader' = [reader EXCEPT
       !.at = IF reader.todo = {} THEN "answer" ELSE "steps",
       !.totals = Counted(@, reader.status[reader.run], reader.steps,
                          Range(toolRows[reader.run]))]
  /\ UNCHANGED <<tables, exec, accepted, environment>>

RespondMetrics ==
  /\ reader.at = "answer"
  /\ reader' = NoReader
  /\ UNCHANGED <<tables, exec, accepted, environment>>

(* get_report: the report among the rows of the run, or an error.          *)
Reports(x) == {row.output : row \in {s \in stepRows[x] : IsReport(s)}}

GetReport(x) ==
  IF Reports(x) = {} THEN ErrorReply ELSE FormatReport(CHOOSE report \in Reports(x) : TRUE)
-----------------------------------------------------------------------------
(* The world around the process.                                           *)

(* Somebody writes, rotates or deletes log files.                          *)
ChangeFiles ==
  /\ changes + crashes < MaxFaults
  /\ disk' \in Disks \ {disk}
  /\ changes' = changes + 1
  /\ UNCHANGED <<frontend, tables, exec, accepted, reader, crashes>>

(* The process stops and is started again: what it had in memory is lost,  *)
(* and nothing looks at the runs that were not finished.                   *)
Crash ==
  /\ changes + crashes < MaxFaults
  /\ crashes' = crashes + 1
  /\ exec' = [x \in Run |-> IF At(x, "returned") THEN exec[x] ELSE NoExec]
  /\ reader' = NoReader
  /\ UNCHANGED <<frontend, disk, tables, accepted, changes>>

Step(x) ==
  \/ Create(x) \/ Start(x)
  \/ ListDirectory(x) \/ ListDirectoryFails(x) \/ ScanFails(x)
  \/ GrepNext(x) \/ ScanSucceeds(x)
  \/ JudgeReport(x) \/ Complete(x) \/ Fail(x)

Metrics == RequestMetrics \/ ReadSteps \/ ReadTools \/ RespondMetrics

Next ==
  \/ \E r \in Request : CreateRun(r) \/ Accept(r) \/ AnalyzeLogs(r) \/ ReplayRun(r)
  \/ \E x \in Run : Step(x)
  \/ Metrics
  \/ ChangeFiles \/ Crash

Spec == Init /\ [][Next]_vars

(* The scheduler of Go does not leave a goroutine waiting that can run.    *)
FairSpec == Spec /\ WF_vars(\E x \in Run : Step(x))
-----------------------------------------------------------------------------
(* Properties.                                                             *)

Status == {"NONE", "CREATED", "RUNNING", "COMPLETED", "FAILED"}

PC == {"none", "spawned", "created", "list", "scan failed", "grep", "analyze",
       "complete", "fail", "returned"}

(* The types of the tables and of the process' memory: attempts and keys   *)
(* of tool calls stay within their bounds and are not used twice.          *)
TypeOK ==
  /\ frontend \in Frontend /\ disk \in Disks
  /\ runRow \in [Run -> Status]
  /\ accepted \subseteq Run
  /\ changes \in Nat /\ crashes \in Nat /\ changes + crashes <= MaxFaults
  /\ reader.at \in {"idle", "steps", "tools", "answer"}
  /\ \A x \in Run :
       /\ exec[x].pc \in PC
       /\ ~At(x, "none") => /\ exec[x].attempt \in 1 .. MaxAttempts
                            /\ exec[x].seq = Len(toolRows[x]) \/ x.replay
       /\ \A row \in stepRows[x] : row.status \in {"SUCCEEDED", "FAILED"}
       /\ \A k \in DOMAIN toolRows[x] : toolRows[x][k].seq = k

(* A client that was told 202 finds the run, whenever it asks and also     *)
(* after a crash (run_handler.go:127: "so GET /runs/:id works              *)
(* immediately").                                                          *)
AcceptedIsKnown == \A x \in accepted : runRow[x] # "NONE"

(* A run that says COMPLETED has a report in agent_steps that satisfies    *)
(* the validators, whatever crashed or changed in between.                 *)
CompletedHasReport ==
  \A x \in Run : runRow[x] = "COMPLETED" =>
    \E report \in Reports(x) :
        /\ ReportValid(report)
        /\ ~x.replay => GroundingValid(report, {toolRows[x][k].data :
                                 k \in {j \in DOMAIN toolRows[x] : toolRows[x][j].data.ok}})

(* The matches that tool_calls holds for a run, with the severity of the   *)
(* keyword they were searched with.                                        *)
RecordedMatches(x) ==
  UNION {LET row == toolRows[x][k] IN
         {[rank |-> SeverityRank(row.call.keyword), key |-> k,
           item |-> [file |-> Last(row.call.path), line |-> row.data.matches[j].line,
                     text |-> row.data.matches[j].text]] : j \in DOMAIN row.data.matches}
           : k \in {j \in DOMAIN toolRows[x] : toolRows[x][j].data.ok}}

RecordedWith(x, ranks) == Cardinality({m \in RecordedMatches(x) : m.rank \in ranks})

(* The report of a run accounts for exactly what its tool calls found: it  *)
(* is the all-clear only if they found nothing, its counts add up, and a   *)
(* match that is left out of the evidence is no graver than one that is    *)
(* there - although the files change while they are scanned.               *)
ReportMatchesToolCalls ==
  \A r \in Request : \A report \in Reports(Original(r)) :
    LET x == Original(r)
        shown == Range(report.evidence)
    IN /\ (report.rootCause = "N/A") <=> (RecordedMatches(x) = {})
       /\ report.summary = [panics   |-> RecordedWith(x, {3}),
                            errors   |-> RecordedWith(x, {0, 2}),
                            warnings |-> RecordedWith(x, {1})]
       /\ \A m \in RecordedMatches(x) : m.item \notin shown =>
            \A item \in shown :
              \E n \in RecordedMatches(x) : n.item = item /\ n.rank >= m.rank

(* The validators never reject what the analyzer builds: evidence names a  *)
(* file by its base name and the tool calls by its path below the          *)
(* directory, and the report of a run without findings is complete, too.   *)
ReportsAccepted ==
  \A x \in Run : \A row \in stepRows[x] : row.step = "analyze" => row.status = "SUCCEEDED"

(* Metrics that are read while runs go on never take grounded evidence for *)
(* a hallucination: the calls behind a report are in the table when the    *)
(* report is.                                                              *)
NoFalseHallucination == reader.at = "answer" => reader.totals.grounded = reader.totals.items

(* A run that counts as succeeded counts as structured, and a run whose    *)
(* failed steps were not repaired does not count as succeeded, although    *)
(* the three numbers are read at different times.                          *)
MetricsConsistent ==
  reader.at = "answer" =>
    /\ reader.totals.succeeded <= reader.totals.structured
    /\ reader.totals.repairable - reader.totals.repaired
         <= reader.totals.runs - reader.totals.succeeded

(* What analyze_logs has answered, get_report can retrieve at any later    *)
(* time, with all of the evidence and the advice.                          *)
ReportRetrievable ==
  \A r \in Request :
    LET x == Original(r) IN
    At(x, "returned") /\ exec[x].reply.kind = "text" =>
      /\ GetReport(x) # ErrorReply
      /\ GetReport(x).evidence = exec[x].report.evidence
      /\ GetReport(x).nextSteps = exec[x].report.nextSteps

(* Each run follows the life cycle of RunLifecycle, across requests,       *)
(* replays and crashes.                                                    *)
Outcome(x) ==
  IF ~At(x, "returned") THEN "none"
  ELSE IF exec[x].reply.kind = "error" THEN "failed" ELSE "succeeded"

Lifecycle(x) == INSTANCE RunLifecycle
                  WITH status <- runRow[x], outcome <- Outcome(x), lossy <- FALSE

LifecycleSpec ==
  /\ \A x \in Run : Lifecycle(x)!Init
  /\ [][\A x \in Run : [Lifecycle(x)!Next]_<<runRow[x], Outcome(x)>>]_vars

(* A run that was accepted is closed in the end - unless the process       *)
(* stopped, for nothing takes up what it left.                             *)
AcceptedRunCloses ==
  \A x \in Run :
    x \in accepted ~> (runRow[x] \in {"COMPLETED", "FAILED"} \/ crashes > 0)

(* README.md:53, PROJECT.md:72: a replay of a completed run reproduces its *)
(* report.                                                                 *)
ReplayReproduces ==
  \A r \in Request :
    At(Replay(r), "returned") /\ exec[Replay(r)].source = "COMPLETED"
      => Reports(Replay(r)) = Reports(Original(r))

(* The answer of analyze_logs is "a structured report with evidence and    *)
(* recommended next steps" (cmd/mcp/main.go:199).                          *)
ReportShownInFull ==
  \A x \in Run : frontend = "mcp" /\ At(x, "returned") /\ exec[x].reply.kind = "text" =>
    /\ exec[x].reply.evidence = exec[x].report.evidence
    /\ exec[x].reply.nextSteps # <<>>
=============================================================================
