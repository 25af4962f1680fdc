---------------------------- MODULE LogAnalysis ----------------------------
(***************************************************************************)
(* What the tools, the two agents, the validators, the metrics and the MCP *)
(* server compute, as operators: tools/fs_*.go, agent/log_reader.go,       *)
(* agent/log_analyzer.go, orchestrator/{report,grounding}_validator.go,    *)
(* orchestrator/metrics.go and formatReport of cmd/mcp/main.go.            *)
(*                                                                         *)
(* A log line is [words, stamp]: the lower-case keywords it contains, and  *)
(* the time stamp that simplifyPattern strips.  A path is a sequence of    *)
(* names.  A disk maps directories to their files, and a file to its lines *)
(* or to Unreadable.                                                       *)
(*                                                                         *)
(* A value that a tool or an agent returns carries in "form" whether it    *)
(* holds the Go types it was built with ("native") or what the JSON        *)
(* decoder makes of the stored text ("json"): float64 for int, []any for   *)
(* every other slice.  The code tells them apart by type assertions.       *)
(***************************************************************************)
EXTENDS Integers, FiniteSetsExt, SequencesExt

CONSTANTS
  FileOrder,        \* all file names, in the order os.ReadDir lists them
  Extension,        \* Extension[f]: "log", "txt", "out", "none" or another
  Unreadable,       \* a file that cannot be opened, or with a line too long for the scanner
  MaxGrepMatches,   \* maxGrepMatches
  MaxEvidence       \* maxEvidence

ASSUME LogAnalysisAssumption ==
  /\ FileOrder \in Seq(DOMAIN Extension) /\ IsInjective(FileOrder)
  /\ MaxGrepMatches \in Nat \ {0} /\ MaxEvidence \in Nat \ {0}

(* The k-th element of a finite set that the relation "before" orders, and *)
(* the order of a set of numbers.                                          *)
Kth(S, before, k) ==
  CHOOSE i \in S : Cardinality({j \in S : <<j, i>> \in before}) = k - 1

Less(S) == {p \in S \X S : p[1] < p[2]}

(* json.Marshal followed by json.Unmarshal.                                *)
JSON(value) == [value EXCEPT !.form = "json"]
-----------------------------------------------------------------------------
(* The file tools.                                                         *)

Lower(keyword) ==
  CASE keyword = "ERROR" -> "error" [] keyword = "FATAL" -> "fatal"
    [] keyword = "WARN"  -> "warn"  [] OTHER -> keyword

HasKeyword(line, keyword) == Lower(keyword) \in line.words

Failure == [ok |-> FALSE, form |-> "native"]

Data(path, entries, matches) ==
  [ok |-> TRUE, path |-> path, entries |-> entries, matches |-> matches,
   matchCount |-> Len(matches), form |-> "native"]

ListCall(dir) == [tool |-> "fs.list_dir", path |-> <<dir>>, keyword |-> ""]

GrepCall(dir, file, keyword) ==
  [tool |-> "fs.grep_file", path |-> IF dir = "." THEN <<file>> ELSE <<dir, file>>,
   keyword |-> keyword]

ListDir(disk, call) ==
  LET dir == call.path[1]
  IN IF dir \notin DOMAIN disk THEN Failure
     ELSE Data(call.path, SelectSeq(FileOrder, LAMBDA f : f \in DOMAIN disk[dir]), <<>>)

MatchingLines(lines, keyword) == {n \in DOMAIN lines : HasKeyword(lines[n], keyword)}

(* At most MaxGrepMatches lines that contain the keyword in any case.      *)
GrepFile(disk, call) ==
  LET dir   == IF Len(call.path) = 1 THEN "." ELSE call.path[1]
      file  == Last(call.path)
      lines == disk[dir][file]
      hits  == MatchingLines(lines, call.keyword)
      hit(k) == Kth(hits, Less(hits), k)
  IN IF dir \notin DOMAIN disk \/ file \notin DOMAIN disk[dir] \/ lines = Unreadable
     THEN Failure
     ELSE Data(call.path, <<>>,
               [k \in 1 .. Min({Cardinality(hits), MaxGrepMatches}) |->
                  [line |-> hit(k), text |-> lines[hit(k)]]])

RunTool(disk, call) ==
  IF call.tool = "fs.list_dir" THEN ListDir(disk, call) ELSE GrepFile(disk, call)
-----------------------------------------------------------------------------
(* LogReaderAgent.                                                         *)

IsLogFile(file) == Extension[file] \in {"log", "txt", "out", "none"}

(* One grep per log file and keyword, in the order of the two loops.       *)
GrepCalls(dir, entries, keywords) ==
  LET files == SelectSeq(entries, IsLogFile)
      K == Len(keywords)
  IN [n \in 1 .. Len(files) * K |->
        GrepCall(dir, files[((n - 1) \div K) + 1], keywords[((n - 1) % K) + 1])]

(* The assertion Data["match_count"].(int), 0 when it fails.               *)
MatchCount(data) == IF data.form = "native" THEN data.matchCount ELSE 0

(* What one answer adds to the findings; a failing grep is skipped.        *)
Findings(call, data) ==
  IF ~data.ok \/ MatchCount(data) = 0 THEN <<>>
  ELSE [k \in DOMAIN data.matches |->
          [file |-> Last(call.path), line |-> data.matches[k].line,
           text |-> data.matches[k].text, keyword |-> call.keyword]]

Scan(files, findings, total) ==
  [kind |-> "scan", filesScanned |-> files, findings |-> findings, total |-> total,
   form |-> "native"]
-----------------------------------------------------------------------------
(* LogAnalyzerAgent.                                                       *)

SeverityRank(keyword) ==
  CASE Lower(keyword) \in {"panic", "fatal"}  -> 3
    [] Lower(keyword) = "error"               -> 2
    [] Lower(keyword) \in {"warn", "warning"} -> 1
    [] OTHER                                  -> 0

CountRanks(findings, ranks) ==
  Cardinality({k \in DOMAIN findings : SeverityRank(findings[k].keyword) \in ranks})

(* How often the most frequent pattern occurs; warnings do not count.      *)
TopCount(findings) ==
  LET counted == {k \in DOMAIN findings : SeverityRank(findings[k].keyword) # 1}
  IN Max({0} \cup {Cardinality({j \in counted : findings[j].text.words = findings[k].text.words})
                     : k \in counted})

(* Mutant of BySeverity: the list is not sorted.                           *)
Unsorted(findings) == findings

(* Descending by rank; the order within a rank is sort.Slice's own affair. *)
Graver(findings) ==
  {p \in (DOMAIN findings) \X (DOMAIN findings) :
     LET rank(k) == SeverityRank(findings[k].keyword)
     IN rank(p[1]) > rank(p[2]) \/ (rank(p[1]) = rank(p[2]) /\ p[1] < p[2])}

BySeverity(findings) ==
  [k \in DOMAIN findings |-> findings[Kth(DOMAIN findings, Graver(findings), k)]]

(* The keyword is not part of the evidence.                                *)
Item(finding) == [file |-> finding.file, line |-> finding.line, text |-> finding.text]

AllClear ==
  [kind |-> "report", summary |-> [panics |-> 0, errors |-> 0, warnings |-> 0],
   rootCause |-> "N/A", evidence |-> <<>>, confidence |-> "High", nextSteps |-> <<"monitor">>, form |-> "native"]

Analyze(findings, total) ==
  LET panics   == CountRanks(findings, {3})
      errors   == CountRanks(findings, {0, 2})
      warnings == CountRanks(findings, {1})
      advice(n, a) == IF n > 0 THEN <<a>> ELSE <<>>
  IN IF findings = <<>> \/ total = 0 THEN AllClear
     ELSE [kind |-> "report",
           summary |-> [panics |-> panics, errors |-> errors, warnings |-> warnings],
           rootCause |-> IF TopCount(findings) > 0 THEN "pattern" ELSE "undetermined",
           evidence |-> [k \in 1 .. Min({MaxEvidence, Len(findings)}) |->
                          Item(BySeverity(findings)[k])],
           confidence |-> IF panics > 0 \/ TopCount(findings) >= 3 THEN "High"
                          ELSE IF total <= 2 THEN "Low" ELSE "Medium",
           nextSteps |-> advice(panics, "investigate") \o advice(errors, "review")
                           \o advice(warnings, "evaluate") \o <<"deployment">>,
           form |-> "native"]
-----------------------------------------------------------------------------
(* The validators.  Both leave the output of a scan alone.                 *)

ReportValid(report) ==
  /\ report.confidence \in {"Low", "Medium", "High"}
  /\ report.nextSteps # <<>>

(* Mutant of FileSet: base names are forgotten.                            *)
FileSetOfPaths(outputs) == {d.path : d \in outputs}

(* The paths of the calls with their base names; evidence has a base name. *)
FileSet(outputs) == {d.path : d \in outputs} \cup {<<Last(d.path)>> : d \in outputs}

Corpus(outputs) == UNION {{d.matches[k].text : k \in DOMAIN d.matches} : d \in outputs}

IsGrounded(item, outputs) == <<item.file>> \in FileSet(outputs) /\ item.text \in Corpus(outputs)

GroundingValid(report, outputs) ==
  \A k \in DOMAIN report.evidence : IsGrounded(report.evidence[k], outputs)

Valid(output, outputs) ==
  output.kind = "report" => ReportValid(output) /\ GroundingValid(output, outputs)
-----------------------------------------------------------------------------
(* MetricsEvaluator, over the rows of one run: step rows                   *)
(* [step, attempt, status, output] and tool rows [seq, call, data].        *)

(* Outputs that the decoder understands: failed steps hold an error text.  *)
IsReport(row) == row.status = "SUCCEEDED" /\ row.output.kind = "report"

HasValidStructuredOutput(steps) == \E row \in steps : IsReport(row)

(* The evidence items of all succeeded steps.                              *)
EvidenceItems(steps) ==
  UNION {{<<row.step, row.attempt, k>> : k \in DOMAIN row.output.evidence}
           : row \in {s \in steps : IsReport(s)}}

(* ... and those found again in the stored outputs of succeeded calls.     *)
GroundedItems(steps, calls) ==
  LET outputs == {c.data : c \in {d \in calls : d.data.ok}}
  IN UNION {{<<row.step, row.attempt, k>> :
               k \in {j \in DOMAIN row.output.evidence :
                        IsGrounded(row.output.evidence[j], outputs)}}
              : row \in {s \in steps : IsReport(s)}}

StepsWith(steps, status) == {s.step : s \in {r \in steps : r.status = status}}

Repairable(steps) == StepsWith(steps, "FAILED")

Repaired(steps) == Repairable(steps) \cap StepsWith(steps, "SUCCEEDED")
-----------------------------------------------------------------------------
(* formatReport of the MCP server: the sections a client gets to see.      *)

(* Mutant of FormatReport: it shows what the agents built, not what is     *)
(* read from the table.                                                    *)
FormatReportNative(report) ==
  [kind |-> "text", summary |-> report.summary,
   rootCause |-> report.rootCause # "N/A",
   confidence |-> report.confidence,
   evidence |-> IF report.form = "native" THEN report.evidence ELSE <<>>,
   nextSteps |-> IF report.form = "native" THEN report.nextSteps ELSE <<>>]

FormatReport(report) ==
  [kind |-> "text", summary |-> report.summary,
   rootCause |-> report.rootCause # "N/A",
   confidence |-> report.confidence,
   evidence |-> IF report.form = "json" THEN report.evidence ELSE <<>>,
   nextSteps |-> IF report.form = "json" THEN report.nextSteps ELSE <<>>]
=============================================================================
