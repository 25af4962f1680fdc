\* a run, its replay, metrics, changing files and a crash, for both processes
CONSTANTS
  r1 = r1
  Unreadable = Unreadable
  FileOrder <- Files
  Extension <- MCExtension
  MaxGrepMatches = 2
  MaxEvidence = 2
  Request = {r1}
  Input <- MCInput
  DefaultKeywords <- MCDefaultKeywords
  Frontend = {"http", "mcp"}
  Disks <- MCDisks
  MaxAttempts = 3
  MaxFaults = 1
SPECIFICATION FairSpec
INVARIANTS
  TypeOK
  AcceptedIsKnown
  CompletedHasReport
  ReportMatchesToolCalls
  
  
  MetricsConsistent
  ReportRetrievable
PROPERTIES
  
  AcceptedRunCloses
\* a client may stop asking
CHECK_DEADLOCK FALSE
