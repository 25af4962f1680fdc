\* the answer of analyze_logs
CONSTANTS
  r1 = r1
  Unreadable = Unreadable
  FileOrder <- Files
  Extension <- MCExtension
  MaxGrepMatches = 2
  MaxEvidence = 2
  Request = {r1}
  Input <- MCInput
  DefaultKeywords <- MCDefaultKeywords
  Frontend = {"mcp"}
  Disks <- MCDisks
  MaxAttempts = 3
  MaxFaults = 0
SPECIFICATION Spec
INVARIANTS
  ReportShownInFull
CHECK_DEADLOCK FALSE
