\* a run and its replay
CONSTANTS
  r1 = r1
  Unreadable = Unreadable
  FileOrder <- Files
  Extension <- MCExtension
  MaxGrepMatches = 2
  MaxEvidence = 2
  Request = {r1}
  Input <- MCInput
  DefaultKeywords <- MCDefaultKeywords
  Frontend = {"http"}
  Disks <- MCDisks
  MaxAttempts = 3
  MaxFaults = 0
SPECIFICATION Spec
INVARIANTS
  ReplayReproduces
CHECK_DEADLOCK FALSE
