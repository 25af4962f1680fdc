\* two replays of the same run at the same time
CONSTANTS
  e1 = e1  e2 = e2  r1 = r1  r2 = r2  read = read  list = list  grep = grep
  NoCall = NoCall  RealTools = RealTools  ToolError = ToolError
  Call = {e1, r1, r2}
  Source <- MCSource
  Step = {1}
  Script <- OneCall
  Output = {o1, o2}
  MaxAttempts = 1
  MaxRounds = 1
  MaxActive = 2
SPECIFICATION Spec
INVARIANTS
  ReplayTouchesNoTool
\* all calls return
CHECK_DEADLOCK FALSE
