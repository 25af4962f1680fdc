\* two executions at the same time, with retries
CONSTANTS
  e1 = e1  e2 = e2  r1 = r1  r2 = r2  read = read  list = list  grep = grep
  NoCall = NoCall  RealTools = RealTools  ToolError = ToolError
  Call = {e1, e2}
  Source <- MCSource
  Step = {1, 2}
  Script <- SameCall
  Output = {o1}
  MaxAttempts = 2
  MaxRounds = 1
  MaxActive = 2
SPECIFICATION Spec
INVARIANTS
  EveryToolCallRecorded
SYMMETRY Executions
\* all calls return
CHECK_DEADLOCK FALSE
