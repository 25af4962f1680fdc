\* one call at a time: an execution and a replay of it
CONSTANTS
  e1 = e1  e2 = e2  r1 = r1  r2 = r2  read = read  list = list  grep = grep
  NoCall = NoCall  RealTools = RealTools  ToolError = ToolError
  Call = {e1, r1}
  Source <- MCSource
  Step = {1, 2}
  Script <- OwnArguments
  Output = {o1, o2}
  MaxAttempts = 1
  MaxRounds = 2
  MaxActive = 1
SPECIFICATION Spec
INVARIANTS
  TypeOK
  ReplayTouchesNoTool
  
  
  GroundingExact
\* all calls return
CHECK_DEADLOCK FALSE
