\* engines of every kind: repair, replans, failing writes
CONSTANTS
  a = a  b = b  alt = alt  gone = gone
  s1 = s1  s2 = s2  s3 = s3  s4 = s4  ghost = ghost
  NoStepID = NoStepID  NoAgentID = NoAgentID  NoFallback = NoFallback  NoRow = NoRow
  StepName = {s1, s2, s3, s4, ghost}
  AgentName = {a, b, alt, gone}
  Alternative <- MCAlternative
  Registered = {a, b, alt}
  ValidatedAgents = {b}
  Described = {a, b}
  NoPolicy = NoPolicy
  StepPolicy <- MCStepPolicy
  Longest = 127
  Configs <- AllConfigs
SPECIFICATION FairSpec
INVARIANTS
  TypeOK
  BatchSound
  SuccessIsComplete
  AttemptsRecorded
  AttemptsBounded
  
  WaitsBounded
  
  TemplateCompletedOnce
  CompletedIffSucceeded
PROPERTIES
  
  Returns
\* the call returns
CHECK_DEADLOCK FALSE
