\* every multigraph on 3 steps with at most 2 dependencies each, every
\* plan of up to 2 steps, every layered plan of 4 steps, sequential plans
CONSTANTS
  NoStepID = NoStepID
  MCIDs = {s1, s2, s3}
  StepName = {s1, s2, s3, ghost}
  AgentName = {agentA}
  NoPolicy = NoPolicy
  StepPolicy = {NoPolicy}
  MCMaxSteps = 3
  MCMaxDeps = 2
  PlanSet <- MCPlans
SPECIFICATION FairSpec
INVARIANTS
  TypeOK
  VerdictCorrect
  ReadyExact
  NeverStuck
PROPERTIES
  DependencyOrder
  Terminates
\* the scheduler stops once the plan is rejected or run to its end
CHECK_DEADLOCK FALSE
