CONSTANTS
  Node <- MCNode
  Edge <- MCEdge
  From <- MCFrom
  To <- MCTo
  Cond <- MCCond
  LoopEdge <- MCLoop
  Join <- MCJoin
  LoopLimit <- MCLimit
  Decider = {1}
  EntrySeq <- MCEntry
  Outputs <- MCOutputs
  MaxStepsPerRun = 50
  PerStepTimeout = 1
  PerRunTimeout = 12
  MaxRunsPerDay = 1
  MaxCostUSDPerDay = 1
  StepCosts = {0}
  Durations = {0, 1}
  MaxFaults = 1
  MaxEnv = 1
  MayCrash = TRUE
SPECIFICATION FairSpec
INVARIANTS
  ExecutorSeesAssessedThesis
PROPERTIES
  RunSettles
CHECK_DEADLOCK FALSE
