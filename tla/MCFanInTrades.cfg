CONSTANTS
  Node <- MCNode
  Edge <- MCEdge
  From <- MCFrom
  To <- MCTo
  Cond <- MCCond
  LoopEdge <- MCLoop
  Join <- MCJoin
  LoopLimit <- MCLimit
  Decider = {4}
  EntrySeq <- MCEntry
  Outputs <- MCOutputs
  MaxStepsPerRun = 7
  PerStepTimeout = 1
  PerRunTimeout = 1
  MaxRunsPerDay = 1
  MaxCostUSDPerDay = 1
  StepCosts = {0}
  Durations = {0}
  MaxFaults = 0
  MaxEnv = 0
  MayCrash = FALSE
SPECIFICATION Spec
INVARIANTS
  AtMostOneTrade
CHECK_DEADLOCK FALSE
