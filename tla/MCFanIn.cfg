CONSTANTS
  Node <- MCNode
  Edge <- MCEdge
  From <- MCFrom
  To <- MCTo
  Cond <- MCCond
  LoopEdge <- MCLoop
  Join <- MCJoin
  LoopLimit <- MCLimit
  Decider = {4}
  EntrySeq <- MCEntry
  Outputs <- MCOutputs
  MaxStepsPerRun = 6
  PerStepTimeout = 1
  PerRunTimeout = 1
  MaxRunsPerDay = 1
  MaxCostUSDPerDay = 1
  StepCosts = {0}
  Durations = {0}
  MaxFaults = 1
  MaxEnv = 0
  MayCrash = FALSE
SPECIFICATION Spec
INVARIANTS
  QueueExact
  NothingMissed
  FiringsJustified
  LimitsHold
  OneBranchPerFiring
CHECK_DEADLOCK FALSE
