CONSTANTS
  Node <- MCNode
  Edge <- MCEdge
  From <- MCFrom
  To <- MCTo
  Cond <- MCCond
  LoopEdge = {}
  Join <- MCJoin
  LoopLimit <- MCLimit
  Decider = {3}
  EntrySeq <- MCEntry
  Outputs <- MCOutputs
  MaxStepsPerRun = 50
  PerStepTimeout = 2
  PerRunTimeout = 3
  MaxRunsPerDay = 1
  MaxCostUSDPerDay = 2
  StepCosts = {0, 1, 2}
  Durations = {0, 2}
  MaxFaults = 2
  MaxEnv = 2
  MayCrash = TRUE
SPECIFICATION Spec
INVARIANTS
  LedgerExact
  Reconcilable
  OverspendBounded
  KillStops
  WithinDeadline
PROPERTIES
  ImplementsLifecycle
CHECK_DEADLOCK FALSE
