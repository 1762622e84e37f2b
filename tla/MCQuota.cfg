CONSTANTS
  Run = {1, 2, 3, 4}
  Prev <- MCPrev
  MaxRunsPerDay = 2
  MaxCostUSDPerDay = 2
  StepCosts = {0, 2}
  MaxStepCost = 2
  MaxDay = 2
  MaxFaults = 1
SPECIFICATION Spec
INVARIANTS RunCap CostCap CostsConserved
PROPERTIES ImplementsDailyCap
CHECK_DEADLOCK FALSE
