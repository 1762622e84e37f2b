CONSTANTS
  Period = 6
  MinInterval = 3
  Workflow = {w1, sys}
  Owned = {w1}
  Schedule = {"even", "uneven", "fast", "@hourly"}
  Fires <- MCFires
  Descriptor = {"@hourly"}
  TargetLists <- MCTargets
  MaxRunsPerDay = 1
  MaxSaves = 2
  MaxTicks = 2
  MaxFaults = 1
  MaxEvents = 3
SPECIFICATION FairSpec
INVARIANTS JobsMatchEntries EntriesMatchRows IntervalRule CallsSuffice
PROPERTIES TicksInOrder Converges
CHECK_DEADLOCK FALSE
