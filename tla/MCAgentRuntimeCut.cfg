CONSTANTS
  MaxAttempts = 2
  MaxToolRounds = 6
  MaxBlocks = 2
  Tokens = {1, 2}
SPECIFICATION Spec
INVARIANTS
  PaidTokensPriced
CHECK_DEADLOCK FALSE
