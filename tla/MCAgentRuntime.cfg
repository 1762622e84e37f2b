CONSTANTS
  MaxAttempts = 2
  MaxToolRounds = 6
  MaxBlocks = 2
  Tokens = {1, 2}
SPECIFICATION FairSpec
INVARIANTS
  TokensCounted
  PricedUnlessCut
  CallsBounded
  Answered
PROPERTIES
  Returns
CHECK_DEADLOCK FALSE
