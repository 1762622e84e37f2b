CONSTANTS
  Caller = {c1, c2}
  Metadata = {m} Prices = {p} Orderbooks = {}
  TTLMetadata = 2 TTLPrice = 1 TTLOrderbook = 0
  CacheSize = 1 RateBurst = 2 Timeout = 1 Retries = 1
  Backoff <- MCBackoff RetryAfter = {3} Window = 2 MaxCancels = 1
SPECIFICATION FairSpec
INVARIANTS FreshEnough GoesBackLittle WithinRate
PROPERTIES CallsReturn
CHECK_DEADLOCK FALSE
