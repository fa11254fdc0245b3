CONSTANTS
  Codes = {c1}
  Reqs = {r1}
  Null = Null
  NotFound = NotFound
  STAMPEDE_MAX_RETRIES = 2
  MAX_ATTEMPTS = 2
  MaxTime = 0
  OwnerRequired = TRUE
  RedisFaults = FALSE
  DbFaults = FALSE
  SlowRebuilds = FALSE
  Crashes = FALSE
SPECIFICATION Spec
CHECK_DEADLOCK FALSE
INVARIANTS CreateSucceeds
