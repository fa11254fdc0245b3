CONSTANTS
  Codes = {c1, c2}
  Reqs = {r1, r2}
  Null = Null
  NotFound = NotFound
  STAMPEDE_MAX_RETRIES = 2
  MAX_ATTEMPTS = 2
  MaxTime = 0
  OwnerRequired = FALSE
  RedisFaults = TRUE
  DbFaults = TRUE
  SlowRebuilds = TRUE
  Crashes = TRUE
SPECIFICATION FairSpec
CHECK_DEADLOCK FALSE
INVARIANTS TypeOK StalenessIsExplained
PROPERTIES LockNotLeaked LockEndsByOwnerOrTTL EveryRequestIsAnswered SelfHeals ImplementsDirectory
