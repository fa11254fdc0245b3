CONSTANTS
  Codes = {c1, c2}
  Reqs = {r1, r2, r3}
  Null = Null
  NotFound = NotFound
  STAMPEDE_MAX_RETRIES = 2
  MAX_ATTEMPTS = 2
  MaxTime = 1
  OwnerRequired = FALSE
  RedisFaults = FALSE
  DbFaults = FALSE
  SlowRebuilds = FALSE
  Crashes = FALSE
SPECIFICATION Spec
CHECK_DEADLOCK FALSE
SYMMETRY Symmetry
INVARIANTS AnswersComeFromTheTable StalenessIsExplained SingleRebuild OneCodePerLink
PROPERTIES NoLinkOverwritten
