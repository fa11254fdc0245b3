CONSTANTS
  Reqs = {r1, r2, r3}
  Anon = {ip}
  ApiKeys = {key}
  ANON_MAX = 1
  APIKEY_MAX = 2
  SECOND = 2
  WINDOW = 3
  MaxTime = 4
  MaxHits = 2
  RedisFaults = TRUE
SPECIFICATION Spec
CHECK_DEADLOCK FALSE
SYMMETRY Symmetry
INVARIANTS TypeOK LessThanTwiceTheLimit WaitingEndsTheWindow WindowsEnd RefusedForItsOwnRequests
