CONSTANTS
  Codes = {c1}
  Links = {l1}
  Clicks = {k1}
  Flushes = {f1, f2}
  Readers = {}
  Null = Null
  Faults = {}
  MaxFaults = 0
  OwnerRequired = TRUE
  Shutdowns = TRUE
SPECIFICATION Spec
CHECK_DEADLOCK FALSE
INVARIANTS NoClicksLost
