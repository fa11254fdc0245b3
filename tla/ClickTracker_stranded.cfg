CONSTANTS
  Codes = {c1}
  Links = {l1}
  Clicks = {k1}
  Flushes = {f1}
  Readers = {}
  Null = Null
  Faults = {"redis"}
  MaxFaults = 1
  OwnerRequired = TRUE
  Shutdowns = FALSE
SPECIFICATION Spec
CHECK_DEADLOCK FALSE
INVARIANTS FlushJobKnows
