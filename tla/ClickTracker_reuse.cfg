CONSTANTS
  Codes = {c1, c2}
  Links = {l1, l2}
  Clicks = {k1}
  Flushes = {f1}
  Readers = {}
  Null = Null
  Faults = {}
  MaxFaults = 0
  OwnerRequired = TRUE
  Shutdowns = FALSE
SPECIFICATION Spec
CHECK_DEADLOCK FALSE
INVARIANTS CreditedToTheirLink
