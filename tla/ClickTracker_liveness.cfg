CONSTANTS
  Codes = {c1, c2}
  Links = {l1}
  Clicks = {k1, k2}
  Flushes = {f1, f2}
  Readers = {}
  Null = Null
  Faults = {"db", "dbreply"}
  MaxFaults = 1
  OwnerRequired = FALSE
  Shutdowns = FALSE
SPECIFICATION FairSpec
CHECK_DEADLOCK FALSE
INVARIANTS BufferedIsPending EveryClickInOnePlace
PROPERTIES EveryClickIsSettled ImplementsLedger
