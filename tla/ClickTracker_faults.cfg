CONSTANTS
  Codes = {c1, c2}
  Links = {l1}
  Clicks = {k1, k2}
  Flushes = {f1, f2}
  Readers = {s1}
  Null = Null
  Faults = {"redis", "db", "dbreply", "crash", "timeout"}
  MaxFaults = 2
  OwnerRequired = FALSE
  Shutdowns = TRUE
SPECIFICATION Spec
CHECK_DEADLOCK FALSE
SYMMETRY Symmetry
INVARIANTS TypeOK EveryClickInOnePlace StatsNeverOvercount
PROPERTIES ImplementsLedger
