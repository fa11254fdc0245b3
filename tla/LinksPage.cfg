CONSTANTS
  Links = {l1, l2}
  PAGE_SIZE = 1
  Null = Null
  Others = TRUE
  MaxEvents = 3
SPECIFICATION Spec
SYMMETRY Symmetry
CHECK_DEADLOCK FALSE
INVARIANTS TypeOK FreshPagesAreCurrent
