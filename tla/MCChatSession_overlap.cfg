\* Two requests open at a time, clients that leave, blank texts.
CONSTANTS
  Requests = {r1, r2, r3}
  MaxOpen = 2
  MayLeave = TRUE
  MayBeBlank = TRUE
SPECIFICATION Spec
SYMMETRY Symmetry
INVARIANTS
  HistoryInOrder
CHECK_DEADLOCK FALSE
