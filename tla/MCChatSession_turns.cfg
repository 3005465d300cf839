\* One request after the other, with texts that are not blank.
CONSTANTS
  Requests = {r1, r2, r3, r4}
  MaxOpen = 1
  MayLeave = FALSE
  MayBeBlank = FALSE
SPECIFICATION Spec
SYMMETRY Symmetry
INVARIANTS
  HistoryIsOpenChain
CHECK_DEADLOCK FALSE
