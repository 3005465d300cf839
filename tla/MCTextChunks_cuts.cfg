\* Every size and overlap up to five, every length up to fourteen.
CONSTANTS
  MaxLength = 14
  MaxSize = 5
SPECIFICATION Spec
INVARIANTS
  Covered
  NewText
CHECK_DEADLOCK FALSE
