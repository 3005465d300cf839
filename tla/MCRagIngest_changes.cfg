\* Two documents that change while they are ingested up to twice.
CONSTANTS
  Docs = {d1, d2}
  empty = empty
  short = short
  long = long
  PieceCount <- MCPieceCount
  NoFile = NoFile
  BatchSize = 2
  MaxEdits = 2
  MaxIngestions = 2
SPECIFICATION Spec
INVARIANTS
  VectorOfText
  ServesLastIngested
CHECK_DEADLOCK FALSE
