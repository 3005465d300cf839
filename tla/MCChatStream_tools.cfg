\* A graph without an answer node and a limit it exactly uses up: the stream
\* ends by itself or by the limit, and never with an answer.
CONSTANTS
  Pipeline <- ToolPipeline
  MaxAgentSteps = 3
  MaxDeltas = 1
SPECIFICATION Spec
INVARIANTS
  StatusMatchesOutcome
CHECK_DEADLOCK FALSE
