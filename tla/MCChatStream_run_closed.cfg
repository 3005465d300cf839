\* The shared schema: a run ends as completed, failed or aborted.
CONSTANTS
  Pipeline <- FullPipeline
  MaxAgentSteps = 10
  MaxDeltas = 1
SPECIFICATION Spec
INVARIANTS
  StreamedRunClosed
CHECK_DEADLOCK FALSE
