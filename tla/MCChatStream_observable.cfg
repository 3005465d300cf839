\* README: failures are explicit and observable.
CONSTANTS
  Pipeline <- FullPipeline
  MaxAgentSteps = 10
  MaxDeltas = 1
SPECIFICATION Spec
INVARIANTS
  EndIsObservable
CHECK_DEADLOCK FALSE
