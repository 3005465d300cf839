\* The graph RuntimeFactory builds, with the default limit of ten steps.
CONSTANTS
  Pipeline <- FullPipeline
  MaxAgentSteps = 10
  MaxDeltas = 2
SPECIFICATION FairSpec
INVARIANTS
  TypeOK
  NothingAfterTheEnd
  ReplyMatchesEnd
  OutcomeConserved
  EndedToldOrQueued
  StatusMatchesOutcome
  StagesAnnounced
  SentInOrder
  TextBeforeSuccess
PROPERTIES
  TextNotRepeated
  StreamEnds
  ToldUnlessRaced
  ImplementsTurn
CHECK_DEADLOCK FALSE
