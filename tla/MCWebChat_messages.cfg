\* Two messages and two sessions, with the two retries App.tsx asks for.
CONSTANTS
  Sessions = {s1, s2}
  MaxRetries = 2
  MaxTurns = 2
SPECIFICATION FairSpec
INVARIANTS
  OneRunPerMessage
  NoSilentLoss
  LogsShownUnlessBatched
  AnswerNotDoubled
  ForeignTextWasOpen
PROPERTIES
  MessageSettles
CHECK_DEADLOCK FALSE
