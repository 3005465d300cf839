\* Two sessions of up to four messages in pages of two.
CONSTANTS
  Sessions = {s1, s2}
  PageSize = 2
  MaxMessages = 4
  MaxFailures = 2
SPECIFICATION FairSpec
INVARIANTS
  OwnMessages
  NoGap
  NoRepeat
  AllShown
PROPERTIES
  LoadingEnds
