SPECIFICATION Spec
CONSTANTS
  MaxCommits = 3
  MaxFailures = 2
  MaxMessages = 2
  MaxOpen = 2
  Attempts = 2
INVARIANTS
  TypeOK
  AcceptedAreAnswered
PROPERTIES
  NeverRollsBack
  CatchesUp
  StopsCleanly
CHECK_DEADLOCK FALSE
