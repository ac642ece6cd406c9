SPECIFICATION FairSpec
CONSTANTS
  Bytes = 2
  Attempts = 2
  Callers = {"http", "serial"}
  Intruder = TRUE
INVARIANT TypeOK
INVARIANT StreamIntact
INVARIANT StreamingIsShifting
INVARIANT EndLeavesReset
PROPERTY ReadingsAreTrue
PROPERTY SessionsEnd
