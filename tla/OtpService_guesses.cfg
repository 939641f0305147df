SPECIFICATION Spec
CONSTANTS
  Requests = {q1, q2}
  MaxSends = 3
  MaxAttempts = 5
  MaxCodes = 1
  MaxGuesses = 6
CHECK_DEADLOCK FALSE
INVARIANTS LockedAfterFailures
