SPECIFICATION Spec
CONSTANTS
  Requests = {q1, q2}
  MaxSends = 1
  MaxAttempts = 2
  MaxCodes = 3
  MaxGuesses = 3
SYMMETRY RequestSymmetry
CHECK_DEADLOCK FALSE
INVARIANTS TypeOK SendsWithinLimit LockoutHolds
PROPERTIES UsedOnce
