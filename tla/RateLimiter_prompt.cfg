SPECIFICATION Spec
CONSTANTS
  Rpm = 40
  Burst = 2
  Requests = {r1, r2}
  Replicas = {h1, h2}
  Skew <- InStep
  FailOpen = FALSE
  Instants = {0, 1, 2, 3, 120, 121, 122, 123}
  MaxLag = 0
  MaxLosses = 1
  MaxAdmitted = 4
SYMMETRY RequestSymmetry
INVARIANTS TypeOK WithinBudget
PROPERTIES ImplementsBudget RefusalIsHonest ExpiryLosesNothing
