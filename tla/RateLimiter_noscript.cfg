SPECIFICATION Spec
CONSTANTS
  Rpm = 40
  Burst = 2
  Requests = {r1, r2}
  Replicas = {h1, h2}
  Skew <- InStep
  FailOpen = TRUE
  Instants = {0, 1}
  MaxLag = 0
  MaxLosses = 1
  MaxAdmitted = 3
PROPERTIES OperationalWhileUp
