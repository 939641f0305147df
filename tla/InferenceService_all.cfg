SPECIFICATION FairSpec
CONSTANTS
  Requests = {r1, r2}
  MaxConcurrent = 1
  MaxChunks = 4
  Reported = {0, 3}
INVARIANTS TypeOK SlotsConserved UsageMatchesMetrics
PROPERTIES ImplementsPool StreamCountedOnce SlotsFreed ShutdownCompletes
