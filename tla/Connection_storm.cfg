SPECIFICATION Spec
CONSTANTS
  Owner = Owner
  Worker = Worker
  r1 = r1
  r2 = r2
  Reconnectors <- MCReconnectors
  MaxApis = 3
  MaxAttempts = 4
  MaxFailures = 2
  MaxDisturbed = 2
  Failing = TRUE
  Renewing = TRUE
  Closing = TRUE
CHECK_DEADLOCK FALSE
SYMMETRY MCSymmetry
INVARIANT StormBounded
