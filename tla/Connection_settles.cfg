SPECIFICATION FairSpec
CONSTANTS
  Owner = Owner
  Worker = Worker
  r1 = r1
  r2 = r2
  Reconnectors <- MCReconnectors
  MaxApis = 3
  MaxAttempts = 5
  MaxFailures = 3
  MaxDisturbed = 2
  Failing = FALSE
  Renewing = TRUE
  Closing = FALSE
CHECK_DEADLOCK FALSE
PROPERTY SettlesDown
