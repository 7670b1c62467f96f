SPECIFICATION FairSpec
CONSTANTS
  Owner = Owner
  Worker = Worker
  r1 = r1
  r2 = r2
  Reconnectors <- MCReconnectors
  MaxApis = 3
  MaxAttempts = 3
  MaxFailures = 2
  MaxDisturbed = 3
  Failing = FALSE
  Renewing = FALSE
  Closing = FALSE
CHECK_DEADLOCK FALSE
PROPERTY LostIsReconnected
