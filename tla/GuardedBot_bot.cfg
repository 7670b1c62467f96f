SPECIFICATION GuardedFairSpec
CONSTANTS
  l1 = l1
  l2 = l2
  l3 = l3
  NoLoop = NoLoop
  Loops <- MCLoops
  Prompt = TRUE
  MaxConsecutive = 2
  MaxSessionLoss = 3
  MaxDrawdownPct = 10
  RecoveryWait = 1
  Balances <- MCBalances
  Stakes <- MCStakes
  MaxCounted = 2
CHECK_DEADLOCK FALSE
INVARIANT OneLoop
INVARIANT StoppedIsQuiet
INVARIANT StartedKeepsRunning
INVARIANT OneSlips
PROPERTY StopsInTheEnd
