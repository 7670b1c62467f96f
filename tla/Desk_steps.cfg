\* A behaviour is one of one component, which may stop at its bounds.
SPECIFICATION DeskSpec
CHECK_DEADLOCK FALSE
CONSTANTS
  Parts = {"subscriptions", "candles", "records", "requests", "logins", "async", "monitors", "closing", "open times", "breaker", "bucket", "settlement", "stakes", "patterns", "votes", "frames", "backtest", "batches", "reports", "scanner"}
  Streams = {"s1", "s2"}
  Kinds = {"forex"}
  MaxRequests = 3
  Maxdicts <- MCMaxdicts
  Maxlens <- MCMaxlens
  TTL = 1
  MaxMessages = 4
  MaxClock = 2
  RecordedOrders = {"o1", "o2"}
  Trades = {"trade"}
  NoTrade = "none"
  LastDay = 1
  Crashes = 1
  RequestIds = {"r1", "r2"}
  Lifetime = 2
  Dialers = {"d1", "d2"}
  MaxLogins = 2
  Cooldown = 2
  MaxDialed = 2
  Coroutines = {"c1", "c2"}
  Closer = "closer"
  MaxWorkers = 2
  MaxMonitors = 3
  Listed <- MCListed
  Digital = {"d1", "d2"}
  MaxCloseJobs = 2
  Assets <- MCAssets
  Sources <- MCSources
  MaxConsecutive = 3
  MaxSessionLoss = 6
  MaxDrawdownPct = 10
  RecoveryWait = 2
  Balances <- MCBalances
  Stakes <- MCStakes
  Callers = {"t1", "t2", "t3"}
  Cost <- MCCost
  Unit = 3
  Full = 4
  Block = TRUE
  MaxCalls = 2
  Waiters = {"w1", "w2"}
  Orders = {"o1", "o2"}
  Asks <- MCAsks
  MaxCloses = 1
  MaxReports <- MCReports
  Strategies <- MCStrategies
  BaseAmount = 200
  Growth <- MCGrowth
  MaxSteps = 3
  MaxAmount = 1000
  MaxBalancePct = 5
  MinAmount = 100
  Accounts = {1000, 9000, 30000}
  MaxStreak = 9
  TopPrice = 5
  Shapes <- MCShapes
  Depth = 3
  Period = 1
  Advisors = {"a1", "a2", "a3"}
  Confidences = {50, 90}
  MinAgreement = 66
  MinScore = 60
  ServerBoost = 10
  Indicators = {"ma", "rsi"}
  Counts = {0, 35}
  MinCandles = 35
  Closes = {1, 2}
  NumCandles = 7
  WindowSize = 2
  StartBalances = {1000, 2500}
  TradeAmount = 1000
  Payout = 82
  JournalCapital = 100000
  Durations = {1, 2, 5, 15, 30}
  Skews <- MCSkews
  MaxLag = 1
  NumQuarters = 4
  LastSecond = 900
  MaxOrders = 2
  MaxRounds = 2
  Traded = {"x", "y"}
  Timespans = {60}
  FullStake = 10
  Outcomes <- MCOutcomes
  LastN = 2
  MaxBooked = 3
  Payouts = {70, 80, 90}
  Qualities = {50, 100}
  MinPayout = 80
  TopN = 1
  NumAssets = 2
INVARIANTS
  DeskTypeOK
  LastRequestWins
  OneLateSend
  CandlesAreRecent
  RecordedOnce
  ConfirmedIsFound
  RotationsBounded
  ShutAfterClose
  
  
  
  NoFlood
  OwnWakeup
  StakesAreBounded
  VerdictStands
  BiasIsFair
  RunIsAccounted
  IdsAreRight
  FiguresOfTheDay
  BestAreRanked
PROPERTIES
  
  KeepsPromise
  KillSwitchFrees
  SignalsAreSteady
