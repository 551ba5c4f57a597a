\* A loss of the whole daily limit or none, two days, one restart.  One
\* direction: two are no different to it than two accounts.  Then small instances
\* of the regime, the local engine and the simulations.
CONSTANTS
  Trades = {t1, t2, t3}
  Directions = {"SHORT"}
  Losses = {0, 1}
  Stakes = {1}
  DefaultStake = 1
  MaxDailyLoss = 1
  MaxDailyTrades = 2
  LossStreakPause = 2
  MaxStake = 2
  MaxOpen <- MCMaxOpen
  DayTicks = 2
  PauseTicks = 2
  MaxTime = 3
  MaxLostEvents = 1
  MaxRestarts = 1
  Trends <- MCTrends
  MaxRegimeEvents = 1
  LocalSymbols = {"a", "b"}
  Places = {"p1", "p2"}
  PerScan = 2
  StartCapital = 6
  Amounts = {1, 2}
  StreakLimit = 2
  Cooldown = 1
  Expiry = 1
  ScanEvery = 2
  MaxTicks = 4
  Outcomes <- MCOutcomes
  SimCapital = 4
  LeastCapital = 2
  MaxSimLoss = 2
  TradesPerDay = 2
  SimStreak = 2
  SimPause = 1
  MaxTurns = 6
  MaxSample = 5
  Symbols = {"a", "b"}
  Edits = {"e1", "e2"}
  MaxAdminRestarts = 1
  MaxRowFaults = 1
  Venues <- MCVenues
  Coins = {"a", "b"}
  Quotes <- MCQuotes
  MinVolume = 2
  MinGain = 2
  MaxPrice = 1
  Primary = "binance"
SPECIFICATION AllSpec
SYMMETRY Symmetry
CHECK_DEADLOCK FALSE
INVARIANTS
  LimitsTypeOK
  TradesPerDayLimited
  DirectionLimited
  AtMostOneSlipsThroughPause
  ScoredAsJudged
  StakeBookedOnce
  DrawdownMissesFirstLoss
  RowIsWanted
  ScanIsRight
