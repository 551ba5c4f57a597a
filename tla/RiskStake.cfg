\* The numbers of RiskSettings: the default stake three times is just allowed.
CONSTANTS
  Trades = {t1, t2, t3, t4}
  Directions = {"SHORT"}
  Losses = {0}
  Stakes = {33}
  DefaultStake = 33
  MaxDailyLoss = 100
  MaxDailyTrades = 10
  LossStreakPause = 3
  MaxStake = 100
  MaxOpen <- MCMaxOpenWide
  DayTicks = 1440
  PauseTicks = 240
  MaxTime = 0
  MaxLostEvents = 0
  MaxRestarts = 0
SPECIFICATION Spec
SYMMETRY Symmetry
CHECK_DEADLOCK FALSE
INVARIANTS
  TotalStakeLimited
