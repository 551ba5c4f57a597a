\* A loss of half the daily limit is enough to refuse the next signal.
CONSTANTS
  Trades = {t1, t2}
  Directions = {"SHORT"}
  Losses = {0, 1}
  Stakes = {1}
  DefaultStake = 1
  MaxDailyLoss = 2
  MaxDailyTrades = 10
  LossStreakPause = 3
  MaxStake = 3
  MaxOpen <- MCMaxOpenWide
  DayTicks = 2
  PauseTicks = 1
  MaxTime = 1
  MaxLostEvents = 0
  MaxRestarts = 0
SPECIFICATION Spec
SYMMETRY Symmetry
CHECK_DEADLOCK FALSE
PROPERTIES
  RefusedOnlyAtTheLimit
