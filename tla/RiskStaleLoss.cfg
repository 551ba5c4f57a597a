\* No event is lost: a pass of the monitor replaces the sum the events kept with
\* the older one it read.
CONSTANTS
  Trades = {t1, t2, t3}
  Directions = {"SHORT"}
  Losses = {1}
  Stakes = {1}
  DefaultStake = 1
  MaxDailyLoss = 2
  MaxDailyTrades = 10
  LossStreakPause = 3
  MaxStake = 3
  MaxOpen <- MCMaxOpenWide
  DayTicks = 2
  PauseTicks = 1
  MaxTime = 1
  MaxLostEvents = 0
  MaxRestarts = 0
SPECIFICATION Spec
SYMMETRY Symmetry
CHECK_DEADLOCK FALSE
PROPERTIES
  PassedOnlyBelowTheLimit
