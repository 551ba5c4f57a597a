\* Small instances of eleven components; the README explains each bound.
CONSTANTS
  Rows <- MCRows
  Exchanges = {"binance", "okx"}
  ExchangeOf <- MCExchangeOf
  SymbolOf <- MCSymbolOf
  FailureThreshold = 2
  RecoveryTimeout = 1
  MaxHealFaults = 2
  Amount = 6
  TwapIntervals = 3
  Volumes = {0, 2, 4}
  Displays = {2, 3}
  MaxIterations = 4
  MaxDuration = 4
  MaxOrderFaults = 2
  Callers = {"c1", "c2", "c3"}
  Slots = {"r1", "r2"}
  TTL = 2
  MaxTime = 3
  MaxFeedFaults = 1
  MaxCancels = 1
  SignalIds = {"s1", "s2"}
  CarriedIds = {"s1"}
  ChainTimeout = 2
  MaxChainTime = 5
  MaxChainEvents = 2
  MaxOutages = 2
  Clients = {"ann"}
  Sids = {"s1", "s2"}
  MaxAttempts = 2
  Lockout = 3
  Lifetime = 2
  KeptSecret = TRUE
  MaxWebTime = 5
  MaxWebRestarts = 1
  AccountIds = {"a1", "a2", "a3"}
  Requests = {"r1", "r2"}
  MaxRequests = 3
  MaxEdits = 2
  MaxConfigRestarts = 1
  TradeDays = {0, 9, 27, 28, 35, 41, 42}
  Sharpes = {0, 1}
  SharpeThreshold = 0
  Sockets = {"w1", "w2"}
  Casters = {"poller", "request"}
  Poller = "poller"
  CatchesAll = FALSE
  Signals = {"s1", "s2"}
SPECIFICATION Spec
CHECK_DEADLOCK FALSE
INVARIANTS
  ServicesTypeOK
  HealingIsSafe
  OrderIsAccountedFor
  FoldsAreSound
  SharedSoundly
  LockoutIsRight
  OnePrimary
  LeaversHarmNobodyElse
  StopsInOrder
PROPERTIES
  HealingGoesOn
  OrderComesToAnEnd
  WaitEnds
  ChainsFoundOut
  PanicsRightly
  RefusedForEver
  EditsReachWeb
  SignalEnds
