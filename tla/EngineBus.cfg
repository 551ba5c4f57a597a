\* Engine: two strategies, two symbols: the loops meet at the same and at other
\* rows.  Bus: two handlers on one channel, one on another; everything may fail.
CONSTANTS
  Strategies <- MCStrategies
  Symbols = {"s1", "s2"}
  MaxFaults = 1
  MaxRestarts = 1
  Handlers <- MCHandlers
  Channels <- MCChannels
  ChannelOf <- MCChannelOf
  MaxMessages = 2
  MaxErrors = 1
  MaxFailures = 1
  MaxUnsubscribes = 1
SPECIFICATION AllSpec
CHECK_DEADLOCK FALSE
INVARIANTS
  EngineBusTypeOK
  SignalledOnce
  CalledInOrder
  SubscribersHeard
PROPERTIES
  WaitingExamined
  Reconnected
