---------------------------- MODULE RiskControl ----------------------------
(***************************************************************************)
(* The risk service of one account: the check of a signal, the cache and   *)
(* the pause it consults, the events that feed the cache, the monitor that *)
(* rebuilds it every minute, and the rows of the database behind both.     *)
(*                                                                         *)
(* Three tasks of one asyncio loop meet here.  The listener of the event   *)
(* bus awaits one handler at a time: the check of a signal and then the    *)
(* opening by the trade manager, or the handler of a fill or of a closed   *)
(* trade.  The monitor of the risk service reads the database in several   *)
(* awaits and then replaces the cache entry.  The trade manager closes     *)
(* trades.  Each read of the database is a step of its own.                *)
(*                                                                         *)
(* A cached zero and a missing one are the same to the check (`or`), and   *)
(* both send it to the database.  "Already in this symbol" is the subject  *)
(* of TradeLifecycle and left out here, as is TP1, which halves a stake.   *)
(***************************************************************************)
EXTENDS Integers, Sequences, FiniteSets, FiniteSetsExt

CONSTANTS
  Trades,              \* trade ids; bounds the number of rows
  Directions,
  Losses,              \* losses a closed trade may realise; 0 is a profit
  Stakes,              \* stakes the trade manager opens with
  DefaultStake,        \* stake that the check assumes for any signal
  MaxDailyLoss, MaxDailyTrades, LossStreakPause, MaxStake,
  MaxOpen,             \* direction -> max_daily_trades_short / _long
  DayTicks,            \* length of a day on the clock of the model
  PauseTicks,          \* pause_hours
  MaxTime,             \* bound on the clock
  MaxLostEvents,       \* bound on events the bus does not deliver
  MaxRestarts          \* bound on restarts of the process

ASSUME RiskAssumption ==
  /\ IsFiniteSet(Trades)
  /\ Losses \subseteq Nat /\ Stakes \subseteq Nat /\ DefaultStake \in Nat
  /\ MaxDailyLoss \in Nat \ {0} /\ MaxDailyTrades \in Nat
  /\ LossStreakPause \in Nat \ {0} /\ MaxStake \in Nat
  /\ MaxOpen \in [Directions -> Nat]
  /\ DayTicks \in Nat \ {0} /\ PauseTicks \in Nat /\ MaxTime \in Nat
  /\ MaxLostEvents \in Nat /\ MaxRestarts \in Nat

VARIABLES
  trades,       \* the rows of the account in the trades table
  closings,     \* their order of closed_at
  rowOpened,    \* risk_states.daily_trades_opened of the account, by day
  events,       \* fills and closings published and not yet handled
  cache,        \* _risk_cache of the account
  pausedUntil,  \* _paused_until of the account; 0 when there is none
  listener,     \* the handler the listener is in
  monitor,      \* the pass of _monitor_loop
  now,
  lost, restarts

\* Orders approved while a pause was in force, since it came into force.  Read
\* by no action.
VARIABLE slipped

rowsInDB == <<trades, closings, rowOpened>>
vars == <<rowsInDB, events, cache, pausedUntil, listener, monitor, now,
          lost, restarts, slipped>>

-----------------------------------------------------------------------------
NoTrade  == [status |-> "none"]
NoCache  == [known |-> FALSE, loss |-> 0, streak |-> 0, opened |-> 0, stake |-> 0]

Cached(loss, streak, opened, stake) ==
  [known |-> TRUE, loss |-> loss, streak |-> streak, opened |-> opened,
   stake |-> stake]

Idle     == [pc |-> "idle"]

Day(time) == time \div DayTicks

Days == 0..Day(MaxTime)

IsOpen(t) == trades[t].status = "open"

OpenTrades == {t \in Trades : IsOpen(t)}

ClosedTrades == {t \in Trades : trades[t].status = "closed"}

(***************************************************************************)
(* What the repositories compute from the rows.                            *)
(***************************************************************************)
TodayLoss ==
  MapThenSumSet(LAMBDA t : trades[t].loss,
                {t \in ClosedTrades : trades[t].closedDay = Day(now)})

\* Losses since the last profit.
LossStreak ==
  Cardinality({i \in DOMAIN closings :
                 \A j \in i..Len(closings) : trades[closings[j]].loss > 0})

OpenedToday ==
  Cardinality({t \in Trades : /\ trades[t].status # "none"
                              /\ trades[t].day = Day(now)})

OpenInDirectionToday(d) ==
  Cardinality({t \in OpenTrades : trades[t].dir = d /\ trades[t].day = Day(now)})

OpenInDirection(d) == Cardinality({t \in OpenTrades : trades[t].dir = d})

OpenStake == MapThenSumSet(LAMBDA t : trades[t].stake, OpenTrades)

-----------------------------------------------------------------------------
TradeRow ==
  [status : {"open"}, dir : Directions, stake : Stakes, day : Days]
  \cup [status : {"closed"}, dir : Directions, stake : Stakes, day : Days,
        loss : Losses, closedDay : Days]

Cache == [known : BOOLEAN, loss : Nat, streak : Nat, opened : Nat, stake : Nat]

CheckPoints == {"loss", "streak", "trades", "direction", "stake"}

Listener ==
  [pc : CheckPoints, dir : Directions, seen : Cache]
  \cup [pc : {"approved", "filled"}, dir : Directions]
  \cup [pc : {"loss_added"}, loss : Losses]
  \cup [pc : {"streak_read"}, loss : Losses, streak : Nat]
  \cup {Idle}

Monitor ==
  [pc : {"read_row"}, stake : Nat]
  \cup [pc : {"read_loss"}, stake : Nat, opened : Nat]
  \cup [pc : {"read_streak"}, stake : Nat, opened : Nat, loss : Nat]
  \cup [pc : {"write"}, stake : Nat, opened : Nat, loss : Nat, streak : Nat]
  \cup [pc : {"alert"}]
  \cup {Idle}

Event == [kind : {"filled"}] \cup [kind : {"closed"}, loss : Losses]

TypeOK ==
  /\ trades \in [Trades -> TradeRow \cup {NoTrade}]
  /\ closings \in Seq(Trades)
  /\ rowOpened \in [Days -> Nat]
  /\ events \in Seq(Event)
  /\ cache \in Cache
  /\ pausedUntil \in Nat
  /\ listener \in Listener
  /\ monitor \in Monitor
  /\ now \in 0..MaxTime
  /\ lost \in 0..MaxLostEvents
  /\ restarts \in 0..MaxRestarts
  /\ slipped \in Nat

Init ==
  /\ trades = [t \in Trades |-> NoTrade]
  /\ closings = <<>>
  /\ rowOpened = [d \in Days |-> 0]
  /\ events = <<>>
  /\ cache = NoCache
  /\ pausedUntil = 0
  /\ listener = Idle
  /\ monitor = Idle
  /\ now = 0
  /\ lost = 0 /\ restarts = 0
  /\ slipped = 0

-----------------------------------------------------------------------------
(***************************************************************************)
(* check_can_open.  The cache entry is looked up once: a pass of the       *)
(* monitor that ends meanwhile replaces the dictionary, not the reference. *)
(***************************************************************************)
PauseInForce == now < pausedUntil

PassesAnyPause == TRUE

PassesPause == ~PauseInForce

\* An expired pause is deleted by the first signal that finds it.
ForgetExpiredPause ==
  pausedUntil' = IF PauseInForce THEN pausedUntil ELSE 0

\* A signal refused by the pause changes nothing.
StartCheck(d) ==
  /\ listener = Idle
  /\ \E t \in Trades : trades[t] = NoTrade      \* bound on the number of trades
  /\ PassesPause
  /\ ForgetExpiredPause
  /\ listener' = [pc |-> "loss", dir |-> d, seen |-> cache]
  /\ UNCHANGED <<rowsInDB, events, cache, monitor, now, lost, restarts, slipped>>

\* cached.get(...) or await the database.
CachedOr(cached, stored) == IF cached # 0 THEN cached ELSE stored

Refuse == listener' = Idle

GoOn(point) ==
  listener' = [pc |-> point, dir |-> listener.dir, seen |-> listener.seen]

CheckLoss ==
  /\ listener.pc = "loss"
  /\ IF CachedOr(listener.seen.loss, TodayLoss) >= MaxDailyLoss
     THEN Refuse ELSE GoOn("streak")
  /\ UNCHANGED <<rowsInDB, events, cache, pausedUntil, monitor, now, lost,
                 restarts, slipped>>

CheckStreak ==
  /\ listener.pc = "streak"
  /\ IF CachedOr(listener.seen.streak, LossStreak) >= LossStreakPause
     THEN Refuse ELSE GoOn("trades")
  /\ UNCHANGED <<rowsInDB, events, cache, pausedUntil, monitor, now, lost,
                 restarts, slipped>>

CheckTrades ==
  /\ listener.pc = "trades"
  /\ IF CachedOr(listener.seen.opened, OpenedToday) >= MaxDailyTrades
     THEN Refuse ELSE GoOn("direction")
  /\ UNCHANGED <<rowsInDB, events, cache, pausedUntil, monitor, now, lost,
                 restarts, slipped>>

CheckDirection ==
  /\ listener.pc = "direction"
  /\ IF OpenInDirection(listener.dir) >= MaxOpen[listener.dir]
     THEN Refuse ELSE GoOn("stake")
  /\ UNCHANGED <<rowsInDB, events, cache, pausedUntil, monitor, now, lost,
                 restarts, slipped>>

CheckStake ==
  /\ listener.pc = "stake"
  /\ IF CachedOr(listener.seen.stake, OpenStake) + DefaultStake > MaxStake
     THEN Refuse /\ UNCHANGED slipped
     ELSE /\ listener' = [pc |-> "approved", dir |-> listener.dir]
          /\ slipped' = IF PauseInForce THEN slipped + 1 ELSE slipped
  /\ UNCHANGED <<rowsInDB, events, cache, pausedUntil, monitor, now, lost,
                 restarts>>

-----------------------------------------------------------------------------
(***************************************************************************)
(* What follows an approval, in the same message: the trade manager opens. *)
(***************************************************************************)
OpenFails ==
  /\ listener.pc = "approved"
  /\ listener' = Idle
  /\ UNCHANGED <<rowsInDB, events, cache, pausedUntil, monitor, now, lost,
                 restarts, slipped>>

OrderFilled ==
  /\ listener.pc = "approved"
  /\ listener' = [pc |-> "filled", dir |-> listener.dir]
  /\ events' = Append(events, [kind |-> "filled"])
  /\ UNCHANGED <<rowsInDB, cache, pausedUntil, monitor, now, lost, restarts,
                 slipped>>

RecordTrade ==
  /\ listener.pc = "filled"
  /\ \E t \in Trades, stake \in Stakes :
       /\ trades[t] = NoTrade
       /\ trades' = [trades EXCEPT ![t] =
            [status |-> "open", dir |-> listener.dir, stake |-> stake,
             day |-> Day(now)]]
  /\ listener' = Idle
  /\ UNCHANGED <<closings, rowOpened, events, cache, pausedUntil, monitor, now,
                 lost, restarts, slipped>>

\* The trade manager closes a trade and publishes TRADE_CLOSED, which the bus
\* may not deliver.
CloseTrade(t) ==
  /\ IsOpen(t)
  /\ \E loss \in Losses :
       /\ trades' = [trades EXCEPT ![t] =
            [status |-> "closed", dir |-> @.dir, stake |-> @.stake, day |-> @.day,
             loss |-> loss, closedDay |-> Day(now)]]
       /\ closings' = Append(closings, t)
       /\ \/ /\ events' = Append(events, [kind |-> "closed", loss |-> loss])
             /\ UNCHANGED lost
          \/ /\ lost < MaxLostEvents
             /\ lost' = lost + 1
             /\ UNCHANGED events
  /\ UNCHANGED <<rowOpened, cache, pausedUntil, listener, monitor, now, restarts,
                 slipped>>

-----------------------------------------------------------------------------
(***************************************************************************)
(* The events that feed the cache.                                         *)
(***************************************************************************)
FilledForTheAccount == TRUE

\* The router publishes the fill with its own default account, "": the state
\* of the account that trades is not the one that is counted up.
FilledForAccount == FALSE

OnOrderFilled ==
  /\ listener = Idle
  /\ events # <<>> /\ Head(events).kind = "filled"
  /\ events' = Tail(events)
  /\ IF FilledForAccount
     THEN /\ rowOpened' = [rowOpened EXCEPT ![Day(now)] = @ + 1]
          /\ cache' = IF cache.known
                      THEN Cached(cache.loss, cache.streak, cache.opened + 1,
                                  cache.stake)
                      ELSE cache
     ELSE UNCHANGED <<rowOpened, cache>>
  /\ UNCHANGED <<trades, closings, pausedUntil, listener, monitor, now, lost,
                 restarts, slipped>>

SubtractLoss(entry, loss) == entry.loss - loss

AddLoss(entry, loss) == entry.loss + loss

\* increment_daily_loss, up to its write of the row; a profit is ignored.
OnTradeClosed ==
  /\ listener = Idle
  /\ events # <<>> /\ Head(events).kind = "closed"
  /\ events' = Tail(events)
  /\ LET loss == Head(events).loss
     IN  IF loss > 0
         THEN /\ cache' = Cached(AddLoss(cache, loss), cache.streak,
                                 cache.opened, cache.stake)
              /\ listener' = [pc |-> "loss_added", loss |-> loss]
         ELSE UNCHANGED <<cache, listener>>
  /\ UNCHANGED <<rowsInDB, pausedUntil, monitor, now, lost, restarts, slipped>>

ReadLossStreak ==
  /\ listener.pc = "loss_added"
  /\ listener' = [pc |-> "streak_read", loss |-> listener.loss,
                  streak |-> LossStreak]
  /\ UNCHANGED <<rowsInDB, events, cache, pausedUntil, monitor, now, lost,
                 restarts, slipped>>

\* The rest of record_trade_closed adds the loss a second time.
CacheLoss ==
  /\ listener.pc = "streak_read"
  /\ cache' = Cached(AddLoss(cache, listener.loss), listener.streak,
                     cache.opened, cache.stake)
  /\ listener' = Idle
  /\ UNCHANGED <<rowsInDB, events, pausedUntil, monitor, now, lost, restarts,
                 slipped>>

-----------------------------------------------------------------------------
(***************************************************************************)
(* A pass of the monitor.  It visits the accounts of the open trades only. *)
(***************************************************************************)
StartPass ==
  /\ monitor = Idle
  /\ OpenTrades # {}
  /\ monitor' = [pc |-> "read_row", stake |-> OpenStake]
  /\ UNCHANGED <<rowsInDB, events, cache, pausedUntil, listener, now, lost,
                 restarts, slipped>>

PassReadsRow ==
  /\ monitor.pc = "read_row"
  /\ monitor' = [pc |-> "read_loss", stake |-> monitor.stake,
                 opened |-> rowOpened[Day(now)]]
  /\ UNCHANGED <<rowsInDB, events, cache, pausedUntil, listener, now, lost,
                 restarts, slipped>>

PassReadsLoss ==
  /\ monitor.pc = "read_loss"
  /\ monitor' = IF TodayLoss >= MaxDailyLoss
                THEN [pc |-> "alert"]
                ELSE [pc |-> "read_streak", stake |-> monitor.stake,
                      opened |-> monitor.opened, loss |-> TodayLoss]
  /\ UNCHANGED <<rowsInDB, events, cache, pausedUntil, listener, now, lost,
                 restarts, slipped>>

PassReadsStreak ==
  /\ monitor.pc = "read_streak"
  /\ monitor' = IF LossStreak >= LossStreakPause
                THEN [pc |-> "alert"]
                ELSE [pc |-> "write", stake |-> monitor.stake,
                      opened |-> monitor.opened, loss |-> monitor.loss,
                      streak |-> LossStreak]
  /\ UNCHANGED <<rowsInDB, events, cache, pausedUntil, listener, now, lost,
                 restarts, slipped>>

\* After the alert was published.  The pause lives in memory: the daily loss
\* branch does not persist it, and the other one writes a string to the
\* timestamp column risk_states.paused_until, which the driver refuses.
Pause ==
  /\ monitor.pc = "alert"
  /\ pausedUntil' = now + PauseTicks
  /\ slipped' = IF PauseInForce THEN slipped ELSE 0
  /\ monitor' = Idle
  /\ UNCHANGED <<rowsInDB, events, cache, listener, now, lost, restarts>>

PassWritesCache ==
  /\ monitor.pc = "write"
  /\ cache' = Cached(monitor.loss, monitor.streak, monitor.opened, monitor.stake)
  /\ monitor' = Idle
  /\ UNCHANGED <<rowsInDB, events, pausedUntil, listener, now, lost, restarts,
                 slipped>>

-----------------------------------------------------------------------------
Tick ==
  /\ now < MaxTime
  /\ now' = now + 1
  /\ UNCHANGED <<rowsInDB, events, cache, pausedUntil, listener, monitor, lost,
                 restarts, slipped>>

\* The messages of the bus are not kept, the cache and the pause start empty.
Restart ==
  /\ restarts < MaxRestarts
  /\ restarts' = restarts + 1
  /\ events' = <<>>
  /\ cache' = NoCache
  /\ pausedUntil' = 0
  /\ listener' = Idle
  /\ monitor' = Idle
  /\ slipped' = 0
  /\ UNCHANGED <<rowsInDB, now, lost>>

Check == CheckLoss \/ CheckStreak \/ CheckTrades \/ CheckDirection \/ CheckStake

Open == OpenFails \/ OrderFilled \/ RecordTrade

HandleEvent == OnOrderFilled \/ OnTradeClosed \/ ReadLossStreak \/ CacheLoss

MonitorPass == \/ StartPass
               \/ PassReadsRow
               \/ PassReadsLoss
               \/ PassReadsStreak
               \/ Pause
               \/ PassWritesCache

Next == \/ \E d \in Directions : StartCheck(d)
        \/ Check
        \/ Open
        \/ \E t \in Trades : CloseTrade(t)
        \/ HandleEvent
        \/ MonitorPass
        \/ Tick
        \/ Restart

Spec == Init /\ [][Next]_vars

-----------------------------------------------------------------------------
(***************************************************************************)
(* Properties                                                              *)
(***************************************************************************)

\* No day sees more trades opened than max_daily_trades, although the check is
\* made some awaits before the row is written, midnight may pass in between,
\* and the check would believe a stale counter if there were one.
TradesPerDayLimited ==
  \A day \in Days :
    Cardinality({t \in Trades : trades[t].status # "none" /\ trades[t].day = day})
      <= MaxDailyTrades

\* The open trades of one direction stay within its limit, across days.
DirectionLimited ==
  \A d \in Directions :
    Cardinality({t \in OpenTrades : trades[t].dir = d}) <= MaxOpen[d]

\* A pause may come into force while a signal is being checked, and that one
\* signal still goes through; no second one does until the pause is over.
AtMostOneSlipsThroughPause == slipped <= 1

\* A signal is refused for the daily loss only when the losses of the day have
\* reached RISK_MAX_DAILY_LOSS.
RefusedOnlyAtTheLimit ==
  [][listener.pc = "loss" /\ listener'.pc = "idle" /\ restarts' = restarts
       => TodayLoss >= MaxDailyLoss]_vars

\* Once every closing has been delivered and handled, a signal passes the check
\* of the daily loss only while the losses of the day are below
\* RISK_MAX_DAILY_LOSS: a pass of the monitor that read the database before the
\* last closing must not put its older sum back.
PassedOnlyBelowTheLimit ==
  [][listener.pc = "loss" /\ listener'.pc = "streak" /\ events = <<>>
       => TodayLoss < MaxDailyLoss]_vars

\* The stakes of the open trades stay within max_stake.
TotalStakeLimited == OpenStake <= MaxStake

=============================================================================
