# Altcoin Nexus: a verification project

TLA+ models of Altcoin Nexus, an asyncio trading system in Python, the TLC
configurations that check them on small instances, and theorems about them that
TLAPS proves for every instance. Paths are relative to the root of the
repository; `src/` in `PROJECT.json` stands for that root.

- [Inventory](#inventory)
- [Modules and code](#modules-and-code)
- [Runs](#runs)
- [Fairness](#fairness)
- [Proofs](#proofs)
- [What the models leave out](#what-the-models-leave-out)
- [Findings and remarks](#findings-and-remarks)
- [Plan](#plan)

## Inventory

`main.py` starts, in this order: database, event bus, data feed, execution
router, risk control, trade manager, strategy engine, monitoring, optimisation;
it stops them in reverse. They all live in one process and one asyncio loop, so
steps interleave exactly at `await`. They talk through the event bus (one Redis
pub/sub connection, one listener task), through the database (one session is
one transaction) and through the exchange.

| Component | State | Operations | Hard part | What makes it correct |
|---|---|---|---|---|
| Event bus `core/events/bus.py` | handler lists, pub/sub object, listener task | publish, subscribe, unsubscribe, listen, reconnect | at-most-once delivery; a connection error loses messages and channels; handlers run one after the other | handlers of one event run in the order of subscription, the next message waits for them; a subscribed channel is subscribed again after a reconnection |
| Strategy engine `services/strategy/engine.py` | candidate pool in the database, cooldowns | scan loop, confirm loop | two loops on the same rows; a candidate marked before its signal is published | a candidate yields at most one signal, and is not lost |
| Risk control `services/risk/service.py` | cache per account, pauses, `risk_states` rows | pre-check of a signal, handlers of fills and closings, monitor pass, stop monitor | cache rebuilt from reads several awaits old; a check that spans awaits; midnight | limits hold; a pause takes effect; neither too strict nor too lax |
| Trade manager `services/trade_manager/service.py` | position tracker | opening, registration, partial and full close, two loops, three handlers, restart | two tasks close the same trade; a fill that was not recorded; a restart between two writes | one open row per symbol, every open row watched, closed once, TP1 once, stop carried out |
| Position tracker (same file) | entry, best and current price, TP1 flag per trade | register, update, triggers | defaults that replace keys nobody sets | the first rule that applies, in order |
| Execution router `services/execution/router.py` | exchange connections | open, close, stop order, panic | answers lost after the fill; panic beside the monitor loop | never sells more than is held |
| Smart orders `services/execution/smart_order.py` | progress of a sliced order | market, TWAP, VWAP, iceberg | slices that fail half way, orders left at the exchange; not started by `main.py` | reports no more than was bought, but for answers without a number; buys beyond the order only what it did not learn of; comes to an end |
| Repositories `core/db/repositories.py` | trades, candidates, risk states, accounts, system state | create, guarded updates, aggregates, upserts | guarded and unguarded updates, two first writers | a row is closed once; one primary account |
| Self-healing `services/monitor/healing.py` | breaker per exchange | reconciliation loop, health loop, breaker transitions, resets by hand | table and exchange read at different times; two loops move one breaker; not started by `main.py` | never closes what is still held; goes on after failures |
| Event chain validator `services/monitor/validator.py` | chains and counters | signal, check, order, fill, failure, timeout | late and repeated events, a signal begun anew; no event carries the id it needs | a chain is counted once as timed out; a pending chain is found out |
| Monitoring `services/monitor/service.py` | status, system breaker | health pass, panic | a breaker that is never reset; a bus that looks alive | panics for a reason, once, and surely if the outage lasts |
| Data feed `services/datafeed/feed.py` | ticker cache, in-flight requests | get ticker, scan of all markets, best exchange | shared requests, cancellation, expiry | one request at a time, owned by somebody; fresh answers; the right candidate of each symbol, in the right place |
| Configuration `core/config/*` | settings per process, watched times | load, detect a change, reload, notify | a file read half written, edited between two looks; the other process | an edit reaches the settings |
| Operator commands `services/admin/app.py`, `web/app.py` | blacklist, WebSockets, the rows of accounts | panic, breaker reset, forced regime, blacklist, accounts, broadcasts | two applications write one row; requests interleave; clients leave | no edit lost without a reason; one primary account; leavers harm nobody else |
| Authentication `web/auth.py` | sessions, tokens, failure counters | login, revocation, listing, expiry, lockout | counters and clocks; tokens outlive the process | a lock neither too lax nor too strict; what is refused stays refused |
| Regime and macro filter `signals/regime.py`, `strategies/macro_filter.py` | last regimes | classify, announce, force, judge a signal | a change announced before it is put down | scores and judgements use the same multipliers |
| Optimisation `services/optimization/service.py` | the weekly loop | windows, folds, stability; look at the hour, query, record | window arithmetic; a loop that swallows errors | a run comes to a result; what is stable was tested over enough time |
| Local engine `run_local.py`, simulations `backtesting/*` | open trades, capital, streaks | open, manage, close; simulated runs, resampling | bookkeeping of a half position; drawdown | the stake is booked once; the drawdown is the largest fall |
| Strategies, scoring, factors, ML | none that lives on | numeric scores | none that TLC can reach | - |
| Dashboard `dashboard_server.py`, frontend, migrations | WebSocket list | poller, broadcasts, presentation | clients leave during a broadcast | as the broadcasts of the web applications |

How a trade goes through them: the strategy engine publishes `SIGNAL_TRIGGERED`;
the listener runs the handler of the risk service (which may mark the event as
blocked) and then, on the same event object, that of the trade manager, which
asks the router to order, inserts the row, registers the position and asks for a
stop order. Two loops of the trade manager then refresh prices and look for
triggers; a close order, its row and `TRADE_CLOSED` follow, and the risk service
adds the loss to its cache. Beside all this the risk service publishes
`RISK_ALERT` and `TRADE_TP1` for stops it sees in the table, operators publish
`SYSTEM_PANIC`, and the exchange executes stop orders by itself.

`main.py` starts neither self-healing nor the smart order engine; the chain validator, the
configuration manager and the web applications live in processes of their own, with
the database and the bus between them and the trading process.

The hazards of this code, each with its line and the property that would catch
it, are listed in `PROJECT.json`.

## Modules and code

| Module | Models | Lines of code |
|---|---|---|
| `PositionTracker` | what `PositionTracker` keeps and which exit `check_triggers` asks for | `services/trade_manager/service.py` |
| `TradeLifecycle` | trade manager, router, trades table, exchange | `services/trade_manager/service.py`, `services/execution/router.py`, `core/db/repositories.py`, `core/events/bus.py` |
| `TradeLedger` | abstract specification: what the trades table promises | `core/db/repositories.py` |
| `RiskControl` | check of a signal, cache, pause, monitor pass, event handlers, aggregates of the table | `services/risk/service.py`, `core/db/repositories.py` |
| `CandidatePool` | scan loop, confirm loop and the rows they share | `services/strategy/engine.py`, `core/db/repositories.py` |
| `EventBus` | subscriptions, dispatch, reconnection | `core/events/bus.py` |
| `ProcessStop` | start and stop of the process, overlapping stops | `main.py` and the `stop()` of the services |
| `SelfHealing` | reconciliation, health check, circuit breakers | `services/monitor/healing.py`, `services/admin/app.py` |
| `Monitoring` | health loop and panic | `services/monitor/service.py` |
| `EventChain` | chains of events and their timeouts | `services/monitor/validator.py` |
| `SmartOrder` | market, TWAP, VWAP and iceberg orders | `services/execution/smart_order.py` |
| `DataFeed` | `get_ticker`, its cache and shared requests | `services/datafeed/feed.py` |
| `MarketScan` | scan of all markets, best exchange | `services/datafeed/feed.py` |
| `MarketRegime` | detector, macro filter, the engine's handler | `signals/regime.py`, `strategies/macro_filter.py`, `services/strategy/engine.py` |
| `WalkForward` | the walk-forward analysis of a list of trades | `services/optimization/service.py` |
| `OptimisationLoop` | the weekly loop around it, as shipped | `services/optimization/service.py`, `core/db/repositories.py` |
| `LocalEngine` | the single-process engine | `run_local.py` |
| `Simulation` | simulated runs, resampled paths | `backtesting/run_simulation.py`, `backtesting/monte_carlo.py` |
| `WebSessions` | login limits, sessions, tokens | `web/auth.py` |
| `Accounts` | account rows and the requests that change them | `web/app.py`, `core/db/repositories.py` |
| `Blacklist` | one row of the system state, written by two applications | `services/admin/app.py`, `web/app.py`, `core/db/repositories.py` |
| `ConfigReload` | watching, reloading and announcing the files | `core/config/manager.py`, `core/config/settings.py`, `services/risk/service.py` |
| `Broadcast` | WebSocket lists | `dashboard_server.py`, `services/admin/app.py`, `web/app.py` |
| `MCTradeLifecycle`, `MCRiskControl`, `MCLimits`, `MCEngineBus`, `MCServices` | instances for TLC: prices, limits, handlers, symmetry, the parts of a run | - |
| `TradeLifecycleProofs`, `TradeExposureProofs`, `TradeLedgerRefinement`, `RiskControlProofs`, `LimitsProofs`, `EngineBusProofs`, `ServicesProofs`, `WebAppProofs` | theorems and proofs | - |

`TradeLifecycle` composes trade manager, tracker, router, table and exchange.
`SelfHealing` meets the trade manager and the exchange by what they do to
positions and rows; `ConfigReload` the risk service by its settings; `MarketRegime`
the strategy engine by its handler of regime changes.

### TradeLifecycle

`rows` is the table, `exch` the signed number of shares held per symbol, `stops`
the stop orders that still work at the exchange, `tracker` the dictionary of the
position tracker. The local variables of the coroutines are `opening` (the
listener is inside `_on_signal_triggered`), `closing["bus"]` and `closing["mon"]` (a
partial or full close in progress in the listener or in the monitor loop) and
`panicTodo` (the listener is inside `_on_system_panic`). An action is what a task
does between two awaits, or the effect of an awaited call on the exchange or the
database:

| Code | Actions |
|---|---|
| `_on_signal_triggered`, `execute_open`, `_create_trade_record` | `ReceiveSignal`, `OpenRejected`, `OpenFilled`, `OpenAbandoned`, `RecordTrade`, `RegisterTrade`, `PlaceStopLoss` |
| `_monitor_positions_loop` | `MonitorStep` |
| handlers of `TRADE_TP1` and `RISK_ALERT` | `TakeProfitEvent`, `StopAlertEvent` |
| `execute_close` | `CloseFilled`, `CloseRefused`, `CloseFillLost` |
| `_execute_partial_close` after the order | `ApplyPartial`, `BookPartial`, `BookFails` |
| `_execute_full_close` after the order | `BookClose`, `BookFails`, `FinishClose` |
| `_on_system_panic` of the router | `PanicEvent`, `PanicClose`, `PanicCloseFails` |
| `_price_update_loop` | `PriceUpdate` |
| the exchange, the process | `StopLossFires`, `Crash`, `Restart` |

A position is `Size` shares, an even number, so that TP1 sells half of it.
Prices are integers, and each comparison of percentages is cleared of its
denominators.

### RiskControl

One account. `trades`, `closings` and `rowOpened` are rows of the database,
`cache` and `pausedUntil` are `_risk_cache[account]` and
`_paused_until[account]`, `events` the fills and closings the bus has still to
deliver. `listener` is the handler that the listener task is in, with the values
it has read so far; `monitor` is the pass of `_monitor_loop`. Each read of the
database is an action, so everything may happen between the read of a sum and
its use. `now` counts ticks of a clock; `DayTicks` of them make a day.

The check looks its cache entry up once (`seen`): a pass that ends meanwhile
replaces the dictionary, not the reference. A cached zero counts as missing,
as `cached.get(...) or await ...` has it.

### CandidatePool

`pool` says of each strategy and symbol whether the candidates table has a row
and whether it is marked as triggered, the only column that decides anything.
`scan` and `confirm` are the positions of the two loops: the strategy a pass is
at, the symbols still to store or to examine, and the candidate that
`confirm_all` has in its hands between two awaits. The list of waiting
candidates is read once per strategy and may be old when a member is taken.
`signals` counts what is published. Each exception handler is an action: one
inside the loop over candidates drops a candidate, one around it a strategy.

### EventBus

`subs` is the dictionary of subscriptions in its order, `pubsub` whether there is
a pub/sub object, `listener` the place of the listener task, `caller[h]` what the
service of handler `h` is doing: `subscribe()` enters the handler under the lock
and sends the command without it, `unsubscribe()` and the resubscription keep the
lock while they wait. `current` remembers whether a command goes to the object
the listener still uses. Redis is external: `heard` and `inbox` are the channels
and the messages of the current object, and a new object cannot be polled before
its first command (`wired`), which is why the listener of a bus without
subscriptions drops its object once a second. `calls` records what each handler was called
with; `missed` the channels for which a command failed or which another handler
gave up. `TradeLifecycle` and `RiskControl` use the bus through what this module
shows: one message at a time, handlers in the order of subscription, messages
that get lost.

### The services around the core

`SelfHealing`. `routed` are the exchanges for which the router holds an object, any
of them; the others answer that they have no positions (`Positions`), as
`_get_exchange_positions` has it. `held` are the positions at the exchange, `row` the rows, `manager`
how far the trade manager is with each trade (`Fill`, `Record`, `Sell`, `BookSale`;
`Vanish` is the exchange's own stop order). `recon` is the position of
`_run_reconciliation` with the rows it has read, the exchanges still to visit and
the discrepancies found: `ReadRows`, `CheckExchange`, `FetchPositions` or
`FetchFails`, `BeginCorrection`, `CorrectRow`. `health` is that of the health
loop, whose iteration over a dictionary ends when a breaker was entered meanwhile
(`LookAt`, `AnswerHealth`, `EndHealthCheck`). `breaker` is moved by both, by
`Tick` and by the administrator's `ResetBreaker` and `RecoverAll`.

`Monitoring`. `pass` is where a health pass is and what it found; `active` the
system breaker. `CheckDatafeed` always fails, `CheckEventBus` never, as the code
has it; the flag is set before the panic is published, and the panic is heard only
if Redis is up.

`EventChain`. One action per event, `CheckTimeouts` for a pass of the checker,
which has no `await`. `CarriedIds` says which signals' ids the later events
carry: none as shipped, one in the instance, so that both cases occur.

`SmartOrder`. `order` is the loop, `slice` the iceberg order in hand, `resting`
what earlier slices have left at the exchange, `bought` what was really executed.
A call may execute and then raise; a limit order is executed bit by bit
(`Execute`) while the engine sleeps. An answer that does not say how much was executed
is taken for the whole amount (`Told`). Two auxiliary variables count how the
engine's number and the exchange's come apart: `assumed`, units believed executed
that were not, and `missed`, units executed that the engine never learned of.

`DataFeed`. `entry` is the age of the cache entry, `inflight` the shared request,
`request` the tasks, `asker` what each caller is at. To cancel a caller (`Cancel`)
is to cancel the request it awaits; an entry may expire between the test for its
key and its use (`AskExpiring`).

`MarketScan`. Exchanges answer in any order (`Answer`); `EndScan` joins, sorts and
deduplicates, with the stable sort and the place-keeping dictionary of Python.
`BestExchange` is the pure choice over the same tickers.

`MarketRegime`. `previous` and `current` are the two fields of the detector,
`changing` a change that is published and not yet put down, `regimeEvents` what is
on its way to the engine. `detecting` tells the shipped system, whose filter has no
detector, from the documented one.

`WalkForward`. `_execute_wfa` and `_validate_stability` depend on the list of trades
alone, so the module is about any list, not about what a query gives. `trades` is the
list, known by its days; `window` the first day of the window that is next, `sharpe`
the result of each fold, `verdict` that of `_validate_stability`. The windows are taken
one after another as in `_create_windows` and `_execute_wfa`: `TestFold`, or `PassOver`
when one has no trades to choose by or to test with, then `Judge`.

`OptimisationLoop`. The loop that would call the analysis. `get_closed` is called with
`Arguments` that are not among its `Parameters`, so Python does not bind them
(`Binds`) and the only step after `BeginRun` is `FetchRaises`; `EndRun` is what would
follow otherwise. The loop then sleeps for an hour.

`ProcessStop`. `stopper` is each call of `stop()`: one task per signal and the main
task. `AskBus` is `get_event_bus()` in the stop of a service, which makes a new bus
if another stop has closed the first one.

### The local engine and the simulations

`LocalEngine`. One tick manages each open trade (`Hold`, `Close`) and then may
`Scan`. A price is what it means to the trade; `booked` counts the halves of the
stake that were booked and is read by no action. `Simulation` has the turns of
`run_sim` and, apart from them, `Draw`, which extends the resampled path (the sums
of the returns drawn so far) of which `MaxDrawdown` is computed.

### The web applications

`WebSessions`. `attempts`, `sessions` as in the code; `token` what was handed out,
which outlives the process. `Accounts`: each request runs one transaction at a
time (`ListAccounts`, `DemoteAccount`, `InsertAccount`, `PromoteInUpdate`,
`EditAccount`), and may die between two. `Blacklist`: the admin application writes
its memory, the web application what it has read; both look for the row first.
`ConfigReload`: `file` with a version, a time and whether it is whole, `cached` the
settings of both processes, `watch` the manager. `Broadcast`: `clients` is the list,
`caster` each broadcast with the rest of its copy, `socket` each connection;
`list.remove` of a socket that is gone raises (`SendRaises`).

Variables that a comment calls observations or auxiliary (`booked`, `wrong`,
`revoked`, `overlapped`, `troubled`, `outrun`, `panics`, `assumed`, `missed`) are read by
no action; the properties need them to speak about the past.

## Runs

| Run | Question | Result |
|---|---|---|
| `lifecycle_races` | do the two tasks that close trades, a failing call and a crash keep tracker, table and exchange consistent, and is the table a ledger? | holds |
| `lifecycle_shipped` | as the system is started (only the monitor loop closes), is `TRADE_CLOSED` published once per trade? | holds |
| `lifecycle_liveness` | is a position beyond its hard stop always reduced? | holds under the fairness below |
| `lifecycle_vanished` | does a row whose position the exchange closed end up closed? | violated |
| `lifecycle_resold` | is TP1 sold once, whatever fails? | violated |
| `risk_limits` | do the limits on counts hold through stale reads, lost events, midnight and restarts; how many orders slip through a pause? And what else limits trading: regime, local engine, simulations, blacklist, scan | holds |
| `risk_double_loss` | is a signal refused only when the daily loss reached its limit? | violated |
| `risk_stale_loss` | does a signal pass only below the daily loss limit? | violated |
| `risk_stake` | does the total stake stay within its limit? | violated |
| `engine_bus` | does a candidate lead to one signal at most, and is every waiting one examined? Does the bus call handlers at most once, in order, without an unexplained gap, and recover? | holds under the fairness below |
| `services` | eleven components beside the core, each with its hazards | holds under the fairness below |
| `wfa_shipped` | does a weekly optimisation ever come to a result? | violated |

`risk_limits`, `engine_bus` and `services` each hold several components that share
no state. `part` is chosen initially and says which of them runs; the others stay in
one initial state, so the states of the run are the sum of those of the components
and every component is explored as if alone. Fairness is asked of the part that
runs. Type invariants of the components are one invariant of the run.

What the properties of `risk_limits` and `services` say beyond the limits:

| Property | Component | Says |
|---|---|---|
| `ScoredAsJudged` | regime | candidates are scored by the multipliers that signals are judged by, unless a change was lost or overtook the detector |
| `StakeBookedOnce` | local engine | a trade books its stake once, unless the stop ends it after TP1 |
| `DrawdownMissesFirstLoss` | simulation | the drawdown is the largest fall, up to a loss of the first trade |
| `RowIsWanted` | blacklist | the row is what the answered requests leave, unless requests overlapped, one failed or the memory was old |
| `ScanIsRight` | market scan | each symbol once, from the most liquid exchange, in the order of the best gain; the best exchange agrees with the scan |
| `HealingIsSafe`, `HealingGoesOn` | self-healing | only rows without a position, or of an exchange that is not connected, are closed, and closed breakers are below their threshold; vanished rows are closed in the end and breakers recover |
| `OrderIsAccountedFor`, `OrderComesToAnEnd` | smart orders | no more is reported than was bought, but for what answers without a number make the engine assume; no more is bought beyond the order than it missed, and nothing by market slices without a failing call; every order ends |
| `SharedSoundly`, `WaitEnds` | data feed | one request at a time, owned while it can be joined, fresh answers (a failure and a cancellation are shared too); nobody waits for ever |
| `ChainsFoundOut` | event chains | a signal is counted as timed out at most once, and a chain without a fill is found out |
| `PanicsRightly` | monitoring | a panic has a reason, comes once, and comes if the database stays down |
| `FoldsAreSound` | walk-forward analysis | parameters are stable only on six weeks of trades; no trade falls between the windows |
| `LockoutIsRight`, `RefusedForEver` | web sessions | a lock is neither too lax nor too strict; a refused token stays refused, also over a restart |
| `OnePrimary` | accounts | one primary account, unless another was made primary during a creation |
| `EditsReachWeb` | configuration | an edit unseen by the manager reaches the settings of its process |
| `LeaversHarmNobodyElse` | broadcasts | a broadcast is given up only by a race for a socket; otherwise everybody hears it |
| `StopsInOrder`, `SignalEnds` | process stop | nobody trades unguarded, nothing is left running; the first signal ends the process |

**Bounds.** `MaxFaults` bounds failures of calls that need not fail (a refusal
because nothing is left to reduce is not one), `MaxCrashes` and `MaxRestarts`
stops and crashes, `MaxLostEvents` messages the bus does not deliver, `MaxTime`
the clock. `Trades` bounds the number of rows. Two trades in one symbol are what
the races need: an old position and a new one that nets with it, a stale close
order, two tasks on the same trade; a failure and a crash in either order are
within `MaxFaults = 1`, `MaxCrashes = 1`. `PricedRows` says whether something
refreshes `trades.current_price`, on which the stop monitor of the risk service
relies; nothing in the repository does, so `FALSE` is the system as shipped and
`TRUE` the system as its authors describe it, in which both tasks close trades.
Prices are one beyond the hard stop, one at TP1 and one at TP2: the trailing stop
arises between the last two. For the risk limits three trades, two days of two
ticks and a restart exceed every limit by one if a check is missing; one
direction is enough since directions share nothing but the day's total. Trade
ids are interchangeable, hence the symmetry; it is not used for the liveness
runs.

The pool has two strategies, so that turns alternate, and two symbols, so that
one waits while the other is in hand; failures and restarts within one run let
the confirm loop meet each row in each of its states. The bus has two handlers on
one channel and one on another, two messages, one failed command, one
unsubscription and one connection error, besides those of a bus that has no
connection yet, so that a resubscription can break in its middle.

Beside them:
- Self-healing: the same symbol on two exchanges, any of them connected, threshold 2 and two failing calls
  (`MaxHealFaults`), so that a breaker opens and a correction fails as well.
- Smart order: six units, three TWAP intervals, iceberg slices of two and three, so
  that the last one is cut; `MaxIterations` and `MaxDuration` of 4 stand for the
  code's caps, two failing calls (`MaxOrderFaults`).
- Data feed: three callers, two request slots, since a cancelled request may live
  on while the next begins; `MaxFeedFaults`, `MaxCancels` one each; three ticks
  (`MaxTime`) for a lifetime of two.
- Event chain: two signals, one of which carries its id; `MaxChainEvents` of 2 lets
  a signal be begun anew; `MaxChainTime` is one tick more than two timeouts.
- Monitoring: two outages of each component (`MaxOutages`), so that one comes after
  the breaker was set.
- Walk-forward analysis: days on both sides of each end of a window (27/28, 35,
  41/42), any set of them traded on. The weekly loop: a week of two hours, one of
  them the scheduled one.
- Web: one client that is locked, forgiven and locked again within `MaxWebTime` of 5,
  two sessions, one restart (`MaxWebRestarts`). Clients share nothing. Three
  accounts, two requests at a time, three in all (`MaxRequests`). Two edits of the
  file (`MaxEdits`), a restart of each process (`MaxConfigRestarts`). Two sockets,
  the poller and one more broadcast. Two signals.
- Regime: a reading on both sides of each threshold, one event waiting at a time
  (`MaxRegimeEvents`). Local engine: two places, two symbols, four ticks (`MaxTicks`)
  for a scan every two and an expiry after one. Simulation: six turns (`MaxTurns`),
  resampled paths of up to five steps (`MaxSample`). Blacklist: two requests at a time, two
  coins, one restart, one failure (`MaxAdminRestarts`, `MaxRowFaults`). Scan: three
  exchanges, two coins, tickers on both sides of each filter.

Deadlock is not checked: an instance ends when its trades are closed or its bounds
are used up, a process may wait for a signal or a message for ever, and where two
components are in one run an instance of one of them may end.

**Mutants.** Every property of a passing run has one (`PROJECT.json`): a form of
a definition with a plausible bug, under which TLC finds that property violated.

## Fairness

`TradeLifecycle!Fairness`: an awaited call returns or raises (ccxt and SQLAlchemy
calls have timeouts), so the continuation of an opening, of a close in each task
and of a panic is weakly fair, and a process that is down is started again.
`MonitorStep(t)` is strongly fair: the loop visits every tracked position once a
pass, but it is disabled while the same loop awaits the order of another
position, over and over.

`CandidatePool!FairSpec`: both loops are weakly fair as a whole, since each catches
every exception, sleeps and goes on; no single candidate or strategy is favoured.
`EventBus!BusFairness`: the listener is weakly fair, for the same reason, and a
command is answered or times out (the client has a socket timeout of 10 seconds).

`HealFairness`: reconciliation and health check as loops that catch every exception,
and time. `OrderFairness`: the coroutine of an order, whose calls return or raise
and whose sleeps end; not what the exchange executes. `FeedFairness`: each request
and each caller that may go on; not that anybody asks. `ChainFairness`: the
checker and time; no event. `MonitorFairness`: the health loop; not that a
component comes back. `StopFairness`: the main task alone; a stop of a signal's
task may be overtaken for ever. `ConfigFairness`: the manager, the end of an edit and
the delivery of a notice; no restart, and no start of the manager. `LoopSpec` of `wfa_shipped`: the calls of the weekly loop, time and the hourly
look; `BeginRun` is strongly fair since the scheduled hour comes and goes.

Nothing is assumed of prices, signals, operator commands, events of the trading
core or stop orders of the exchange.

## Proofs

TLAPS proves the following for all values of the constants: any number of trades,
symbols, shares, prices, exchanges, handlers, messages, callers, clients, requests,
signals, faults and crashes. The proofs assume of the constants only the named
assumption of each module (`SizeAssumption`, `LifecycleAssumption`,
`RiskAssumption` and so on), which TLC evaluates in the runs. Most of them say
that a bound is a number and a set of actors is finite. Those that say more:

| Assumption | Says | Since |
|---|---|---|
| `SizeAssumption` | a position is an even, positive number of shares | so that TP1 sells half of it |
| `OrderAssumption` | the amount is a multiple of the TWAP intervals | amounts are fractions in the code: a slice loses no rest |
| `FeedAssumption` | the cache lives for at least one tick | `datafeed/feed.py:38`, `ttl=60` |
| `WebAssumption` | attempts and lockout are positive | the configured numbers of `web/auth.py` |
| `StopAssumption`, `CastAssumption` | finitely many signals; the names `main`, `nobody`, `endpoint` are no signal and no broadcast | names of the model |
| `ScanAssumption` | exchanges are listed once, symbols are finitely many | they are the keys of dictionaries |

One theorem has a hypothesis of its own, which is also the instance of its run:
`ClosedIsAnnouncedOnce` needs `~PricedRows`, the system as it is shipped.

Every invariant that a passing run checks is stated by a theorem; so are the action
properties
`BookedTP1NeverResold`, `ClosedEventOnce` and `RefusedForEver`, and the
refinement `LedgerImplemented`.

### The trading core

`TradeLifecycleProofs`
- `TypeCorrect`: `Spec => []TypeOK`. `TypeOK` is not inductive: `ApplyPartial`
  subtracts from the shares an amount read before the await, and the difference
  could be negative. The invariant adds `SharesInv`: the tracker holds all the
  shares until TP1 was applied, a partial close in flight carries half of them,
  and two partial closes of a trade sell the two halves; and that the trades
  mentioned by a task have rows.
- `OneRowPerSymbol`: `Spec => []OneOpenRowPerSymbol`, from `SymbolReserved` - no
  row is open in the symbol of the opening in progress, because only the
  listener opens and it does one thing at a time.
- `OpenRowsAreTracked`: `Spec => []OpenRowsTracked`, from `BookedIsClosed` (only
  a trade whose row is closed is unregistered) and `DownIsIdle`.

`TradeExposureProofs` first says how each part of the state may change in a step
(`TrackerHistory`, `ClosingHistory`, `RowHistory`, `ExchangeHistory`), so that the
proofs below look at four or five kinds of change and not at every action.
- `TP1IsBookedForGood`: `Spec => BookedTP1NeverResold`. Only a tracked position
  whose flag is down is sold by half, so the invariant ties the tracker's flag to
  the table: a booked TP1 has its flag up (`FlagFollowsTable`), also when a restart
  registers the row, and the flag goes up before the booking (`FlagBeforeBooking`).
  The second part needs that a row that was just inserted is in nobody's hands
  (`FreshRow`).
- `ClosedIsAnnouncedOnce`: `Spec => ClosedEventOnce`. An announced trade is closed
  and untracked (`AnnouncedIsGone`), so no task begins to close it again; that no
  other task was closing it already is `ClosesUnannounced`, which needs that there
  is one closing task only. Where both tasks close trades TLC finds it violated.
- `NothingIsNaked`: `Spec => []NoNakedExposure`. That a position has an open row is
  far from inductive: when a full close is booked, the row goes and the position
  must be nothing by then. Unless a named failure has orphaned the symbol, a
  filled order holds at most what it bought (`FilledIsHeld`); what is held for an
  open row is at most what the tracker has for it, less the halves that were sold
  and are not applied yet (`RowsCoverShares`); so a full close takes all there is
  (`ClosesTakeAll`), and nothing is left when it is booked. Reduce-only orders,
  panic and stop orders bring a position only nearer to nothing, in either
  direction (`ExchangeShrinks`).

`TradeLedgerRefinement`
- `TableIsALedger`: `Spec => LedgerImplemented`. The refinement mapping drops
  the entry price of a row. `RecordTrade` maps to `Enter` (its guard is
  `SymbolReserved` again), `BookPartial` to `BookTakeProfit` and `BookClose` to
  `Close` or, when the guarded select finds no row, to a stutter; every other
  action leaves the view alone.

### What limits trading

`RiskControlProofs`
- `DirectionsStayWithinLimit`: `Spec => []DirectionLimited`, from
  `RoomInDirection`: from the check of the direction until the row is written
  there is room for one more trade in that direction, since only the listener
  adds trades and closings only make room.
- `DaysStayWithinLimit`: `Spec => []TradesPerDayLimited`. The interesting part:
  the check believes a cached counter before it counts rows, so the theorem
  needs `NothingCounted` - the counter is always zero, because fills are
  published for another account than the one that trades - and `RoomToday`,
  which midnight restores because no trade is from tomorrow (`NoneFromTomorrow`).
- `OneSlipsThroughPause`: `Spec => []AtMostOneSlipsThroughPause`. The invariant
  adds `OnlyTheEarlierCheck`: while a pause is in force and a check is going on,
  nothing has slipped through yet. A check that is under way began before the pause,
  and once it has ended none begins until the pause is over.
- `RiskTypeCorrect`: `Spec => []TypeOK`. The cache holds sums over rows, and that a sum
  is a number is an induction over the rows. The provers cannot instantiate an
  induction rule, which has a predicate as its parameter; sets take the
  predicate's place here. `AllNaturals` (a set of numbers with 0 and the successor
  of each member has all of them) follows from there being a least one outside;
  `FoldExists` and `AllSubsets` follow from it, and `SumsAreNumbers` from both.

`LimitsProofs`, on the parts of `MCLimits`
- `RegimeTypeCorrect`, and `ScoresFollowFilter`: `RegimeSpec => []ScoredAsJudged`. The
  invariant adds `ChangeIsAnnounced`: while a change is published and not yet put
  down, its event waits, or was lost or handled too early. Without it the property
  says nothing of the moment before the detector puts its change down.
- `LocalTypeCorrect`, and `StakesBookedOnce`: `LocalSpec => []StakeBookedOnce`, from
  `BookedByTarget`: an open trade has booked one half if its first target was
  reached, and none otherwise.
- `TheRowIsWanted`: `BlackSpec => []RowIsWanted`. The property speaks of the moments
  without a request; the invariant (`ListKept`) says what holds in between: while
  nothing has troubled the list there is one request at most (`OneAtATime`), the
  row is what the answered ones leave, and what the request is going to write is the row
  with its own change (`WritesOnTop`).
- `SimTypeCorrect`, and `DrawdownsMissFirstLossOnly`: `SimSpec =>
  []DrawdownMissesFirstLoss`, an inequality between two maxima of a path of any
  length (`DrawdownsCompared`). It rests on `MaxIsGreatest`: finitely many
  integers have a greatest one.
- `ScanTypeCorrect`, and `ScansAreRight`: `ScanSpec => []ScanIsRight`, for any number of
  exchanges and any tickers. The invariant (`ScanInv`) only says that there is no result
  but that of all answers; the rest is what the four steps of the scan compute.
  Joining keeps the entries of each exchange (`JoiningIsRight`), sorting loses none
  and puts the greatest gains first (`SortingIsRight`: by the pigeonhole principle each
  place is that of one candidate). Deduplication is an induction on how
  much of the sorted list it has seen (`Left`): each symbol is there once, as the most
  liquid one so far and of equal ones the one with the most gain, which is the
  earlier one because the list is sorted; and of two symbols the first has had a gain
  that no candidate of the second exceeds (`InOrder`), although the candidate that is
  returned may have less. `BestIsTheGreatest` is the same induction for the best exchange.
- `LimitsBehaveAsAlone`: the composition implements each of its six parts; and
  `LimitsTypeCorrect`: `AllSpec => []LimitsTypeOK`.

### The engine and the bus

`EngineBusProofs`, on the parts of `MCEngineBus`
- `PoolTypeCorrect`: the turns of a pass stay within the list of strategies.
- `OneSignalPerCandidate`: `Spec => []SignalledOnce`. The invariant `SignalInv` says
  that what was signalled is marked (`SignalledIsTriggered`), that what the
  confirm loop has listed or holds before marking was not signalled yet
  (`ListedIsNew`, `HeldIsNew`), and that what it holds after marking is marked
  (`PublishedIsMarked`). The upsert keeps the first one only because it leaves
  `triggered` alone: the mutant that resets it breaks the property, so a triggered
  symbol cannot be had back by an upsert that resets it.
- `CallsAreInOrder`: `BusSpec => []CalledInOrder`, and `NobodyIsForgotten`: `BusSpec =>
  []SubscribersHeard`, from one invariant (`Called`). The table holds a handler once
  (`TableInOrder`); numbers grow from what was called over the message in hand to
  those that wait (`Numbered`), so nobody is called twice or out of order; who is
  still due is due once and was not called yet (`DueOnce`). That handlers
  are called in the order of their subscription needs `DueInOrder`: subscriptions
  and departures during a dispatch change the table but not the list that is
  walked, and a handler that subscribed earlier is before the others in that list or has
  been called. `NoGap` says of every place of the listener, the middle of a
  resubscription included, why a handler's channel is heard or who will see to it.
- `EngineAndBusBehaveAsAlone`, `EngineBusTypeCorrect`: the composition implements both.

### The services and the web application

`ServicesProofs`
- `HealTypeCorrect`, and `BreakersGuard`: `HealSpec => []ClosedBelowThreshold`, for any
  threshold; every transition of a breaker keeps it, whichever loop makes it and
  whatever it has read before.
- `SelfHealingIsSafe`: `HealSpec => []HealingIsSafe`, whichever exchanges are
  connected. The heart is `FoundAreGone`: a row of a connected exchange that was found
  without a position stays without one until it is corrected. A new position of that symbol needs a trade of its own, and a trade
  is filled at most once (`RowsManaged`); the rows that a pass mentions have rows
  already (`MentionedHaveRows`).
- `OrdersAreAccountedFor`: `OrderSpec => []OrderIsAccountedFor`. The heart is a
  balance, `Backed`: what is reported, what was missed and what the slice in hand no
  longer has open are together what was bought and what was assumed. Hence the bounds
  on what is reported and, with the cap on what is reported, on what is overbought.
  That market slices do not overbuy needs `OnPace` (the slices of a TWAP still to come
  fit into the order) and `NothingUnknown`: without a failing call, market slices
  leave nothing missed.
- `TickersAreShared`: `FeedSpec => []SharedSoundly`. One request at a time follows from
  `OneOwner`: what is under way is what newcomers join, and it has one owner. Fresh
  answers need `AwaitedIsFresh`: time stands still while an answer waits to be taken, so
  whoever takes it gets it at the age of nothing.
- `TimeoutsAreCountedOnce` and `PanicsHaveAReason`: the safety halves of
  `ChainsFoundOut` and `PanicsRightly`. The first one counts: a pass of the checker moves as many chains from pending to timed out as
  it adds to the counter. The second one needs that what failed was seen to fail
  (`Panicked`).
- `FoldsAreRight`: `WfaSpec => [](WfaTypeOK /\ FoldsAreSound)`, for any list of trades. The
  invariant (`Analysed`) says that every window before the next one is a fold or has
  no trades to choose by or to test with. When no window fits any more,
  `ThreeFoldsTakeSixWeeks` says that less than six weeks have room for two folds,
  wherever the trades lie, and `WindowsLeaveNoGap` that every later trade is in the test
  of one of the windows.

`WebAppProofs`, on the parts of `MCServices`
- `LockoutsAreRight`: `WebSpec => []LockoutIsRight`. The invariant (`RoundOf`) looks at a
  client's wrong logins as rounds: the counter counts those of the present round,
  and those of earlier rounds are a lockout's length ago.
- `RefusedIsForEver`: `WebSpec => RefusedForEver`, from `Issued`: a session is that of a
  token, what was revoked is in no table, and no token was signed by a process to
  come.
- `OnePrimaryAccount`: `AccountsSpec => []OnePrimary`. The invariant (`Kept`) says what
  each request in progress knows: a creation has still to demote every primary
  account there is, and inserts its own when there is none (`CreatorsKnow`); the rest of
  an update promotes nothing any more (`EditsPromoteNothing`).
- `ReloadTypeCorrect`: the notices are bounded by the changes of the file's time
  (`NoticesNoted`), and those by its edits (`TimeOfFile`).
- `BroadcastsAreSafe`: `CastSpec => []LeaversHarmNobodyElse`. What is left of a copy has
  been in the list; what is not there any more, somebody else has taken out
  (`CopyWasListed`).
- `StopsAreInOrder`: `StopSpec => []StopsInOrder`. The services that any stop has left
  behind neither listen nor loop, whoever has stopped them (`NothingLeftBehind`);
  the first bus goes only when nobody listens to it (`FirstBusLast`). The type needs
  `FewBuses`: a bus is made only after a stop has forgotten the one before it, so
  there are never more buses than stops and one.
- `PartsBehaveAsAlone`, `ServicesTypeCorrect`: the composition implements each of its
  eleven parts, since they share no state. What is proved of a part therefore
  holds of the composition that the run checks.

### Only model-checked

- All liveness under fairness, including that of `ChainsFoundOut` and `PanicsRightly`,
  and `ENABLED`.
- The violations are TLC's.

## What the models leave out

- Money: prices move in few steps, profits and losses are small integers and the
  figures written to a row at closing are not kept.
- Partial fills of orders in the trading core, margin, liquidation and fees. A market
  order of the trade manager fills entirely or not at all; a reduce-only order fills
  at most what is held. (`SmartOrder` has partial fills.)
- Grading of a signal, position sizing, leverage: they only decide whether and
  with which stake a signal opens, and a model may choose that freely.
- The risk check inside `TradeLifecycle` is its last test, "already in this
  symbol"; the other limits are `RiskControl`'s. `RiskControl` in turn leaves
  out that test, and TP1, which halves the stake of a row.
- What the stop monitor of the risk service decides: `TradeLifecycle` lets its
  events arrive at any time, also after the row was closed.
- `get_ohlcv`, order books and price callbacks of the data feed, the exchanges'
  objects; confidence and history of the regime; latencies and scores of the chain
  validator; hashes, one-time codes and address lists of the login; reading routes.
- What a weekly run does after the analysis: the record, the publication of the
  parameters and the engine's `_on_params_updated`. As shipped no run gets so far.
- What nothing calls: `remove_expired`, `recover_from_circuit_breaker`,
  `SystemStateRepository.delete`, the file callbacks of the configuration.

**Not modelled**: the strategies (`strategies/*`), factors, scoring and machine
learning (`signals/factors.py`, `ml/*`): floating-point functions of market data
without a state of their own, whose result every model may choose freely. Database
models and migrations are declarations; the frontend is presentation.

## Findings and remarks

The violating runs show, in the words of the documentation they contradict
(`PROJECT.json` quotes it):

- `lifecycle_vanished`: a position closed by the exchange's own stop order, or by
  the panic handler, leaves its row open for ever: `execute_close` has nothing to
  sell, returns `None`, and the row stays, blocking its symbol. The service that
  would reconcile the two is never started.
- `lifecycle_resold`: when the event log fails after a TP1 order was filled, the
  caller is told that nothing was sold, and half of the original position is
  sold again.
- `risk_double_loss`: a loss is added to the cache twice.
- `risk_stale_loss`: the monitor pass writes back a sum older than a loss that
  was handled meanwhile; the check does not look at the database while the
  cached value is not zero.
- `risk_stake`: the cached total stake is refreshed once a minute and by no fill.
- `wfa_shipped`: the query of the weekly optimisation is called with an argument it
  does not take; each run ends in a logged `TypeError`.

Met while reading, not shown by a run of this list. Trading core:

- The pause for a losing streak never really ends: the streak is read from the
  rows, no trade can end it while every signal is refused.
- The pause is not persisted: `risk_states.paused_until` is a timestamp column
  and is given a string (`docs/FINAL_VERIFICATION_AUDIT.md:72` lists it as done).
- The stop monitor reads `current_price` (`docs/FINAL_VERIFICATION_AUDIT.md:41`),
  which nothing updates.
- `max_hold_minutes` never reaches the tracker, and the macro multiplier is
  always 1 as shipped: nothing creates a detector. An operator's forced regime
  changes a name and no multiplier; a mild reading after a crash forgets that a
  recovery was due.
- A candidate is marked before its signal is logged and published: a failure in
  between loses the signal. A signal graded SKIP marks its candidate too.
- Nothing calls `remove_expired` (`repositories.py:415-426`), no row gets an expiry
  and the upsert leaves `triggered` alone (`repositories.py:353`): a symbol that
  triggered is never signalled by that strategy again, although
  `config/system.yaml:22-24` sets a lifetime.
- The exchange of a candidate is not stored; `confirm()` falls back to its default.
  The arbitrage strategy needs details that the row does not keep
  (`arb_cross_exchange.py:284`) and never confirms.
- `subscribe()` reports a failed `SUBSCRIBE` as success (`bus.py:172`) and nothing
  tries again before the next connection error: the handler is deaf until then. The
  properties of `EventBus` except exactly such channels (`missed`).
- Unsubscribing a handler unsubscribes its channel for all of them (`bus.py:189`); as
  shipped this happens only at shutdown. Two first callers of `get_event_bus()`
  may start two buses (`bus.py:281`, web applications).
- Profit at closing is computed on the whole stake even after TP1 sold half.
- A `start()` that fails is outside the `try` of `run()`: nothing is stopped
  (`main.py:122`). A signal and the main task both run `stop()`; a service's stop may
  make a new bus that nobody stops before the process ends (`EndsClosed` allows
  exactly that).

Services beside it:

- Self-healing: an exchange that is not connected is reported as one without
  positions (`healing.py:191-193`), so all its rows are closed, in the model too;
  `HealingIsSafe` excepts exactly these rows. `main.py` does not start the service.
- Monitoring: the data feed's report has no `status`, so the system is always
  degraded; `is_running` of the bus is true without Redis, so its loss is never
  noticed; a panic published to a dead bus is not repeated (`monitor/service.py:169`);
  after the first panic there is no second, since nothing resets the breaker.
- Event chains: no publisher sends a `signal_id`, so every chain times out; the
  latency is wrong when the order event was missed (`validator.py:238`).
- Smart orders: an iceberg buys more than its amount without any fault, since what
  a cancelled slice has executed is not counted (`smart_order.py:421`). Any order
  reports too much when an answer lacks `filled`: the whole amount is assumed
  (`smart_order.py:211, 260, 338, 439`).
- Data feed: the key of `get_ohlcv` lacks the limit (`feed.py:197`); an entry may
  expire between test and use (`feed.py:157`, a `KeyError`); a cancelled waiter
  cancels the request of all (`feed.py:161`); the scan is sorted by the gain of the
  candidate that was replaced (`feed.py:327-331`).
- Optimisation: the default history of 30 days is shorter than the six weeks that
  three folds need (`StableOnSixWeeks`), and the evaluation does not use the
  parameters; a trade on a boundary is in the training and in the test window.
- Configuration: the manager runs in the web processes only, so that no edit reaches
  the trading process before a restart (`manager.py:21-27` says otherwise); an
  announced reload makes the risk service take its own unchanged settings.
- Accounts: overlapping creations leave two primary accounts, of which `get_primary`
  raises. Blacklist: the memory of the admin application overwrites edits of the web
  application (`admin/app.py:378`); nothing in the trading process reads the row.
- Sessions: logging out does not revoke the session.
- Broadcasts: the poller of the dashboard dies for good when a socket was taken out
  of the list meanwhile (`dashboard_server.py:658`).
- Local engine: a stop after TP1 books the whole stake (`run_local.py:266`); one scan
  may open several trades of a symbol; the losses of the day are never reset
  (`run_local.py:208`, likewise `run_simulation.py:98` without trades). The
  simulated drawdown misses a loss of the first trade.

## Plan

Done: every component that keeps state and decides something, with its hazards, and a
theorem for each invariant of the passing runs. What is left:

| # | Module | To prove or add |
|---|---|---|
| 1 | `RiskControl` | resume and pause commands, the stop monitor's decisions; an abstract account whose limits are counted from the rows at each check |
| 2 | `EventBus` | an abstract bus (a queue per handler, delivered in order or lost) that the detailed one implements |
| 3 | `Accounts`, `Blacklist` | an abstract row with atomic requests, implemented while no two requests overlap |
| 4 | `DataFeed` | an abstract cache that answers each caller by itself, implemented by the shared requests |
| 5 | `CandidatePool` | an abstract candidate: unknown, waiting, signalled |

Constants have named assumptions, actions one per operation and invariants named
parts; recursion is by folds, so that every module may be proved about.
