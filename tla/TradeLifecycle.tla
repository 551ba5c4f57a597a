-------------------------- MODULE TradeLifecycle ---------------------------
(***************************************************************************)
(* A trade from its signal to its closing entry: the trade manager, its    *)
(* position tracker, the execution router, the rows of the trades table    *)
(* and, outside the repository, the position and the stop orders held by   *)
(* the exchange.                                                           *)
(*                                                                         *)
(* Two tasks of one asyncio loop act on trades.  "bus" is the listener of  *)
(* the event bus: it awaits its handlers one message after the other, the  *)
(* risk pre-check of a signal first, then the handler of the trade         *)
(* manager.  "mon" is the monitor loop of the trade manager.  A third one, *)
(* the price loop, only changes the tracker between two awaits.  An action *)
(* is what a task does between two awaits, or the effect of an awaited     *)
(* call at the exchange or in the database.                                *)
(***************************************************************************)
EXTENDS PositionTracker, FiniteSets

CONSTANTS
  Trades,       \* trade ids (uuid4 in the code); bounds the number of rows
  Symbols,
  Directions,   \* a subset of {"LONG", "SHORT"}
  FillPrices,   \* prices at which an opening order may be filled
  Prices,       \* prices the data feed may return
  PricedRows,   \* does anything keep trades.current_price up to date, so that
                \*   the risk service publishes stop and TP1 events?  Nothing in
                \*   the repository does: FALSE is the system as it is started
  MaxFaults,    \* bound on failures of a database or exchange call
  MaxCrashes    \* bound on stops and crashes of the process

ASSUME LifecycleAssumption ==
  /\ Directions \subseteq {"LONG", "SHORT"}
  /\ FillPrices \subseteq Nat \ {0}
  /\ Prices \subseteq Nat \ {0}
  /\ PricedRows \in BOOLEAN
  /\ MaxFaults \in Nat
  /\ MaxCrashes \in Nat

VARIABLES
  rows,         \* the trades table
  exch,         \* exchange: signed number of shares held in each symbol
  stops,        \* exchange: trades whose stop order is still working
  tracker,      \* PositionTracker._positions
  opening,      \* the open in progress in the bus task
  closing,      \* the full or partial close in progress in each task
  panicTodo,    \* trades the panic handler has still to close
  up,           \* is the process running?
  loaded,       \* did _load_open_positions succeed at the last start?
  faults, crashes

\* Observations that no action reads.
VARIABLES
  orphaned,     \* symbols in which a filled opening order was never recorded
  announced     \* trades whose TRADE_CLOSED event was published

durable  == <<rows, exch, stops>>
tasks    == <<opening, closing, panicTodo>>
history  == <<orphaned, announced>>
vars     == <<durable, tracker, tasks, up, loaded, faults, crashes, history>>

Tasks == {"bus", "mon"}

-----------------------------------------------------------------------------
NoRow      == [status |-> "none"]
NotOpening == [pc |-> "none"]
NotClosing == [pc |-> "none"]

Reasons == {"hard_stop", "tp2", "trail_stop", "alert"}

Row == [status : {"open", "closed"}, sym : Symbols, dir : Directions,
        entry : FillPrices, tp1 : BOOLEAN, reason : Reasons \cup {""}]

Position == [tracked : {TRUE}, shares : 0..Size, tp1 : BOOLEAN,
             cur : Prices \cup FillPrices, best : Prices \cup FillPrices]

Opening == [pc : {"ordering"}, sym : Symbols, dir : Directions]
  \cup [pc : {"filled"}, sym : Symbols, dir : Directions, entry : FillPrices]
  \cup [pc : {"recorded", "protecting"}, tid : Trades]
  \cup {NotOpening}

Closing == [pc : {"partial_sent", "partial_done", "partial_book"},
            tid : Trades, amt : 0..Size, why : {"tp1"}]
  \cup [pc : {"full_sent", "full_done", "full_booked"},
        tid : Trades, amt : 0..Size, why : Reasons]
  \cup {NotClosing}

TypeOK ==
  /\ rows \in [Trades -> Row \cup {NoRow}]
  /\ exch \in [Symbols -> Int]
  /\ stops \subseteq Trades
  /\ tracker \in [Trades -> Position \cup {Untracked}]
  /\ opening \in Opening
  /\ closing \in [Tasks -> Closing]
  /\ panicTodo \subseteq Trades
  /\ up \in BOOLEAN /\ loaded \in BOOLEAN
  /\ faults \in 0..MaxFaults /\ crashes \in 0..MaxCrashes
  /\ orphaned \subseteq Symbols
  /\ announced \subseteq Trades

Init ==
  /\ rows = [t \in Trades |-> NoRow]
  /\ exch = [s \in Symbols |-> 0]
  /\ stops = {}
  /\ tracker = [t \in Trades |-> Untracked]
  /\ opening = NotOpening
  /\ closing = [a \in Tasks |-> NotClosing]
  /\ panicTodo = {}
  /\ up = TRUE /\ loaded = TRUE
  /\ faults = 0 /\ crashes = 0
  /\ orphaned = {}
  /\ announced = {}

-----------------------------------------------------------------------------
IsOpen(t) == rows[t].status = "open"

OpenRows == {t \in Trades : IsOpen(t)}

OpenIn(s) == {t \in OpenRows : rows[t].sym = s}

\* The listener awaits one handler at a time.
ListenerIdle ==
  /\ up
  /\ opening = NotOpening
  /\ closing["bus"] = NotClosing
  /\ panicTodo = {}

\* Something fails that need not: the bound is on these only.
Fault == faults < MaxFaults /\ faults' = faults + 1

Signed(dir, n) == IF dir = "LONG" THEN n ELSE -n

\* A reduce-only order closes at most the position held in its direction.
Held(s, dir) == LET n == Signed(dir, exch[s]) IN IF n > 0 THEN n ELSE 0

ReduceOnlyFill(s, dir, amt) == IF amt < Held(s, dir) THEN amt ELSE Held(s, dir)

Reduce(s, dir, amt) ==
  exch' = [exch EXCEPT ![s] = @ - Signed(dir, ReduceOnlyFill(s, dir, amt))]

-----------------------------------------------------------------------------
(***************************************************************************)
(* Opening, in the bus task.                                               *)
(***************************************************************************)

MayOpenUnchecked(s) == TRUE

\* The last test of check_can_open, on a fresh read of the table.
MayOpen(s) == OpenIn(s) = {}

(***************************************************************************)
(* A signal that the pre-check and the grade let through.  The limits of   *)
(* the pre-check other than "already in this symbol" belong to the risk    *)
(* service; here they may block any signal, which changes nothing.         *)
(***************************************************************************)
ReceiveSignal(s, d) ==
  /\ ListenerIdle
  /\ \E t \in Trades : rows[t] = NoRow        \* bound on the number of trades
  /\ MayOpen(s)
  /\ opening' = [pc |-> "ordering", sym |-> s, dir |-> d]
  /\ UNCHANGED <<durable, tracker, closing, panicTodo, up, loaded, faults,
                 crashes, history>>

\* execute_open gives up before the exchange fills the order: leverage, margin
\* mode, ticker, slippage or the order itself.
OpenRejected ==
  /\ opening.pc = "ordering"
  /\ opening' = NotOpening
  /\ UNCHANGED <<durable, tracker, closing, panicTodo, up, loaded, faults,
                 crashes, history>>

OpenFilled ==
  /\ opening.pc = "ordering"
  /\ exch' = [exch EXCEPT ![opening.sym] = @ + Signed(opening.dir, Size)]
  /\ \E p \in FillPrices :
       opening' = [pc |-> "filled", sym |-> opening.sym, dir |-> opening.dir,
                   entry |-> p]
  /\ UNCHANGED <<rows, stops, tracker, closing, panicTodo, up, loaded, faults,
                 crashes, history>>

\* An exception after the fill (event log, bus, insertion of the row): the
\* handler ends, the position stays on the exchange without a row.
OpenAbandoned ==
  /\ opening.pc = "filled"
  /\ Fault
  /\ opening' = NotOpening
  /\ orphaned' = orphaned \cup {opening.sym}
  /\ UNCHANGED <<durable, tracker, closing, panicTodo, up, loaded, crashes,
                 announced>>

\* TradeRepository.create in _create_trade_record.
RecordTrade ==
  /\ opening.pc = "filled"
  /\ \E t \in Trades :
       /\ rows[t] = NoRow
       /\ rows' = [rows EXCEPT ![t] =
            [status |-> "open", sym |-> opening.sym, dir |-> opening.dir,
             entry |-> opening.entry, tp1 |-> FALSE, reason |-> ""]]
       /\ opening' = [pc |-> "recorded", tid |-> t]
  /\ UNCHANGED <<exch, stops, tracker, closing, panicTodo, up, loaded, faults,
                 crashes, history>>

TrackerAfterRecordMissed(t) == tracker

TrackerAfterRecord(t) == [tracker EXCEPT ![t] = Register(rows[t])]

RegisterTrade ==
  /\ opening.pc = "recorded"
  /\ tracker' = TrackerAfterRecord(opening.tid)
  /\ opening' = [opening EXCEPT !.pc = "protecting"]
  /\ UNCHANGED <<durable, closing, panicTodo, up, loaded, faults, crashes,
                 history>>

\* The stop order is placed, or refused and only logged.  Nothing cancels it.
PlaceStopLoss ==
  /\ opening.pc = "protecting"
  /\ opening' = NotOpening
  /\ stops' \in {stops, stops \cup {opening.tid}}
  /\ UNCHANGED <<rows, exch, tracker, closing, panicTodo, up, loaded, faults,
                 crashes, history>>

-----------------------------------------------------------------------------
(***************************************************************************)
(* Closing.  Both tasks run the same code: look the position up, send a    *)
(* reduce-only market order, await it, then write what happened.           *)
(***************************************************************************)
WholeAmount(t) == tracker[t].shares

PartialAmount(t) == tracker[t].shares \div 2

StartPartial(a, t) ==
  /\ PartialAmount(t) > 0
  /\ closing' = [closing EXCEPT ![a] =
       [pc |-> "partial_sent", tid |-> t, amt |-> PartialAmount(t),
        why |-> "tp1"]]

AmountLessTP1(t) == tracker[t].shares - PartialAmount(t)

FullAmount(t) == tracker[t].shares

StartFull(a, t, why) ==
  /\ FullAmount(t) > 0
  /\ closing' = [closing EXCEPT ![a] =
       [pc |-> "full_sent", tid |-> t, amt |-> FullAmount(t), why |-> why]]

ProfitTriggers == {"tp2", "trail_stop"}

\* The triggers that close the whole position.
FullCloseTriggers == {"hard_stop", "tp2", "trail_stop"}

\* One position examined by _monitor_positions_loop.
MonitorStep(t) ==
  /\ up
  /\ closing["mon"] = NotClosing
  /\ tracker[t].tracked
  /\ LET trigger == CheckTriggers(rows[t], tracker[t])
     IN  \/ trigger = "tp1" /\ StartPartial("mon", t)
         \/ trigger \in FullCloseTriggers /\ StartFull("mon", t, trigger)
  /\ UNCHANGED <<durable, tracker, opening, panicTodo, up, loaded, faults,
                 crashes, history>>

\* A TRADE_TP1 event, published by the risk service while the row was open.
TakeProfitEvent(t) ==
  /\ PricedRows
  /\ ListenerIdle
  /\ rows[t] # NoRow
  /\ tracker[t].tracked /\ ~tracker[t].tp1
  /\ StartPartial("bus", t)
  /\ UNCHANGED <<durable, tracker, opening, panicTodo, up, loaded, faults,
                 crashes, history>>

\* A RISK_ALERT event of type hard_stop_triggered or trail_stop_triggered.
StopAlertEvent(t) ==
  /\ PricedRows
  /\ ListenerIdle
  /\ rows[t] # NoRow
  /\ tracker[t].tracked
  /\ StartFull("bus", t, "alert")
  /\ UNCHANGED <<durable, tracker, opening, panicTodo, up, loaded, faults,
                 crashes, history>>

\* The position that the order in flight in task a would close.
FillOf(a) ==
  LET row == rows[closing[a].tid]
  IN  ReduceOnlyFill(row.sym, row.dir, closing[a].amt)

InFlight(a) == closing[a].pc \in {"partial_sent", "full_sent"}

ExchangeExecutes(a) ==
  LET row == rows[closing[a].tid]
  IN  /\ FillOf(a) > 0
      /\ Reduce(row.sym, row.dir, closing[a].amt)

CloseFilled(a) ==
  /\ InFlight(a)
  /\ ExchangeExecutes(a)
  /\ closing' = [closing EXCEPT ![a].pc =
       IF @ = "partial_sent" THEN "partial_done" ELSE "full_done"]
  /\ UNCHANGED <<rows, stops, tracker, opening, panicTodo, up, loaded, faults,
                 crashes, history>>

\* execute_close returns None: nothing left to reduce, or the call failed.
CloseRefused(a) ==
  /\ InFlight(a)
  /\ \/ FillOf(a) = 0 /\ UNCHANGED faults
     \/ FillOf(a) > 0 /\ Fault
  /\ closing' = [closing EXCEPT ![a] = NotClosing]
  /\ UNCHANGED <<durable, tracker, opening, panicTodo, up, loaded, crashes,
                 history>>

\* The order is executed, but the answer is lost or the event log fails after
\* it: execute_close returns None as if nothing had been sold.
CloseFillLost(a) ==
  /\ InFlight(a)
  /\ ExchangeExecutes(a)
  /\ Fault
  /\ closing' = [closing EXCEPT ![a] = NotClosing]
  /\ UNCHANGED <<rows, stops, tracker, opening, panicTodo, up, loaded, crashes,
                 history>>

PartiallyClosed(pos, amt) == [pos EXCEPT !.tp1 = TRUE, !.shares = @ - amt]

\* After an awaited partial close: pos is the dictionary looked up before the
\* await, so nothing is seen of the change if it was unregistered meanwhile.
ApplyPartial(a) ==
  /\ closing[a].pc = "partial_done"
  /\ LET t == closing[a].tid
     IN  tracker' = [tracker EXCEPT ![t] =
           IF @.tracked THEN PartiallyClosed(@, closing[a].amt) ELSE @]
  /\ closing' = [closing EXCEPT ![a].pc = "partial_book"]
  /\ UNCHANGED <<durable, opening, panicTodo, up, loaded, faults, crashes,
                 history>>

\* trigger_tp1_with_lock: only an open row whose TP1 was not booked yet.
MayBookTP1(t) == IsOpen(t) /\ ~rows[t].tp1

BookPartial(a) ==
  /\ closing[a].pc = "partial_book"
  /\ LET t == closing[a].tid
     IN  rows' = IF MayBookTP1(t) THEN [rows EXCEPT ![t].tp1 = TRUE] ELSE rows
  /\ closing' = [closing EXCEPT ![a] = NotClosing]
  /\ UNCHANGED <<exch, stops, tracker, opening, panicTodo, up, loaded, faults,
                 crashes, history>>

\* close_trade: only an open row.
MayBookAnyClose(t) == TRUE

MayBookClose(t) == IsOpen(t)

ClosedRow(row, why) == [row EXCEPT !.status = "closed", !.reason = why]

BookClose(a) ==
  /\ closing[a].pc = "full_done"
  /\ LET t == closing[a].tid
     IN  rows' = IF MayBookClose(t)
                 THEN [rows EXCEPT ![t] = ClosedRow(@, closing[a].why)]
                 ELSE rows
  /\ closing' = [closing EXCEPT ![a].pc = "full_booked"]
  /\ UNCHANGED <<exch, stops, tracker, opening, panicTodo, up, loaded, faults,
                 crashes, history>>

\* The database raises in trigger_tp1_with_lock or close_trade: the exception
\* leaves the handler or the monitor pass, the tracker keeps the position.
BookFails(a) ==
  /\ closing[a].pc \in {"partial_book", "full_done"}
  /\ Fault
  /\ closing' = [closing EXCEPT ![a] = NotClosing]
  /\ UNCHANGED <<durable, tracker, opening, panicTodo, up, loaded, crashes,
                 history>>

\* unregister(), then TRADE_CLOSED, whatever close_trade returned.
TrackerAfterCloseKept(t) == tracker

TrackerAfterClose(t) == [tracker EXCEPT ![t] = Untracked]

FinishClose(a) ==
  /\ closing[a].pc = "full_booked"
  /\ tracker' = TrackerAfterClose(closing[a].tid)
  /\ announced' = announced \cup {closing[a].tid}
  /\ closing' = [closing EXCEPT ![a] = NotClosing]
  /\ UNCHANGED <<durable, opening, panicTodo, up, loaded, faults, crashes,
                 orphaned>>

-----------------------------------------------------------------------------
(***************************************************************************)
(* SYSTEM_PANIC with action close_all: the router reads the open rows and  *)
(* sends an order for the shares of each.  It neither writes the rows nor  *)
(* tells the tracker.                                                      *)
(***************************************************************************)
PanicEvent ==
  /\ ListenerIdle
  /\ OpenRows # {}
  /\ panicTodo' = OpenRows
  /\ UNCHANGED <<durable, tracker, opening, closing, up, loaded, faults,
                 crashes, history>>

PanicClose(t) ==
  /\ t \in panicTodo
  /\ Reduce(rows[t].sym, rows[t].dir, Size)
  /\ panicTodo' = panicTodo \ {t}
  /\ UNCHANGED <<rows, stops, tracker, opening, closing, up, loaded, faults,
                 crashes, history>>

PanicCloseFails(t) ==
  /\ t \in panicTodo
  /\ Fault
  /\ panicTodo' = panicTodo \ {t}
  /\ UNCHANGED <<durable, tracker, opening, closing, up, loaded, crashes,
                 history>>

-----------------------------------------------------------------------------
(***************************************************************************)
(* Prices, and what happens outside the loop.                              *)
(***************************************************************************)

\* One symbol refreshed by _price_update_loop.
PriceUpdate(s) ==
  /\ up
  /\ \E t \in Trades : tracker[t].tracked /\ rows[t].sym = s
  /\ \E p \in Prices :
       tracker' = [t \in Trades |->
         IF tracker[t].tracked /\ rows[t].sym = s
         THEN UpdatePrice(rows[t], tracker[t], p) ELSE tracker[t]]
  /\ UNCHANGED <<durable, tasks, up, loaded, faults, crashes, history>>

\* The exchange executes a stop order: the market may touch its price between
\* two polls of the price loop, and when the process is down.
StopLossFires(t) ==
  /\ t \in stops
  /\ stops' = stops \ {t}
  /\ Reduce(rows[t].sym, rows[t].dir, Size)
  /\ UNCHANGED <<rows, tracker, tasks, up, loaded, faults, crashes, history>>

\* A crash, or stop(), which cancels the tasks at the await they are in.
Crash ==
  /\ up
  /\ crashes < MaxCrashes
  /\ crashes' = crashes + 1
  /\ up' = FALSE
  /\ tracker' = [t \in Trades |-> Untracked]
  /\ opening' = NotOpening
  /\ closing' = [a \in Tasks |-> NotClosing]
  /\ panicTodo' = {}
  /\ orphaned' = IF opening.pc = "filled" THEN orphaned \cup {opening.sym}
                 ELSE orphaned
  /\ UNCHANGED <<durable, loaded, faults, announced>>

\* _load_open_positions at start; its exceptions are logged and ignored.
Restart ==
  /\ ~up
  /\ up' = TRUE
  /\ \/ /\ tracker' = [t \in Trades |->
             IF IsOpen(t) THEN Register(rows[t]) ELSE Untracked]
        /\ loaded' = TRUE
        /\ UNCHANGED faults
     \/ /\ Fault
        /\ loaded' = FALSE
        /\ UNCHANGED tracker
  /\ UNCHANGED <<durable, tasks, crashes, history>>

-----------------------------------------------------------------------------
ContinueOpen == \/ OpenRejected
                \/ OpenFilled
                \/ OpenAbandoned
                \/ RecordTrade
                \/ RegisterTrade
                \/ PlaceStopLoss

StartClose(t) == MonitorStep(t) \/ TakeProfitEvent(t) \/ StopAlertEvent(t)

ContinueClose(a) == \/ CloseFilled(a)
                    \/ CloseRefused(a)
                    \/ CloseFillLost(a)
                    \/ ApplyPartial(a)
                    \/ BookPartial(a)
                    \/ BookClose(a)
                    \/ BookFails(a)
                    \/ FinishClose(a)

ContinuePanic == \E t \in Trades : PanicClose(t) \/ PanicCloseFails(t)

Next == \/ \E s \in Symbols, d \in Directions : ReceiveSignal(s, d)
        \/ ContinueOpen
        \/ \E t \in Trades : StartClose(t)
        \/ \E a \in Tasks : ContinueClose(a)
        \/ PanicEvent
        \/ ContinuePanic
        \/ \E s \in Symbols : PriceUpdate(s)
        \/ \E t \in Trades : StopLossFires(t)
        \/ Crash
        \/ Restart

Spec == Init /\ [][Next]_vars

(***************************************************************************)
(* Every awaited call returns or raises, the loops keep turning, and a     *)
(* pass of the monitor loop reaches every tracked position: strong         *)
(* fairness, since the loop is busy with another position now and then.    *)
(***************************************************************************)
Fairness ==
  /\ WF_vars(ContinueOpen) /\ WF_vars(ContinuePanic) /\ WF_vars(Restart)
  /\ \A a \in Tasks : WF_vars(ContinueClose(a))
  /\ \A t \in Trades : SF_vars(MonitorStep(t))

FairSpec == Spec /\ Fairness

-----------------------------------------------------------------------------
(***************************************************************************)
(* Properties                                                              *)
(***************************************************************************)

\* At most one open row per symbol.  Nothing in the table enforces it: it
\* holds because check_can_open reads the table afresh and because the bus
\* finishes the handlers of one signal before it delivers the next.
OneOpenRowPerSymbol ==
  \A t, u \in OpenRows : rows[t].sym = rows[u].sym => t = u

\* The process watches every open row it knows of.  Between the insertion of a
\* row and its registration the listener holds it; after a failed
\* _load_open_positions the service runs on without the rows it could not read.
OpenRowsTracked ==
  up /\ loaded =>
    \A t \in OpenRows :
      tracker[t].tracked \/ (opening.pc = "recorded" /\ opening.tid = t)

\* A position on the exchange belongs to an open row of its symbol, or to the
\* order being recorded, unless a filled order was lost in that symbol: rows
\* are not closed before the shares behind them are, in spite of partial
\* closes, panic, stop orders and stale orders in flight.
NoNakedExposure ==
  \A s \in Symbols : exch[s] # 0 =>
    \/ OpenIn(s) # {}
    \/ opening.pc = "filled" /\ opening.sym = s
    \/ s \in orphaned

\* Once the table says that TP1 was taken, no task starts to sell half of the
\* position again, even after a restart from the table.
BookedTP1NeverResold ==
  [][\A a \in Tasks, t \in Trades :
       rows[t].status # "none" /\ rows[t].tp1 /\ closing[a] = NotClosing
         => ~(closing'[a].pc = "partial_sent" /\ closing'[a].tid = t)]_vars

\* The table as the rest of the system sees it, without the entry price.
LedgerView ==
  [t \in Trades |->
     IF rows[t] = NoRow THEN NoRow
     ELSE [status |-> rows[t].status, sym |-> rows[t].sym, dir |-> rows[t].dir,
           tp1 |-> rows[t].tp1, reason |-> rows[t].reason]]

Ledger == INSTANCE TradeLedger WITH ledger <- LedgerView

\* The trades table is a ledger: entered once, TP1 booked once, closed once and
\* then final, although two tasks and a restarted process write to it.
LedgerImplemented == Ledger!LedgerSpec

\* TRADE_CLOSED is published at most once for a trade: the risk service adds
\* its loss to the day each time it hears it.
ClosedEventOnce ==
  [][\A a \in Tasks :
       closing[a].pc = "full_booked" /\ closing[a].tid \in announced
         => closing'[a] = closing[a] \/ ~up']_vars

\* A tracked position that stays beyond its hard stop is reduced to nothing on
\* the exchange, whichever of the two tasks, the panic handler or the stop
\* order gets there first.
AtHardStop(t) ==
  /\ tracker[t].tracked
  /\ CheckTriggers(rows[t], tracker[t]) = "hard_stop"
  /\ Held(rows[t].sym, rows[t].dir) > 0

StopLossCarriedOut == \A t \in Trades : AtHardStop(t) ~> ~AtHardStop(t)

\* An open row whose position the exchange no longer holds ends up closed.
Vanished(t) == IsOpen(t) /\ exch[rows[t].sym] = 0

VanishedRowsClosed == \A t \in Trades : Vanished(t) ~> ~IsOpen(t)

\* TP1 is not triggered again after being triggered: its order is sent for a
\* position that is still whole (or that is gone), never for what an earlier
\* TP1 order left.
TP1SoldOnce ==
  [][\A a \in Tasks :
       closing[a] = NotClosing /\ closing'[a].pc = "partial_sent"
         => LET row == rows[closing'[a].tid]
            IN  Held(row.sym, row.dir) \notin 1..(Size - 1)]_vars

=============================================================================
