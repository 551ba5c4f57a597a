------------------------ MODULE TradeExposureProofs ------------------------
(***************************************************************************)
(* What ties the position on the exchange to the table and to the tracker: *)
(* for any number of trades and symbols, in both directions, through       *)
(* partial closes, panic, stop orders, failures and crashes.               *)
(***************************************************************************)
EXTENDS TradeLifecycleProofs

-----------------------------------------------------------------------------
(***************************************************************************)
(* How each part of the state may change in one step.                      *)
(***************************************************************************)
LEMMA OpeningHistory ==
  ASSUME TypeInv, [Next]_vars
  PROVE  \/ UNCHANGED opening
         \/ opening' = NotOpening
         \/ \E s \in Symbols, d \in Directions : ReceiveSignal(s, d)
         \/ OpenFilled \/ RecordTrade \/ RegisterTrade
<1>1. \/ ContinueOpen \/ Crash \/ UNCHANGED opening
      \/ \E s \in Symbols, d \in Directions : ReceiveSignal(s, d)
  BY DEF Next, StartClose, MonitorStep, TakeProfitEvent, StopAlertEvent,
     ContinueClose, CloseFilled, CloseRefused, CloseFillLost, ApplyPartial,
     BookPartial, BookClose, BookFails, FinishClose, PanicEvent, ContinuePanic,
     PanicClose, PanicCloseFails, PriceUpdate, StopLossFires, Restart, vars, tasks
<1>2. ASSUME OpenRejected \/ OpenAbandoned \/ PlaceStopLoss \/ Crash
      PROVE  opening' = NotOpening
  BY <1>2 DEF OpenRejected, OpenAbandoned, PlaceStopLoss, Crash
<1> QED BY <1>1, <1>2 DEF ContinueOpen

\* A tracked entry is the one of before, or half of it, or a new one.
LEMMA TrackerHistory ==
  ASSUME TypeInv, DownIsIdle, [Next]_vars, NEW t \in Trades, tracker'[t].tracked
  PROVE  \/ /\ tracker[t].tracked
            /\ tracker'[t].shares = tracker[t].shares
            /\ tracker'[t].tp1 = tracker[t].tp1
            /\ \A a \in Tasks : ApplyPartial(a) => closing[a].tid # t
         \/ \E a \in Tasks : /\ ApplyPartial(a) /\ closing[a].tid = t
                             /\ tracker[t].tracked
                             /\ tracker'[t].tp1
                             /\ tracker'[t].shares = tracker[t].shares - Half
         \/ /\ RegisterTrade /\ opening.tid = t
            /\ tracker'[t] = Register(rows[t])
         \/ /\ Restart /\ IsOpen(t)
            /\ tracker'[t] = Register(rows[t])
<1>1. /\ tracker \in [Trades -> Position \cup {Untracked}]
      /\ closing \in [Tasks -> Closing] /\ opening \in Opening
  BY DEF TypeInv, TypeOK
<1>2. ASSUME NEW a \in Tasks, ApplyPartial(a)
      PROVE  \/ tracker'[t] = tracker[t] /\ closing[a].tid # t
             \/ /\ closing[a].tid = t /\ tracker[t].tracked /\ tracker'[t].tp1
                /\ tracker'[t].shares = tracker[t].shares - Half
  <2> DEFINE half == PartiallyClosed(tracker[t], closing[a].amt)
  <2>1. /\ closing[a].pc = "partial_done" /\ closing[a].amt = Half
        /\ closing[a].tid \in Trades
        /\ tracker[closing[a].tid].tracked => tracker[closing[a].tid].shares >= Half
    BY <1>1, <1>2, ClosingType
    DEF ApplyPartial, TypeInv, SharesInv, HalfIsThere, PartialPending
  <2>2. CASE closing[a].tid # t
    BY <1>1, <1>2, <2>1, <2>2 DEF ApplyPartial
  <2>3. CASE closing[a].tid = t
    <3>1. tracker'[t] = IF tracker[t].tracked THEN half ELSE tracker[t]
      BY <1>1, <1>2, <2>3 DEF ApplyPartial
    <3>2. tracker[t].tracked
      BY <3>1 DEF Untracked
    <3>3. tracker[t] \in Position /\ tracker[t].shares >= closing[a].amt
          /\ closing[a].amt \in Nat
      BY <1>1, <2>1, <2>3, <3>2, TrackedType, HalfFacts
    <3>4. half.tp1 /\ half.shares = tracker[t].shares - closing[a].amt
      BY <3>3, PartiallyClosedType
    <3> HIDE DEF half
    <3> QED BY <2>1, <2>3, <3>1, <3>2, <3>4
  <2> QED BY <2>2, <2>3
<1>3. ASSUME NEW a \in Tasks, NEW b \in Tasks, ApplyPartial(a), ApplyPartial(b)
      PROVE  a = b
  <2>1. ASSUME NEW c \in Tasks, ApplyPartial(c)
        PROVE  \A e \in Tasks : e # c => closing'[e] = closing[e]
    BY <1>1, <2>1 DEF ApplyPartial
  <2>2. closing'[a].pc = "partial_book" /\ closing[a].pc = "partial_done"
    BY <1>1, <1>3, CloseGoesOn DEF ApplyPartial
  <2> QED BY <1>3, <2>1, <2>2
<1>4. CASE \E a \in Tasks : ApplyPartial(a)
  BY <1>2, <1>3, <1>4
<1>5. ASSUME NEW s \in Symbols, PriceUpdate(s), ~\E a \in Tasks : ApplyPartial(a)
      PROVE  /\ tracker[t].tracked
             /\ tracker'[t].shares = tracker[t].shares
             /\ tracker'[t].tp1 = tracker[t].tp1
  <2>1. PICK p \in Prices : tracker'[t] =
               IF tracker[t].tracked /\ rows[t].sym = s
               THEN UpdatePrice(rows[t], tracker[t], p) ELSE tracker[t]
    BY <1>5 DEF PriceUpdate
  <2>2. CASE tracker[t].tracked /\ rows[t].sym = s
    <3>1. tracker[t] \in Position
      BY <1>1, <2>2, TrackedType
    <3>2. tracker'[t] = UpdatePrice(rows[t], tracker[t], p)
      BY <2>1, <2>2
    <3> QED BY <2>2, <3>1, <3>2, UpdatePriceType
  <2>3. CASE ~(tracker[t].tracked /\ rows[t].sym = s)
    BY <2>1, <2>3
  <2> QED BY <2>2, <2>3
<1>6. CASE RegisterTrade
  <2>1. opening.tid \in Trades
    BY <1>1, <1>6, OpeningType DEF RegisterTrade
  <2>2. ASSUME NEW a \in Tasks, ApplyPartial(a) PROVE FALSE
    <3>1. closing'[a].pc = "partial_book" /\ closing[a].pc = "partial_done"
      BY <1>1, <2>2, CloseGoesOn DEF ApplyPartial
    <3> QED BY <1>6, <3>1 DEF RegisterTrade
  <2> QED BY <1>1, <1>6, <2>1, <2>2 DEF RegisterTrade, TrackerAfterRecord
<1>7. CASE Restart
  BY <1>7 DEF Restart, DownIsIdle, Untracked
<1>8. ~Crash
  BY DEF Crash, Untracked
<1>9. ASSUME NEW a \in Tasks, FinishClose(a) PROVE tracker'[t] = tracker[t]
  BY <1>1, <1>9, ClosingType DEF FinishClose, TrackerAfterClose, Untracked
<1>10. \/ UNCHANGED tracker \/ RegisterTrade \/ Crash \/ Restart
       \/ \E a \in Tasks : ApplyPartial(a) \/ FinishClose(a)
       \/ \E s \in Symbols : PriceUpdate(s)
  BY DEF Next, ReceiveSignal, ContinueOpen, OpenRejected, OpenFilled, OpenAbandoned,
     RecordTrade, PlaceStopLoss, StartClose, MonitorStep, TakeProfitEvent,
     StopAlertEvent, ContinueClose, CloseFilled, CloseRefused, CloseFillLost,
     BookPartial, BookClose, BookFails, PanicEvent, ContinuePanic, PanicClose,
     PanicCloseFails, StopLossFires, vars
<1> QED BY <1>4, <1>5, <1>6, <1>7, <1>8, <1>9, <1>10

LEMMA ClosingHistory ==
  ASSUME TypeInv, [Next]_vars, NEW a \in Tasks
  PROVE  \/ closing'[a] = closing[a]
         \/ closing'[a] = NotClosing
         \/ \E t \in Trades :
              /\ closing[a] = NotClosing /\ tracker[t].tracked
              /\ UNCHANGED <<rows, exch, tracker, opening, history>>
              /\ closing'[a].tid = t
              /\ a = "bus" => PricedRows
              /\ \/ closing'[a].pc = "partial_sent" /\ ~tracker[t].tp1
                 \/ /\ closing'[a].pc = "full_sent"
                    /\ closing'[a].amt = tracker[t].shares
         \/ /\ closing'[a].tid = closing[a].tid /\ closing'[a].amt = closing[a].amt
            /\ \/ /\ CloseFilled(a)
                  /\ \/ closing[a].pc = "partial_sent" /\ closing'[a].pc = "partial_done"
                     \/ closing[a].pc = "full_sent" /\ closing'[a].pc = "full_done"
               \/ ApplyPartial(a) /\ closing'[a].pc = "partial_book"
               \/ BookClose(a) /\ closing'[a].pc = "full_booked"
<1>1. closing \in [Tasks -> Closing]
  BY DEF TypeInv, TypeOK
<1>2. ASSUME NEW b \in Tasks, b # a, ContinueClose(b) PROVE closing'[a] = closing[a]
  BY <1>1, <1>2 DEF ContinueClose, CloseFilled, CloseRefused, CloseFillLost,
     ApplyPartial, BookPartial, BookClose, BookFails, FinishClose
<1>3. ASSUME CloseRefused(a) \/ CloseFillLost(a) \/ BookPartial(a) \/ BookFails(a)
             \/ FinishClose(a)
      PROVE  closing'[a] = NotClosing
  BY <1>1, <1>3 DEF CloseRefused, CloseFillLost, BookPartial, BookFails, FinishClose
<1>4. ASSUME CloseFilled(a)
      PROVE  /\ closing'[a].tid = closing[a].tid /\ closing'[a].amt = closing[a].amt
             /\ \/ closing[a].pc = "partial_sent" /\ closing'[a].pc = "partial_done"
                \/ closing[a].pc = "full_sent" /\ closing'[a].pc = "full_done"
  BY <1>1, <1>4, CloseGoesOn DEF CloseFilled, InFlight, CloseMoves
<1>5. ASSUME ApplyPartial(a)
      PROVE  /\ closing'[a].tid = closing[a].tid /\ closing'[a].amt = closing[a].amt
             /\ closing'[a].pc = "partial_book"
  BY <1>1, <1>5, CloseGoesOn DEF ApplyPartial, CloseMoves
<1>6. ASSUME BookClose(a)
      PROVE  /\ closing'[a].tid = closing[a].tid /\ closing'[a].amt = closing[a].amt
             /\ closing'[a].pc = "full_booked"
  BY <1>1, <1>6, CloseGoesOn DEF BookClose, CloseMoves
<1>7. ASSUME NEW t \in Trades, StartClose(t), closing'[a] # closing[a]
      PROVE  /\ closing[a] = NotClosing /\ tracker[t].tracked
             /\ UNCHANGED <<rows, exch, tracker, opening, history>>
             /\ closing'[a].tid = t
             /\ a = "bus" => PricedRows
             /\ \/ closing'[a].pc = "partial_sent" /\ ~tracker[t].tp1
                \/ /\ closing'[a].pc = "full_sent"
                   /\ closing'[a].amt = tracker[t].shares
  <2>1. ASSUME NEW b \in Tasks, StartPartial(b, t)
        PROVE  b = a /\ closing'[a].tid = t /\ closing'[a].pc = "partial_sent"
    BY <1>1, <1>7, <2>1 DEF StartPartial
  <2>2. ASSUME NEW b \in Tasks, NEW why, StartFull(b, t, why)
        PROVE  /\ b = a /\ closing'[a].tid = t /\ closing'[a].pc = "full_sent"
               /\ closing'[a].amt = tracker[t].shares
    BY <1>1, <1>7, <2>2 DEF StartFull, FullAmount
  <2>3. CASE MonitorStep(t)
    BY <2>1, <2>2, <2>3, TP1TriggerNeedsFlagDown DEF MonitorStep, Tasks, durable
  <2>4. CASE TakeProfitEvent(t)
    BY <2>1, <2>4 DEF TakeProfitEvent, ListenerIdle, Tasks, durable
  <2>5. CASE StopAlertEvent(t)
    BY <2>2, <2>5 DEF StopAlertEvent, ListenerIdle, Tasks, durable
  <2> QED BY <1>7, <2>3, <2>4, <2>5 DEF StartClose
<1>8. Crash => closing'[a] = NotClosing
  BY DEF Crash
<1>9. \/ UNCHANGED closing \/ Crash
      \/ \E t \in Trades : StartClose(t)
      \/ \E b \in Tasks : ContinueClose(b)
  BY DEF Next, ReceiveSignal, ContinueOpen, OpenRejected, OpenFilled, OpenAbandoned,
     RecordTrade, RegisterTrade, PlaceStopLoss, PanicEvent, ContinuePanic, PanicClose,
     PanicCloseFails, PriceUpdate, StopLossFires, Restart, vars, tasks
<1>10. CASE ContinueClose(a)
  <2>1. \/ CloseFilled(a) \/ ApplyPartial(a) \/ BookClose(a)
        \/ closing'[a] = NotClosing
    BY <1>3, <1>10 DEF ContinueClose
  <2> QED BY <1>4, <1>5, <1>6, <2>1
<1> QED BY <1>2, <1>7, <1>8, <1>9, <1>10

LEMMA RowHistory ==
  ASSUME TypeInv, [Next]_vars, NEW t \in Trades, rows'[t] \in Row
  PROVE  \/ /\ rows[t] \in Row
            /\ rows'[t].sym = rows[t].sym /\ rows'[t].dir = rows[t].dir
            /\ IsOpen(t)' => IsOpen(t)
            /\ IsOpen(t) /\ ~IsOpen(t)' =>
                 \E a \in Tasks : BookClose(a) /\ closing[a].tid = t
            /\ rows'[t].tp1 =>
                 \/ rows[t].tp1
                 \/ \E a \in Tasks : BookPartial(a) /\ closing[a].tid = t
         \/ /\ RecordTrade
            /\ rows[t] = NoRow
            /\ opening' = [pc |-> "recorded", tid |-> t]
            /\ IsOpen(t)' /\ ~rows'[t].tp1
            /\ rows'[t].sym = opening.sym /\ rows'[t].dir = opening.dir
<1>1. /\ closing \in [Tasks -> Closing]
      /\ rows \in [Trades -> Row \cup {NoRow}]
  BY DEF TypeInv, TypeOK
<1>2. CASE UNCHANGED rows
  BY <1>2 DEF IsOpen
<1>3. CASE RecordTrade
  <2> DEFINE row == [status |-> "open", sym |-> opening.sym, dir |-> opening.dir,
                     entry |-> opening.entry, tp1 |-> FALSE, reason |-> ""]
  <2>1. PICK u \in Trades : /\ rows[u] = NoRow
                            /\ opening' = [pc |-> "recorded", tid |-> u]
                            /\ rows'[u] = row
                            /\ \A v \in Trades : v # u => rows'[v] = rows[v]
    BY <1>3, RecordedRow, Zenon
  <2>2. /\ row.status = "open" /\ row.tp1 = FALSE
        /\ row.sym = opening.sym /\ row.dir = opening.dir
    OBVIOUS
  <2> HIDE DEF row
  <2>3. CASE t = u
    BY <1>3, <2>1, <2>2, <2>3 DEF IsOpen
  <2>4. CASE t # u
    BY <2>1, <2>4 DEF IsOpen
  <2> QED BY <2>3, <2>4
<1>4. ASSUME NEW a \in Tasks, BookPartial(a), rows' # rows
      PROVE  /\ rows[t] \in Row
             /\ rows'[t].sym = rows[t].sym /\ rows'[t].dir = rows[t].dir
             /\ IsOpen(t)' <=> IsOpen(t)
             /\ rows'[t].tp1 => rows[t].tp1 \/ closing[a].tid = t
  <2>1. closing[a].tid \in Trades /\ TP1Written(closing[a].tid)
    BY <1>1, <1>4, ClosingType DEF BookPartial, MayBookTP1, TP1Written
  <2>2. CASE closing[a].tid = t
    BY <1>1, <2>1, <2>2, WrittenRows DEF IsOpen, TP1Written
  <2>3. CASE closing[a].tid # t
    BY <1>1, <2>1, <2>3, WrittenRows DEF IsOpen
  <2> QED BY <2>2, <2>3
<1>5. ASSUME NEW a \in Tasks, BookClose(a), rows' # rows
      PROVE  /\ rows[t] \in Row
             /\ rows'[t].sym = rows[t].sym /\ rows'[t].dir = rows[t].dir
             /\ IsOpen(t)' => IsOpen(t)
             /\ rows'[t].tp1 => rows[t].tp1
             /\ IsOpen(t)' \/ ~IsOpen(t) \/ closing[a].tid = t
  <2>1. /\ closing[a].tid \in Trades /\ closing[a].why \in Reasons
        /\ CloseWritten(closing[a].tid, closing[a].why)
    BY <1>1, <1>5, ClosingType DEF BookClose, MayBookClose, CloseWritten
  <2>2. CASE closing[a].tid = t
    BY <1>1, <2>1, <2>2, WrittenRows DEF IsOpen
  <2>3. CASE closing[a].tid # t
    BY <1>1, <2>1, <2>3, WrittenRows DEF IsOpen
  <2> QED BY <2>2, <2>3
<1>6. \/ UNCHANGED rows \/ RecordTrade
      \/ \E a \in Tasks : BookPartial(a) \/ BookClose(a)
  BY DEF Next, ReceiveSignal, ContinueOpen, OpenRejected, OpenFilled, OpenAbandoned,
     RegisterTrade, PlaceStopLoss, StartClose, MonitorStep, TakeProfitEvent,
     StopAlertEvent, ContinueClose, CloseFilled, CloseRefused, CloseFillLost,
     ApplyPartial, BookFails, FinishClose, PanicEvent, ContinuePanic, PanicClose,
     PanicCloseFails, PriceUpdate, StopLossFires, Crash, Restart, vars, durable
<1> QED BY <1>2, <1>3, <1>4, <1>5, <1>6

-----------------------------------------------------------------------------
(***************************************************************************)
(* A row just inserted: nobody tracks, closes or announces it before it is *)
(* registered.  An announced trade is closed and nobody tracks it.         *)
(***************************************************************************)
FreshRow ==
  opening.pc = "recorded" =>
    /\ ~tracker[opening.tid].tracked
    /\ \A a \in Tasks : closing[a].pc # "none" => closing[a].tid # opening.tid
    /\ opening.tid \notin announced

AnnouncedIsGone ==
  \A t \in announced : rows[t].status = "closed" /\ ~tracker[t].tracked

Watched == TypeInv /\ DownIsIdle /\ BookedIsClosed /\ FreshRow /\ AnnouncedIsGone

LEMMA AnnouncedHistory ==
  ASSUME TypeInv, [Next]_vars, NEW t \in Trades, t \in announced'
  PROVE  \/ t \in announced
         \/ \E a \in Tasks : FinishClose(a) /\ closing[a].tid = t
<1>1. \/ UNCHANGED announced \/ \E a \in Tasks : FinishClose(a)
  BY DEF Next, ReceiveSignal, ContinueOpen, OpenRejected, OpenFilled, OpenAbandoned,
     RecordTrade, RegisterTrade, PlaceStopLoss, StartClose, MonitorStep,
     TakeProfitEvent, StopAlertEvent, ContinueClose, CloseFilled, CloseRefused,
     CloseFillLost, ApplyPartial, BookPartial, BookClose, BookFails, PanicEvent,
     ContinuePanic, PanicClose, PanicCloseFails, PriceUpdate, StopLossFires, Crash,
     Restart, vars, history
<1> QED BY <1>1 DEF FinishClose

LEMMA FreshRowStep ==
  ASSUME Watched, [Next]_vars
  PROVE  FreshRow'
<1> SUFFICES ASSUME opening'.pc = "recorded"
             PROVE  /\ ~tracker'[opening'.tid].tracked
                    /\ \A a \in Tasks : closing'[a].pc # "none" =>
                         closing'[a].tid # opening'.tid
                    /\ opening'.tid \notin announced'
  BY DEF FreshRow
<1>1. /\ TypeInv /\ DownIsIdle /\ FreshRow /\ AnnouncedIsGone
      /\ closing \in [Tasks -> Closing] /\ opening \in Opening
      /\ announced \subseteq Trades
  BY DEF Watched, TypeInv, TypeOK
<1>2. CASE RecordTrade
  <2>1. PICK t \in Trades : /\ rows[t] = NoRow
                            /\ opening' = [pc |-> "recorded", tid |-> t]
    BY <1>1, <1>2, RecordedRow, Zenon
  <2>2. opening'.tid = t /\ NoRow \notin Row /\ NoRow.status # "closed"
    BY <2>1 DEF NoRow, Row
  <2> QED BY <1>1, <1>2, <2>1, <2>2 DEF RecordTrade, TypeInv, KnownRows,
             AnnouncedIsGone, history
<1>3. CASE UNCHANGED opening /\ ~RecordTrade
  <2>1. opening.pc = "recorded" /\ opening.tid \in Trades /\ opening # NotOpening
    <3>1. opening.pc = "recorded" /\ opening.tid \in Trades
      BY <1>1, <1>3, OpeningType
    <3> QED BY <3>1 DEF NotOpening
  <2>2. ~RegisterTrade
    BY <1>1, <1>3, <2>1, OpeningType DEF RegisterTrade
  <2>3. ~Restart
    BY <1>1, <2>1 DEF Restart, DownIsIdle
  <2>4. ~tracker'[opening.tid].tracked
    BY <1>1, <2>1, <2>2, <2>3, TrackerHistory DEF FreshRow
  <2>5. \A a \in Tasks : closing'[a].pc # "none" => closing'[a].tid # opening.tid
    <3> SUFFICES ASSUME NEW a \in Tasks, closing'[a].pc # "none"
                 PROVE  closing'[a].tid # opening.tid
      OBVIOUS
    <3>1. closing'[a] # NotClosing
      BY DEF NotClosing
    <3>2. ASSUME closing'[a].tid = closing[a].tid, closing[a].pc # "none"
          PROVE  closing'[a].tid # opening.tid
      BY <1>1, <2>1, <3>2 DEF FreshRow
    <3>3. CloseFilled(a) \/ ApplyPartial(a) \/ BookClose(a) => closing[a].pc # "none"
      BY DEF CloseFilled, InFlight, ApplyPartial, BookClose
    <3> QED BY <1>1, <2>1, <3>1, <3>2, <3>3, ClosingHistory DEF FreshRow
  <2>6. opening.tid \notin announced'
    <3>1. ASSUME NEW a \in Tasks, FinishClose(a) PROVE closing[a].tid # opening.tid
      BY <1>1, <2>1, <3>1 DEF FinishClose, FreshRow
    <3> QED BY <1>1, <2>1, <3>1, AnnouncedHistory DEF FreshRow
  <2> QED BY <1>3, <2>4, <2>5, <2>6
<1>4. CASE RegisterTrade
  BY <1>1, <1>4, OpeningType DEF RegisterTrade
<1>5. OpenFilled => opening'.pc = "filled"
  BY DEF OpenFilled
<1>6. (\E s \in Symbols, d \in Directions : ReceiveSignal(s, d))
        => opening'.pc = "ordering"
  BY DEF ReceiveSignal
<1> QED BY <1>1, <1>2, <1>3, <1>4, <1>5, <1>6, OpeningHistory DEF NotOpening

LEMMA AnnouncedIsGoneStep ==
  ASSUME Watched, [Next]_vars
  PROVE  AnnouncedIsGone'
<1> SUFFICES ASSUME NEW t \in announced'
             PROVE  rows'[t].status = "closed" /\ ~tracker'[t].tracked
  BY DEF AnnouncedIsGone
<1>1. /\ TypeInv /\ DownIsIdle /\ FreshRow /\ AnnouncedIsGone /\ BookedIsClosed
      /\ closing \in [Tasks -> Closing] /\ tracker \in [Trades -> Position \cup {Untracked}]
  BY DEF Watched, TypeInv, TypeOK
<1>2. t \in Trades
  BY <1>1, TypeStep DEF TypeInv, TypeOK
<1>3. CASE t \in announced
  <2>1. rows[t].status = "closed" /\ ~tracker[t].tracked
    BY <1>1, <1>3 DEF AnnouncedIsGone
  <2>2. ~IsOpen(t) /\ (RegisterTrade => opening.tid # t)
    BY <1>1, <1>3, <2>1 DEF IsOpen, FreshRow, RegisterTrade
  <2> QED BY <1>1, <1>2, <2>1, <2>2, ClosedStays, TrackerHistory
<1>4. ASSUME NEW a \in Tasks, FinishClose(a), closing[a].tid = t
      PROVE  rows'[t].status = "closed" /\ ~tracker'[t].tracked
  <2>1. rows[t].status = "closed"
    BY <1>1, <1>4 DEF FinishClose, BookedIsClosed
  <2>2. tracker'[t] = Untracked
    BY <1>1, <1>2, <1>4 DEF FinishClose, TrackerAfterClose
  <2> QED BY <1>1, <1>2, <2>1, <2>2, ClosedStays DEF Untracked
<1> QED BY <1>1, <1>2, <1>3, <1>4, AnnouncedHistory

LEMMA WatchedInit == Init => Watched
BY TypeInit DEF Init, Watched, DownIsIdle, BookedIsClosed, FreshRow, AnnouncedIsGone,
   NotOpening, NotClosing

LEMMA WatchedStep == Watched /\ [Next]_vars => Watched'
BY TypeStep, DownIsIdleStep, BookedIsClosedStep, FreshRowStep, AnnouncedIsGoneStep
   DEF Watched, TypeInv

-----------------------------------------------------------------------------
(***************************************************************************)
(* TP1.  The tracker raises its flag before the table books TP1, and takes *)
(* the flag over from the table whenever it registers a row.               *)
(***************************************************************************)
FlagFollowsTable ==
  \A t \in Trades : tracker[t].tracked /\ rows[t].tp1 => tracker[t].tp1

FlagBeforeBooking ==
  \A a \in Tasks : closing[a].pc = "partial_book" /\ tracker[closing[a].tid].tracked
    => tracker[closing[a].tid].tp1

LEMMA FlagStep ==
  ASSUME Watched, FlagFollowsTable, FlagBeforeBooking, [Next]_vars
  PROVE  (FlagFollowsTable /\ FlagBeforeBooking)'
<1>1. /\ TypeInv /\ DownIsIdle /\ FreshRow
      /\ TypeInv' /\ DownIsIdle'
      /\ closing \in [Tasks -> Closing]
  BY WatchedStep DEF Watched, TypeInv, TypeOK
<1>2. ASSUME NEW t \in Trades, tracker'[t].tracked, tracker[t].tracked, tracker[t].tp1
      PROVE  tracker'[t].tp1
  <2>1. /\ ~(RegisterTrade /\ opening.tid = t)
        /\ ~Restart
    BY <1>1, <1>2 DEF RegisterTrade, FreshRow, Restart, DownIsIdle, Untracked
  <2> QED BY <1>1, <1>2, <2>1, TrackerHistory
<1>3. FlagFollowsTable'
  <2> SUFFICES ASSUME NEW t \in Trades, tracker'[t].tracked, rows'[t].tp1
               PROVE  tracker'[t].tp1
    BY DEF FlagFollowsTable
  <2>1. rows'[t] \in Row
    BY <1>1 DEF TypeInv, KnownRows
  <2>2. CASE tracker[t].tracked
    <3>1. rows[t] \in Row /\ rows[t] # NoRow
      BY <1>1, <2>2, RowUpdates DEF TypeInv, KnownRows, NoRow
    <3>2. ASSUME NEW a \in Tasks, BookPartial(a), closing[a].tid = t
          PROVE  tracker[t].tp1
      BY <2>2, <3>2 DEF BookPartial, FlagBeforeBooking
    <3>3. tracker[t].tp1
      BY <1>1, <2>1, <2>2, <3>1, <3>2, RowHistory DEF FlagFollowsTable
    <3> QED BY <1>2, <2>2, <3>3
  <2>3. CASE ~tracker[t].tracked
    <3>1. /\ RegisterTrade \/ Restart
          /\ tracker'[t] = Register(rows[t])
      BY <1>1, <2>3, TrackerHistory
    <3>2. rows' = rows
      BY <3>1 DEF RegisterTrade, Restart, durable
    <3> QED BY <2>1, <3>1, <3>2, RegisterType
  <2> QED BY <2>2, <2>3
<1>4. FlagBeforeBooking'
  <2> SUFFICES ASSUME NEW a \in Tasks, closing'[a].pc = "partial_book",
                      tracker'[closing'[a].tid].tracked
               PROVE  tracker'[closing'[a].tid].tp1
    BY DEF FlagBeforeBooking
  <2> DEFINE t == closing'[a].tid
  <2>1. t \in Trades
    BY <1>1, ClosingType DEF TypeInv, TypeOK
  <2>2. CASE ApplyPartial(a) /\ t = closing[a].tid
    <3>1. closing[a].pc = "partial_done"
      BY <2>2 DEF ApplyPartial
    <3>2. /\ ~(RegisterTrade /\ opening.tid = t)
          /\ ~Restart
      BY <1>1, <2>2, <3>1 DEF RegisterTrade, FreshRow, Restart, DownIsIdle, NotClosing
    <3> QED BY <1>1, <2>1, <2>2, <3>2, TrackerHistory
  <2>3. CASE closing'[a] = closing[a]
    <3>1. /\ ~(RegisterTrade /\ opening.tid = t)
          /\ ~Restart
      BY <1>1, <2>3 DEF RegisterTrade, FreshRow, Restart, DownIsIdle, NotClosing
    <3>2. tracker[t].tracked
      BY <1>1, <2>1, <3>1, TrackerHistory
    <3> QED BY <1>2, <2>1, <2>3, <3>2 DEF FlagBeforeBooking
  <2> QED BY <1>1, <2>2, <2>3, ClosingHistory DEF NotClosing
<1> QED BY <1>3, <1>4

\* Once TP1 is booked in the table no task starts to sell half of the position
\* again, whoever booked it and however often the process restarted since: the
\* flag of the tracker, which the triggers and the TP1 handler read, is up
\* whenever the row says so.
THEOREM TP1IsBookedForGood == Spec => BookedTP1NeverResold
<1> DEFINE IInv == Watched /\ FlagFollowsTable /\ FlagBeforeBooking
<1>1. Init => IInv
  BY WatchedInit DEF Init, FlagFollowsTable, FlagBeforeBooking, Untracked, NotClosing
<1>2. IInv /\ [Next]_vars => IInv'
  BY WatchedStep, FlagStep
<1>3. IInv /\ [Next]_vars =>
        [\A a \in Tasks, t \in Trades :
           rows[t].status # "none" /\ rows[t].tp1 /\ closing[a] = NotClosing
             => ~(closing'[a].pc = "partial_sent" /\ closing'[a].tid = t)]_vars
  <2> SUFFICES ASSUME IInv, [Next]_vars, NEW a \in Tasks, NEW t \in Trades,
                      rows[t].status # "none", rows[t].tp1, closing[a] = NotClosing,
                      closing'[a].pc = "partial_sent", closing'[a].tid = t
               PROVE  FALSE
    OBVIOUS
  <2>1. closing'[a] # NotClosing /\ closing'[a] # closing[a]
    BY DEF NotClosing
  <2>2. tracker[t].tracked /\ ~tracker[t].tp1
    BY <2>1, ClosingHistory DEF Watched
  <2> QED BY <2>2 DEF FlagFollowsTable
<1> QED BY <1>1, <1>2, <1>3, PTL DEF Spec, BookedTP1NeverResold

-----------------------------------------------------------------------------
(***************************************************************************)
(* TRADE_CLOSED.  As the system is shipped nothing prices the rows, so     *)
(* only the monitor loop closes; what it is closing was never announced.   *)
(***************************************************************************)
OnlyMonitorCloses == closing["bus"] = NotClosing

ClosesUnannounced ==
  closing["mon"].pc # "none" => closing["mon"].tid \notin announced

LEMMA AnnouncementStep ==
  ASSUME ~PricedRows, Watched, OnlyMonitorCloses, ClosesUnannounced, [Next]_vars
  PROVE  (OnlyMonitorCloses /\ ClosesUnannounced)'
<1>1. TypeInv /\ AnnouncedIsGone /\ "bus" \in Tasks /\ "mon" \in Tasks
  BY DEF Watched, Tasks
<1>2. OnlyMonitorCloses'
  <2>1. ~(CloseFilled("bus") \/ ApplyPartial("bus") \/ BookClose("bus"))
    BY DEF OnlyMonitorCloses, NotClosing, CloseFilled, InFlight, ApplyPartial, BookClose
  <2> QED BY <1>1, <2>1, ClosingHistory DEF OnlyMonitorCloses
<1>3. ClosesUnannounced'
  <2> SUFFICES ASSUME closing'["mon"].pc # "none", closing'["mon"].tid \in announced'
               PROVE  FALSE
    BY DEF ClosesUnannounced
  <2> DEFINE t == closing'["mon"].tid
  <2>1. closing'["mon"] # NotClosing /\ t \in Trades
    BY <1>1, TypeStep, ClosingType DEF Watched, TypeInv, TypeOK, NotClosing
  <2>2. CASE t \in announced
    <3>1. closing["mon"].pc # "none" => closing["mon"].tid # t
      BY <2>2 DEF ClosesUnannounced
    <3>2. ~tracker[t].tracked
      BY <1>1, <2>2 DEF AnnouncedIsGone
    <3>3. CloseFilled("mon") \/ ApplyPartial("mon") \/ BookClose("mon")
            => closing["mon"].pc # "none"
      BY DEF CloseFilled, InFlight, ApplyPartial, BookClose
    <3> QED BY <1>1, <2>1, <3>1, <3>2, <3>3, ClosingHistory
  <2>3. ASSUME NEW a \in Tasks, FinishClose(a) PROVE FALSE
    <3>1. a = "mon"
      BY <2>3 DEF FinishClose, OnlyMonitorCloses, NotClosing, Tasks
    <3>2. closing'["mon"] = NotClosing
      BY <2>3, <3>1 DEF FinishClose, Watched, TypeInv, TypeOK
    <3> QED BY <2>1, <3>2
  <2> QED BY <1>1, <2>1, <2>2, <2>3, AnnouncedHistory
<1> QED BY <1>2, <1>3

\* As the system is shipped (nothing prices the rows, so the risk service
\* publishes no stop and no TP1 event), TRADE_CLOSED is published once for a
\* trade, through any failures and restarts: a trade leaves the tracker when it
\* is announced and only a tracked one is closed.
THEOREM ClosedIsAnnouncedOnce ==
  ASSUME ~PricedRows
  PROVE  Spec => ClosedEventOnce
<1> DEFINE IInv == Watched /\ OnlyMonitorCloses /\ ClosesUnannounced
<1>1. Init => IInv
  BY WatchedInit DEF Init, OnlyMonitorCloses, ClosesUnannounced, NotClosing, Tasks
<1>2. IInv /\ [Next]_vars => IInv'
  BY WatchedStep, AnnouncementStep
<1>3. IInv /\ [Next]_vars =>
        [\A a \in Tasks :
           closing[a].pc = "full_booked" /\ closing[a].tid \in announced
             => closing'[a] = closing[a] \/ ~up']_vars
  BY DEF OnlyMonitorCloses, ClosesUnannounced, NotClosing, Tasks
<1> QED BY <1>1, <1>2, <1>3, PTL DEF Spec, ClosedEventOnce

-----------------------------------------------------------------------------
(***************************************************************************)
(* The position on the exchange.  Toward(d, s) is the number of shares     *)
(* held in symbol s in direction d, negative when they are held the other  *)
(* way.  Orders that reduce only bring it nearer to nothing.               *)
(***************************************************************************)
Toward(dir, s) == Signed(dir, exch[s])

LEMMA ReduceFacts ==
  ASSUME exch \in [Symbols -> Int], NEW s, NEW dir, NEW amt \in Nat,
         Reduce(s, dir, amt), NEW u \in Symbols, NEW d, Toward(d, u) >= 0
  PROVE  /\ Toward(d, u)' >= 0
         /\ Toward(d, u)' <= Toward(d, u)
         /\ u = s /\ d = dir =>
              \/ Toward(d, u)' = 0
              \/ Toward(d, u)' = Toward(d, u) - amt
         /\ u = s /\ d = dir /\ Toward(d, u) <= amt => exch'[u] = 0
         /\ exch[u] = 0 => exch'[u] = 0
<1>1. exch[u] \in Int
  OBVIOUS
<1>2. CASE u # s
  <2>1. exch'[u] = exch[u]
    BY <1>2 DEF Reduce
  <2> QED BY <1>1, <1>2, <2>1 DEF Toward, Signed
<1>3. CASE u = s
  <2>1. exch'[u] = exch[u] - Signed(dir, ReduceOnlyFill(u, dir, amt))
    BY <1>3 DEF Reduce
  <2>2. CASE dir = "LONG"
    <3>1. exch'[u] = IF exch[u] > 0
                     THEN IF amt < exch[u] THEN exch[u] - amt ELSE 0
                     ELSE exch[u]
      BY <1>1, <2>1, <2>2 DEF Signed, ReduceOnlyFill, Held
    <3>2. CASE d = "LONG"
      BY <1>1, <1>3, <2>2, <3>1, <3>2 DEF Toward, Signed
    <3>3. CASE d # "LONG"
      BY <1>1, <1>3, <2>2, <3>1, <3>3 DEF Toward, Signed
    <3> QED BY <3>2, <3>3
  <2>3. CASE dir # "LONG"
    <3>1. exch'[u] = IF exch[u] < 0
                     THEN IF amt < -exch[u] THEN exch[u] + amt ELSE 0
                     ELSE exch[u]
      BY <1>1, <2>1, <2>3 DEF Signed, ReduceOnlyFill, Held
    <3>2. CASE d = "LONG"
      BY <1>1, <1>3, <2>3, <3>1, <3>2 DEF Toward, Signed
    <3>3. CASE d # "LONG"
      <4>1. Toward(d, u) = -exch[u] /\ Toward(d, u)' = -exch'[u]
        BY <3>3 DEF Toward, Signed
      <4>2. exch'[u] \in Int
        BY <1>1, <3>1
      <4>3. ASSUME NEW n \in Int, NEW m \in Int, NEW h \in Int, NEW k \in Int,
                   n = 0 - h, m = 0 - k, h >= 0,
                   m = IF n < 0 THEN IF amt < 0 - n THEN n + amt ELSE 0 ELSE n
            PROVE  /\ k >= 0 /\ k <= h
                   /\ k = 0 \/ k = h - amt
                   /\ h <= amt => m = 0
                   /\ n = 0 => m = 0
        BY <4>3
      <4>4. /\ exch[u] = 0 - Toward(d, u) /\ exch'[u] = 0 - Toward(d, u)'
            /\ Toward(d, u) \in Int /\ Toward(d, u)' \in Int
            /\ -exch[u] = 0 - exch[u]
        BY <1>1, <4>1, <4>2
      <4>5. exch'[u] = IF exch[u] < 0
                       THEN IF amt < 0 - exch[u] THEN exch[u] + amt ELSE 0
                       ELSE exch[u]
        BY <3>1, <4>4
      <4> QED BY <1>1, <4>2, <4>3, <4>4, <4>5
    <3> QED BY <3>2, <3>3
  <2> QED BY <2>2, <2>3
<1> QED BY <1>2, <1>3

\* The shares a filled partial close sold that the tracker does not know yet.
Sold(a, t) ==
  IF closing[a].pc = "partial_done" /\ closing[a].tid = t THEN Half ELSE 0

\* A filled order, until it is recorded or lost, holds what it bought at most.
FilledIsHeld ==
  opening.pc = "filled" /\ opening.sym \notin orphaned =>
    Toward(opening.dir, opening.sym) \in 0..Size

\* The exchange holds, in the direction of an open row, at most the shares the
\* tracker has for it.
RowsCoverShares ==
  \A t \in OpenRows : rows[t].sym \notin orphaned =>
    LET held == Toward(rows[t].dir, rows[t].sym)
    IN  /\ held \in 0..Size
        /\ tracker[t].tracked =>
             held <= tracker[t].shares - Sold("bus", t) - Sold("mon", t)

\* A full close of an open row takes all that is held in its symbol; once it is
\* filled nothing is.
ClosesTakeAll ==
  \A a \in Tasks : closing[a].pc \in {"full_sent", "full_done"} =>
    LET row == rows[closing[a].tid]
    IN  row.status = "open" /\ row.sym \notin orphaned =>
          /\ closing[a].pc = "full_sent" => Toward(row.dir, row.sym) <= closing[a].amt
          /\ closing[a].pc = "full_done" => exch[row.sym] = 0

Exposure == NoNakedExposure /\ FilledIsHeld /\ RowsCoverShares /\ ClosesTakeAll

\* Everything but a filled opening order brings the exchange nearer to nothing.
LEMMA ExchangeHistory ==
  ASSUME TypeInv, [Next]_vars
  PROVE  \/ UNCHANGED exch
         \/ OpenFilled
         \/ \E s, dir : \E amt \in Nat : Reduce(s, dir, amt)
<1>1. ASSUME NEW a \in Tasks, CloseFilled(a) \/ CloseFillLost(a)
      PROVE  \E s, dir : \E amt \in Nat : Reduce(s, dir, amt)
  <2>1. closing[a].amt \in Nat
    <3>1. closing[a] \in Closing /\ closing[a].pc # "none"
      BY <1>1 DEF CloseFilled, CloseFillLost, InFlight, TypeInv, TypeOK
    <3>2. closing[a].amt \in 0..Size
      BY <3>1, ClosingType
    <3> QED BY <3>2, SizeAssumption
  <2>2. Reduce(rows[closing[a].tid].sym, rows[closing[a].tid].dir, closing[a].amt)
    BY <1>1 DEF CloseFilled, CloseFillLost, ExchangeExecutes
  <2> QED BY <2>1, <2>2
<1>2. ASSUME NEW t \in Trades, PanicClose(t) \/ StopLossFires(t)
      PROVE  \E s, dir : \E amt \in Nat : Reduce(s, dir, amt)
  BY <1>2, SizeAssumption DEF PanicClose, StopLossFires
<1>3. \/ UNCHANGED exch \/ OpenFilled
      \/ \E a \in Tasks : CloseFilled(a) \/ CloseFillLost(a)
      \/ \E t \in Trades : PanicClose(t) \/ StopLossFires(t)
  BY DEF Next, ReceiveSignal, ContinueOpen, OpenRejected, OpenAbandoned, RecordTrade,
     RegisterTrade, PlaceStopLoss, StartClose, MonitorStep, TakeProfitEvent,
     StopAlertEvent, ContinueClose, CloseRefused, ApplyPartial, BookPartial, BookClose,
     BookFails, FinishClose, PanicEvent, ContinuePanic, PanicCloseFails, PriceUpdate,
     Crash, Restart, vars, durable
<1> QED BY <1>1, <1>2, <1>3

LEMMA OrphanedHistory ==
  ASSUME TypeInv, [Next]_vars
  PROVE  /\ orphaned \subseteq orphaned'
         /\ opening.pc = "filled" /\ opening' = NotOpening => opening.sym \in orphaned'
<1>1. ASSUME ~UNCHANGED orphaned
      PROVE  OpenAbandoned \/ Crash
  BY <1>1 DEF Next, ReceiveSignal, ContinueOpen, OpenRejected, OpenFilled,
     RecordTrade, RegisterTrade, PlaceStopLoss, StartClose, MonitorStep,
     TakeProfitEvent, StopAlertEvent, ContinueClose, CloseFilled, CloseRefused,
     CloseFillLost, ApplyPartial, BookPartial, BookClose, BookFails, FinishClose,
     PanicEvent, ContinuePanic, PanicClose, PanicCloseFails, PriceUpdate,
     StopLossFires, Restart, vars, history
<1>2. orphaned \subseteq orphaned'
  BY <1>1 DEF OpenAbandoned, Crash
<1>3. ASSUME opening.pc = "filled", opening' = NotOpening
      PROVE  opening.sym \in orphaned'
  <2>1. \/ ContinueOpen \/ Crash \/ UNCHANGED opening
        \/ \E s \in Symbols, d \in Directions : ReceiveSignal(s, d)
    BY DEF Next, StartClose, MonitorStep, TakeProfitEvent, StopAlertEvent,
       ContinueClose, CloseFilled, CloseRefused, CloseFillLost, ApplyPartial,
       BookPartial, BookClose, BookFails, FinishClose, PanicEvent, ContinuePanic,
       PanicClose, PanicCloseFails, PriceUpdate, StopLossFires, Restart, vars, tasks
  <2>2. opening # NotOpening
    BY <1>3 DEF NotOpening
  <2>3. OpenAbandoned \/ Crash \/ RecordTrade
    BY <1>3, <2>1, <2>2 DEF ReceiveSignal, ListenerIdle, ContinueOpen, OpenRejected,
       OpenFilled, RegisterTrade, PlaceStopLoss
  <2>4. ~RecordTrade
    BY <1>3 DEF RecordTrade, NotOpening
  <2> QED BY <1>3, <2>3, <2>4 DEF OpenAbandoned, Crash
<1> QED BY <1>2, <1>3

LEMMA RowStays ==
  ASSUME TypeInv, [Next]_vars, NEW t \in Trades, rows[t] \in Row
  PROVE  rows'[t] \in Row
<1>1. rows \in [Trades -> Row \cup {NoRow}] /\ NoRow \notin Row
  BY DEF TypeInv, TypeOK, NoRow, Row
<1>2. CASE RecordTrade
  <2>1. PICK u \in Trades : /\ rows[u] = NoRow
                            /\ \A v \in Trades : v # u => rows'[v] = rows[v]
    BY <1>2, RecordedRow, Zenon
  <2> QED BY <1>1, <2>1
<1>3. ASSUME NEW u \in Trades, TP1Written(u) PROVE rows'[t] \in Row
  BY <1>1, <1>3, WrittenRows, RowUpdates
<1>4. ASSUME NEW u \in Trades, NEW why \in Reasons, CloseWritten(u, why)
      PROVE  rows'[t] \in Row
  <2>1. CASE t = u
    <3>1. rows'[t] = ClosedRow(rows[t], why)
      BY <1>1, <1>4, <2>1 DEF CloseWritten
    <3> QED BY <3>1, RowUpdates
  <2>2. CASE t # u
    BY <1>1, <1>4, <2>2, WrittenRows
  <2> QED BY <2>1, <2>2
<1> QED BY <1>2, <1>3, <1>4, RowsChange

\* Only a filled opening order takes a symbol away from nothing.
LEMMA ExchangeShrinks ==
  ASSUME TypeInv, [Next]_vars, NEW s \in Symbols, ~(OpenFilled /\ opening.sym = s)
  PROVE  /\ exch[s] = 0 => exch'[s] = 0
         /\ \A d : Toward(d, s) >= 0 =>
              Toward(d, s)' >= 0 /\ Toward(d, s)' <= Toward(d, s)
<1>1. exch \in [Symbols -> Int]
  BY DEF TypeInv, TypeOK
<1>2. \A d : Toward(d, s) \in Int
  BY <1>1 DEF Toward, Signed
<1>3. ASSUME exch'[s] = exch[s]
      PROVE  \A d : Toward(d, s)' = Toward(d, s)
  BY <1>3 DEF Toward
<1>4. CASE exch'[s] = exch[s]
  BY <1>2, <1>3, <1>4
<1>5. ASSUME NEW u, NEW dir, NEW amt \in Nat, Reduce(u, dir, amt)
      PROVE  /\ exch[s] = 0 => exch'[s] = 0
             /\ \A d : Toward(d, s) >= 0 =>
                  Toward(d, s)' >= 0 /\ Toward(d, s)' <= Toward(d, s)
  <2>1. exch[s] = 0 => Toward("LONG", s) >= 0
    BY DEF Toward, Signed
  <2> QED BY <1>1, <1>5, <2>1, ReduceFacts
<1>6. CASE OpenFilled
  <2>1. exch'[s] = exch[s]
    BY <1>1, <1>6 DEF OpenFilled
  <2> QED BY <1>4, <2>1
<1> QED BY <1>4, <1>5, <1>6, ExchangeHistory

LEMMA NakedStep ==
  ASSUME Watched, Exposure, [Next]_vars
  PROVE  NoNakedExposure'
<1> SUFFICES ASSUME NEW s \in Symbols, exch'[s] # 0, s \notin orphaned'
             PROVE  \/ OpenIn(s)' # {}
                    \/ opening'.pc = "filled" /\ opening'.sym = s
  BY DEF NoNakedExposure
<1>1. TypeInv /\ s \notin orphaned
  BY OrphanedHistory DEF Watched
<1>2. CASE OpenFilled /\ opening.sym = s
  BY <1>2 DEF OpenFilled
<1>3. CASE ~(OpenFilled /\ opening.sym = s)
  <2>1. exch[s] # 0
    BY <1>1, <1>3, ExchangeShrinks
  <2>2. ASSUME NEW t \in OpenIn(s) PROVE OpenIn(s)' # {}
    <3>1. t \in Trades /\ IsOpen(t) /\ rows[t].sym = s /\ rows[t] \in Row
      BY <1>1, OpenRowType DEF OpenIn, OpenRows, TypeInv, TypeOK
    <3>2. rows'[t] \in Row /\ rows[t] # NoRow
      BY <1>1, <3>1, RowStays DEF IsOpen, NoRow
    <3>3. ASSUME NEW a \in Tasks, BookClose(a), closing[a].tid = t
          PROVE  FALSE
      BY <1>1, <2>1, <3>1, <3>3 DEF BookClose, Exposure, ClosesTakeAll, IsOpen
    <3>4. IsOpen(t)' /\ rows'[t].sym = s
      BY <1>1, <3>1, <3>2, <3>3, RowHistory
    <3> QED BY <3>1, <3>4 DEF OpenIn, OpenRows
  <2>3. CASE opening.pc = "filled" /\ opening.sym = s
    <3>1. opening' # NotOpening
      BY <1>1, <2>3, OrphanedHistory
    <3>2. ASSUME RecordTrade PROVE OpenIn(s)' # {}
      <4> DEFINE row == [status |-> "open", sym |-> opening.sym, dir |-> opening.dir,
                         entry |-> opening.entry, tp1 |-> FALSE, reason |-> ""]
      <4>1. PICK u \in Trades : rows'[u] = row
        BY <1>1, <3>2, RecordedRow, Zenon
      <4>2. row.status = "open" /\ row.sym = s
        BY <2>3
      <4> HIDE DEF row
      <4>3. u \in OpenIn(s)'
        BY <4>1, <4>2 DEF OpenIn, OpenRows, IsOpen
      <4> QED BY <4>3
    <3>3. ~OpenFilled /\ ~RegisterTrade
      BY <2>3 DEF OpenFilled, RegisterTrade
    <3>4. ~\E u \in Symbols, d \in Directions : ReceiveSignal(u, d)
      BY <2>3 DEF ReceiveSignal, ListenerIdle, NotOpening
    <3> QED BY <1>1, <2>3, <3>1, <3>2, <3>3, <3>4, OpeningHistory
  <2> QED BY <1>1, <2>1, <2>2, <2>3 DEF Exposure, NoNakedExposure
<1> QED BY <1>2, <1>3

LEMMA FilledStep ==
  ASSUME Watched, SymbolReserved, Exposure, [Next]_vars
  PROVE  FilledIsHeld'
<1> SUFFICES ASSUME NEW s, NEW d, opening'.pc = "filled",
                    s = opening'.sym, d = opening'.dir, s \notin orphaned'
             PROVE  Toward(d, s)' \in 0..Size
  BY DEF FilledIsHeld, Toward
<1>1. /\ TypeInv /\ opening \in Opening /\ exch \in [Symbols -> Int]
      /\ orphaned \subseteq orphaned'
  BY OrphanedHistory DEF Watched, TypeInv, TypeOK
<1>2. CASE OpenFilled
  <2>1. s \in Symbols /\ opening.pc = "ordering" /\ opening.sym = s /\ opening.dir = d
    <3>1. PICK p \in FillPrices :
            opening' = [pc |-> "filled", sym |-> opening.sym, dir |-> opening.dir,
                        entry |-> p]
      BY <1>2 DEF OpenFilled
    <3>2. opening.pc = "ordering"
      BY <1>2 DEF OpenFilled
    <3> QED BY <1>1, <3>1, <3>2, OpeningType
  <2>2. exch[s] = 0
    BY <1>1, <2>1 DEF Exposure, NoNakedExposure, SymbolReserved
  <2>3. exch'[s] = Signed(d, Size)
    BY <1>1, <1>2, <2>1, <2>2, SizeAssumption DEF OpenFilled, Signed
  <2>4. Signed(d, Signed(d, Size)) = Size
    BY SizeAssumption DEF Signed
  <2> QED BY <2>1, <2>3, <2>4, SizeAssumption DEF Toward
<1>3. CASE UNCHANGED opening /\ ~OpenFilled
  <2>1. /\ opening.pc = "filled" /\ s \in Symbols
        /\ opening.sym = s /\ opening.dir = d /\ s \notin orphaned
    BY <1>1, <1>3, OpeningType
  <2>2. Toward(d, s) \in 0..Size
    BY <2>1 DEF Exposure, FilledIsHeld
  <2>3. Toward(d, s)' \in Int
    <3>1. exch'[s] \in Int
      BY <2>1, TypeStep DEF Watched, TypeInv, TypeOK
    <3> QED BY <3>1 DEF Toward, Signed
  <2> QED BY <1>1, <1>3, <2>1, <2>2, <2>3, ExchangeShrinks, SizeAssumption
<1>4. RecordTrade => opening'.pc = "recorded"
  <2> SUFFICES ASSUME RecordTrade PROVE opening'.pc = "recorded"
    OBVIOUS
  <2>1. PICK t \in Trades : opening' = [pc |-> "recorded", tid |-> t]
    BY DEF RecordTrade
  <2> QED BY <2>1
<1>5. RegisterTrade => opening'.pc = "protecting"
  BY <1>1, OpeningType DEF RegisterTrade
<1>6. (\E u \in Symbols, way \in Directions : ReceiveSignal(u, way))
        => opening'.pc = "ordering"
  BY DEF ReceiveSignal
<1> QED BY <1>1, <1>2, <1>3, <1>4, <1>5, <1>6, OpeningHistory DEF NotOpening

\* What the tracker has is at least what was sold behind its back.
SharesCoverSold ==
  \A t \in Trades : tracker[t].tracked =>
    0 <= tracker[t].shares - Sold("bus", t) - Sold("mon", t)

LEMMA TrackerCoversSold == TypeInv => SharesCoverSold
<1> SUFFICES ASSUME TypeInv, NEW t \in Trades, tracker[t].tracked
             PROVE  0 <= tracker[t].shares - Sold("bus", t) - Sold("mon", t)
  BY DEF SharesCoverSold
<1>1. /\ tracker[t].shares \in 0..Size
      /\ "bus" \in Tasks /\ "mon" \in Tasks /\ "bus" # "mon"
  BY TrackedType DEF TypeInv, TypeOK, Position, Tasks
<1>2. ASSUME NEW a \in Tasks, Sold(a, t) # 0
      PROVE  Sold(a, t) = Half /\ tracker[t].shares >= Half
  BY <1>2 DEF Sold, TypeInv, SharesInv, HalfIsThere, PartialPending
<1>3. ASSUME Sold("bus", t) # 0, Sold("mon", t) # 0
      PROVE  tracker[t].shares = Size
  BY <1>1, <1>3 DEF Sold, TypeInv, SharesInv, TwoHalves, PartialPending
<1>4. CASE Sold("bus", t) # 0 /\ Sold("mon", t) # 0
  BY <1>1, <1>2, <1>3, <1>4, HalfFacts, SizeAssumption
<1>5. CASE Sold("bus", t) # 0 /\ Sold("mon", t) = 0
  BY <1>1, <1>2, <1>5, HalfFacts, SizeAssumption
<1>6. CASE Sold("bus", t) = 0 /\ Sold("mon", t) # 0
  BY <1>1, <1>2, <1>6, HalfFacts, SizeAssumption
<1>7. CASE Sold("bus", t) = 0 /\ Sold("mon", t) = 0
  BY <1>1, <1>7, SizeAssumption
<1> QED BY <1>4, <1>5, <1>6, <1>7

LEMMA SoldHistory ==
  ASSUME Watched, [Next]_vars, NEW a \in Tasks, NEW t \in Trades
  PROVE  /\ Sold(a, t) \in {0, Half} /\ Sold(a, t)' \in {0, Half}
         /\ \/ Sold(a, t)' = 0
            \/ Sold(a, t)' = Sold(a, t)
            \/ /\ CloseFilled(a)
               /\ closing[a].pc = "partial_sent" /\ closing[a].tid = t
               /\ Sold(a, t) = 0 /\ Sold(a, t)' = Half
<1>1. TypeInv
  BY DEF Watched
<1>2. Sold(a, t) \in {0, Half} /\ Sold(a, t)' \in {0, Half}
  BY DEF Sold
<1>3. CASE closing'[a] = closing[a]
  BY <1>2, <1>3 DEF Sold
<1>4. CASE CloseFilled(a) /\ closing[a].pc = "partial_sent" /\ closing'[a].tid = closing[a].tid
  BY <1>2, <1>4 DEF Sold
<1>5. CASE closing'[a].pc # "partial_done"
  BY <1>2, <1>5 DEF Sold
<1> QED BY <1>1, <1>2, <1>3, <1>4, <1>5, ClosingHistory DEF NotClosing

LEMMA CoverStep ==
  ASSUME Watched, SymbolReserved, Exposure, [Next]_vars
  PROVE  RowsCoverShares'
<1> SUFFICES ASSUME NEW t \in Trades, NEW s, NEW d, IsOpen(t)',
                    s = rows'[t].sym, d = rows'[t].dir, s \notin orphaned'
             PROVE  /\ Toward(d, s)' \in 0..Size
                    /\ tracker'[t].tracked =>
                         Toward(d, s)' <= tracker'[t].shares - Sold("bus", t)'
                                                             - Sold("mon", t)'
  BY DEF RowsCoverShares, Toward, OpenRows
<1> DEFINE held == Toward(d, s)
<1>1. /\ TypeInv /\ TypeInv' /\ DownIsIdle /\ FreshRow
      /\ orphaned \subseteq orphaned'
      /\ rows' \in [Trades -> Row \cup {NoRow}]
      /\ closing \in [Tasks -> Closing]
      /\ tracker' \in [Trades -> Position \cup {Untracked}]
      /\ "bus" \in Tasks /\ "mon" \in Tasks
  BY OrphanedHistory, WatchedStep DEF Watched, TypeInv, TypeOK, Tasks
<1>2. rows'[t] \in Row /\ s \in Symbols /\ d \in Directions
  <2>1. rows'[t] \in Row
    BY <1>1 DEF IsOpen, NoRow
  <2> QED BY <2>1 DEF Row
<1>3. held' \in Int
  <2>1. exch'[s] \in Int
    BY <1>1, <1>2 DEF TypeInv, TypeOK
  <2> QED BY <2>1 DEF Toward, Signed
<1>4. CASE RecordTrade /\ rows[t] = NoRow
  <2>1. /\ opening.pc = "filled" /\ opening.sym = s /\ opening.dir = d
        /\ UNCHANGED <<exch, tracker>>
    <3>1. rows[t] \notin Row
      BY <1>4, RowUpdates DEF NoRow
    <3> QED BY <1>1, <1>2, <1>4, <3>1, RowHistory DEF RecordTrade
  <2>2. held \in 0..Size
    BY <1>1, <2>1 DEF Exposure, FilledIsHeld
  <2>3. held' = held
    BY <2>1 DEF Toward
  <2>4. ~tracker'[t].tracked
    <3>1. rows[t] \notin Row
      BY <1>4, RowUpdates DEF NoRow
    <3> QED BY <1>1, <2>1, <3>1 DEF TypeInv, KnownRows
  <2> QED BY <2>2, <2>3, <2>4
<1>5. CASE rows[t] \in Row /\ IsOpen(t) /\ rows[t].sym = s /\ rows[t].dir = d
  <2>1. /\ held \in 0..Size
        /\ tracker[t].tracked =>
             held <= tracker[t].shares - Sold("bus", t) - Sold("mon", t)
    BY <1>1, <1>5 DEF Exposure, RowsCoverShares, OpenRows
  <2>2. held' >= 0 /\ held' <= held
    <3>1. ~(OpenFilled /\ opening.sym = s)
      BY <1>5 DEF OpenFilled, SymbolReserved, OpenIn, OpenRows
    <3> QED BY <1>1, <1>2, <2>1, <3>1, ExchangeShrinks, SizeAssumption
  <2>3. held' \in 0..Size
    BY <1>3, <2>1, <2>2, SizeAssumption
  <2> SUFFICES ASSUME tracker'[t].tracked
               PROVE  held' <= tracker'[t].shares - Sold("bus", t)' - Sold("mon", t)'
    BY <2>3
  <2>4. /\ tracker'[t].shares \in 0..Size
        /\ 0 <= tracker'[t].shares - Sold("bus", t)' - Sold("mon", t)'
        /\ tracker[t].tracked => tracker[t].shares \in 0..Size
    <3>1. tracker'[t] \in Position
      BY <1>1 DEF Untracked
    <3>2. tracker[t].tracked => tracker[t] \in Position
      BY <1>1, TrackedType DEF TypeInv, TypeOK
    <3>3. 0 <= tracker'[t].shares - Sold("bus", t)' - Sold("mon", t)'
      <4>1. SharesCoverSold'
        BY <1>1, TrackerCoversSold, PTL
      <4> QED BY <4>1 DEF SharesCoverSold
    <3> QED BY <3>1, <3>2, <3>3 DEF Position
  <2>5. ASSUME NEW a \in Tasks, CloseFilled(a), closing[a].pc = "partial_sent",
               closing[a].tid = t, Sold(a, t) = 0, Sold(a, t)' = Half
        PROVE  held' <= tracker'[t].shares - Sold("bus", t)' - Sold("mon", t)'
    <3>1. UNCHANGED tracker /\ \A b \in Tasks : b # a => closing'[b] = closing[b]
      BY <1>1, <2>5 DEF CloseFilled
    <3>2. \A b \in Tasks : b # a => Sold(b, t)' = Sold(b, t)
      BY <3>1 DEF Sold
    <3>3. closing[a].amt = Half
      BY <1>1, <2>5 DEF TypeInv, SharesInv, HalfIsThere, PartialPending
    <3>4. Reduce(s, d, Half)
      BY <1>5, <2>5, <3>3 DEF CloseFilled, ExchangeExecutes
    <3>5. held' = 0 \/ held' = held - Half
      BY <1>1, <1>2, <2>1, <3>4, ReduceFacts, HalfFacts DEF TypeInv, TypeOK
    <3>6. /\ Sold("bus", t) \in {0, Half} /\ Sold("bus", t)' \in {0, Half}
          /\ Sold("mon", t) \in {0, Half} /\ Sold("mon", t)' \in {0, Half}
      BY <1>1, SoldHistory
    <3>7. CASE a = "bus"
      <4>1. /\ Sold("bus", t) = 0 /\ Sold("bus", t)' = Half
            /\ Sold("mon", t)' = Sold("mon", t)
        BY <1>1, <2>5, <3>2, <3>7
      <4>2. held <= tracker'[t].shares - Sold("bus", t) - Sold("mon", t)
        BY <2>1, <3>1
      <4> QED BY <1>3, <2>1, <2>4, <3>5, <3>6, <4>1, <4>2, HalfFacts
    <3>8. CASE a = "mon"
      <4>1. /\ Sold("mon", t) = 0 /\ Sold("mon", t)' = Half
            /\ Sold("bus", t)' = Sold("bus", t)
        BY <1>1, <2>5, <3>2, <3>8
      <4>2. held <= tracker'[t].shares - Sold("bus", t) - Sold("mon", t)
        BY <2>1, <3>1
      <4> QED BY <1>3, <2>1, <2>4, <3>5, <3>6, <4>1, <4>2, HalfFacts
    <3> QED BY <3>7, <3>8 DEF Tasks
  <2>6. CASE /\ tracker[t].tracked /\ tracker'[t].shares = tracker[t].shares
             /\ \A a \in Tasks : Sold(a, t)' = 0 \/ Sold(a, t)' = Sold(a, t)
    <3>1. /\ Sold("bus", t) \in {0, Half} /\ Sold("mon", t) \in {0, Half}
          /\ Sold("bus", t)' = 0 \/ Sold("bus", t)' = Sold("bus", t)
          /\ Sold("mon", t)' = 0 \/ Sold("mon", t)' = Sold("mon", t)
      BY <1>1, <2>6, SoldHistory
    <3> QED BY <1>3, <2>1, <2>2, <2>4, <2>6, <3>1, HalfFacts
  <2>7. ASSUME NEW a \in Tasks, ApplyPartial(a), closing[a].tid = t, tracker[t].tracked,
               tracker'[t].shares = tracker[t].shares - Half
        PROVE  held' <= tracker'[t].shares - Sold("bus", t)' - Sold("mon", t)'
    <3>1. CloseMoves(a) /\ closing'[a].pc = "partial_book"
      BY <1>1, <2>7, CloseGoesOn DEF ApplyPartial
    <3>2. \A b \in Tasks : b # a => Sold(b, t)' = Sold(b, t)
      BY <3>1 DEF Sold, CloseMoves
    <3>3. Sold(a, t) = Half /\ Sold(a, t)' = 0
      BY <2>7, <3>1 DEF Sold, ApplyPartial
    <3>4. Sold("bus", t) \in {0, Half} /\ Sold("mon", t) \in {0, Half}
      BY <1>1, SoldHistory
    <3>5. CASE a = "bus"
      BY <1>3, <2>1, <2>2, <2>4, <2>7, <3>2, <3>3, <3>4, <3>5, <1>1, HalfFacts
    <3>6. CASE a = "mon"
      BY <1>3, <2>1, <2>2, <2>4, <2>7, <3>2, <3>3, <3>4, <3>6, <1>1, HalfFacts
    <3> QED BY <3>5, <3>6 DEF Tasks
  <2>8. CASE /\ RegisterTrade \/ Restart
             /\ opening.tid = t \/ Restart
             /\ tracker'[t] = Register(rows[t])
    <3>1. tracker'[t].shares = Size
      BY <1>5, <2>8, RegisterType
    <3>2. ASSUME NEW a \in Tasks PROVE closing'[a].tid # t \/ closing'[a].pc = "none"
      <4>1. closing' = closing
        BY <2>8 DEF RegisterTrade, Restart, tasks
      <4> QED BY <1>1, <2>8, <4>1 DEF FreshRow, RegisterTrade, Restart, DownIsIdle,
                 NotClosing
    <3>3. Sold("bus", t)' = 0 /\ Sold("mon", t)' = 0
      BY <1>1, <3>2 DEF Sold
    <3> QED BY <2>3, <3>1, <3>3, SizeAssumption
  <2>9. CASE tracker[t].tracked /\ tracker'[t].shares = tracker[t].shares
    BY <1>1, <2>5, <2>6, <2>9, SoldHistory
  <2> QED BY <1>1, <2>7, <2>8, <2>9, TrackerHistory
<1> QED BY <1>1, <1>2, <1>4, <1>5, RowHistory

LEMMA TakeAllStep ==
  ASSUME Watched, SymbolReserved, Exposure, [Next]_vars
  PROVE  ClosesTakeAll'
<1> SUFFICES ASSUME NEW a \in Tasks, NEW t, NEW s, NEW d,
                    closing'[a].pc \in {"full_sent", "full_done"},
                    t = closing'[a].tid, IsOpen(t)',
                    s = rows'[t].sym, d = rows'[t].dir, s \notin orphaned'
             PROVE  /\ closing'[a].pc = "full_sent" => Toward(d, s)' <= closing'[a].amt
                    /\ closing'[a].pc = "full_done" => exch'[s] = 0
  BY DEF ClosesTakeAll, Toward, IsOpen
<1> DEFINE held == Toward(d, s)
<1>1. /\ TypeInv /\ TypeInv'
      /\ orphaned \subseteq orphaned'
      /\ closing \in [Tasks -> Closing] /\ closing' \in [Tasks -> Closing]
      /\ exch \in [Symbols -> Int] /\ exch' \in [Symbols -> Int]
      /\ rows' \in [Trades -> Row \cup {NoRow}]
  BY OrphanedHistory, WatchedStep DEF Watched, TypeInv, TypeOK
<1>2. t \in Trades
  BY <1>1, ClosingType
<1>3. rows'[t] \in Row /\ s \in Symbols /\ d \in Directions
  <2>1. rows'[t] \in Row
    BY <1>1, <1>2 DEF IsOpen, NoRow
  <2> QED BY <2>1 DEF Row
<1>4. held' \in Int /\ held \in Int
  <2>1. exch'[s] \in Int /\ exch[s] \in Int
    BY <1>1, <1>3
  <2> QED BY <2>1 DEF Toward, Signed
<1>5. ASSUME rows[t] \in Row
      PROVE  /\ IsOpen(t) /\ rows[t].sym = s /\ rows[t].dir = d
             /\ held >= 0 /\ held' >= 0 /\ held' <= held
             /\ exch[s] = 0 => exch'[s] = 0
  <2>1. rows[t] # NoRow
    BY <1>5, RowUpdates DEF NoRow
  <2>2. IsOpen(t) /\ rows[t].sym = s /\ rows[t].dir = d
    BY <1>1, <1>2, <1>3, <2>1, RowHistory
  <2>3. held >= 0
    BY <1>1, <1>2, <2>2, SizeAssumption DEF Exposure, RowsCoverShares, OpenRows
  <2>4. ~(OpenFilled /\ opening.sym = s)
    BY <1>2, <2>2 DEF OpenFilled, SymbolReserved, OpenIn, OpenRows
  <2> QED BY <1>1, <1>3, <2>2, <2>3, <2>4, ExchangeShrinks
<1>6. CASE closing'[a] = closing[a]
  <2>1. rows[t] \in Row
    BY <1>1, <1>6 DEF TypeInv, KnownRows
  <2>2. closing[a].amt \in Int
    <3>1. closing[a].amt \in 0..Size
      BY <1>1, <1>6, ClosingType
    <3> QED BY <3>1, SizeAssumption
  <2> QED BY <1>1, <1>4, <1>5, <1>6, <2>1, <2>2
          DEF Exposure, ClosesTakeAll, IsOpen
<1>7. CASE /\ closing[a] = NotClosing /\ tracker[t].tracked
           /\ UNCHANGED <<rows, exch, tracker, opening, history>>
           /\ closing'[a].pc = "full_sent" => closing'[a].amt = tracker[t].shares
           /\ closing'[a].pc # "full_done"
  <2>1. rows[t] \in Row
    BY <1>1, <1>2, <1>7 DEF TypeInv, KnownRows
  <2>2. held <= tracker[t].shares - Sold("bus", t) - Sold("mon", t)
    BY <1>1, <1>2, <1>5, <1>7, <2>1 DEF Exposure, RowsCoverShares, OpenRows
  <2>3. Sold("bus", t) \in {0, Half} /\ Sold("mon", t) \in {0, Half}
    BY DEF Sold
  <2>4. tracker[t].shares \in 0..Size
    BY <1>1, <1>2, <1>7, TrackedType DEF TypeInv, TypeOK, Position
  <2>5. held <= tracker[t].shares
    BY <1>4, <2>2, <2>3, <2>4, HalfFacts
  <2>6. tracker[t].shares \in Int
    BY <2>4, SizeAssumption
  <2> QED BY <1>4, <1>5, <1>7, <2>1, <2>5, <2>6
<1>8. CASE /\ CloseFilled(a) /\ closing[a].pc = "full_sent"
           /\ closing'[a].pc = "full_done" /\ closing'[a].tid = closing[a].tid
  <2>1. rows[t] \in Row
    BY <1>1, <1>8 DEF TypeInv, KnownRows
  <2>2. /\ Reduce(s, d, closing[a].amt)
        /\ held <= closing[a].amt
    BY <1>1, <1>5, <1>8, <2>1
    DEF CloseFilled, ExchangeExecutes, Exposure, ClosesTakeAll, IsOpen
  <2>3. closing[a].amt \in Nat
    <3>1. closing[a].amt \in 0..Size
      BY <1>1, <1>8, ClosingType
    <3> QED BY <3>1, SizeAssumption
  <2>4. exch'[s] = 0
    BY <1>1, <1>3, <1>5, <2>1, <2>2, <2>3, ReduceFacts
  <2> QED BY <1>8, <2>4
<1> QED BY <1>1, <1>6, <1>7, <1>8, ClosingHistory DEF NotClosing

\* Every position on the exchange belongs to an open row, to the order being
\* recorded or to an order lost between the exchange and the table: for any
\* number of trades, in both directions, with partial closes of both tasks,
\* panic, stop orders and stale orders in flight, a row is closed only when the
\* shares behind it are gone.
THEOREM NothingIsNaked == Spec => []NoNakedExposure
<1> DEFINE IInv == Watched /\ OneOpenRowPerSymbol /\ SymbolReserved /\ Exposure
<1>1. Init => IInv
  <2> SUFFICES ASSUME Init PROVE IInv
    OBVIOUS
  <2>1. Watched
    BY WatchedInit
  <2>2. OneOpenRowPerSymbol /\ SymbolReserved
    BY DEF Init, OneOpenRowPerSymbol, SymbolReserved, OpenRows, IsOpen, NoRow, NotOpening
  <2>3. NoNakedExposure /\ FilledIsHeld
    BY DEF Init, NoNakedExposure, FilledIsHeld, NotOpening
  <2>4. RowsCoverShares /\ ClosesTakeAll
    BY DEF Init, RowsCoverShares, ClosesTakeAll, OpenRows, IsOpen, NoRow, NotClosing
  <2> QED BY <2>1, <2>2, <2>3, <2>4 DEF Exposure
<1>2. IInv /\ [Next]_vars => IInv'
  <2> SUFFICES ASSUME IInv, [Next]_vars PROVE IInv'
    OBVIOUS
  <2>1. (OneOpenRowPerSymbol /\ SymbolReserved)'
    BY SymbolStep DEF Watched
  <2> QED BY <2>1, WatchedStep, NakedStep, FilledStep, CoverStep, TakeAllStep
          DEF Exposure
<1>3. IInv => NoNakedExposure
  BY DEF Exposure
<1> QED BY <1>1, <1>2, <1>3, PTL DEF Spec

=============================================================================
