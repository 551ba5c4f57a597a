------------------------ MODULE TradeLifecycleProofs ------------------------
(***************************************************************************)
(* What TradeLifecycle guarantees for any number of trades, symbols,       *)
(* prices, failures and crashes.                                           *)
(***************************************************************************)
EXTENDS TradeLifecycle, TLAPS

Half == Size \div 2

PartialPending(a) == closing[a].pc \in {"partial_sent", "partial_done"}

\* A position whose TP1 flag is down is whole.
WholeUntilTP1 ==
  \A t \in Trades : tracker[t].tracked /\ ~tracker[t].tp1 => tracker[t].shares = Size

\* A partial close on its way takes half of the trade, and the tracker still
\* has that half.
HalfIsThere ==
  \A a \in Tasks : PartialPending(a) =>
    /\ closing[a].amt = Half
    /\ tracker[closing[a].tid].tracked => tracker[closing[a].tid].shares >= Half

\* Two partial closes of one trade may be on their way at once: then neither
\* was applied yet.
TwoHalves ==
  \A a, b \in Tasks :
    /\ a # b /\ PartialPending(a) /\ PartialPending(b)
    /\ closing[a].tid = closing[b].tid
    /\ tracker[closing[a].tid].tracked
    => tracker[closing[a].tid].shares = Size

SharesInv == WholeUntilTP1 /\ HalfIsThere /\ TwoHalves

\* Whatever the process works on has a row in the table.
KnownRows ==
  /\ opening.pc \in {"recorded", "protecting"} => rows[opening.tid] \in Row
  /\ \A t \in Trades : tracker[t].tracked => rows[t] \in Row
  /\ \A a \in Tasks : closing[a].pc # "none" => rows[closing[a].tid] \in Row

TypeInv == TypeOK /\ SharesInv /\ KnownRows

\* While the process is down nothing is tracked and no task is under way.
DownIsIdle ==
  ~up => /\ \A t \in Trades : tracker[t] = Untracked
         /\ \A a \in Tasks : closing[a] = NotClosing
         /\ opening = NotOpening

-----------------------------------------------------------------------------
(***************************************************************************)
(* The data.                                                               *)
(***************************************************************************)
LEMMA HalfFacts == Half \in 1..Size /\ Size - Half = Half /\ Half \in Nat
  BY SizeAssumption DEF Half

LEMMA TP1TriggerNeedsFlagDown ==
  ASSUME NEW row, NEW pos, CheckTriggers(row, pos) = "tp1"
  PROVE  ~pos.tp1
  BY DEF CheckTriggers

LEMMA RegisterType ==
  ASSUME NEW row \in Row
  PROVE  /\ Register(row) \in Position
         /\ Register(row).tracked
         /\ Register(row).shares = Size
         /\ Register(row).tp1 = row.tp1
<1>1. row.entry \in FillPrices /\ row.tp1 \in BOOLEAN
  BY DEF Row
<1>2. Register(row) \in Position
  BY <1>1, SizeAssumption DEF Register, Position
<1>3. Register(row).tracked /\ Register(row).shares = Size
  BY DEF Register
<1>4. Register(row).tp1 = row.tp1
  BY DEF Register
<1> QED BY <1>2, <1>3, <1>4

LEMMA UpdatePriceType ==
  ASSUME NEW row, NEW pos \in Position, NEW p \in Prices
  PROVE  /\ UpdatePrice(row, pos, p) \in Position
         /\ UpdatePrice(row, pos, p).tracked
         /\ UpdatePrice(row, pos, p).shares = pos.shares
         /\ UpdatePrice(row, pos, p).tp1 = pos.tp1
  BY DEF UpdatePrice, Position

LEMMA RowUpdates ==
  ASSUME NEW row \in Row
  PROVE  /\ row.status \in {"open", "closed"}
         /\ [row EXCEPT !.tp1 = TRUE] \in Row
         /\ \A why \in Reasons : ClosedRow(row, why) \in Row
<1>1. row.status \in {"open", "closed"} /\ [row EXCEPT !.tp1 = TRUE] \in Row
  BY DEF Row
<1>2. [row EXCEPT !.status = "closed"] \in Row
  BY DEF Row
<1>3. ASSUME NEW r \in Row, NEW why \in Reasons
      PROVE  [r EXCEPT !.reason = why] \in Row
  BY <1>3 DEF Row
<1> QED BY <1>1, <1>2, <1>3 DEF ClosedRow

LEMMA PartiallyClosedType ==
  ASSUME NEW pos \in Position, NEW amt \in Nat, pos.shares >= amt
  PROVE  /\ PartiallyClosed(pos, amt) \in Position
         /\ PartiallyClosed(pos, amt).tracked
         /\ PartiallyClosed(pos, amt).tp1
         /\ PartiallyClosed(pos, amt).shares = pos.shares - amt
<1> DEFINE flagged == [pos EXCEPT !.tp1 = TRUE]
           n == flagged.shares - amt
<1>1. flagged \in Position /\ flagged.shares = pos.shares /\ flagged.tp1
  BY DEF Position
<1>2. n \in 0..Size /\ n = pos.shares - amt
  BY <1>1, SizeAssumption DEF Position
<1> HIDE DEF flagged, n
<1>3. /\ [flagged EXCEPT !.shares = n] \in Position
      /\ [flagged EXCEPT !.shares = n].shares = n
  BY <1>1, <1>2 DEF Position
<1>4. [flagged EXCEPT !.shares = n].tp1 /\ [flagged EXCEPT !.shares = n].tracked
  BY <1>1 DEF Position
<1> QED BY <1>2, <1>3, <1>4 DEF PartiallyClosed, flagged, n

LEMMA OpenRowType ==
  ASSUME rows \in [Trades -> Row \cup {NoRow}], NEW t \in Trades, IsOpen(t)
  PROVE  rows[t] \in Row
  BY DEF IsOpen, NoRow

LEMMA TrackedType ==
  ASSUME tracker \in [Trades -> Position \cup {Untracked}], NEW t \in Trades,
         tracker[t].tracked
  PROVE  tracker[t] \in Position
  BY DEF Untracked

LEMMA ClosingType ==
  ASSUME NEW c \in Closing, c.pc # "none"
  PROVE  /\ c.tid \in Trades /\ c.amt \in 0..Size
         /\ c.pc \in {"full_sent", "full_done", "full_booked"} => c.why \in Reasons
         /\ c.pc = "partial_sent" => [c EXCEPT !.pc = "partial_done"] \in Closing
         /\ c.pc = "partial_done" => [c EXCEPT !.pc = "partial_book"] \in Closing
         /\ c.pc = "full_sent" => [c EXCEPT !.pc = "full_done"] \in Closing
         /\ c.pc = "full_done" => [c EXCEPT !.pc = "full_booked"] \in Closing
  BY DEF Closing, NotClosing

LEMMA OpeningType ==
  ASSUME NEW o \in Opening
  PROVE  /\ o.pc \in {"ordering", "filled"} => o.sym \in Symbols /\ o.dir \in Directions
         /\ o.pc = "filled" => o.entry \in FillPrices
         /\ o.pc \in {"recorded", "protecting"} => o.tid \in Trades
         /\ o.pc = "recorded" =>
              /\ [o EXCEPT !.pc = "protecting"] \in Opening
              /\ [o EXCEPT !.pc = "protecting"].pc = "protecting"
  BY DEF Opening, NotOpening

LEMMA FaultType ==
  ASSUME faults \in 0..MaxFaults, Fault
  PROVE  faults' \in 0..MaxFaults
  BY LifecycleAssumption DEF Fault

LEMMA ReduceType ==
  ASSUME exch \in [Symbols -> Int], NEW s, NEW dir, NEW amt \in Int,
         Reduce(s, dir, amt)
  PROVE  exch' \in [Symbols -> Int]
<1>1. ASSUME s \in Symbols
      PROVE  exch[s] - Signed(dir, ReduceOnlyFill(s, dir, amt)) \in Int
  BY <1>1 DEF Signed, Held, ReduceOnlyFill
<1> QED BY <1>1 DEF Reduce

-----------------------------------------------------------------------------
(***************************************************************************)
(* Steps that leave the shares alone.                                      *)
(***************************************************************************)
LEMMA SharesFrame ==
  SharesInv /\ UNCHANGED <<tracker, closing>> => SharesInv'
  BY DEF SharesInv, WholeUntilTP1, HalfIsThere, TwoHalves, PartialPending

\* A close that ends, or that is past the point where its shares are taken off,
\* leaves the shares as they are.
LEMMA SharesAfterClose ==
  ASSUME SharesInv, UNCHANGED tracker, NEW a \in Tasks, closing \in [Tasks -> Closing],
         NEW c, closing' = [closing EXCEPT ![a] = c],
         c.pc \notin {"partial_sent", "partial_done"}
  PROVE  SharesInv'
<1>1. WholeUntilTP1'
  BY DEF SharesInv, WholeUntilTP1
<1>2. \A b \in Tasks : PartialPending(b)' => b # a /\ closing'[b] = closing[b]
                                             /\ PartialPending(b)
  BY DEF PartialPending
<1>3. HalfIsThere'
  BY <1>2 DEF SharesInv, HalfIsThere
<1>4. TwoHalves'
  BY <1>2 DEF SharesInv, TwoHalves
<1> QED BY <1>1, <1>3, <1>4 DEF SharesInv

\* The sending of half of a whole position.
LEMMA StartPartialStep ==
  ASSUME TypeInv, UNCHANGED <<rows, tracker>>, NEW a \in Tasks, NEW t \in Trades,
         closing[a] = NotClosing, tracker[t].tracked, ~tracker[t].tp1,
         StartPartial(a, t)
  PROVE  /\ closing' \in [Tasks -> Closing]
         /\ SharesInv'
         /\ \A b \in Tasks : closing'[b].pc # "none" => rows[closing'[b].tid] \in Row
<1> DEFINE c == [pc |-> "partial_sent", tid |-> t, amt |-> Half, why |-> "tp1"]
<1>1. tracker[t].shares = Size
  BY DEF TypeInv, SharesInv, WholeUntilTP1
<1>2. closing' = [closing EXCEPT ![a] = c]
  BY <1>1 DEF StartPartial, PartialAmount, Half
<1>3. c \in Closing
  BY HalfFacts DEF Closing
<1>4. closing' \in [Tasks -> Closing]
  BY <1>2, <1>3 DEF TypeInv, TypeOK
<1>5. rows[t] \in Row
  BY DEF TypeInv, KnownRows
<1>6. \A b \in Tasks : b # a => closing'[b] = closing[b]
  BY <1>2 DEF TypeInv, TypeOK
<1>7. closing'[a] = c
  BY <1>2 DEF TypeInv, TypeOK
<1>8. \A b \in Tasks : closing'[b].pc # "none" => rows[closing'[b].tid] \in Row
  BY <1>5, <1>6, <1>7 DEF TypeInv, KnownRows
<1>9. WholeUntilTP1'
  BY DEF TypeInv, SharesInv, WholeUntilTP1
<1>10. HalfIsThere'
  <2> SUFFICES ASSUME NEW b \in Tasks, PartialPending(b)'
               PROVE  /\ closing'[b].amt = Half
                      /\ tracker[closing'[b].tid].tracked
                           => tracker[closing'[b].tid].shares >= Half
    BY DEF HalfIsThere
  <2>1. CASE b = a
    BY <2>1, <1>1, <1>7, HalfFacts
  <2>2. CASE b # a
    BY <2>2, <1>6 DEF TypeInv, SharesInv, HalfIsThere, PartialPending
  <2> QED BY <2>1, <2>2
<1>11. TwoHalves'
  <2> SUFFICES ASSUME NEW b \in Tasks, NEW d \in Tasks, b # d,
                      PartialPending(b)', PartialPending(d)',
                      closing'[b].tid = closing'[d].tid,
                      tracker[closing'[b].tid].tracked
               PROVE  tracker[closing'[b].tid].shares = Size
    BY DEF TwoHalves
  <2>1. CASE b = a \/ d = a
    BY <2>1, <1>1, <1>7
  <2>2. CASE b # a /\ d # a
    BY <2>2, <1>6 DEF TypeInv, SharesInv, TwoHalves, PartialPending
  <2> QED BY <2>1, <2>2
<1> QED BY <1>4, <1>8, <1>9, <1>10, <1>11 DEF SharesInv

LEMMA StartFullStep ==
  ASSUME TypeInv, UNCHANGED <<rows, tracker>>, NEW a \in Tasks, NEW t \in Trades,
         tracker[t].tracked, NEW why \in Reasons, StartFull(a, t, why)
  PROVE  /\ closing' \in [Tasks -> Closing]
         /\ SharesInv'
         /\ \A b \in Tasks : closing'[b].pc # "none" => rows[closing'[b].tid] \in Row
<1> DEFINE c == [pc |-> "full_sent", tid |-> t, amt |-> tracker[t].shares,
                 why |-> why]
<1>1. closing' = [closing EXCEPT ![a] = c]
  BY DEF StartFull, FullAmount
<1>2. tracker[t].shares \in 0..Size
  BY TrackedType DEF TypeInv, TypeOK, Position
<1>3. c \in Closing
  BY <1>2 DEF Closing
<1>4. closing' \in [Tasks -> Closing]
  BY <1>1, <1>3 DEF TypeInv, TypeOK
<1>5. SharesInv'
  BY <1>1, SharesAfterClose DEF TypeInv, TypeOK
<1>6. rows[t] \in Row
  BY DEF TypeInv, KnownRows
<1>7. \A b \in Tasks : closing'[b].pc # "none" => rows[closing'[b].tid] \in Row
  BY <1>1, <1>6 DEF TypeInv, TypeOK, KnownRows
<1> QED BY <1>4, <1>5, <1>7

-----------------------------------------------------------------------------
(***************************************************************************)
(* Every step of the system.                                               *)
(***************************************************************************)
LEMMA TypeInit == Init => TypeInv
<1> SUFFICES ASSUME Init PROVE TypeInv
  OBVIOUS
<1>1. TypeOK
  BY LifecycleAssumption
  DEF Init, TypeOK, Untracked, NoRow, NotOpening, NotClosing, Opening, Closing
<1>2. SharesInv
  BY DEF Init, SharesInv, WholeUntilTP1, HalfIsThere, TwoHalves, PartialPending,
     Untracked, NotClosing
<1>3. KnownRows
  BY DEF Init, KnownRows, Untracked, NotOpening, NotClosing
<1> QED BY <1>1, <1>2, <1>3 DEF TypeInv

LEMMA ContinueOpenType == TypeInv /\ ContinueOpen => TypeInv'
<1> SUFFICES ASSUME TypeInv, ContinueOpen PROVE TypeInv'
  OBVIOUS
<1> USE DEF TypeInv, durable, history
<1>1. opening \in Opening /\ NotOpening \in Opening
  BY DEF TypeOK, Opening
<1>2. UNCHANGED closing
  BY DEF ContinueOpen, OpenRejected, OpenFilled, OpenAbandoned, RecordTrade,
     RegisterTrade, PlaceStopLoss
<1>3. CASE OpenRejected
  <2>1. TypeOK'
    BY <1>1, <1>3 DEF OpenRejected, TypeOK
  <2>2. SharesInv'
    BY <1>2, <1>3, SharesFrame DEF OpenRejected
  <2>3. KnownRows'
    BY <1>3 DEF OpenRejected, KnownRows, NotOpening
  <2> QED BY <2>1, <2>2, <2>3
<1>4. CASE OpenFilled
  <2>0. opening.sym \in Symbols /\ opening.dir \in Directions
    BY <1>1, <1>4, OpeningType DEF OpenFilled
  <2>1. opening' \in Opening /\ opening'.pc = "filled"
    <3>1. PICK p \in FillPrices :
            opening' = [pc |-> "filled", sym |-> opening.sym, dir |-> opening.dir,
                        entry |-> p]
      BY <1>4 DEF OpenFilled
    <3> QED BY <2>0, <3>1 DEF Opening
  <2>2. exch' \in [Symbols -> Int]
    <3>1. exch[opening.sym] + Signed(opening.dir, Size) \in Int
      BY <2>0, SizeAssumption DEF Signed, TypeOK
    <3> QED BY <1>4, <2>0, <3>1 DEF OpenFilled, TypeOK
  <2>3. TypeOK'
    BY <1>4, <2>1, <2>2 DEF OpenFilled, TypeOK
  <2>4. SharesInv'
    BY <1>2, <1>4, SharesFrame DEF OpenFilled
  <2>5. KnownRows'
    BY <1>4, <2>1 DEF OpenFilled, KnownRows
  <2> QED BY <2>3, <2>4, <2>5
<1>5. CASE OpenAbandoned
  <2>1. TypeOK'
    BY <1>1, <1>5, OpeningType, FaultType DEF OpenAbandoned, TypeOK
  <2>2. SharesInv'
    BY <1>2, <1>5, SharesFrame DEF OpenAbandoned
  <2>3. KnownRows'
    BY <1>5 DEF OpenAbandoned, KnownRows, NotOpening
  <2> QED BY <2>1, <2>2, <2>3
<1>6. CASE RecordTrade
  <2> DEFINE row == [status |-> "open", sym |-> opening.sym, dir |-> opening.dir,
                     entry |-> opening.entry, tp1 |-> FALSE, reason |-> ""]
  <2>1. PICK t \in Trades : /\ rows[t] = NoRow
                            /\ rows' = [rows EXCEPT ![t] = row]
                            /\ opening' = [pc |-> "recorded", tid |-> t]
    BY <1>6 DEF RecordTrade
  <2>2. row \in Row
    BY <1>1, <1>6, OpeningType DEF RecordTrade, Row
  <2>3. opening' \in Opening
    BY <2>1 DEF Opening
  <2>4. rows' \in [Trades -> Row \cup {NoRow}]
    BY <2>1, <2>2 DEF TypeOK
  <2>5. TypeOK'
    BY <1>6, <2>3, <2>4 DEF RecordTrade, TypeOK
  <2>6. SharesInv'
    BY <1>2, <1>6, SharesFrame DEF RecordTrade
  <2>7. rows'[t] \in Row /\ \A u \in Trades : rows[u] \in Row => rows'[u] \in Row
    BY <2>1, <2>2 DEF TypeOK
  <2>8. \A a \in Tasks : closing[a].pc # "none" => closing[a].tid \in Trades
    BY ClosingType DEF TypeOK
  <2>9. KnownRows'
    BY <1>2, <1>6, <2>1, <2>7, <2>8 DEF RecordTrade, KnownRows
  <2> QED BY <2>5, <2>6, <2>9
<1>7. CASE RegisterTrade
  <2> DEFINE t == opening.tid
  <2>1. t \in Trades /\ rows[t] \in Row
    BY <1>1, <1>7, OpeningType DEF RegisterTrade, KnownRows
  <2>2. tracker' = [tracker EXCEPT ![t] = Register(rows[t])]
    BY <1>7 DEF RegisterTrade, TrackerAfterRecord
  <2>3. opening' \in Opening /\ opening'.tid = t
    BY <1>1, <1>7, OpeningType DEF RegisterTrade, Opening
  <2>4. tracker' \in [Trades -> Position \cup {Untracked}]
    BY <2>1, <2>2, RegisterType DEF TypeOK
  <2>5. TypeOK'
    BY <1>7, <2>3, <2>4 DEF RegisterTrade, TypeOK
  <2>6. /\ tracker'[t].shares = Size
        /\ \A u \in Trades : u # t => tracker'[u] = tracker[u]
    BY <2>1, <2>2, RegisterType DEF TypeOK
  <2>7. \A a \in Tasks : closing[a].pc # "none" => closing[a].tid \in Trades
    BY ClosingType DEF TypeOK
  <2>8. WholeUntilTP1'
    BY <2>6 DEF SharesInv, WholeUntilTP1
  <2>9. HalfIsThere'
    BY <1>2, <2>6, <2>7, HalfFacts DEF SharesInv, HalfIsThere, PartialPending
  <2>10. TwoHalves'
    BY <1>2, <2>6, <2>7 DEF SharesInv, TwoHalves, PartialPending
  <2>11. KnownRows'
    BY <1>2, <1>7, <2>1, <2>3, <2>6 DEF RegisterTrade, KnownRows
  <2> QED BY <2>5, <2>8, <2>9, <2>10, <2>11 DEF SharesInv
<1>8. CASE PlaceStopLoss
  <2>1. TypeOK'
    BY <1>1, <1>8, OpeningType DEF PlaceStopLoss, TypeOK
  <2>2. SharesInv'
    BY <1>2, <1>8, SharesFrame DEF PlaceStopLoss
  <2>3. KnownRows'
    BY <1>8 DEF PlaceStopLoss, KnownRows, NotOpening
  <2> QED BY <2>1, <2>2, <2>3
<1> QED BY <1>3, <1>4, <1>5, <1>6, <1>7, <1>8 DEF ContinueOpen

LEMMA StartCloseType ==
  ASSUME TypeInv, NEW t \in Trades, StartClose(t)
  PROVE  TypeInv'
<1> USE DEF TypeInv, durable, history
<1>1. PICK a \in Tasks : \/ \E why \in Reasons : StartFull(a, t, why)
                         \/ /\ StartPartial(a, t)
                            /\ closing[a] = NotClosing
                            /\ ~tracker[t].tp1
  <2>1. CASE MonitorStep(t)
    BY <2>1, TP1TriggerNeedsFlagDown
    DEF MonitorStep, Tasks, FullCloseTriggers, Reasons
  <2>2. CASE TakeProfitEvent(t)
    BY <2>2 DEF TakeProfitEvent, ListenerIdle, Tasks
  <2>3. CASE StopAlertEvent(t)
    BY <2>3 DEF StopAlertEvent, Tasks, Reasons
  <2> QED BY <2>1, <2>2, <2>3 DEF StartClose
<1>2. /\ UNCHANGED <<durable, tracker, opening, panicTodo, up, loaded, faults,
                     crashes, history>>
      /\ tracker[t].tracked
  BY DEF StartClose, MonitorStep, TakeProfitEvent, StopAlertEvent
<1>3. /\ closing' \in [Tasks -> Closing]
      /\ SharesInv'
      /\ \A b \in Tasks : closing'[b].pc # "none" => rows[closing'[b].tid] \in Row
  BY <1>1, <1>2, StartPartialStep, StartFullStep
<1>4. TypeOK'
  BY <1>2, <1>3 DEF TypeOK
<1>5. KnownRows'
  BY <1>2, <1>3 DEF KnownRows
<1> QED BY <1>3, <1>4, <1>5

\* A close in progress moves on, or ends; the other one does not notice.
CloseMoves(a) ==
  /\ closing' \in [Tasks -> Closing]
  /\ \A b \in Tasks : b # a => closing'[b] = closing[b]
  /\ closing'[a].pc # "none" => /\ closing'[a].tid = closing[a].tid
                                /\ closing'[a].amt = closing[a].amt
                                /\ closing'[a].why = closing[a].why

LEMMA CloseEnds ==
  ASSUME closing \in [Tasks -> Closing], NEW a \in Tasks,
         closing' = [closing EXCEPT ![a] = NotClosing]
  PROVE  CloseMoves(a) /\ closing'[a] = NotClosing
<1>1. NotClosing \in Closing /\ NotClosing.pc = "none"
  BY DEF Closing, NotClosing
<1> QED BY <1>1 DEF CloseMoves

LEMMA CloseGoesOn ==
  ASSUME closing \in [Tasks -> Closing], NEW a \in Tasks, NEW pc,
         \/ closing[a].pc = "partial_sent" /\ pc = "partial_done"
         \/ closing[a].pc = "partial_done" /\ pc = "partial_book"
         \/ closing[a].pc = "full_sent" /\ pc = "full_done"
         \/ closing[a].pc = "full_done" /\ pc = "full_booked",
         closing' = [closing EXCEPT ![a].pc = pc]
  PROVE  CloseMoves(a) /\ closing'[a].pc = pc
<1> DEFINE c == [closing[a] EXCEPT !.pc = pc]
<1>1. closing[a] \in Closing /\ closing[a].pc # "none"
  OBVIOUS
<1>2. c \in Closing
  BY <1>1, ClosingType
<1>3. /\ c.pc = pc /\ c.tid = closing[a].tid /\ c.amt = closing[a].amt
      /\ c.why = closing[a].why
  BY <1>1 DEF Closing, NotClosing
<1>4. closing' = [closing EXCEPT ![a] = c]
  OBVIOUS
<1> HIDE DEF c
<1> QED BY <1>2, <1>3, <1>4 DEF CloseMoves

LEMMA SharesAfterMove ==
  ASSUME SharesInv, NEW a \in Tasks, CloseMoves(a), closing[a].pc # "none",
         UNCHANGED tracker,
         closing'[a].pc = "partial_done" => closing[a].pc = "partial_sent",
         closing'[a].pc # "partial_sent"
  PROVE  SharesInv'
<1>1. \A b \in Tasks : PartialPending(b)' =>
        /\ PartialPending(b)
        /\ closing'[b].tid = closing[b].tid /\ closing'[b].amt = closing[b].amt
  BY DEF PartialPending, CloseMoves
<1>2. WholeUntilTP1'
  BY DEF SharesInv, WholeUntilTP1
<1>3. HalfIsThere'
  BY <1>1 DEF SharesInv, HalfIsThere
<1>4. TwoHalves'
  BY <1>1 DEF SharesInv, TwoHalves
<1> QED BY <1>2, <1>3, <1>4 DEF SharesInv

LEMMA KnownRowsAfterMove ==
  ASSUME KnownRows, NEW a \in Tasks, CloseMoves(a), closing[a].pc # "none",
         UNCHANGED opening, opening \in Opening, closing \in [Tasks -> Closing],
         \A u \in Trades : rows[u] \in Row => rows'[u] \in Row,
         \A u \in Trades : tracker'[u].tracked => tracker[u].tracked
  PROVE  KnownRows'
<1>1. \A b \in Tasks : closing[b].pc # "none" => closing[b].tid \in Trades
  BY ClosingType
<1>2. opening.pc \in {"recorded", "protecting"} => opening.tid \in Trades
  BY OpeningType
<1>3. \A b \in Tasks : closing'[b].pc # "none" =>
        closing[b].pc # "none" /\ closing'[b].tid = closing[b].tid
  BY DEF CloseMoves
<1> QED BY <1>1, <1>2, <1>3 DEF KnownRows

LEMMA ContinueCloseType ==
  ASSUME TypeInv, NEW a \in Tasks, ContinueClose(a)
  PROVE  TypeInv'
<1> DEFINE t == closing[a].tid
<1> USE DEF TypeInv, durable, history
<1>1. closing[a].pc # "none" /\ closing \in [Tasks -> Closing] /\ opening \in Opening
  BY DEF TypeOK, ContinueClose, CloseFilled, CloseRefused, CloseFillLost,
     ApplyPartial, BookPartial, BookClose, BookFails, FinishClose, InFlight
<1>2. t \in Trades /\ closing[a].amt \in 0..Size /\ rows[t] \in Row
  BY <1>1, ClosingType DEF KnownRows
<1>3. CASE CloseFilled(a)
  <2>1. /\ CloseMoves(a)
        /\ closing'[a].pc = IF closing[a].pc = "partial_sent" THEN "partial_done"
                                                              ELSE "full_done"
    BY <1>1, <1>3, CloseGoesOn DEF CloseFilled, InFlight
  <2>2. exch' \in [Symbols -> Int]
    BY <1>2, <1>3, ReduceType DEF CloseFilled, ExchangeExecutes, TypeOK
  <2>3. TypeOK'
    BY <1>3, <2>1, <2>2 DEF CloseFilled, CloseMoves, TypeOK
  <2>4. SharesInv'
    BY <1>1, <1>3, <2>1, SharesAfterMove DEF CloseFilled
  <2>5. KnownRows'
    BY <1>1, <1>3, <2>1, KnownRowsAfterMove DEF CloseFilled
  <2> QED BY <2>3, <2>4, <2>5
<1>4. CASE CloseRefused(a)
  <2>1. CloseMoves(a) /\ closing'[a].pc = "none"
    BY <1>1, <1>4, CloseEnds DEF CloseRefused, NotClosing
  <2>2. TypeOK'
    BY <1>4, <2>1, FaultType DEF CloseRefused, CloseMoves, TypeOK
  <2>3. SharesInv'
    BY <1>1, <1>4, <2>1, SharesAfterMove DEF CloseRefused
  <2>4. KnownRows'
    BY <1>1, <1>4, <2>1, KnownRowsAfterMove DEF CloseRefused
  <2> QED BY <2>2, <2>3, <2>4
<1>5. CASE CloseFillLost(a)
  <2>1. CloseMoves(a) /\ closing'[a].pc = "none"
    BY <1>1, <1>5, CloseEnds DEF CloseFillLost, NotClosing
  <2>2. exch' \in [Symbols -> Int]
    BY <1>2, <1>5, ReduceType DEF CloseFillLost, ExchangeExecutes, TypeOK
  <2>3. TypeOK'
    BY <1>5, <2>1, <2>2, FaultType DEF CloseFillLost, CloseMoves, TypeOK
  <2>4. SharesInv'
    BY <1>1, <1>5, <2>1, SharesAfterMove DEF CloseFillLost
  <2>5. KnownRows'
    BY <1>1, <1>5, <2>1, KnownRowsAfterMove DEF CloseFillLost
  <2> QED BY <2>3, <2>4, <2>5
<1>6. CASE ApplyPartial(a)
  <2> DEFINE half == PartiallyClosed(tracker[t], closing[a].amt)
  <2>1. CloseMoves(a) /\ closing'[a].pc = "partial_book"
    BY <1>1, <1>6, CloseGoesOn DEF ApplyPartial
  <2>2. PartialPending(a) /\ closing[a].amt = Half
    BY <1>6 DEF ApplyPartial, PartialPending, SharesInv, HalfIsThere
  <2>3. ASSUME tracker[t].tracked
        PROVE  /\ tracker[t] \in Position /\ half \in Position
               /\ half.tp1 /\ half.tracked
               /\ half.shares = tracker[t].shares - Half
    <3>1. tracker[t] \in Position
      BY <1>2, <2>3, TrackedType DEF TypeOK
    <3>2. tracker[t].shares >= closing[a].amt /\ closing[a].amt \in Nat
      BY <2>2, <2>3, HalfFacts DEF SharesInv, HalfIsThere
    <3> QED BY <2>2, <3>1, <3>2, PartiallyClosedType
  <2>4. /\ tracker' \in [Trades -> Position \cup {Untracked}]
        /\ tracker'[t] = IF tracker[t].tracked THEN half ELSE tracker[t]
        /\ \A u \in Trades : u # t => tracker'[u] = tracker[u]
    BY <1>2, <1>6, <2>3 DEF ApplyPartial, TypeOK
  <2> HIDE DEF half
  <2>5. TypeOK'
    BY <1>6, <2>1, <2>4 DEF ApplyPartial, CloseMoves, TypeOK
  <2>6. WholeUntilTP1'
    BY <2>3, <2>4 DEF SharesInv, WholeUntilTP1
  <2>7. \A b \in Tasks : PartialPending(b)' =>
          /\ b # a /\ PartialPending(b) /\ closing'[b] = closing[b]
          /\ closing[b].tid \in Trades
    BY <1>1, <2>1, ClosingType DEF PartialPending, CloseMoves
  <2>8. HalfIsThere'
    <3> SUFFICES ASSUME NEW b \in Tasks, PartialPending(b)'
                 PROVE  /\ closing'[b].amt = Half
                        /\ tracker'[closing'[b].tid].tracked
                             => tracker'[closing'[b].tid].shares >= Half
      BY DEF HalfIsThere
    <3>1. CASE closing[b].tid = t /\ tracker[t].tracked
      <4>1. tracker[t].shares = Size
        BY <2>2, <2>7, <3>1 DEF SharesInv, TwoHalves
      <4>2. tracker'[t].shares = Half
        BY <2>3, <2>4, <3>1, <4>1, HalfFacts
      <4> QED BY <2>7, <3>1, <4>2, HalfFacts DEF SharesInv, HalfIsThere
    <3>2. CASE ~(closing[b].tid = t /\ tracker[t].tracked)
      BY <2>4, <2>7, <3>2 DEF SharesInv, HalfIsThere
    <3> QED BY <3>1, <3>2
  <2>9. TwoHalves'
    BY <2>7 DEF TwoHalves, Tasks
  <2>10. KnownRows'
    BY <1>1, <1>6, <2>1, <2>4, KnownRowsAfterMove DEF ApplyPartial
  <2> QED BY <2>5, <2>6, <2>8, <2>9, <2>10 DEF SharesInv
<1>7. CASE BookPartial(a)
  <2>1. CloseMoves(a) /\ closing'[a].pc = "none"
    BY <1>1, <1>7, CloseEnds DEF BookPartial, NotClosing
  <2>2. /\ rows' \in [Trades -> Row \cup {NoRow}]
        /\ \A u \in Trades : rows[u] \in Row => rows'[u] \in Row
    BY <1>2, <1>7, RowUpdates DEF BookPartial, TypeOK
  <2>3. TypeOK'
    BY <1>7, <2>1, <2>2 DEF BookPartial, CloseMoves, TypeOK
  <2>4. SharesInv'
    BY <1>1, <1>7, <2>1, SharesAfterMove DEF BookPartial
  <2>5. KnownRows'
    BY <1>1, <1>7, <2>1, <2>2, KnownRowsAfterMove DEF BookPartial
  <2> QED BY <2>3, <2>4, <2>5
<1>8. CASE BookClose(a)
  <2>1. CloseMoves(a) /\ closing'[a].pc = "full_booked"
    BY <1>1, <1>8, CloseGoesOn DEF BookClose
  <2>2. closing[a].why \in Reasons
    BY <1>1, <1>8, ClosingType DEF BookClose
  <2>3. /\ rows' \in [Trades -> Row \cup {NoRow}]
        /\ \A u \in Trades : rows[u] \in Row => rows'[u] \in Row
    BY <1>2, <1>8, <2>2, RowUpdates DEF BookClose, TypeOK
  <2>4. TypeOK'
    BY <1>8, <2>1, <2>3 DEF BookClose, CloseMoves, TypeOK
  <2>5. SharesInv'
    BY <1>1, <1>8, <2>1, SharesAfterMove DEF BookClose
  <2>6. KnownRows'
    BY <1>1, <1>8, <2>1, <2>3, KnownRowsAfterMove DEF BookClose
  <2> QED BY <2>4, <2>5, <2>6
<1>9. CASE BookFails(a)
  <2>1. CloseMoves(a) /\ closing'[a].pc = "none"
    BY <1>1, <1>9, CloseEnds DEF BookFails, NotClosing
  <2>2. TypeOK'
    BY <1>9, <2>1, FaultType DEF BookFails, CloseMoves, TypeOK
  <2>3. SharesInv'
    BY <1>1, <1>9, <2>1, SharesAfterMove DEF BookFails
  <2>4. KnownRows'
    BY <1>1, <1>9, <2>1, KnownRowsAfterMove DEF BookFails
  <2> QED BY <2>2, <2>3, <2>4
<1>10. CASE FinishClose(a)
  <2>1. CloseMoves(a) /\ closing'[a].pc = "none"
    BY <1>1, <1>10, CloseEnds DEF FinishClose, NotClosing
  <2>2. /\ tracker' \in [Trades -> Position \cup {Untracked}]
        /\ \A u \in Trades : tracker'[u].tracked =>
             tracker[u].tracked /\ tracker'[u] = tracker[u]
    BY <1>2, <1>10 DEF FinishClose, TrackerAfterClose, TypeOK, Untracked
  <2>3. TypeOK'
    BY <1>2, <1>10, <2>1, <2>2 DEF FinishClose, CloseMoves, TypeOK
  <2>4. \A b \in Tasks : PartialPending(b)' =>
          /\ PartialPending(b) /\ closing'[b] = closing[b]
          /\ closing[b].tid \in Trades
    BY <1>1, <2>1, ClosingType DEF PartialPending, CloseMoves
  <2>5. SharesInv'
    BY <2>2, <2>4 DEF SharesInv, WholeUntilTP1, HalfIsThere, TwoHalves
  <2>6. KnownRows'
    BY <1>1, <1>10, <2>1, <2>2, KnownRowsAfterMove DEF FinishClose
  <2> QED BY <2>3, <2>5, <2>6
<1> QED BY <1>3, <1>4, <1>5, <1>6, <1>7, <1>8, <1>9, <1>10 DEF ContinueClose

LEMMA EnvironmentType ==
  ASSUME TypeInv, \/ PanicEvent
                  \/ ContinuePanic
                  \/ \E s \in Symbols : PriceUpdate(s)
                  \/ \E t \in Trades : StopLossFires(t)
                  \/ UNCHANGED vars
  PROVE  TypeInv'
<1> USE DEF TypeInv, durable, history, tasks
<1>1. CASE PanicEvent
  BY <1>1, SharesFrame DEF PanicEvent, OpenRows, TypeOK, KnownRows
<1>2. CASE ContinuePanic
  <2>1. PICK t \in Trades : PanicClose(t) \/ PanicCloseFails(t)
    BY <1>2 DEF ContinuePanic
  <2>2. CASE PanicClose(t)
    <3>1. exch' \in [Symbols -> Int]
      BY <2>2, ReduceType, SizeAssumption DEF PanicClose, TypeOK
    <3> QED BY <2>2, <3>1, SharesFrame DEF PanicClose, TypeOK, KnownRows
  <2>3. CASE PanicCloseFails(t)
    BY <2>3, SharesFrame, FaultType DEF PanicCloseFails, TypeOK, KnownRows
  <2> QED BY <2>1, <2>2, <2>3
<1>3. ASSUME NEW s \in Symbols, PriceUpdate(s) PROVE TypeInv'
  <2>1. PICK p \in Prices :
          tracker' = [t \in Trades |->
            IF tracker[t].tracked /\ rows[t].sym = s
            THEN UpdatePrice(rows[t], tracker[t], p) ELSE tracker[t]]
    BY <1>3 DEF PriceUpdate
  <2>2. ASSUME NEW t \in Trades
        PROVE  /\ tracker'[t] \in Position \cup {Untracked}
               /\ tracker'[t].tracked <=> tracker[t].tracked
               /\ tracker[t].tracked => /\ tracker'[t].shares = tracker[t].shares
                                        /\ tracker'[t].tp1 = tracker[t].tp1
    <3>1. CASE tracker[t].tracked /\ rows[t].sym = s
      <4>1. tracker[t] \in Position
        BY <3>1, TrackedType DEF TypeOK
      <4>2. tracker'[t] = UpdatePrice(rows[t], tracker[t], p)
        BY <2>1, <3>1
      <4> QED BY <3>1, <4>1, <4>2, UpdatePriceType
    <3>2. CASE ~(tracker[t].tracked /\ rows[t].sym = s)
      BY <2>1, <3>2 DEF TypeOK
    <3> QED BY <3>1, <3>2
  <2>3. tracker' \in [Trades -> Position \cup {Untracked}]
    BY <2>1, <2>2
  <2>4. TypeOK'
    BY <1>3, <2>3 DEF PriceUpdate, TypeOK
  <2>5. \A a \in Tasks : closing[a].pc # "none" => closing[a].tid \in Trades
    BY ClosingType DEF TypeOK
  <2>6. UNCHANGED <<rows, opening, closing>>
    BY <1>3 DEF PriceUpdate
  <2>7. WholeUntilTP1'
    BY <2>2 DEF SharesInv, WholeUntilTP1
  <2>8. HalfIsThere'
    BY <2>2, <2>5, <2>6 DEF SharesInv, HalfIsThere, PartialPending
  <2>9. TwoHalves'
    BY <2>2, <2>5, <2>6 DEF SharesInv, TwoHalves, PartialPending
  <2>10. KnownRows'
    BY <2>2, <2>6 DEF KnownRows
  <2> QED BY <2>4, <2>7, <2>8, <2>9, <2>10 DEF SharesInv
<1>4. ASSUME NEW t \in Trades, StopLossFires(t) PROVE TypeInv'
  <2>1. exch' \in [Symbols -> Int]
    BY <1>4, ReduceType, SizeAssumption DEF StopLossFires, TypeOK
  <2> QED BY <1>4, <2>1, SharesFrame DEF StopLossFires, TypeOK, KnownRows
<1>5. CASE UNCHANGED vars
  BY <1>5, SharesFrame DEF vars, TypeOK, KnownRows
<1> QED BY <1>1, <1>2, <1>3, <1>4, <1>5

LEMMA CrashType == TypeInv /\ Crash => TypeInv'
<1> SUFFICES ASSUME TypeInv, Crash PROVE TypeInv'
  OBVIOUS
<1> USE DEF TypeInv, durable
<1>1. opening.pc = "filled" => opening.sym \in Symbols
  BY OpeningType DEF TypeOK
<1>2. TypeOK'
  <2>1. NotOpening \in Opening /\ NotClosing \in Closing
    BY DEF Opening, Closing
  <2>2. crashes' \in 0..MaxCrashes
    BY LifecycleAssumption DEF Crash, TypeOK
  <2>3. orphaned' \subseteq Symbols
    BY <1>1 DEF Crash, TypeOK
  <2> QED BY <2>1, <2>2, <2>3 DEF Crash, TypeOK
<1>3. SharesInv'
  BY DEF Crash, SharesInv, WholeUntilTP1, HalfIsThere, TwoHalves, PartialPending,
     Untracked, NotClosing
<1>4. KnownRows'
  BY DEF Crash, KnownRows, Untracked, NotOpening, NotClosing
<1> QED BY <1>2, <1>3, <1>4

LEMMA RestartType == TypeInv /\ DownIsIdle /\ Restart => TypeInv'
<1> SUFFICES ASSUME TypeInv, DownIsIdle, Restart PROVE TypeInv'
  OBVIOUS
<1> USE DEF TypeInv, durable, tasks, history
<1>1. ASSUME NEW t \in Trades
      PROVE  /\ tracker'[t] \in Position \cup {Untracked}
             /\ tracker'[t].tracked => rows[t] \in Row /\ tracker'[t].shares = Size
  <2>1. CASE tracker' = tracker
    BY <2>1 DEF Restart, DownIsIdle, Untracked
  <2>2. CASE tracker' = [u \in Trades |->
               IF IsOpen(u) THEN Register(rows[u]) ELSE Untracked]
    <3>1. CASE IsOpen(t)
      BY <2>2, <3>1, OpenRowType, RegisterType DEF TypeOK
    <3>2. CASE ~IsOpen(t)
      BY <2>2, <3>2 DEF Untracked
    <3> QED BY <3>1, <3>2
  <2> QED BY <2>1, <2>2 DEF Restart
<1>2. tracker' \in [Trades -> Position \cup {Untracked}]
  <2>1. tracker' = [t \in Trades |-> tracker'[t]]
    BY DEF Restart, TypeOK
  <2> QED BY <1>1, <2>1
<1>3. TypeOK'
  BY <1>2, FaultType DEF Restart, TypeOK
<1>4. /\ opening' = NotOpening
      /\ \A a \in Tasks : closing'[a] = NotClosing
  BY DEF Restart, DownIsIdle
<1>5. SharesInv'
  BY <1>1, <1>4
  DEF SharesInv, WholeUntilTP1, HalfIsThere, TwoHalves, PartialPending, NotClosing
<1>6. KnownRows'
  BY <1>1, <1>4 DEF Restart, KnownRows, NotOpening, NotClosing
<1> QED BY <1>3, <1>5, <1>6

LEMMA ReceiveSignalType ==
  ASSUME TypeInv, NEW s \in Symbols, NEW d \in Directions, ReceiveSignal(s, d)
  PROVE  TypeInv'
<1> USE DEF TypeInv, durable, history
<1>1. TypeOK'
  BY DEF ReceiveSignal, TypeOK, Opening
<1>2. SharesInv'
  BY SharesFrame DEF ReceiveSignal
<1>3. KnownRows'
  BY DEF ReceiveSignal, KnownRows
<1> QED BY <1>1, <1>2, <1>3

LEMMA DownIsIdleStep == TypeOK /\ DownIsIdle /\ [Next]_vars => DownIsIdle'
<1> SUFFICES ASSUME TypeOK, DownIsIdle, [Next]_vars PROVE DownIsIdle'
  OBVIOUS
<1> USE DEF DownIsIdle, durable, history, tasks
<1>1. CASE Crash
  BY <1>1 DEF Crash
<1>2. CASE Restart
  BY <1>2 DEF Restart
<1>3. CASE ~up /\ ~Crash /\ ~Restart
  <2>1. UNCHANGED <<up, opening, closing, tracker>>
    <3>1. ASSUME NEW a \in Tasks PROVE ~ContinueClose(a)
      BY <1>3, <3>1 DEF ContinueClose, CloseFilled, CloseRefused, CloseFillLost,
         ApplyPartial, BookPartial, BookClose, BookFails, FinishClose, InFlight,
         NotClosing
    <3>2. ~ContinueOpen
      <4>1. opening.pc = "none"
        BY <1>3 DEF NotOpening
      <4> QED BY <4>1 DEF ContinueOpen, OpenRejected, OpenFilled, OpenAbandoned,
                 RecordTrade, RegisterTrade, PlaceStopLoss
    <3>3. ASSUME NEW t \in Trades PROVE ~StartClose(t)
      BY <1>3 DEF StartClose, MonitorStep, TakeProfitEvent, StopAlertEvent, ListenerIdle
    <3>4. /\ ~PanicEvent
          /\ \A s \in Symbols : ~PriceUpdate(s)
          /\ \A s \in Symbols, d \in Directions : ~ReceiveSignal(s, d)
      BY <1>3 DEF PanicEvent, PriceUpdate, ReceiveSignal, ListenerIdle
    <3>5. CASE ContinuePanic
      BY <3>5 DEF ContinuePanic, PanicClose, PanicCloseFails
    <3>6. CASE \E t \in Trades : StopLossFires(t)
      BY <3>6 DEF StopLossFires
    <3>7. CASE UNCHANGED vars
      BY <3>7 DEF vars
    <3> QED BY <1>3, <3>1, <3>2, <3>3, <3>4, <3>5, <3>6, <3>7 DEF Next
  <2> QED BY <1>3, <2>1
<1>4. CASE up /\ ~Crash /\ ~Restart
  <2>1. UNCHANGED up
    BY <1>4 DEF Next, ReceiveSignal, ContinueOpen, OpenRejected, OpenFilled, 
       OpenAbandoned, RecordTrade, RegisterTrade, PlaceStopLoss,
       StartClose, MonitorStep, TakeProfitEvent, StopAlertEvent,
       ContinueClose, CloseFilled, CloseRefused, CloseFillLost,
       ApplyPartial, BookPartial, BookClose, BookFails, FinishClose,
       PanicEvent, ContinuePanic, PanicClose, PanicCloseFails, PriceUpdate,
       StopLossFires, vars
  <2> QED BY <1>4, <2>1
<1> QED BY <1>1, <1>2, <1>3, <1>4

LEMMA TypeStep == TypeInv /\ DownIsIdle /\ [Next]_vars => TypeInv'
<1> SUFFICES ASSUME TypeInv, DownIsIdle, [Next]_vars PROVE TypeInv'
  OBVIOUS
<1> QED BY ReceiveSignalType, ContinueOpenType, StartCloseType, ContinueCloseType,
           EnvironmentType, CrashType, RestartType DEF Next

\* Whatever the constants, every state the system reaches is well typed; in
\* particular the tracker never holds less than no shares, although the bus
\* and the monitor loop may both be taking half of the same position off.
THEOREM TypeCorrect == Spec => []TypeOK
<1>1. Init => TypeInv /\ DownIsIdle
  BY TypeInit DEF Init, DownIsIdle
<1>2. TypeInv /\ DownIsIdle /\ [Next]_vars => (TypeInv /\ DownIsIdle)'
  BY TypeStep, DownIsIdleStep DEF TypeInv
<1>3. TypeInv => TypeOK
  BY DEF TypeInv
<1> QED BY <1>1, <1>2, <1>3, PTL DEF Spec

-----------------------------------------------------------------------------
(***************************************************************************)
(* The table.  Three steps write it; each of them is looked at once.       *)
(***************************************************************************)
TP1Written(t) ==
  /\ IsOpen(t) /\ ~rows[t].tp1
  /\ rows' = [rows EXCEPT ![t].tp1 = TRUE]

CloseWritten(t, why) ==
  /\ IsOpen(t)
  /\ rows' = [rows EXCEPT ![t] = ClosedRow(@, why)]

LEMMA RowsChange ==
  ASSUME TypeInv, [Next]_vars
  PROVE  \/ UNCHANGED rows
         \/ RecordTrade
         \/ /\ UNCHANGED opening
            /\ \E t \in Trades : \/ TP1Written(t)
                                 \/ \E why \in Reasons : CloseWritten(t, why)
<1>1. ASSUME NEW a \in Tasks, BookPartial(a), rows' # rows
      PROVE  UNCHANGED opening /\ \E t \in Trades : TP1Written(t)
  <2>1. closing[a].tid \in Trades
    BY <1>1, ClosingType DEF BookPartial, TypeInv, TypeOK
  <2>2. TP1Written(closing[a].tid)
    BY <1>1 DEF BookPartial, MayBookTP1, TP1Written
  <2> QED BY <1>1, <2>1, <2>2 DEF BookPartial
<1>2. ASSUME NEW a \in Tasks, BookClose(a), rows' # rows
      PROVE  /\ UNCHANGED opening
             /\ \E t \in Trades, why \in Reasons : CloseWritten(t, why)
  <2>1. closing[a].tid \in Trades /\ closing[a].why \in Reasons
    BY <1>2, ClosingType DEF BookClose, TypeInv, TypeOK
  <2>2. CloseWritten(closing[a].tid, closing[a].why)
    BY <1>2 DEF BookClose, MayBookClose, CloseWritten
  <2> QED BY <1>2, <2>1, <2>2 DEF BookClose
<1>3. ASSUME NEW a \in Tasks, ContinueClose(a), ~BookPartial(a), ~BookClose(a)
      PROVE  UNCHANGED rows
  BY <1>3 DEF ContinueClose, CloseFilled, CloseRefused, CloseFillLost, ApplyPartial,
     BookFails, FinishClose, durable
<1>4. ContinueOpen => RecordTrade \/ UNCHANGED rows
  BY DEF ContinueOpen, OpenRejected, OpenFilled, OpenAbandoned, RegisterTrade,
     PlaceStopLoss, durable
<1>5. ASSUME NEW t \in Trades, StartClose(t) PROVE UNCHANGED rows
  BY <1>5 DEF StartClose, MonitorStep, TakeProfitEvent, StopAlertEvent, durable
<1>6. ASSUME \/ \E s \in Symbols, d \in Directions : ReceiveSignal(s, d)
             \/ PanicEvent
             \/ ContinuePanic
             \/ \E s \in Symbols : PriceUpdate(s)
             \/ \E t \in Trades : StopLossFires(t)
             \/ Crash
             \/ Restart
             \/ UNCHANGED vars
      PROVE  UNCHANGED rows
  BY <1>6 DEF ReceiveSignal, PanicEvent, ContinuePanic, PanicClose, PanicCloseFails,
     PriceUpdate, StopLossFires, Crash, Restart, vars, durable
<1> QED BY <1>1, <1>2, <1>3, <1>4, <1>5, <1>6 DEF Next, ContinueClose

LEMMA WrittenRows ==
  ASSUME rows \in [Trades -> Row \cup {NoRow}], NEW t \in Trades
  PROVE  /\ TP1Written(t) =>
              /\ \A u \in Trades : u # t => rows'[u] = rows[u]
              /\ rows[t] \in Row
              /\ rows'[t] = [rows[t] EXCEPT !.tp1 = TRUE]
              /\ rows'[t].status = "open" /\ rows'[t].sym = rows[t].sym
              /\ rows'[t].dir = rows[t].dir /\ rows'[t].reason = rows[t].reason
              /\ rows'[t].tp1 = TRUE
         /\ \A why \in Reasons : CloseWritten(t, why) =>
              /\ \A u \in Trades : u # t => rows'[u] = rows[u]
              /\ rows[t] \in Row
              /\ rows'[t].status = "closed" /\ rows'[t].sym = rows[t].sym
              /\ rows'[t].dir = rows[t].dir /\ rows'[t].reason = why
              /\ rows'[t].tp1 = rows[t].tp1
<1>1. ASSUME IsOpen(t) PROVE rows[t] \in Row
  BY <1>1, OpenRowType
<1>2. ASSUME NEW row \in Row
      PROVE  LET r == [row EXCEPT !.tp1 = TRUE]
             IN  /\ r.status = row.status /\ r.sym = row.sym /\ r.dir = row.dir
                 /\ r.reason = row.reason /\ r.tp1 = TRUE
  BY DEF Row
<1>3. ASSUME NEW row \in Row, NEW why \in Reasons
      PROVE  LET r == ClosedRow(row, why)
             IN  /\ r.status = "closed" /\ r.sym = row.sym /\ r.dir = row.dir
                 /\ r.reason = why /\ r.tp1 = row.tp1
  <2> DEFINE c == [row EXCEPT !.status = "closed"]
  <2>1. /\ c \in Row
        /\ c.status = "closed" /\ c.sym = row.sym /\ c.dir = row.dir
        /\ c.tp1 = row.tp1
    BY DEF Row
  <2> HIDE DEF c
  <2>2. LET r == [c EXCEPT !.reason = why]
        IN  /\ r.status = c.status /\ r.sym = c.sym /\ r.dir = c.dir
            /\ r.reason = why /\ r.tp1 = c.tp1
    BY <2>1 DEF Row
  <2>3. ClosedRow(row, why) = [c EXCEPT !.reason = why]
    BY DEF ClosedRow, c
  <2> QED BY <2>1, <2>2, <2>3
<1>4. ASSUME TP1Written(t)
      PROVE  /\ rows'[t] = [rows[t] EXCEPT !.tp1 = TRUE]
             /\ \A u \in Trades : u # t => rows'[u] = rows[u]
  BY <1>4 DEF TP1Written
<1>5. ASSUME NEW why \in Reasons, CloseWritten(t, why)
      PROVE  /\ rows'[t] = ClosedRow(rows[t], why)
             /\ \A u \in Trades : u # t => rows'[u] = rows[u]
  BY <1>5 DEF CloseWritten
<1>6. ASSUME TP1Written(t)
      PROVE  /\ rows[t] \in Row
             /\ rows'[t].status = "open" /\ rows'[t].sym = rows[t].sym
             /\ rows'[t].dir = rows[t].dir /\ rows'[t].reason = rows[t].reason
             /\ rows'[t].tp1 = TRUE
  <2>1. IsOpen(t)
    BY <1>6 DEF TP1Written
  <2> QED BY <1>1, <1>2, <1>4, <1>6, <2>1 DEF IsOpen
<1>7. ASSUME NEW why \in Reasons, CloseWritten(t, why)
      PROVE  /\ rows[t] \in Row
             /\ rows'[t].status = "closed" /\ rows'[t].sym = rows[t].sym
             /\ rows'[t].dir = rows[t].dir /\ rows'[t].reason = why
             /\ rows'[t].tp1 = rows[t].tp1
  <2>1. IsOpen(t)
    BY <1>7 DEF CloseWritten
  <2> QED BY <1>1, <1>3, <1>5, <1>7, <2>1
<1> QED BY <1>4, <1>5, <1>6, <1>7

-----------------------------------------------------------------------------
(***************************************************************************)
(* One open row per symbol.  The risk check reads an empty table for the   *)
(* symbol, and awaits much before the row is inserted: the symbol stays    *)
(* free because only the bus task inserts rows.                            *)
(***************************************************************************)
SymbolReserved ==
  opening.pc \in {"ordering", "filled"} => OpenIn(opening.sym) = {}

LEMMA NoNewOpenRow ==
  ASSUME OneOpenRowPerSymbol, SymbolReserved,
         \A t \in Trades : IsOpen(t)' => IsOpen(t) /\ rows'[t].sym = rows[t].sym,
         opening'.pc \in {"ordering", "filled"} =>
           opening.pc \in {"ordering", "filled"} /\ opening'.sym = opening.sym
  PROVE  (OneOpenRowPerSymbol /\ SymbolReserved)'
<1>1. \A t \in OpenRows' : t \in OpenRows /\ rows'[t].sym = rows[t].sym
  BY DEF OpenRows
<1>2. OneOpenRowPerSymbol'
  BY <1>1 DEF OneOpenRowPerSymbol
<1>3. SymbolReserved'
  BY <1>1 DEF SymbolReserved, OpenIn
<1> QED BY <1>2, <1>3

LEMMA RecordedRow ==
  ASSUME TypeInv, RecordTrade
  PROVE  /\ opening.pc = "filled"
         /\ opening.sym \in Symbols /\ opening.dir \in Directions
         /\ \E t \in Trades :
              /\ rows[t] = NoRow
              /\ opening' = [pc |-> "recorded", tid |-> t]
              /\ rows'[t] = [status |-> "open", sym |-> opening.sym,
                             dir |-> opening.dir, entry |-> opening.entry,
                             tp1 |-> FALSE, reason |-> ""]
              /\ \A u \in Trades : u # t => rows'[u] = rows[u]
<1>1. opening.pc = "filled" /\ opening.sym \in Symbols /\ opening.dir \in Directions
  BY OpeningType DEF RecordTrade, TypeInv, TypeOK
<1>2. PICK t \in Trades :
        /\ rows[t] = NoRow
        /\ opening' = [pc |-> "recorded", tid |-> t]
        /\ rows' = [rows EXCEPT ![t] =
             [status |-> "open", sym |-> opening.sym, dir |-> opening.dir,
              entry |-> opening.entry, tp1 |-> FALSE, reason |-> ""]]
  BY DEF RecordTrade
<1>3. rows \in [Trades -> Row \cup {NoRow}]
  BY DEF TypeInv, TypeOK
<1> QED BY <1>1, <1>2, <1>3

LEMMA SymbolStep ==
  ASSUME TypeInv, OneOpenRowPerSymbol, SymbolReserved, [Next]_vars
  PROVE  (OneOpenRowPerSymbol /\ SymbolReserved)'
<1>1. CASE RecordTrade
  <2> DEFINE row == [status |-> "open", sym |-> opening.sym, dir |-> opening.dir,
                     entry |-> opening.entry, tp1 |-> FALSE, reason |-> ""]
  <2>0. PICK t \in Trades :
          /\ opening' = [pc |-> "recorded", tid |-> t]
          /\ rows'[t] = row
          /\ \A u \in Trades : u # t => rows'[u] = rows[u]
    BY <1>1, RecordedRow, Zenon
  <2>1. /\ opening'.pc = "recorded"
        /\ rows'[t].status = "open" /\ rows'[t].sym = opening.sym
    <3>1. row.status = "open" /\ row.sym = opening.sym
      OBVIOUS
    <3>2. opening'.pc = "recorded"
      BY <2>0
    <3> HIDE DEF row
    <3> QED BY <2>0, <3>1, <3>2
  <2>2. OpenIn(opening.sym) = {}
    BY <1>1, RecordedRow DEF SymbolReserved
  <2>3. \A u \in OpenRows' : u # t => u \in OpenRows /\ rows'[u] = rows[u]
    BY <2>0 DEF OpenRows, IsOpen
  <2>4. OneOpenRowPerSymbol'
    <3> SUFFICES ASSUME NEW u \in OpenRows', NEW v \in OpenRows',
                        rows'[u].sym = rows'[v].sym
                 PROVE  u = v
      BY DEF OneOpenRowPerSymbol
    <3>1. u # t => rows[u].sym # opening.sym
      BY <2>2, <2>3 DEF OpenIn
    <3>2. v # t => rows[v].sym # opening.sym
      BY <2>2, <2>3 DEF OpenIn
    <3>3. CASE u # t /\ v # t
      BY <2>3, <3>3 DEF OneOpenRowPerSymbol
    <3>4. CASE u = t \/ v = t
      BY <2>1, <2>3, <3>1, <3>2, <3>4
    <3> QED BY <3>3, <3>4
  <2>5. SymbolReserved'
    BY <2>1 DEF SymbolReserved
  <2> QED BY <2>4, <2>5
<1>2. CASE \E s \in Symbols, d \in Directions : ReceiveSignal(s, d)
  BY <1>2 DEF ReceiveSignal, MayOpen, OpenIn, OpenRows, IsOpen, OneOpenRowPerSymbol,
     SymbolReserved, durable
<1>3. CASE ~RecordTrade /\ ~(\E s \in Symbols, d \in Directions : ReceiveSignal(s, d))
  <2>1. \A t \in Trades : IsOpen(t)' => IsOpen(t) /\ rows'[t].sym = rows[t].sym
    BY <1>3, RowsChange, WrittenRows DEF IsOpen, TP1Written, TypeInv, TypeOK
  <2>2. opening'.pc \in {"ordering", "filled"} =>
          opening.pc \in {"ordering", "filled"} /\ opening'.sym = opening.sym
    <3>1. CASE UNCHANGED opening
      BY <3>1
    <3>2. CASE OpenFilled
      BY <3>2 DEF OpenFilled
    <3>3. opening'.pc \notin {"ordering", "filled"} \/ UNCHANGED opening \/ OpenFilled
      <4>1. \/ ContinueOpen \/ Crash \/ UNCHANGED opening
        BY <1>3 DEF Next, StartClose, MonitorStep, TakeProfitEvent, StopAlertEvent,
           ContinueClose, CloseFilled, CloseRefused, CloseFillLost, ApplyPartial,
           BookPartial, BookClose, BookFails, FinishClose, PanicEvent, ContinuePanic,
           PanicClose, PanicCloseFails, PriceUpdate, StopLossFires, Restart, vars, tasks
      <4>2. CASE ContinueOpen
        <5>1. CASE RegisterTrade
          BY <5>1, OpeningType DEF RegisterTrade, TypeInv, TypeOK
        <5>2. CASE OpenRejected \/ OpenAbandoned \/ PlaceStopLoss
          BY <5>2 DEF OpenRejected, OpenAbandoned, PlaceStopLoss, NotOpening
        <5> QED BY <1>3, <4>2, <5>1, <5>2 DEF ContinueOpen
      <4>3. CASE Crash
        BY <4>3 DEF Crash, NotOpening
      <4> QED BY <4>1, <4>2, <4>3
    <3> QED BY <3>1, <3>2, <3>3
  <2> QED BY <2>1, <2>2, NoNewOpenRow
<1> QED BY <1>1, <1>2, <1>3

\* At most one open row per symbol in every reachable state, for any number of
\* trades and any failures: a crash, a failed insertion or a panic in the middle
\* of an open does not let a second row in.
THEOREM OneRowPerSymbol == Spec => []OneOpenRowPerSymbol
<1>1. Init => /\ TypeInv /\ DownIsIdle
              /\ OneOpenRowPerSymbol /\ SymbolReserved
  BY TypeInit DEF Init, DownIsIdle, OneOpenRowPerSymbol, SymbolReserved, OpenRows,
     IsOpen, NoRow, NotOpening
<1>2. TypeInv /\ DownIsIdle /\ OneOpenRowPerSymbol /\ SymbolReserved /\ [Next]_vars
        => (TypeInv /\ DownIsIdle /\ OneOpenRowPerSymbol /\ SymbolReserved)'
  BY TypeStep, DownIsIdleStep, SymbolStep DEF TypeInv
<1> QED BY <1>1, <1>2, PTL DEF Spec

-----------------------------------------------------------------------------
(***************************************************************************)
(* The process watches every open row.  A position leaves the tracker only *)
(* behind the closing entry of its row, and a closed row stays closed.     *)
(***************************************************************************)
BookedIsClosed ==
  \A a \in Tasks : closing[a].pc = "full_booked" =>
    rows[closing[a].tid].status = "closed"

LEMMA ClosedStays ==
  ASSUME TypeInv, [Next]_vars, NEW t \in Trades, rows[t].status = "closed"
  PROVE  rows'[t].status = "closed"
<1>1. CASE UNCHANGED rows
  BY <1>1
<1>2. CASE RecordTrade
  <2>1. PICK u \in Trades : /\ rows[u] = NoRow
                            /\ \A v \in Trades : v # u => rows'[v] = rows[v]
    BY <1>2, RecordedRow, Zenon
  <2> QED BY <2>1 DEF NoRow
<1>3. ASSUME NEW u \in Trades, TP1Written(u) \/ \E why \in Reasons : CloseWritten(u, why)
      PROVE  rows'[t] = rows[t]
  <2>1. t # u
    BY <1>3 DEF TP1Written, CloseWritten, IsOpen
  <2> QED BY <1>3, <2>1, WrittenRows DEF TypeInv, TypeOK
<1> QED BY <1>1, <1>2, <1>3, RowsChange

LEMMA BookedIsClosedStep ==
  ASSUME TypeInv, BookedIsClosed, [Next]_vars
  PROVE  BookedIsClosed'
<1> SUFFICES ASSUME NEW a \in Tasks, closing'[a].pc = "full_booked"
             PROVE  rows'[closing'[a].tid].status = "closed"
  BY DEF BookedIsClosed
<1>1. closing \in [Tasks -> Closing] /\ rows \in [Trades -> Row \cup {NoRow}]
  BY DEF TypeInv, TypeOK
<1>2. ASSUME closing'[a] = closing[a] PROVE rows'[closing'[a].tid].status = "closed"
  <2>1. closing[a].tid \in Trades /\ rows[closing[a].tid].status = "closed"
    BY <1>1, <1>2, ClosingType DEF BookedIsClosed
  <2> QED BY <1>2, <2>1, ClosedStays
<1>3. ASSUME NEW b \in Tasks, ContinueClose(b) PROVE BookClose(a) \/ closing'[a] = closing[a]
  <2>1. CASE a # b
    BY <1>1, <1>3, <2>1 DEF ContinueClose, CloseFilled, CloseRefused, CloseFillLost,
       ApplyPartial, BookPartial, BookClose, BookFails, FinishClose
  <2>2. CASE a = b
    <3>1. ASSUME closing'[a] = NotClosing PROVE FALSE
      BY <3>1 DEF NotClosing
    <3>2. ~(CloseRefused(a) \/ CloseFillLost(a) \/ BookPartial(a) \/ BookFails(a)
              \/ FinishClose(a))
      BY <1>1, <3>1 DEF CloseRefused, CloseFillLost, BookPartial, BookFails, FinishClose
    <3>3. CloseFilled(a) => closing'[a].pc \in {"partial_done", "full_done"}
      BY <1>1, CloseGoesOn DEF CloseFilled, InFlight
    <3>4. ApplyPartial(a) => closing'[a].pc = "partial_book"
      BY <1>1, CloseGoesOn DEF ApplyPartial
    <3> QED BY <1>3, <2>2, <3>2, <3>3, <3>4 DEF ContinueClose
  <2> QED BY <2>1, <2>2
<1>4. ASSUME BookClose(a) PROVE rows'[closing'[a].tid].status = "closed"
  <2> DEFINE t == closing[a].tid
  <2>1. /\ closing'[a].tid = t /\ t \in Trades /\ rows[t] \in Row
        /\ closing[a].why \in Reasons
    BY <1>1, <1>4, CloseGoesOn, ClosingType DEF BookClose, CloseMoves, TypeInv, KnownRows
  <2>2. CASE IsOpen(t)
    BY <1>1, <1>4, <2>1, <2>2, WrittenRows DEF BookClose, MayBookClose, CloseWritten
  <2>3. CASE ~IsOpen(t)
    BY <1>4, <2>1, <2>3, RowUpdates DEF BookClose, MayBookClose, IsOpen
  <2> QED BY <2>1, <2>2, <2>3
<1>5. ASSUME NEW t \in Trades, StartClose(t) PROVE closing'[a] = closing[a]
  <2>1. ASSUME NEW b \in Tasks, StartPartial(b, t) PROVE closing'[a] = closing[a]
    BY <1>1, <2>1 DEF StartPartial
  <2>2. ASSUME NEW b \in Tasks, NEW why, StartFull(b, t, why)
        PROVE  closing'[a] = closing[a]
    BY <1>1, <2>2 DEF StartFull
  <2> QED BY <1>5, <2>1, <2>2 DEF StartClose, MonitorStep, TakeProfitEvent,
             StopAlertEvent, Tasks
<1>6. ~Crash
  BY DEF Crash, NotClosing
<1>7. ASSUME \/ \E s \in Symbols, d \in Directions : ReceiveSignal(s, d)
             \/ ContinueOpen
             \/ PanicEvent
             \/ ContinuePanic
             \/ \E s \in Symbols : PriceUpdate(s)
             \/ \E t \in Trades : StopLossFires(t)
             \/ Restart
             \/ UNCHANGED vars
      PROVE  UNCHANGED closing
  BY <1>7 DEF ReceiveSignal, ContinueOpen, OpenRejected, OpenFilled, OpenAbandoned,
     RecordTrade, RegisterTrade, PlaceStopLoss, PanicEvent, ContinuePanic, PanicClose,
     PanicCloseFails, PriceUpdate, StopLossFires, Restart, vars, tasks
<1> QED BY <1>2, <1>3, <1>4, <1>5, <1>6, <1>7 DEF Next

LEMMA OpenRowsTrackedStep ==
  ASSUME TypeInv, DownIsIdle, BookedIsClosed, OpenRowsTracked, [Next]_vars
  PROVE  OpenRowsTracked'
<1> SUFFICES ASSUME up', loaded', NEW t \in Trades, IsOpen(t)'
             PROVE  \/ tracker'[t].tracked
                    \/ opening'.pc = "recorded" /\ opening'.tid = t
  BY DEF OpenRowsTracked, OpenRows
<1> USE DEF durable, history, tasks
<1>1. /\ rows \in [Trades -> Row \cup {NoRow}]
      /\ tracker \in [Trades -> Position \cup {Untracked}]
      /\ closing \in [Tasks -> Closing] /\ opening \in Opening
  BY DEF TypeInv, TypeOK
<1>0. ASSUME IsOpen(t), UNCHANGED <<up, loaded>>
      PROVE  tracker[t].tracked \/ (opening.pc = "recorded" /\ opening.tid = t)
  BY <1>0, Zenon DEF OpenRowsTracked, OpenRows
<1>2. ASSUME ~RecordTrade PROVE IsOpen(t)
  BY <1>1, <1>2, RowsChange, WrittenRows DEF IsOpen, TP1Written
<1>3. CASE RecordTrade
  <2>1. PICK u \in Trades : /\ opening' = [pc |-> "recorded", tid |-> u]
                            /\ \A v \in Trades : v # u => rows'[v] = rows[v]
    BY <1>3, RecordedRow, Zenon
  <2>2. opening'.pc = "recorded" /\ opening'.tid = u
    BY <2>1
  <2>3. CASE t = u
    BY <2>2, <2>3
  <2>4. CASE t # u
    <3>1. IsOpen(t) /\ opening.pc = "filled" /\ UNCHANGED <<tracker, up, loaded>>
      BY <1>3, <2>1, <2>4 DEF IsOpen, RecordTrade
    <3> QED BY <3>1 DEF OpenRowsTracked, OpenRows
  <2> QED BY <2>3, <2>4
<1>4. CASE Restart
  <2>1. \/ tracker' = [u \in Trades |->
             IF IsOpen(u) THEN Register(rows[u]) ELSE Untracked]
        \/ loaded' = FALSE
    BY <1>4 DEF Restart
  <2>2. IsOpen(t) /\ rows[t] \in Row
    BY <1>1, <1>4, OpenRowType DEF Restart, IsOpen
  <2> QED BY <2>1, <2>2, RegisterType
<1>5. CASE RegisterTrade
  <2>1. IsOpen(t) /\ up /\ loaded /\ opening.pc = "recorded"
    BY <1>5 DEF RegisterTrade, IsOpen
  <2>2. opening.tid \in Trades /\ rows[opening.tid] \in Row
    BY <1>1, <2>1, OpeningType DEF TypeInv, KnownRows
  <2>3. tracker' = [tracker EXCEPT ![opening.tid] = Register(rows[opening.tid])]
    BY <1>5 DEF RegisterTrade, TrackerAfterRecord
  <2>4. CASE t = opening.tid
    BY <1>1, <2>2, <2>3, <2>4, RegisterType
  <2>5. CASE t # opening.tid
    BY <1>1, <2>1, <2>2, <2>3, <2>5 DEF OpenRowsTracked, OpenRows
  <2> QED BY <2>4, <2>5
<1>6. ASSUME NEW a \in Tasks, FinishClose(a)
      PROVE  tracker'[t].tracked \/ (opening'.pc = "recorded" /\ opening'.tid = t)
  <2>1. t # closing[a].tid /\ IsOpen(t) /\ UNCHANGED <<opening, up, loaded>>
    BY <1>6 DEF FinishClose, BookedIsClosed, IsOpen
  <2>2. tracker'[t] = tracker[t]
    BY <1>1, <1>6, <2>1 DEF FinishClose, TrackerAfterClose
  <2> QED BY <1>0, <2>1, <2>2
<1>7. ASSUME NEW a \in Tasks, ApplyPartial(a)
      PROVE  tracker'[t].tracked \/ (opening'.pc = "recorded" /\ opening'.tid = t)
  <2>1. IsOpen(t) /\ UNCHANGED <<opening, up, loaded>>
    BY <1>7 DEF ApplyPartial, IsOpen
  <2>2. tracker[t].tracked => PartiallyClosed(tracker[t], closing[a].amt).tracked
    <3>1. ASSUME NEW pos \in Position, NEW amt PROVE PartiallyClosed(pos, amt).tracked
      <4> DEFINE flagged == [pos EXCEPT !.tp1 = TRUE]
                 n == flagged.shares - amt
      <4>1. flagged \in Position
        BY DEF Position
      <4> HIDE DEF flagged, n
      <4>2. [flagged EXCEPT !.shares = n].tracked
        BY <4>1 DEF Position
      <4> QED BY <4>2 DEF PartiallyClosed, flagged, n
    <3> QED BY <1>1, <3>1, TrackedType
  <2>3. tracker[t].tracked => tracker'[t].tracked
    BY <1>1, <1>7, <2>2 DEF ApplyPartial
  <2> QED BY <1>0, <2>1, <2>3
<1>8. ASSUME NEW s \in Symbols, PriceUpdate(s)
      PROVE  tracker'[t].tracked \/ (opening'.pc = "recorded" /\ opening'.tid = t)
  <2>1. IsOpen(t) /\ UNCHANGED <<opening, up, loaded>>
    BY <1>8 DEF PriceUpdate, IsOpen
  <2>2. tracker[t].tracked => tracker'[t].tracked
    BY <1>1, <1>8, TrackedType, UpdatePriceType DEF PriceUpdate
  <2> QED BY <1>0, <2>1, <2>2
<1>9. ASSUME IsOpen(t), UNCHANGED <<tracker, up, loaded>>,
             opening' = opening \/ opening.pc # "recorded"
      PROVE  tracker'[t].tracked \/ (opening'.pc = "recorded" /\ opening'.tid = t)
  BY <1>0, <1>9
<1>10. ASSUME NEW a \in Tasks, ContinueClose(a), ~FinishClose(a), ~ApplyPartial(a)
       PROVE  UNCHANGED <<tracker, up, loaded, opening>>
  BY <1>10 DEF ContinueClose, CloseFilled, CloseRefused, CloseFillLost, BookPartial,
     BookClose, BookFails
<1>11. ASSUME ContinueOpen, ~RecordTrade, ~RegisterTrade
       PROVE  UNCHANGED <<tracker, up, loaded>> /\ opening.pc # "recorded"
  BY <1>11 DEF ContinueOpen, OpenRejected, OpenFilled, OpenAbandoned, PlaceStopLoss
<1>12. ASSUME \/ \E u \in Trades : StartClose(u)
              \/ PanicEvent
              \/ ContinuePanic
              \/ \E u \in Trades : StopLossFires(u)
              \/ UNCHANGED vars
       PROVE  UNCHANGED <<tracker, up, loaded, opening>>
  BY <1>12 DEF StartClose, MonitorStep, TakeProfitEvent, StopAlertEvent, PanicEvent,
     ContinuePanic, PanicClose, PanicCloseFails, StopLossFires, vars
<1>13. ASSUME NEW s \in Symbols, NEW d \in Directions, ReceiveSignal(s, d)
       PROVE  UNCHANGED <<tracker, up, loaded>> /\ opening.pc # "recorded"
  BY <1>13 DEF ReceiveSignal, ListenerIdle, NotOpening
<1>14. ~Crash
  BY DEF Crash
<1> QED BY <1>2, <1>3, <1>4, <1>5, <1>6, <1>7, <1>8, <1>9, <1>10, <1>11, <1>12, <1>13,
           <1>14 DEF Next

\* Every open row has an entry in the tracker, but for the one between its
\* insertion and its registration, as long as the last start could read the
\* table: neither a panic nor a close of the other task makes one go unwatched.
THEOREM OpenRowsAreTracked == Spec => []OpenRowsTracked
<1> DEFINE IInv == TypeInv /\ DownIsIdle /\ BookedIsClosed /\ OpenRowsTracked
<1>1. Init => IInv
  BY TypeInit DEF Init, DownIsIdle, BookedIsClosed, OpenRowsTracked, OpenRows, IsOpen,
     NoRow, NotClosing
<1>2. IInv /\ [Next]_vars => IInv'
  BY TypeStep, DownIsIdleStep, BookedIsClosedStep, OpenRowsTrackedStep DEF TypeInv
<1> QED BY <1>1, <1>2, PTL DEF Spec

=============================================================================
