----------------------- MODULE TradeLedgerRefinement ------------------------
(***************************************************************************)
(* The trades table, as the tasks of the trade manager write it, is a      *)
(* TradeLedger: for any number of trades and symbols, any faults, crashes  *)
(* and restarts.  The entry price is all that the mapping leaves out.      *)
(***************************************************************************)
EXTENDS TradeLifecycleProofs

Entry(row) ==
  [status |-> row.status, sym |-> row.sym, dir |-> row.dir, tp1 |-> row.tp1,
   reason |-> row.reason]

LEMMA ViewOfRow ==
  ASSUME rows \in [Trades -> Row \cup {NoRow}], NEW t \in Trades
  PROVE  /\ rows[t] = NoRow => LedgerView[t] = Ledger!Blank
         /\ rows[t] \in Row => LedgerView[t] = Entry(rows[t])
         /\ Ledger!IsOpen(t) <=> IsOpen(t)
<1>1. rows[t] \in Row => rows[t] # NoRow
  BY RowUpdates DEF NoRow
<1>2. rows[t] = NoRow => LedgerView[t] = Ledger!Blank
  BY DEF LedgerView, NoRow, Ledger!Blank
<1>3. rows[t] \in Row => LedgerView[t] = Entry(rows[t])
  BY <1>1 DEF LedgerView, Entry
<1>4. CASE rows[t] = NoRow
  <2>1. Ledger!Blank.status # "open" /\ NoRow.status # "open"
    BY DEF Ledger!Blank, NoRow
  <2> QED BY <1>2, <1>3, <1>4, <2>1 DEF Ledger!IsOpen, IsOpen
<1>5. CASE rows[t] \in Row
  <2>1. LedgerView[t].status = rows[t].status
    BY <1>3, <1>5 DEF Entry
  <2> QED BY <1>1, <1>3, <1>5, <2>1 DEF Ledger!IsOpen, IsOpen
<1> QED BY <1>2, <1>3, <1>4, <1>5

LEMMA ViewOfOpenRows ==
  ASSUME rows \in [Trades -> Row \cup {NoRow}], NEW s
  PROVE  Ledger!OpenIn(s) = OpenIn(s)
<1>1. ASSUME NEW t \in Trades, IsOpen(t) PROVE LedgerView[t].sym = rows[t].sym
  <2>1. LedgerView[t] = Entry(rows[t])
    BY <1>1, OpenRowType, ViewOfRow
  <2>2. Entry(rows[t]).sym = rows[t].sym
    BY DEF Entry
  <2> QED BY <2>1, <2>2
<1> QED BY <1>1, ViewOfRow DEF Ledger!OpenIn, OpenIn, OpenRows

\* One entry of the view changes when one row of the table does.
LEMMA ViewChanges ==
  ASSUME NEW t \in Trades, NEW e, LedgerView'[t] = e,
         \A u \in Trades : u # t => rows'[u] = rows[u]
  PROVE  LedgerView' = [LedgerView EXCEPT ![t] = e]
<1>1. \A u \in Trades : u # t => LedgerView'[u] = LedgerView[u]
  BY DEF LedgerView
<1>2. /\ LedgerView = [u \in Trades |-> LedgerView[u]]
      /\ LedgerView' = [u \in Trades |-> LedgerView'[u]]
  BY DEF LedgerView
<1> HIDE DEF LedgerView
<1> QED BY <1>1, <1>2

LEMMA EntryImplemented ==
  ASSUME TypeInv, SymbolReserved, RecordTrade
  PROVE  Ledger!LedgerNext
<1> DEFINE row == [status |-> "open", sym |-> opening.sym, dir |-> opening.dir,
                   entry |-> opening.entry, tp1 |-> FALSE, reason |-> ""]
           e == [status |-> "open", sym |-> opening.sym, dir |-> opening.dir,
                 tp1 |-> FALSE, reason |-> ""]
<1>1. /\ opening.pc = "filled" /\ opening.sym \in Symbols
      /\ opening.dir \in Directions
  BY RecordedRow, Zenon
<1>2. PICK t \in Trades : /\ rows[t] = NoRow
                          /\ rows'[t] = row
                          /\ \A u \in Trades : u # t => rows'[u] = rows[u]
  BY RecordedRow, Zenon
<1>3. LedgerView'[t] = e
  <2>1. row # NoRow
    BY DEF NoRow
  <2>2. Entry(row) = e
    BY DEF Entry
  <2>3. LedgerView'[t] = Entry(rows'[t])
    BY <1>2, <2>1 DEF LedgerView, Entry
  <2> HIDE DEF row
  <2> QED BY <1>2, <2>2, <2>3
<1>4. LedgerView' = [LedgerView EXCEPT ![t] = e]
  BY <1>2, <1>3, ViewChanges
<1>5. LedgerView[t] = Ledger!Blank
  BY <1>2, ViewOfRow DEF TypeInv, TypeOK
<1>6. Ledger!OpenIn(opening.sym) = {}
  BY <1>1, ViewOfOpenRows DEF SymbolReserved, TypeInv, TypeOK
<1>7. Ledger!Enter(t, opening.sym, opening.dir)
  BY <1>4, <1>5, <1>6 DEF Ledger!Enter
<1> QED BY <1>1, <1>7 DEF Ledger!LedgerNext

LEMMA TakeProfitImplemented ==
  ASSUME TypeInv, NEW t \in Trades, TP1Written(t)
  PROVE  Ledger!LedgerNext
<1>1. /\ rows[t] \in Row /\ IsOpen(t) /\ ~rows[t].tp1
      /\ \A u \in Trades : u # t => rows'[u] = rows[u]
      /\ rows'[t].status = "open" /\ rows'[t].sym = rows[t].sym
      /\ rows'[t].dir = rows[t].dir /\ rows'[t].reason = rows[t].reason
      /\ rows'[t].tp1 = TRUE
  BY WrittenRows DEF TP1Written, TypeInv, TypeOK
<1>2. LedgerView[t] = Entry(rows[t])
  BY <1>1, ViewOfRow DEF TypeInv, TypeOK
<1>3. LedgerView'[t] = Entry(rows'[t])
  BY <1>1 DEF LedgerView, Entry, NoRow
<1>4. Entry(rows'[t]) = [Entry(rows[t]) EXCEPT !.tp1 = TRUE]
  <2>1. Entry(rows'[t]) = [status |-> rows[t].status, sym |-> rows[t].sym,
                           dir |-> rows[t].dir, tp1 |-> TRUE,
                           reason |-> rows[t].reason]
    BY <1>1 DEF Entry, IsOpen
  <2>2. [Entry(rows[t]) EXCEPT !.tp1 = TRUE] =
          [status |-> rows[t].status, sym |-> rows[t].sym, dir |-> rows[t].dir,
           tp1 |-> TRUE, reason |-> rows[t].reason]
    <3>1. ASSUME NEW v
          PROVE  [Entry(rows[t]) EXCEPT !.tp1 = v] =
                   [status |-> rows[t].status, sym |-> rows[t].sym,
                    dir |-> rows[t].dir, tp1 |-> v, reason |-> rows[t].reason]
      BY DEF Entry
    <3> QED BY <3>1
  <2> QED BY <2>1, <2>2
<1>5. LedgerView' = [LedgerView EXCEPT ![t] = [Entry(rows[t]) EXCEPT !.tp1 = TRUE]]
  BY <1>1, <1>3, <1>4, ViewChanges
<1>6. LedgerView' = [LedgerView EXCEPT ![t].tp1 = TRUE]
  BY <1>2, <1>5
<1>7. Ledger!IsOpen(t) /\ ~LedgerView[t].tp1
  BY <1>1, <1>2, ViewOfRow DEF Entry, TypeInv, TypeOK
<1>8. Ledger!BookTakeProfit(t)
  BY <1>6, <1>7 DEF Ledger!BookTakeProfit
<1> QED BY <1>8 DEF Ledger!LedgerNext

LEMMA CloseImplemented ==
  ASSUME TypeInv, NEW t \in Trades, NEW why \in Reasons, CloseWritten(t, why)
  PROVE  Ledger!LedgerNext
<1>1. /\ rows[t] \in Row /\ IsOpen(t)
      /\ \A u \in Trades : u # t => rows'[u] = rows[u]
      /\ rows'[t].status = "closed" /\ rows'[t].sym = rows[t].sym
      /\ rows'[t].dir = rows[t].dir /\ rows'[t].reason = why
      /\ rows'[t].tp1 = rows[t].tp1
  BY WrittenRows DEF CloseWritten, TypeInv, TypeOK
<1>2. LedgerView[t] = Entry(rows[t])
  BY <1>1, ViewOfRow DEF TypeInv, TypeOK
<1>3. LedgerView'[t] = Entry(rows'[t])
  BY <1>1 DEF LedgerView, Entry, NoRow
<1>4. Entry(rows'[t]) = Ledger!Closed(Entry(rows[t]), why)
  <2> DEFINE half == [Entry(rows[t]) EXCEPT !.status = "closed"]
  <2>1. half = [status |-> "closed", sym |-> rows[t].sym, dir |-> rows[t].dir,
                tp1 |-> rows[t].tp1, reason |-> rows[t].reason]
    BY DEF Entry
  <2>2. Ledger!Closed(Entry(rows[t]), why) = [half EXCEPT !.reason = why]
    BY DEF Ledger!Closed
  <2> HIDE DEF half
  <2>3. [half EXCEPT !.reason = why] =
          [status |-> "closed", sym |-> rows[t].sym, dir |-> rows[t].dir,
           tp1 |-> rows[t].tp1, reason |-> why]
    BY <2>1
  <2> QED BY <1>1, <2>2, <2>3 DEF Entry
<1>5. LedgerView' = [LedgerView EXCEPT ![t] = Ledger!Closed(LedgerView[t], why)]
  BY <1>1, <1>2, <1>3, <1>4, ViewChanges
<1>6. Ledger!IsOpen(t)
  BY <1>1, ViewOfRow DEF TypeInv, TypeOK
<1>7. Ledger!Close(t, why)
  BY <1>5, <1>6 DEF Ledger!Close
<1> QED BY <1>7 DEF Ledger!LedgerNext, Reasons

\* The trades table implements TradeLedger: a trade is entered once and into a
\* symbol without an open trade, its TP1 is booked at most once and only while
\* it is open, it is closed once and its closing entry never changes, although
\* the bus task, the monitor loop and the process started after a crash all
\* write to the table.
THEOREM TableIsALedger == Spec => LedgerImplemented
<1> DEFINE IInv == /\ TypeInv /\ DownIsIdle
                   /\ OneOpenRowPerSymbol /\ SymbolReserved
<1>1. Init => IInv /\ Ledger!LedgerInit
  <2> SUFFICES ASSUME Init PROVE IInv /\ Ledger!LedgerInit
    OBVIOUS
  <2>1. IInv
    BY TypeInit DEF Init, DownIsIdle, OneOpenRowPerSymbol, SymbolReserved, OpenRows,
       IsOpen, NoRow, NotOpening
  <2>2. Ledger!LedgerInit
    BY DEF Init, Ledger!LedgerInit, Ledger!Blank, LedgerView, NoRow
  <2> QED BY <2>1, <2>2
<1>2. IInv /\ [Next]_vars => IInv'
  BY TypeStep, DownIsIdleStep, SymbolStep DEF TypeInv
<1>3. IInv /\ [Next]_vars => [Ledger!LedgerNext]_LedgerView
  <2> SUFFICES ASSUME IInv, [Next]_vars PROVE [Ledger!LedgerNext]_LedgerView
    OBVIOUS
  <2>1. CASE UNCHANGED rows
    BY <2>1 DEF LedgerView
  <2>2. CASE RecordTrade
    BY <2>2, EntryImplemented
  <2>3. ASSUME NEW t \in Trades, TP1Written(t) \/ \E why \in Reasons : CloseWritten(t, why)
        PROVE  Ledger!LedgerNext
    BY <2>3, TakeProfitImplemented, CloseImplemented
  <2> QED BY <2>1, <2>2, <2>3, RowsChange
<1> QED BY <1>1, <1>2, <1>3, PTL DEF Spec, LedgerImplemented, Ledger!LedgerSpec

=============================================================================
