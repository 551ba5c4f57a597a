------------------------- MODULE RiskControlProofs --------------------------
(***************************************************************************)
(* The two limits on the number of trades hold for every number of trades, *)
(* every limit and every day length, and no more than one order slips      *)
(* through a pause, whatever its length.                                   *)
(***************************************************************************)
EXTENDS RiskControl, FiniteSetTheorems, NaturalsInduction, WellFoundedInduction, TLAPS

-----------------------------------------------------------------------------
(* The clock *)

\* A later tick is not on an earlier day.
LEMMA DaysPass ==
  ASSUME NEW x \in Nat, NEW y \in Nat, x <= y
  PROVE  Day(x) \in Nat /\ Day(y) \in Nat /\ Day(x) <= Day(y)
<1> DEFINE q == x \div DayTicks
           r == y \div DayTicks
<1>1. DayTicks \in Nat \ {0}
  BY RiskAssumption
<1>2. /\ q \in Int /\ r \in Int
      /\ DayTicks * q <= x /\ x < DayTicks * (q + 1)
      /\ DayTicks * r <= y /\ y < DayTicks * (r + 1)
  BY <1>1
<1>3. q <= r
  <2> SUFFICES ASSUME r + 1 <= q PROVE FALSE
    BY <1>2
  <2>1. DayTicks * (r + 1) <= DayTicks * q
    BY <1>1, <1>2
  <2> QED
    BY <2>1, <1>1, <1>2
<1>4. q \in Nat /\ r \in Nat
  BY <1>1
<1> QED
  BY <1>3, <1>4 DEF Day

-----------------------------------------------------------------------------
(* Types: as much of TypeOK as the limits need.                             *)

Committed == {"approved", "filled"}      \* the check was passed

ClockOK == now \in 0..MaxTime

RowsOK == trades \in [Trades -> TradeRow \cup {NoTrade}]

DirectionKnown ==
  listener.pc \in CheckPoints \cup Committed => listener.dir \in Directions

TypeInv == ClockOK /\ RowsOK /\ DirectionKnown

LEMMA TodayIsADay ==
  ASSUME ClockOK
  PROVE  Day(now) \in Days /\ Day(now) \in Nat
<1>1. MaxTime \in Nat /\ now \in Nat /\ now <= MaxTime
  BY RiskAssumption DEF ClockOK
<1> QED
  BY <1>1, DaysPass DEF Days

LEMMA InitTypeInv == Init => TypeInv
BY RiskAssumption
   DEF Init, TypeInv, ClockOK, RowsOK, DirectionKnown, Idle, CheckPoints, Committed

LEMMA NextTypeInv == TypeInv /\ [Next]_vars => TypeInv'
<1> SUFFICES ASSUME TypeInv, [Next]_vars
             PROVE  TypeInv'
  OBVIOUS
<1> USE DEF TypeInv, ClockOK, RowsOK, DirectionKnown, CheckPoints, Committed, Idle,
            rowsInDB
<1>1. ASSUME NEW d \in Directions, StartCheck(d)
      PROVE  TypeInv'
  BY <1>1 DEF StartCheck
<1>2. CASE Check
  BY <1>2 DEF Check, CheckLoss, CheckStreak, CheckTrades, CheckDirection, CheckStake,
              Refuse, GoOn
<1>3. CASE OpenFails
  BY <1>3 DEF OpenFails
<1>4. CASE OrderFilled
  BY <1>4 DEF OrderFilled
<1>5. CASE RecordTrade
  BY <1>5, TodayIsADay DEF RecordTrade, TradeRow
<1>6. ASSUME NEW t \in Trades, CloseTrade(t)
      PROVE  TypeInv'
  <2>1. PICK loss \in Losses :
          trades' = [trades EXCEPT ![t] =
            [status |-> "closed", dir |-> @.dir, stake |-> @.stake, day |-> @.day,
             loss |-> loss, closedDay |-> Day(now)]]
    BY <1>6 DEF CloseTrade
  <2>2. trades[t] \in [status : {"open"}, dir : Directions, stake : Stakes, day : Days]
    BY <1>6 DEF CloseTrade, IsOpen, TradeRow, NoTrade
  <2>3. RowsOK'
    BY <2>1, <2>2, TodayIsADay DEF TradeRow
  <2>4. UNCHANGED <<listener, now>>
    BY <1>6 DEF CloseTrade
  <2> QED
    BY <2>3, <2>4
<1>7. CASE HandleEvent
  BY <1>7 DEF HandleEvent, OnOrderFilled, OnTradeClosed, ReadLossStreak, CacheLoss
<1>8. CASE MonitorPass
  BY <1>8 DEF MonitorPass, StartPass, PassReadsRow, PassReadsLoss, PassReadsStreak, Pause,
              PassWritesCache
<1>9. CASE Tick
  BY <1>9, RiskAssumption DEF Tick
<1>10. CASE Restart
  BY <1>10 DEF Restart
<1>11. CASE UNCHANGED vars
  BY <1>11 DEF vars
<1> QED
  BY <1>1, <1>2, <1>3, <1>4, <1>5, <1>6, <1>7, <1>8, <1>9, <1>10, <1>11
     DEF Next, Open

-----------------------------------------------------------------------------
(* Counting rows.                                                           *)

OpenOf(table, d) == {t \in Trades : table[t].status = "open" /\ table[t].dir = d}

EnteredOn(table, day) ==
  {t \in Trades : table[t].status # "none" /\ table[t].day = day}

LEMMA SetsOfTradesAreFinite ==
  ASSUME NEW S \in SUBSET Trades
  PROVE  IsFiniteSet(S) /\ Cardinality(S) \in Nat
BY RiskAssumption, FS_Subset, FS_CardinalityType

LEMMA SmallerSets ==
  ASSUME NEW S \in SUBSET Trades, NEW T \in SUBSET S
  PROVE  Cardinality(T) <= Cardinality(S)
BY SetsOfTradesAreFinite, FS_Subset

LEMMA OneMore ==
  ASSUME NEW S \in SUBSET Trades, NEW T \in SUBSET Trades, NEW t, T \subseteq S \cup {t}
  PROVE  Cardinality(T) <= Cardinality(S) + 1
<1>1. IsFiniteSet(S) /\ Cardinality(S) \in Nat
  BY SetsOfTradesAreFinite
<1>2. /\ IsFiniteSet(S \cup {t})
      /\ Cardinality(S \cup {t}) <= Cardinality(S) + 1
      /\ Cardinality(S \cup {t}) \in Nat
  BY <1>1, FS_AddElement, FS_CardinalityType
<1>3. Cardinality(T) <= Cardinality(S \cup {t}) /\ Cardinality(T) \in Nat
  BY <1>2, FS_Subset, SetsOfTradesAreFinite
<1> QED
  BY <1>1, <1>2, <1>3

LEMMA DirectionCount == \A d : OpenInDirection(d) = Cardinality(OpenOf(trades, d))
BY DEF OpenInDirection, OpenOf, OpenTrades, IsOpen

\* What the only two actions that write a row do to the counts.
LEMMA RecordCounts ==
  ASSUME TypeInv, RecordTrade
  PROVE  /\ \A d : Cardinality(OpenOf(trades', d)) <=
                     Cardinality(OpenOf(trades, d)) + 1
         /\ \A d : d # listener.dir => OpenOf(trades', d) = OpenOf(trades, d)
         /\ \A day : Cardinality(EnteredOn(trades', day)) <=
                       Cardinality(EnteredOn(trades, day)) + 1
         /\ \A day : day # Day(now) =>
                       EnteredOn(trades', day) = EnteredOn(trades, day)
<1>1. PICK t \in Trades, stake \in Stakes :
        /\ trades[t] = NoTrade
        /\ trades' = [trades EXCEPT ![t] =
             [status |-> "open", dir |-> listener.dir, stake |-> stake,
              day |-> Day(now)]]
  BY DEF RecordTrade
<1>2. trades \in [Trades -> TradeRow \cup {NoTrade}]
  BY DEF TypeInv, RowsOK
<1>3. \A d : OpenOf(trades', d) \subseteq OpenOf(trades, d) \cup {t}
  BY <1>1, <1>2 DEF OpenOf
<1>4. \A day : EnteredOn(trades', day) \subseteq EnteredOn(trades, day) \cup {t}
  BY <1>1, <1>2 DEF EnteredOn
<1>5. \A d : d # listener.dir => OpenOf(trades', d) = OpenOf(trades, d)
  BY <1>1, <1>2 DEF OpenOf, NoTrade
<1>6. \A day : day # Day(now) => EnteredOn(trades', day) = EnteredOn(trades, day)
  BY <1>1, <1>2 DEF EnteredOn, NoTrade
<1>7. \A d : OpenOf(trades', d) \in SUBSET Trades /\ OpenOf(trades, d) \in SUBSET Trades
  BY DEF OpenOf
<1>8. \A day : /\ EnteredOn(trades', day) \in SUBSET Trades
               /\ EnteredOn(trades, day) \in SUBSET Trades
  BY DEF EnteredOn
<1>9. \A d : Cardinality(OpenOf(trades', d)) <= Cardinality(OpenOf(trades, d)) + 1
  BY <1>3, <1>7, OneMore
<1>10. \A day : Cardinality(EnteredOn(trades', day)) <=
                 Cardinality(EnteredOn(trades, day)) + 1
  BY <1>4, <1>8, OneMore
<1> QED
  BY <1>5, <1>6, <1>9, <1>10

LEMMA CloseCounts ==
  ASSUME TypeInv, NEW t \in Trades, CloseTrade(t)
  PROVE  /\ \A d : Cardinality(OpenOf(trades', d)) <= Cardinality(OpenOf(trades, d))
         /\ \A day : EnteredOn(trades', day) = EnteredOn(trades, day)
<1>1. PICK loss \in Losses :
        trades' = [trades EXCEPT ![t] =
          [status |-> "closed", dir |-> @.dir, stake |-> @.stake, day |-> @.day,
           loss |-> loss, closedDay |-> Day(now)]]
  BY DEF CloseTrade
<1>2. trades \in [Trades -> TradeRow \cup {NoTrade}] /\ trades[t].status = "open"
  BY DEF TypeInv, RowsOK, CloseTrade, IsOpen
<1>3. \A d : /\ OpenOf(trades', d) \in SUBSET OpenOf(trades, d)
             /\ OpenOf(trades, d) \in SUBSET Trades
  BY <1>1, <1>2 DEF OpenOf
<1>4. \A day : EnteredOn(trades', day) = EnteredOn(trades, day)
  BY <1>1, <1>2 DEF EnteredOn
<1> QED
  BY <1>3, <1>4, SmallerSets

\* The other actions leave the rows alone.
OtherStep == \/ \E d \in Directions : StartCheck(d)
             \/ Check
             \/ OpenFails
             \/ OrderFilled
             \/ HandleEvent
             \/ MonitorPass
             \/ Tick
             \/ Restart
             \/ UNCHANGED vars

LEMMA OtherStepsKeepRows == OtherStep => trades' = trades
BY DEF OtherStep, StartCheck, Check, CheckLoss, CheckStreak, CheckTrades, CheckDirection,
       CheckStake, OpenFails, OrderFilled, HandleEvent, OnOrderFilled, OnTradeClosed,
       ReadLossStreak, CacheLoss, MonitorPass, StartPass, PassReadsRow, PassReadsLoss,
       PassReadsStreak, Pause, PassWritesCache, Tick, Restart, vars, rowsInDB

-----------------------------------------------------------------------------
(* The limit of a direction.  From the check of the direction to the entry  *)
(* of the row the listener does nothing else, and only the listener enters  *)
(* rows: there is room for the row it is about to enter.                    *)

RoomInDirection ==
  listener.pc \in {"stake"} \cup Committed =>
    Cardinality(OpenOf(trades, listener.dir)) < MaxOpen[listener.dir]

WithinDirections ==
  \A d \in Directions : Cardinality(OpenOf(trades, d)) <= MaxOpen[d]

DirectionInv == RoomInDirection /\ WithinDirections

LEMMA InitDirectionInv == Init => DirectionInv
<1> SUFFICES ASSUME Init PROVE DirectionInv
  OBVIOUS
<1>1. \A d : OpenOf(trades, d) = {}
  BY DEF Init, OpenOf, NoTrade
<1>2. WithinDirections
  BY <1>1, FS_EmptySet, RiskAssumption DEF WithinDirections
<1>3. RoomInDirection
  BY DEF Init, RoomInDirection, Idle, Committed
<1> QED
  BY <1>2, <1>3 DEF DirectionInv

LEMMA NextDirectionInv == TypeInv /\ DirectionInv /\ [Next]_vars => DirectionInv'
<1> SUFFICES ASSUME TypeInv, DirectionInv, [Next]_vars
             PROVE  DirectionInv'
  OBVIOUS
<1> DEFINE Count(d) == Cardinality(OpenOf(trades, d))
           CountNext(d) == Cardinality(OpenOf(trades', d))
<1>1. \A d \in Directions : MaxOpen[d] \in Nat
  BY RiskAssumption
<1>2. \A d : Count(d) \in Nat /\ CountNext(d) \in Nat
  BY SetsOfTradesAreFinite DEF OpenOf
<1>3. CASE OtherStep
  <2>1. trades' = trades
    BY <1>3, OtherStepsKeepRows
  <2>2. WithinDirections'
    BY <2>1 DEF DirectionInv, WithinDirections
  <2>3. CASE Check
    <3>1. CASE CheckDirection
      <4>1. Count(listener.dir) < MaxOpen[listener.dir] \/ listener' = Idle
        BY <1>1, <1>2, <3>1, DirectionCount
           DEF CheckDirection, Refuse, TypeInv, DirectionKnown, CheckPoints
      <4>2. listener' = Idle \/ listener'.dir = listener.dir
        BY <3>1 DEF CheckDirection, Refuse, GoOn
      <4>3. RoomInDirection'
        BY <2>1, <4>1, <4>2 DEF RoomInDirection, Idle, Committed
      <4> QED
        BY <2>2, <4>3 DEF DirectionInv
    <3>2. CASE CheckStake
      <4>1. RoomInDirection'
        BY <2>1, <3>2
           DEF CheckStake, Refuse, DirectionInv, RoomInDirection, Idle, Committed
      <4> QED
        BY <2>2, <4>1 DEF DirectionInv
    <3>3. CASE CheckLoss \/ CheckStreak \/ CheckTrades
      <4>1. RoomInDirection'
        BY <3>3 DEF CheckLoss, CheckStreak, CheckTrades, Refuse, GoOn, RoomInDirection,
                    Idle, Committed
      <4> QED
        BY <2>2, <4>1 DEF DirectionInv
    <3> QED
      BY <2>3, <3>1, <3>2, <3>3 DEF Check
  <2>4. CASE OrderFilled
    <3>1. RoomInDirection'
      BY <2>1, <2>4 DEF OrderFilled, DirectionInv, RoomInDirection, Committed
    <3> QED
      BY <2>2, <3>1 DEF DirectionInv
  <2>5. CASE (\E d \in Directions : StartCheck(d)) \/ OpenFails \/ HandleEvent \/ Restart
    <3>1. \/ listener' = listener
          \/ listener'.pc \in {"loss", "idle", "loss_added", "streak_read"}
      BY <2>5 DEF StartCheck, OpenFails, HandleEvent, OnOrderFilled, OnTradeClosed,
                  ReadLossStreak, CacheLoss, Restart, Idle
    <3>2. RoomInDirection'
      BY <2>1, <3>1 DEF DirectionInv, RoomInDirection, Committed
    <3> QED
      BY <2>2, <3>2 DEF DirectionInv
  <2>6. CASE MonitorPass \/ Tick \/ UNCHANGED vars
    <3>1. listener' = listener
      BY <2>6 DEF MonitorPass, StartPass, PassReadsRow, PassReadsLoss, PassReadsStreak,
                  Pause, PassWritesCache, Tick, vars
    <3>2. RoomInDirection'
      BY <2>1, <3>1 DEF DirectionInv, RoomInDirection
    <3> QED
      BY <2>2, <3>2 DEF DirectionInv
  <2> QED
    BY <1>3, <2>3, <2>4, <2>5, <2>6 DEF OtherStep
<1>4. CASE RecordTrade
  <2>1. listener.pc = "filled" /\ listener.dir \in Directions
    BY <1>4 DEF RecordTrade, TypeInv, DirectionKnown, Committed
  <2>2. Count(listener.dir) < MaxOpen[listener.dir]
    BY <2>1 DEF DirectionInv, RoomInDirection, Committed
  <2>3. /\ \A d : CountNext(d) <= Count(d) + 1
        /\ \A d : d # listener.dir => CountNext(d) = Count(d)
    BY <1>4, RecordCounts
  <2>4. \A d \in Directions : Count(d) <= MaxOpen[d]
    BY DEF DirectionInv, WithinDirections
  <2>5. \A d \in Directions : CountNext(d) <= MaxOpen[d]
    BY <1>1, <1>2, <2>1, <2>2, <2>3, <2>4
  <2>6. listener' = Idle
    BY <1>4 DEF RecordTrade
  <2> QED
    BY <2>5, <2>6 DEF DirectionInv, WithinDirections, RoomInDirection, Idle, Committed
<1>5. ASSUME NEW t \in Trades, CloseTrade(t)
      PROVE  DirectionInv'
  <2>1. \A d : CountNext(d) <= Count(d)
    BY <1>5, CloseCounts
  <2>2. listener' = listener
    BY <1>5 DEF CloseTrade
  <2>3. WithinDirections'
    BY <1>1, <1>2, <2>1 DEF DirectionInv, WithinDirections
  <2>4. RoomInDirection'
    <3>1. listener.pc \in {"stake"} \cup Committed => listener.dir \in Directions
      BY DEF TypeInv, DirectionKnown, CheckPoints, Committed
    <3> QED
      BY <1>1, <1>2, <2>1, <2>2, <3>1 DEF DirectionInv, RoomInDirection
  <2> QED
    BY <2>3, <2>4 DEF DirectionInv
<1> QED
  BY <1>3, <1>4, <1>5 DEF OtherStep, Next, Open

\* The direction limit is never exceeded, whatever the limits and however many
\* trades, days, lost events and restarts there are.
THEOREM DirectionsStayWithinLimit == Spec => []DirectionLimited
<1>1. Init => TypeInv /\ DirectionInv
  BY InitTypeInv, InitDirectionInv
<1>2. TypeInv /\ DirectionInv /\ [Next]_vars => TypeInv' /\ DirectionInv'
  BY NextTypeInv, NextDirectionInv
<1>3. DirectionInv => DirectionLimited
  BY DEF DirectionInv, WithinDirections, DirectionLimited, OpenOf, OpenTrades, IsOpen
<1> QED
  BY <1>1, <1>2, <1>3, PTL DEF Spec

-----------------------------------------------------------------------------
(* The limit of a day.  The check reads the number of trades of the day     *)
(* from the table, because the counters that could stand in for it are      *)
(* never counted up: the fill is published for another account.  Midnight   *)
(* between the check and the entry of the row only makes room.              *)

NothingCounted ==
  /\ cache.opened = 0
  /\ \A day \in Days : rowOpened[day] = 0
  /\ monitor.pc \in {"read_loss", "read_streak", "write"} => monitor.opened = 0
  /\ listener.pc \in CheckPoints => listener.seen.opened = 0

NoneFromTomorrow ==
  \A t \in Trades : trades[t].status # "none" => trades[t].day <= Day(now)

RoomToday ==
  listener.pc \in {"direction", "stake"} \cup Committed =>
    Cardinality(EnteredOn(trades, Day(now))) < MaxDailyTrades

WithinDays ==
  \A day \in Days : Cardinality(EnteredOn(trades, day)) <= MaxDailyTrades

DayInv == NothingCounted /\ NoneFromTomorrow /\ RoomToday /\ WithinDays

LEMMA InitDayInv == Init => DayInv
<1> SUFFICES ASSUME Init PROVE DayInv
  OBVIOUS
<1>1. \A day : EnteredOn(trades, day) = {}
  BY DEF Init, EnteredOn, NoTrade
<1>2. WithinDays
  BY <1>1, FS_EmptySet, RiskAssumption DEF WithinDays
<1>3. NothingCounted /\ NoneFromTomorrow /\ RoomToday
  BY DEF Init, NothingCounted, NoneFromTomorrow, RoomToday, Idle, Committed, NoCache,
         NoTrade, CheckPoints
<1> QED
  BY <1>2, <1>3 DEF DayInv

LEMMA NextNothingCounted ==
  ASSUME TypeInv, NothingCounted, [Next]_vars
  PROVE  NothingCounted'
<1> USE DEF NothingCounted, CheckPoints, Idle, rowsInDB
<1>1. Days' = Days
  BY DEF Days, Day
<1>2. ASSUME NEW d \in Directions, StartCheck(d)
      PROVE  NothingCounted'
  BY <1>1, <1>2 DEF StartCheck
<1>3. CASE Check
  BY <1>1, <1>3 DEF Check, CheckLoss, CheckStreak, CheckTrades, CheckDirection,
                    CheckStake, Refuse, GoOn
<1>4. CASE Open
  BY <1>1, <1>4 DEF Open, OpenFails, OrderFilled, RecordTrade
<1>5. ASSUME NEW t \in Trades, CloseTrade(t)
      PROVE  NothingCounted'
  BY <1>1, <1>5 DEF CloseTrade
<1>6. CASE HandleEvent
  BY <1>1, <1>6 DEF HandleEvent, OnOrderFilled, FilledForAccount, OnTradeClosed,
                    ReadLossStreak, CacheLoss, Cached
<1>7. CASE MonitorPass
  <2>1. CASE PassReadsRow
    BY <1>1, <2>1, TodayIsADay DEF PassReadsRow, TypeInv
  <2>2. CASE StartPass \/ PassReadsLoss \/ PassReadsStreak \/ Pause
    BY <1>1, <2>2 DEF StartPass, PassReadsLoss, PassReadsStreak, Pause
  <2>3. CASE PassWritesCache
    BY <1>1, <2>3 DEF PassWritesCache, Cached
  <2> QED
    BY <1>7, <2>1, <2>2, <2>3 DEF MonitorPass
<1>8. CASE Tick \/ UNCHANGED vars
  BY <1>1, <1>8 DEF Tick, vars
<1>9. CASE Restart
  BY <1>1, <1>9 DEF Restart, NoCache
<1> QED
  BY <1>2, <1>3, <1>4, <1>5, <1>6, <1>7, <1>8, <1>9 DEF Next

\* The clock only moves on, so the days of the rows stay in the past.
LEMMA DayMovesOn ==
  ASSUME TypeInv, [Next]_vars
  PROVE  /\ Day(now) \in Nat /\ Day(now') \in Nat /\ Day(now) <= Day(now')
         /\ now' # now => Tick
<1>1. now \in Nat
  BY RiskAssumption DEF TypeInv, ClockOK
<1>2. now' = now \/ (Tick /\ now' = now + 1)
  BY DEF Next, StartCheck, Check, CheckLoss, CheckStreak, CheckTrades, CheckDirection,
         CheckStake, Open, OpenFails, OrderFilled, RecordTrade, CloseTrade, HandleEvent,
         OnOrderFilled, OnTradeClosed, ReadLossStreak, CacheLoss, MonitorPass, StartPass,
         PassReadsRow, PassReadsLoss, PassReadsStreak, Pause, PassWritesCache, Tick,
         Restart, vars
<1>3. now' \in Nat /\ now <= now'
  BY <1>1, <1>2
<1> QED
  BY <1>1, <1>2, <1>3, DaysPass

LEMMA NextNoneFromTomorrow ==
  ASSUME TypeInv, NoneFromTomorrow, [Next]_vars
  PROVE  NoneFromTomorrow'
<1>1. /\ Day(now) \in Nat /\ Day(now') \in Nat /\ Day(now) <= Day(now')
      /\ \A t \in Trades : trades[t].status # "none" => trades[t].day \in Nat
  <2>1. Days \subseteq Nat
    BY DEF Days
  <2>2. ASSUME NEW t \in Trades, trades[t].status # "none"
        PROVE  trades[t].day \in Nat
    <3>1. trades[t] \in TradeRow
      BY <2>2 DEF TypeInv, RowsOK, NoTrade
    <3>2. trades[t].day \in Days
      BY <3>1 DEF TradeRow
    <3> QED
      BY <2>1, <3>2
  <2> QED
    BY <2>2, DayMovesOn
<1>2. CASE OtherStep
  BY <1>1, <1>2, OtherStepsKeepRows DEF NoneFromTomorrow
<1>3. CASE RecordTrade
  <2>1. PICK t \in Trades, stake \in Stakes :
          trades' = [trades EXCEPT ![t] =
            [status |-> "open", dir |-> listener.dir, stake |-> stake,
             day |-> Day(now)]]
    BY <1>3 DEF RecordTrade
  <2> QED
    BY <1>1, <2>1 DEF NoneFromTomorrow, TypeInv, RowsOK
<1>4. ASSUME NEW t \in Trades, CloseTrade(t)
      PROVE  NoneFromTomorrow'
  <2>1. PICK loss \in Losses :
          trades' = [trades EXCEPT ![t] =
            [status |-> "closed", dir |-> @.dir, stake |-> @.stake, day |-> @.day,
             loss |-> loss, closedDay |-> Day(now)]]
    BY <1>4 DEF CloseTrade
  <2>2. trades[t].status = "open"
    BY <1>4 DEF CloseTrade, IsOpen
  <2> QED
    BY <1>1, <2>1, <2>2 DEF NoneFromTomorrow, TypeInv, RowsOK
<1> QED
  BY <1>2, <1>3, <1>4 DEF OtherStep, Next, Open

LEMMA NextWithinDays ==
  ASSUME TypeInv, DayInv, [Next]_vars
  PROVE  WithinDays' /\ RoomToday'
<1> DEFINE Count(day) == Cardinality(EnteredOn(trades, day))
           CountNext(day) == Cardinality(EnteredOn(trades', day))
           Committing == {"direction", "stake"} \cup Committed
<1>1. /\ MaxDailyTrades \in Nat
      /\ \A day : Count(day) \in Nat /\ CountNext(day) \in Nat
  BY RiskAssumption, SetsOfTradesAreFinite DEF EnteredOn
<1>2. Days' = Days /\ Day(now) \in Nat /\ Day(now') \in Nat /\ Day(now) <= Day(now')
  BY DayMovesOn DEF Days, Day
<1>3. /\ \A day \in Days : Count(day) <= MaxDailyTrades
      /\ listener.pc \in Committing => Count(Day(now)) < MaxDailyTrades
  BY DEF DayInv, WithinDays, RoomToday
<1>4. CASE OtherStep
  <2>1. trades' = trades
    BY <1>4, OtherStepsKeepRows
  <2>2. WithinDays'
    BY <1>2, <1>3, <2>1 DEF WithinDays
  <2>3. CASE CheckTrades
    <3>1. now' = now
      BY <2>3 DEF CheckTrades
    <3>2. OpenedToday = Count(Day(now))
      BY DEF OpenedToday, EnteredOn
    <3>3. listener.seen.opened = 0
      BY <2>3 DEF CheckTrades, CheckPoints, DayInv, NothingCounted
    <3>4. listener' = Idle \/ Count(Day(now)) < MaxDailyTrades
      BY <1>1, <2>3, <3>2, <3>3 DEF CheckTrades, CachedOr, Refuse
    <3>5. RoomToday'
      BY <2>1, <3>1, <3>4 DEF RoomToday, Idle, Committed
    <3> QED
      BY <2>2, <3>5
  <2>4. CASE CheckDirection \/ CheckStake \/ OrderFilled
    <3>1. now' = now /\ listener.pc \in Committing
      BY <2>4 DEF CheckDirection, CheckStake, OrderFilled, Committed
    <3> QED
      BY <1>3, <2>1, <2>2, <3>1 DEF RoomToday
  <2>5. CASE \/ \E d \in Directions : StartCheck(d)
             \/ CheckLoss \/ CheckStreak \/ OpenFails
             \/ HandleEvent \/ MonitorPass \/ Restart \/ UNCHANGED vars
    <3>1. now' = now
      BY <2>5, DayMovesOn DEF StartCheck, CheckLoss, CheckStreak, OpenFails, HandleEvent,
            OnOrderFilled, OnTradeClosed, ReadLossStreak, CacheLoss, MonitorPass,
            StartPass, PassReadsRow, PassReadsLoss, PassReadsStreak, Pause,
            PassWritesCache, Restart, vars
    <3>2. \/ listener' = listener
          \/ listener'.pc \in {"loss", "streak", "trades", "idle", "loss_added",
                               "streak_read"}
      BY <2>5 DEF StartCheck, CheckLoss, CheckStreak, Refuse, GoOn, OpenFails,
            HandleEvent, OnOrderFilled, OnTradeClosed, ReadLossStreak, CacheLoss,
            MonitorPass, StartPass, PassReadsRow, PassReadsLoss, PassReadsStreak, Pause,
            PassWritesCache, Restart, vars, Idle
    <3>3. RoomToday'
      BY <1>3, <2>1, <3>1, <3>2 DEF RoomToday, Committed
    <3> QED
      BY <2>2, <3>3
  <2>6. CASE Tick
    <3>1. listener' = listener
      BY <2>6 DEF Tick
    <3>2. CASE Day(now') = Day(now)
      BY <1>3, <2>1, <2>2, <3>1, <3>2 DEF RoomToday
    <3>3. CASE Day(now') # Day(now)
      <4>1. \A t \in Trades : trades[t].status # "none" => trades[t].day # Day(now')
        BY <1>2, <3>3 DEF DayInv, NoneFromTomorrow
      <4>2. CountNext(Day(now')) = 0
        BY <2>1, <4>1, FS_EmptySet DEF EnteredOn
      <4> QED
        BY <1>1, <1>3, <2>2, <3>1, <4>2 DEF RoomToday
    <3> QED
      BY <3>2, <3>3
  <2> QED
    BY <1>4, <2>3, <2>4, <2>5, <2>6 DEF OtherStep, Check
<1>5. CASE RecordTrade
  <2>1. listener.pc = "filled" /\ listener' = Idle /\ now' = now
    BY <1>5 DEF RecordTrade
  <2>2. Count(Day(now)) < MaxDailyTrades
    BY <1>3, <2>1 DEF Committed
  <2>3. \A day : /\ CountNext(day) <= Count(day) + 1
                 /\ day # Day(now) => CountNext(day) = Count(day)
    BY <1>5, RecordCounts
  <2>4. \A day \in Days : CountNext(day) <= MaxDailyTrades
    BY <1>1, <1>3, <2>2, <2>3
  <2> QED
    BY <1>2, <2>1, <2>4 DEF WithinDays, RoomToday, Idle, Committed
<1>6. ASSUME NEW t \in Trades, CloseTrade(t)
      PROVE  WithinDays' /\ RoomToday'
  <2>1. \A day : CountNext(day) = Count(day)
    BY <1>6, CloseCounts
  <2>2. listener' = listener /\ now' = now
    BY <1>6 DEF CloseTrade
  <2> QED
    BY <1>2, <1>3, <2>1, <2>2 DEF WithinDays, RoomToday
<1> QED
  BY <1>4, <1>5, <1>6 DEF OtherStep, Next, Open

\* No day sees more trades opened than its limit, whatever the limits and
\* however many trades, days, lost events and restarts there are.
THEOREM DaysStayWithinLimit == Spec => []TradesPerDayLimited
<1>1. Init => TypeInv /\ DayInv
  BY InitTypeInv, InitDayInv
<1>2. TypeInv /\ DayInv /\ [Next]_vars => TypeInv' /\ DayInv'
  BY NextTypeInv, NextNothingCounted, NextNoneFromTomorrow, NextWithinDays DEF DayInv
<1>3. DayInv => TradesPerDayLimited
  BY DEF DayInv, WithinDays, TradesPerDayLimited, EnteredOn
<1> QED
  BY <1>1, <1>2, <1>3, PTL DEF Spec

-----------------------------------------------------------------------------
(* The pause.  A signal whose check began before the pause may still pass;  *)
(* while the pause is in force no other check begins.                       *)

PauseOK == pausedUntil \in Nat /\ slipped \in 0..1

\* Nothing slipped yet while the check that may slip is going on.
OnlyTheEarlierCheck ==
  PauseInForce /\ listener.pc \in CheckPoints => slipped = 0

PauseInv == PauseOK /\ OnlyTheEarlierCheck

\* The steps of a check go on with it or end it.
LEMMA CheckKeepsPauseInv ==
  ASSUME PauseInv, Check
  PROVE  PauseInv'
<1> USE DEF PauseInv, PauseOK, OnlyTheEarlierCheck, PauseInForce
<1>1. CASE CheckStake
  <2>1. CASE UNCHANGED slipped /\ listener' = Idle
    BY <1>1, <2>1 DEF CheckStake, Idle, CheckPoints
  <2>2. CASE /\ listener'.pc = "approved"
             /\ slipped' = IF PauseInForce THEN slipped + 1 ELSE slipped
    <3>1. listener.pc \in CheckPoints
      BY <1>1 DEF CheckStake, CheckPoints
    <3>2. slipped' \in 0..1
      BY <2>2, <3>1
    <3> QED
      BY <1>1, <2>2, <3>2 DEF CheckStake, CheckPoints
  <2> QED
    BY <1>1, <2>1, <2>2 DEF CheckStake, Refuse
<1>2. CASE CheckLoss \/ CheckStreak \/ CheckTrades \/ CheckDirection
  <2>1. UNCHANGED <<pausedUntil, slipped, now>> /\ listener.pc \in CheckPoints
    BY <1>2 DEF CheckLoss, CheckStreak, CheckTrades, CheckDirection, CheckPoints
  <2> QED
    BY <2>1
<1> QED
  BY <1>1, <1>2 DEF Check

\* A pause that comes into force starts with nothing slipped.
LEMMA PauseKeepsPauseInv ==
  ASSUME ClockOK, PauseInv, Pause
  PROVE  PauseInv'
<1>1. pausedUntil' \in Nat
  BY RiskAssumption DEF Pause, ClockOK
<1>2. CASE PauseInForce
  <2>1. UNCHANGED <<slipped, listener>>
    BY <1>2 DEF Pause
  <2> QED
    BY <1>1, <1>2, <2>1 DEF PauseInv, PauseOK, OnlyTheEarlierCheck
<1>3. CASE ~PauseInForce
  <2>1. slipped' = 0
    BY <1>3 DEF Pause
  <2> QED
    BY <1>1, <2>1 DEF PauseInv, PauseOK, OnlyTheEarlierCheck
<1> QED
  BY <1>2, <1>3

LEMMA NextPauseInv == TypeInv /\ PauseInv /\ [Next]_vars => PauseInv'
<1> SUFFICES ASSUME TypeInv, PauseInv, [Next]_vars
             PROVE  PauseInv'
  OBVIOUS
<1> USE DEF PauseInv, PauseOK, OnlyTheEarlierCheck, PauseInForce
<1>1. CASE Check
  BY <1>1, CheckKeepsPauseInv
<1>2. CASE Pause
  BY <1>2, PauseKeepsPauseInv DEF TypeInv
<1>3. ASSUME NEW d \in Directions, StartCheck(d)
      PROVE  PauseInv'
  <2>1. pausedUntil' = 0 /\ UNCHANGED <<slipped, now>>
    BY <1>3 DEF StartCheck, PassesPause, ForgetExpiredPause
  <2>2. now \in Nat
    BY RiskAssumption DEF TypeInv, ClockOK
  <2> QED
    BY <2>1, <2>2
<1>4. CASE Tick
  <2>1. now \in Nat /\ now' = now + 1 /\ UNCHANGED <<pausedUntil, listener, slipped>>
    BY <1>4, RiskAssumption DEF Tick, TypeInv, ClockOK
  <2> QED
    BY <2>1
<1>5. CASE Restart
  BY <1>5 DEF Restart
<1>6. CASE Open \/ HandleEvent
  <2>1. UNCHANGED <<pausedUntil, slipped, now>>
    BY <1>6 DEF Open, OpenFails, OrderFilled, RecordTrade, HandleEvent, OnOrderFilled,
                OnTradeClosed, ReadLossStreak, CacheLoss
  <2>2. listener' = listener \/ listener'.pc \notin CheckPoints
    BY <1>6 DEF Open, OpenFails, OrderFilled, RecordTrade, HandleEvent, OnOrderFilled,
                OnTradeClosed, ReadLossStreak, CacheLoss, Idle, CheckPoints
  <2> QED
    BY <2>1, <2>2
<1>7. CASE UNCHANGED <<pausedUntil, slipped, now, listener>>
  BY <1>7
<1>8. (\E t \in Trades : CloseTrade(t)) \/ (MonitorPass /\ ~Pause)
        => UNCHANGED <<pausedUntil, slipped, now, listener>>
  BY DEF CloseTrade, MonitorPass, StartPass, PassReadsRow, PassReadsLoss,
         PassReadsStreak, PassWritesCache
<1> QED
  BY <1>1, <1>2, <1>3, <1>4, <1>5, <1>6, <1>7, <1>8 DEF Next, vars

\* Once a pause is in force, one signal at most is still approved until it is
\* over, however long the pause and the days are and whatever else happens.
THEOREM OneSlipsThroughPause == Spec => []AtMostOneSlipsThroughPause
<1>1. Init => TypeInv /\ PauseInv
  <2>1. Init => PauseInv
    BY DEF Init, PauseInv, PauseOK, OnlyTheEarlierCheck
  <2> QED
    BY <2>1, InitTypeInv
<1>2. TypeInv /\ PauseInv /\ [Next]_vars => TypeInv' /\ PauseInv'
  BY NextTypeInv, NextPauseInv
<1>3. PauseInv => AtMostOneSlipsThroughPause
  BY DEF PauseInv, PauseOK, AtMostOneSlipsThroughPause
<1> QED
  BY <1>1, <1>2, <1>3, PTL DEF Spec

-----------------------------------------------------------------------------
(* Sums over rows.  Induction over a set goes by a set of those for which    *)
(* the claim holds, in place of a predicate.                                 *)

LEMMA NaturalsHaveALeast ==
  ASSUME NEW S \in SUBSET Nat, S # {}
  PROVE  \E x \in S : \A y \in S : x <= y
<1>1. PICK x \in S : \A y \in S : ~ (<<y, x>> \in OpToRel(<, Nat))
  BY NatLessThanWellFounded, WFMin, Zenon
<1>2. \A y \in S : ~ (y < x) BY <1>1 DEF OpToRel
<1> QED BY <1>2

\* A set of numbers with 0 and the successor of each member has all of them.
LEMMA AllNaturals ==
  ASSUME NEW T, 0 \in T, \A n \in Nat : n \in T => n + 1 \in T
  PROVE  Nat \subseteq T
<1> SUFFICES ASSUME Nat \ T # {} PROVE FALSE
  OBVIOUS
<1>1. PICK m \in Nat \ T : \A k \in Nat \ T : m <= k
  BY NaturalsHaveALeast
<1>2. m # 0 /\ m - 1 \in Nat /\ ~(m <= m - 1)
  BY <1>1
<1>3. m - 1 \in T
  BY <1>1, <1>2
<1>4. (m - 1) + 1 \in T
  BY <1>2, <1>3
<1> QED BY <1>1, <1>4

\* A fold over a finite set has a value at each subset: base for the empty
\* set, otherwise a step from the value without the element that pick chooses.
Chooses(pick, S) == \A s \in SUBSET S : s # {} => pick[s] \in s

IsFold(g, S, base, step, pick) ==
  \A s \in SUBSET S :
    g[s] = IF s = {} THEN base ELSE step[s][g[s \ {pick[s]}]]

LEMMA FoldExists ==
  ASSUME NEW S, IsFiniteSet(S), NEW V, NEW base \in V,
         NEW step \in [SUBSET S -> [V -> V]], NEW pick, Chooses(pick, S)
  PROVE  \E g \in [SUBSET S -> V] : IsFold(g, S, base, step, pick)
<1> DEFINE Small(n) == {s \in SUBSET S : Cardinality(s) <= n}
           Value(g, s) == IF s = {} THEN base ELSE step[s][g[s \ {pick[s]}]]
           T == {n \in Nat : \E g \in [Small(n) -> V] :
                               \A s \in Small(n) : g[s] = Value(g, s)}
<1>1. \A s \in SUBSET S : IsFiniteSet(s) /\ Cardinality(s) \in Nat
  BY FS_Subset, FS_CardinalityType
<1>2. ASSUME NEW s \in SUBSET S, s # {}
      PROVE  /\ s \ {pick[s]} \in SUBSET S
             /\ Cardinality(s \ {pick[s]}) = Cardinality(s) - 1
  <2>1. pick[s] \in s /\ IsFiniteSet(s) BY <1>1, <1>2 DEF Chooses
  <2>2. Cardinality(s \ {pick[s]}) =
          IF pick[s] \in s THEN Cardinality(s) - 1 ELSE Cardinality(s)
    BY <2>1, FS_RemoveElement, Zenon
  <2> QED BY <2>1, <2>2
<1>3. 0 \in T
  <2> DEFINE g == [s \in Small(0) |-> base]
  <2>1. \A s \in Small(0) : s = {}
    BY <1>1, FS_EmptySet
  <2>2. g \in [Small(0) -> V] /\ \A s \in Small(0) : g[s] = Value(g, s)
    BY <2>1
  <2> HIDE DEF g
  <2> QED BY <2>2
<1>4. ASSUME NEW n \in Nat, n \in T PROVE n + 1 \in T
  <2>1. PICK g \in [Small(n) -> V] : \A s \in Small(n) : g[s] = Value(g, s)
    BY <1>4
  <2> DEFINE h == [s \in Small(n + 1) |-> Value(g, s)]
  <2>2. ASSUME NEW s \in Small(n + 1), s # {}
        PROVE  /\ s \ {pick[s]} \in Small(n) /\ s \ {pick[s]} \in Small(n + 1)
               /\ Cardinality(s) \in Nat
    <3>1. s \in SUBSET S /\ Cardinality(s) <= n + 1 BY <2>2
    <3> QED BY <1>1, <1>2, <2>2, <3>1
  <2>3. ASSUME NEW s \in Small(n + 1) PROVE h[s] = Value(g, s) /\ h[s] \in V
    <3>1. h[s] = Value(g, s) OBVIOUS
    <3>2. s # {} => g[s \ {pick[s]}] \in V BY <2>1, <2>2
    <3>3. step[s] \in [V -> V] OBVIOUS
    <3> HIDE DEF h
    <3> QED BY <3>1, <3>2, <3>3
  <2>4. \A s \in Small(n) : s \in Small(n + 1) /\ h[s] = g[s]
    <3>1. Small(n) \subseteq Small(n + 1) BY <1>1
    <3> QED BY <2>1, <3>1
  <2>5. \A s \in Small(n + 1) : h[s] = Value(h, s)
    <3> SUFFICES ASSUME NEW s \in Small(n + 1) PROVE h[s] = Value(h, s)
      OBVIOUS
    <3>1. h[s] = Value(g, s) BY <2>3
    <3>2. s # {} => h[s \ {pick[s]}] = g[s \ {pick[s]}] BY <2>2, <2>4
    <3> HIDE DEF h
    <3> QED BY <3>1, <3>2
  <2>6. h \in [Small(n + 1) -> V] BY <2>3
  <2> HIDE DEF h, Value, Small
  <2>7. \E f \in [Small(n + 1) -> V] : \A s \in Small(n + 1) : f[s] = Value(f, s)
    BY <2>5, <2>6
  <2> QED BY <2>7
<1>5. Cardinality(S) \in T
  <2> HIDE DEF T
  <2>1. Nat \subseteq T BY <1>3, <1>4, AllNaturals
  <2> QED BY <2>1, <1>1
<1>6. Small(Cardinality(S)) = SUBSET S
  <2>1. \A s \in SUBSET S : Cardinality(s) <= Cardinality(S) BY FS_Subset
  <2> QED BY <2>1
<1>7. PICK g \in [SUBSET S -> V] : \A s \in SUBSET S : g[s] = Value(g, s)
  <2> HIDE DEF Value, Small
  <2> QED BY <1>5, <1>6
<1> QED BY <1>7 DEF IsFold

\* A family of sets with the empty set, and with each set of which it has what
\* is left without the element that pick chooses, has all subsets.
LEMMA AllSubsets ==
  ASSUME NEW S, IsFiniteSet(S), NEW T, NEW pick, {} \in T,
         Chooses(pick, S),
         \A s \in SUBSET S : s # {} /\ s \ {pick[s]} \in T => s \in T
  PROVE  SUBSET S \subseteq T
<1> DEFINE Reached == {n \in Nat : \A s \in SUBSET S : Cardinality(s) <= n => s \in T}
<1>1. \A s \in SUBSET S : IsFiniteSet(s) /\ Cardinality(s) \in Nat
  BY FS_Subset, FS_CardinalityType
<1>2. 0 \in Reached
  <2>1. \A s \in SUBSET S : Cardinality(s) <= 0 => s = {} BY <1>1, FS_EmptySet
  <2> QED BY <2>1
<1>3. ASSUME NEW n \in Nat, n \in Reached PROVE n + 1 \in Reached
  <2> SUFFICES ASSUME NEW s \in SUBSET S, Cardinality(s) <= n + 1 PROVE s \in T
    OBVIOUS
  <2>1. CASE s = {} BY <2>1
  <2>2. CASE s # {}
    <3>1. pick[s] \in s BY <2>2 DEF Chooses
    <3>2. Cardinality(s \ {pick[s]}) =
            IF pick[s] \in s THEN Cardinality(s) - 1 ELSE Cardinality(s)
      BY <1>1, FS_RemoveElement, Zenon
    <3>3. Cardinality(s \ {pick[s]}) <= n /\ s \ {pick[s]} \in SUBSET S
      BY <1>1, <3>1, <3>2
    <3>4. s \ {pick[s]} \in T BY <1>3, <3>3
    <3> QED BY <2>2, <3>4
  <2> QED BY <2>1, <2>2
<1>4. Cardinality(S) \in Reached
  <2> HIDE DEF Reached
  <2>1. Nat \subseteq Reached BY <1>2, <1>3, AllNaturals
  <2> QED BY <2>1, <1>1
<1> SUFFICES ASSUME NEW s \in SUBSET S PROVE s \in T
  OBVIOUS
<1>5. Cardinality(s) <= Cardinality(S) BY FS_Subset
<1> QED BY <1>4, <1>5

Added(w, g, s) ==
  IF s = {} THEN 0 ELSE w[CHOOSE x \in s : TRUE] + g[s \ {CHOOSE x \in s : TRUE}]

\* Numbers can be added up, and their sum is a number.
LEMMA SumsAreNumbers ==
  ASSUME NEW S, IsFiniteSet(S), NEW w \in [S -> Nat]
  PROVE  /\ \E g : g = [s \in SUBSET S |-> Added(w, g, s)]
         /\ \A g : g = [s \in SUBSET S |-> Added(w, g, s)] => g[S] \in Nat
<1> DEFINE pick == [s \in SUBSET S |-> CHOOSE x \in s : TRUE]
           step == [s \in SUBSET S |->
                     [v \in Nat |-> IF s = {} THEN 0 ELSE w[pick[s]] + v]]
<1>1. Chooses(pick, S)
  BY DEF Chooses
<1>2. step \in [SUBSET S -> [Nat -> Nat]]
  <2> SUFFICES ASSUME NEW s \in SUBSET S, NEW v \in Nat, s # {}
               PROVE  w[pick[s]] + v \in Nat
    OBVIOUS
  <2>1. pick[s] \in S BY <1>1 DEF Chooses
  <2> QED BY <2>1
<1>3. \E g : g = [s \in SUBSET S |-> Added(w, g, s)]
  <2> HIDE DEF pick, step
  <2>1. PICK g \in [SUBSET S -> Nat] : \A s \in SUBSET S :
          g[s] = IF s = {} THEN 0 ELSE step[s][g[s \ {pick[s]}]]
    <3>1. \E g \in [SUBSET S -> Nat] : IsFold(g, S, 0, step, pick)
      BY <1>1, <1>2, FoldExists
    <3> QED BY <3>1 DEF IsFold
  <2>2. ASSUME NEW s \in SUBSET S PROVE g[s] = Added(w, g, s)
    <3>1. CASE s = {} BY <2>1, <3>1 DEF Added
    <3>2. CASE s # {}
      <4>1. g[s \ {pick[s]}] \in Nat BY <2>1
      <4>2. pick[s] = CHOOSE x \in s : TRUE BY DEF pick
      <4>3. step[s][g[s \ {pick[s]}]] = w[pick[s]] + g[s \ {pick[s]}]
        BY <4>1, <3>2 DEF step
      <4>4. g[s] = step[s][g[s \ {pick[s]}]] BY <2>1, <3>2
      <4> QED BY <3>2, <4>2, <4>3, <4>4 DEF Added
    <3> QED BY <3>1, <3>2
  <2>3. g = [s \in SUBSET S |-> Added(w, g, s)] BY <2>1, <2>2
  <2> QED BY <2>3
<1>4. ASSUME NEW g, g = [s \in SUBSET S |-> Added(w, g, s)] PROVE g[S] \in Nat
  <2> DEFINE T == {s \in SUBSET S : g[s] \in Nat}
  <2>1. \A s \in SUBSET S : g[s] = Added(w, g, s) BY <1>4
  <2>2. {} \in T BY <2>1 DEF Added
  <2>3. ASSUME NEW s \in SUBSET S, s # {}, s \ {pick[s]} \in T PROVE s \in T
    <3>1. pick[s] \in s /\ pick[s] = CHOOSE x \in s : TRUE BY <1>1, <2>3 DEF Chooses
    <3>2. w[pick[s]] \in Nat /\ g[s \ {pick[s]}] \in Nat BY <2>3, <3>1
    <3>3. g[s] = w[pick[s]] + g[s \ {pick[s]}] BY <2>1, <2>3, <3>1 DEF Added
    <3> QED BY <3>2, <3>3
  <2>4. SUBSET S \subseteq T
    <3> HIDE DEF T, pick
    <3> QED BY <1>1, <2>2, <2>3, AllSubsets
  <2> QED BY <2>4
<1> QED BY <1>3, <1>4

\* What the repositories add up from the rows is a number.
LEMMA StakeIsANumber ==
  ASSUME RowsOK
  PROVE  OpenStake \in Nat
<1> DEFINE S == OpenTrades
           w == [t \in S |-> trades[t].stake]
           Row(g, s) == IF s = {} THEN 0
                        ELSE trades[CHOOSE x \in s : TRUE].stake
                               + g[s \ {CHOOSE x \in s : TRUE}]
           Sum == CHOOSE g : g = [s \in SUBSET S |-> Row(g, s)]
<1>1. IsFiniteSet(S) /\ w \in [S -> Nat]
  <2>1. S \in SUBSET Trades BY DEF OpenTrades
  <2>2. ASSUME NEW t \in S PROVE trades[t].stake \in Nat
    <3>1. trades[t] \in TradeRow \cup {NoTrade} /\ trades[t].status = "open"
      BY DEF OpenTrades, IsOpen, RowsOK
    <3>2. trades[t].stake \in Stakes BY <3>1 DEF TradeRow, NoTrade
    <3> QED BY <3>2, RiskAssumption
  <2> QED BY <2>1, <2>2, RiskAssumption, FS_Subset
<1>2. ASSUME NEW g
      PROVE  [s \in SUBSET S |-> Row(g, s)] = [s \in SUBSET S |-> Added(w, g, s)]
  <2> SUFFICES ASSUME NEW s \in SUBSET S PROVE Row(g, s) = Added(w, g, s)
    OBVIOUS
  <2>1. s # {} => (CHOOSE x \in s : TRUE) \in S OBVIOUS
  <2> QED BY <2>1 DEF Added
<1>3. OpenStake = Sum[S]
  BY DEF OpenStake, MapThenSumSet, MapThenFoldSet
<1> HIDE DEF S, w, Row
<1>4. /\ \E g : g = [s \in SUBSET S |-> Added(w, g, s)]
      /\ \A g : g = [s \in SUBSET S |-> Added(w, g, s)] => g[S] \in Nat
  BY <1>1, SumsAreNumbers
<1>5. \E g : g = [s \in SUBSET S |-> Row(g, s)]
  BY <1>2, <1>4
<1>6. Sum = [s \in SUBSET S |-> Row(Sum, s)]
  BY <1>5
<1> HIDE DEF Sum
<1> QED BY <1>2, <1>3, <1>4, <1>6

LEMMA LossIsANumber ==
  ASSUME RowsOK
  PROVE  TodayLoss \in Nat
<1> DEFINE S == {t \in ClosedTrades : trades[t].closedDay = Day(now)}
           w == [t \in S |-> trades[t].loss]
           Row(g, s) == IF s = {} THEN 0
                        ELSE trades[CHOOSE x \in s : TRUE].loss
                               + g[s \ {CHOOSE x \in s : TRUE}]
           Sum == CHOOSE g : g = [s \in SUBSET S |-> Row(g, s)]
<1>1. IsFiniteSet(S) /\ w \in [S -> Nat]
  <2>1. S \in SUBSET Trades BY DEF ClosedTrades
  <2>2. ASSUME NEW t \in S PROVE trades[t].loss \in Nat
    <3>1. trades[t] \in TradeRow \cup {NoTrade} /\ trades[t].status = "closed"
      BY DEF ClosedTrades, RowsOK
    <3>2. trades[t].loss \in Losses BY <3>1 DEF TradeRow, NoTrade
    <3> QED BY <3>2, RiskAssumption
  <2> QED BY <2>1, <2>2, RiskAssumption, FS_Subset
<1>2. ASSUME NEW g
      PROVE  [s \in SUBSET S |-> Row(g, s)] = [s \in SUBSET S |-> Added(w, g, s)]
  <2> SUFFICES ASSUME NEW s \in SUBSET S PROVE Row(g, s) = Added(w, g, s)
    OBVIOUS
  <2>1. s # {} => (CHOOSE x \in s : TRUE) \in S OBVIOUS
  <2> HIDE DEF S
  <2> QED BY <2>1 DEF Added
<1>3. TodayLoss = Sum[S]
  BY DEF TodayLoss, MapThenSumSet, MapThenFoldSet
<1> HIDE DEF S, w, Row
<1>4. /\ \E g : g = [s \in SUBSET S |-> Added(w, g, s)]
      /\ \A g : g = [s \in SUBSET S |-> Added(w, g, s)] => g[S] \in Nat
  BY <1>1, SumsAreNumbers
<1>5. \E g : g = [s \in SUBSET S |-> Row(g, s)]
  BY <1>2, <1>4
<1>6. Sum = [s \in SUBSET S |-> Row(Sum, s)]
  BY <1>5
<1> HIDE DEF Sum
<1> QED BY <1>2, <1>3, <1>4, <1>6

LEMMA StreakIsANumber ==
  ASSUME closings \in Seq(Trades)
  PROVE  LossStreak \in Nat
<1>1. DOMAIN closings = 1..Len(closings) /\ Len(closings) \in Nat
  OBVIOUS
<1>2. IsFiniteSet(DOMAIN closings)
  BY <1>1, FS_Interval
<1>3. {i \in DOMAIN closings : \A j \in i..Len(closings) : trades[closings[j]].loss > 0}
        \in SUBSET DOMAIN closings
  OBVIOUS
<1> QED BY <1>2, <1>3, FS_Subset, FS_CardinalityType DEF LossStreak

-----------------------------------------------------------------------------
(* The types of all variables, the cached sums included.                    *)

LEMMA RowsAndClock == TypeOK => RowsOK /\ ClockOK
BY DEF TypeOK, RowsOK, ClockOK

LEMMA RestOfTheEvents ==
  ASSUME events \in Seq(Event), events # <<>>
  PROVE  Head(events) \in Event /\ Tail(events) \in Seq(Event)
OBVIOUS

LEMMA CheckTyped == TypeOK /\ (Check \/ \E d \in Directions : StartCheck(d)) => TypeOK'
<1> SUFFICES ASSUME TypeOK, Check \/ \E d \in Directions : StartCheck(d) PROVE TypeOK'
  OBVIOUS
<1>1. listener \in Listener /\ cache \in Cache /\ slipped \in Nat /\ pausedUntil \in Nat
  BY DEF TypeOK
<1>2. ASSUME NEW d \in Directions, StartCheck(d) PROVE TypeOK'
  <2>1. listener' \in Listener /\ pausedUntil' \in Nat
    BY <1>1, <1>2 DEF StartCheck, ForgetExpiredPause, Listener, CheckPoints
  <2> QED BY <1>2, <2>1 DEF TypeOK, StartCheck, rowsInDB
<1>3. ASSUME listener.pc \in CheckPoints
      PROVE  listener \in [pc : CheckPoints, dir : Directions, seen : Cache]
  BY <1>1, <1>3 DEF Listener, CheckPoints, Idle
<1>4. ASSUME Check PROVE listener' \in Listener /\ slipped' \in Nat
  <2>1. listener.pc \in CheckPoints
    BY <1>4 DEF Check, CheckLoss, CheckStreak, CheckTrades, CheckDirection, CheckStake,
       CheckPoints
  <2>2. listener.dir \in Directions /\ listener.seen \in Cache BY <1>3, <2>1
  <2>3. \/ listener' = Idle
        \/ \E point \in CheckPoints : GoOn(point)
        \/ listener' = [pc |-> "approved", dir |-> listener.dir]
    BY <1>4 DEF Check, CheckLoss, CheckStreak, CheckTrades, CheckDirection, CheckStake,
       CheckPoints, Refuse
  <2>4. slipped' \in {slipped, slipped + 1}
    BY <1>4 DEF Check, CheckLoss, CheckStreak, CheckTrades, CheckDirection, CheckStake
  <2>5. slipped' \in Nat BY <1>1, <2>4
  <2>6. listener' \in Listener BY <2>2, <2>3 DEF Listener, GoOn
  <2> QED BY <2>5, <2>6
<1>5. CASE Check
  <2>1. UNCHANGED <<rowsInDB, events, cache, pausedUntil, monitor, now, lost, restarts>>
    BY <1>5 DEF Check, CheckLoss, CheckStreak, CheckTrades, CheckDirection, CheckStake
  <2> QED BY <1>4, <1>5, <2>1 DEF TypeOK, rowsInDB
<1> QED BY <1>2, <1>5

LEMMA OpenTyped == TypeOK /\ (Open \/ \E t \in Trades : CloseTrade(t)) => TypeOK'
<1> SUFFICES ASSUME TypeOK, Open \/ \E t \in Trades : CloseTrade(t) PROVE TypeOK'
  OBVIOUS
<1>1. /\ listener \in Listener /\ events \in Seq(Event) /\ Day(now) \in Days
      /\ trades \in [Trades -> TradeRow \cup {NoTrade}] /\ closings \in Seq(Trades)
      /\ lost \in 0..MaxLostEvents
  BY RowsAndClock, TodayIsADay DEF TypeOK
<1>2. ASSUME listener.pc \in Committed PROVE listener.dir \in Directions
  BY <1>1, <1>2 DEF Listener, CheckPoints, Committed, Idle
<1>3. CASE OpenFails
  BY <1>3 DEF OpenFails, TypeOK, rowsInDB, Listener
<1>4. CASE OrderFilled
  <2>1. listener' \in Listener
    BY <1>2, <1>4 DEF OrderFilled, Listener, Committed
  <2>2. events' \in Seq(Event)
    BY <1>1, <1>4 DEF OrderFilled, Event
  <2> QED BY <1>4, <2>1, <2>2 DEF OrderFilled, TypeOK, rowsInDB
<1>5. CASE RecordTrade
  <2>1. PICK t \in Trades, stake \in Stakes :
          trades' = [trades EXCEPT ![t] =
            [status |-> "open", dir |-> listener.dir, stake |-> stake, day |-> Day(now)]]
    BY <1>5 DEF RecordTrade
  <2>2. listener.dir \in Directions BY <1>2, <1>5 DEF RecordTrade, Committed
  <2>3. trades' \in [Trades -> TradeRow \cup {NoTrade}]
    BY <1>1, <2>1, <2>2 DEF TradeRow
  <2> QED BY <1>5, <2>3 DEF RecordTrade, TypeOK, Listener
<1>6. ASSUME NEW t \in Trades, CloseTrade(t) PROVE TypeOK'
  <2>1. PICK loss \in Losses :
          /\ trades' = [trades EXCEPT ![t] =
               [status |-> "closed", dir |-> @.dir, stake |-> @.stake, day |-> @.day,
                loss |-> loss, closedDay |-> Day(now)]]
          /\ closings' = Append(closings, t)
          /\ \/ /\ events' = Append(events, [kind |-> "closed", loss |-> loss])
                /\ UNCHANGED lost
             \/ /\ lost < MaxLostEvents
                /\ lost' = lost + 1
                /\ UNCHANGED events
    BY <1>6 DEF CloseTrade
  <2>2. trades[t] \in [status : {"open"}, dir : Directions, stake : Stakes, day : Days]
    BY <1>1, <1>6 DEF CloseTrade, IsOpen, TradeRow, NoTrade
  <2>3. trades' \in [Trades -> TradeRow \cup {NoTrade}]
    BY <1>1, <2>1, <2>2 DEF TradeRow
  <2>4. closings' \in Seq(Trades) BY <1>1, <2>1
  <2>5. events' \in Seq(Event)
    <3> DEFINE e == [kind |-> "closed", loss |-> loss]
    <3>1. e \in Event BY DEF Event
    <3>2. events' = events \/ events' = Append(events, e) BY <2>1
    <3> HIDE DEF e
    <3> QED BY <1>1, <3>1, <3>2
  <2>6. lost' \in 0..MaxLostEvents BY <1>1, <2>1, RiskAssumption
  <2> QED BY <1>6, <2>3, <2>4, <2>5, <2>6 DEF CloseTrade, TypeOK
<1> QED BY <1>3, <1>4, <1>5, <1>6 DEF Open

LEMMA EventsTyped == TypeOK /\ HandleEvent => TypeOK'
<1> SUFFICES ASSUME TypeOK, HandleEvent PROVE TypeOK'
  OBVIOUS
<1>1. /\ listener \in Listener /\ events \in Seq(Event) /\ cache \in Cache
      /\ closings \in Seq(Trades) /\ rowOpened \in [Days -> Nat]
  BY DEF TypeOK
<1>2. CASE OnOrderFilled
  <2>1. events' \in Seq(Event) BY <1>1, <1>2, RestOfTheEvents DEF OnOrderFilled
  <2>2. UNCHANGED <<rowOpened, cache>> BY <1>2 DEF OnOrderFilled, FilledForAccount
  <2> QED BY <1>2, <2>1, <2>2 DEF OnOrderFilled, TypeOK
<1>3. CASE OnTradeClosed
  <2> DEFINE loss == Head(events).loss
  <2>1. events' \in Seq(Event) /\ Head(events) \in Event
    BY <1>1, <1>3, RestOfTheEvents DEF OnTradeClosed
  <2>2. Head(events).kind = "closed" BY <1>3 DEF OnTradeClosed
  <2>3. loss \in Losses BY <2>1, <2>2 DEF Event
  <2>4. cache.loss + loss \in Nat
    <3>1. cache.loss \in Nat /\ loss \in Nat BY <1>1, <2>3, RiskAssumption DEF Cache
    <3> QED BY <3>1
  <2>5. \/ UNCHANGED <<cache, listener>>
        \/ /\ cache' = Cached(cache.loss + loss, cache.streak, cache.opened, cache.stake)
           /\ listener' = [pc |-> "loss_added", loss |-> loss]
    BY <1>3 DEF OnTradeClosed, AddLoss
  <2> HIDE DEF loss
  <2>6. cache' \in Cache
    <3>1. ASSUME NEW sum \in Nat,
                 cache' = Cached(sum, cache.streak, cache.opened, cache.stake)
          PROVE  cache' \in Cache
      BY <1>1, <3>1 DEF Cache, Cached
    <3> QED BY <1>1, <2>4, <2>5, <3>1
  <2>7. listener' \in Listener BY <1>1, <2>3, <2>5 DEF Listener
  <2> QED BY <1>3, <2>1, <2>6, <2>7 DEF OnTradeClosed, TypeOK, rowsInDB
<1>4. CASE ReadLossStreak
  <2>1. listener.loss \in Losses
    BY <1>1, <1>4 DEF ReadLossStreak, Listener, CheckPoints, Idle
  <2>2. listener' \in Listener
    BY <1>1, <1>4, <2>1, StreakIsANumber DEF ReadLossStreak, Listener
  <2> QED BY <1>4, <2>2 DEF ReadLossStreak, TypeOK, rowsInDB
<1>5. CASE CacheLoss
  <2>1. listener.loss \in Losses /\ listener.streak \in Nat
    BY <1>1, <1>5 DEF CacheLoss, Listener, CheckPoints, Idle
  <2>2. cache.loss + listener.loss \in Nat
    <3>1. cache.loss \in Nat /\ listener.loss \in Nat
      BY <1>1, <2>1, RiskAssumption DEF Cache
    <3> QED BY <3>1
  <2>3. cache' = Cached(cache.loss + listener.loss, listener.streak, cache.opened,
                        cache.stake)
    BY <1>5 DEF CacheLoss, AddLoss
  <2>4. cache' \in Cache BY <1>1, <2>1, <2>2, <2>3 DEF Cache, Cached
  <2>5. listener' \in Listener BY <1>5 DEF CacheLoss, Listener
  <2> QED BY <1>5, <2>4, <2>5 DEF CacheLoss, TypeOK, rowsInDB
<1> QED BY <1>2, <1>3, <1>4, <1>5 DEF HandleEvent

LEMMA MonitorTyped == TypeOK /\ MonitorPass => TypeOK'
<1> SUFFICES ASSUME TypeOK, MonitorPass PROVE TypeOK'
  OBVIOUS
<1>1. /\ monitor \in Monitor /\ rowOpened \in [Days -> Nat] /\ Day(now) \in Days
      /\ now \in Nat /\ slipped \in Nat
  BY RowsAndClock, TodayIsADay, RiskAssumption DEF TypeOK
<1>2. OpenStake \in Nat /\ TodayLoss \in Nat /\ LossStreak \in Nat
  BY RowsAndClock, StakeIsANumber, LossIsANumber, StreakIsANumber DEF TypeOK
<1>3. monitor' \in Monitor
  <2>1. CASE StartPass BY <1>2, <2>1 DEF StartPass, Monitor
  <2>2. CASE PassReadsRow
    <3>1. monitor.stake \in Nat BY <1>1, <2>2 DEF PassReadsRow, Monitor, Idle
    <3> QED BY <1>1, <2>2, <3>1 DEF PassReadsRow, Monitor
  <2>3. CASE PassReadsLoss
    <3>1. monitor.stake \in Nat /\ monitor.opened \in Nat
      BY <1>1, <2>3 DEF PassReadsLoss, Monitor, Idle
    <3>2. \/ monitor' = [pc |-> "alert"]
          \/ monitor' = [pc |-> "read_streak", stake |-> monitor.stake,
                          opened |-> monitor.opened, loss |-> TodayLoss]
      BY <2>3 DEF PassReadsLoss
    <3> QED BY <1>2, <3>1, <3>2 DEF Monitor
  <2>4. CASE PassReadsStreak
    <3>1. monitor.stake \in Nat /\ monitor.opened \in Nat /\ monitor.loss \in Nat
      BY <1>1, <2>4 DEF PassReadsStreak, Monitor, Idle
    <3>2. \/ monitor' = [pc |-> "alert"]
          \/ monitor' = [pc |-> "write", stake |-> monitor.stake,
                          opened |-> monitor.opened, loss |-> monitor.loss,
                          streak |-> LossStreak]
      BY <2>4 DEF PassReadsStreak
    <3> QED BY <1>2, <3>1, <3>2 DEF Monitor
  <2>5. CASE Pause BY <2>5 DEF Pause, Monitor
  <2>6. CASE PassWritesCache BY <2>6 DEF PassWritesCache, Monitor
  <2> QED BY <2>1, <2>2, <2>3, <2>4, <2>5, <2>6 DEF MonitorPass
<1>4. CASE StartPass \/ PassReadsRow \/ PassReadsLoss \/ PassReadsStreak
  <2>1. UNCHANGED <<rowsInDB, events, cache, pausedUntil, listener, now, lost, restarts,
                    slipped>>
    BY <1>4 DEF StartPass, PassReadsRow, PassReadsLoss, PassReadsStreak
  <2> QED BY <1>3, <2>1 DEF TypeOK, rowsInDB
<1>5. CASE Pause
  <2>1. pausedUntil' \in Nat
    <3>1. PauseTicks \in Nat BY RiskAssumption
    <3> QED BY <1>1, <1>5, <3>1 DEF Pause
  <2>2. slipped' \in Nat BY <1>1, <1>5 DEF Pause
  <2> QED BY <1>3, <1>5, <2>1, <2>2 DEF Pause, TypeOK, rowsInDB
<1>6. CASE PassWritesCache
  <2>1. monitor \in [pc : {"write"}, stake : Nat, opened : Nat, loss : Nat, streak : Nat]
    BY <1>1, <1>6 DEF PassWritesCache, Monitor, Idle
  <2>2. cache' \in Cache BY <1>6, <2>1 DEF PassWritesCache, Cache, Cached
  <2> QED BY <1>3, <1>6, <2>2 DEF PassWritesCache, TypeOK, rowsInDB
<1> QED BY <1>4, <1>5, <1>6 DEF MonitorPass

\* Whatever is opened, closed, delivered and lost: sums, counts and what the
\* handlers have read are numbers, and no action meets a row it does not know.
THEOREM RiskTypeCorrect == Spec => []TypeOK
<1>1. Init => TypeOK
  <2> SUFFICES ASSUME Init PROVE TypeOK
    OBVIOUS
  <2>1. 0 \in 0..MaxTime /\ 0 \in 0..MaxLostEvents /\ 0 \in 0..MaxRestarts
    BY RiskAssumption
  <2> QED BY <2>1 DEF Init, TypeOK, Cache, NoCache, Listener, Monitor, Idle
<1>2. TypeOK /\ [Next]_vars => TypeOK'
  <2> SUFFICES ASSUME TypeOK, [Next]_vars PROVE TypeOK'
    OBVIOUS
  <2>1. CASE Tick
    <3>1. now' \in 0..MaxTime
      <4>1. now \in 0..MaxTime /\ MaxTime \in Nat BY RiskAssumption DEF TypeOK
      <4> QED BY <2>1, <4>1 DEF Tick
    <3> QED BY <2>1, <3>1 DEF Tick, TypeOK, rowsInDB
  <2>2. CASE Restart
    <3>1. restarts' \in 0..MaxRestarts
      <4>1. restarts \in 0..MaxRestarts /\ MaxRestarts \in Nat
        BY RiskAssumption DEF TypeOK
      <4> QED BY <2>2, <4>1 DEF Restart
    <3> QED BY <2>2, <3>1
        DEF Restart, TypeOK, rowsInDB, Cache, NoCache, Listener, Monitor, Idle
  <2>3. CASE UNCHANGED vars
    BY <2>3 DEF vars, rowsInDB, TypeOK
  <2> QED
    BY <2>1, <2>2, <2>3, CheckTyped, OpenTyped, EventsTyped, MonitorTyped DEF Next
<1> QED
  BY <1>1, <1>2, PTL DEF Spec

=============================================================================
