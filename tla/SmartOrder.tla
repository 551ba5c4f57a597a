------------------------------ MODULE SmartOrder ------------------------------
(***************************************************************************)
(* The smart order engine: one order of Amount units bought (or sold) by   *)
(* one market order, in TWAP slices, in VWAP slices, or as an iceberg of   *)
(* limit orders that are placed, looked at and cancelled one by one.       *)
(*                                                                         *)
(* The exchange is external.  It may execute less than it is asked for and *)
(* answer without saying how much it was, a call may raise after it took   *)
(* effect, and a limit order is executed bit by bit while the engine       *)
(* sleeps.  bought is what was really executed; filled is what the engine  *)
(* believes.  Two auxiliary variables, which no guard reads, say how the   *)
(* two come apart: assumed and missed.                                     *)
(***************************************************************************)
EXTENDS Integers

CONSTANTS
  Amount,           \* units to execute
  TwapIntervals,
  Volumes,          \* what VWAP may find to be its share of the volume
  Displays,         \* sizes an iceberg slice may have
  MaxIterations,    \* cap of the iceberg loop
  MaxDuration,      \* time after which VWAP and iceberg give up
  MaxOrderFaults    \* bound on failing calls

ASSUME OrderAssumption ==
  /\ Amount \in Nat \ {0} /\ TwapIntervals \in Nat \ {0}
  /\ Amount % TwapIntervals = 0
  /\ Volumes \subseteq Nat /\ Displays \subseteq Nat \ {0}
  /\ MaxIterations \in Nat /\ MaxDuration \in Nat /\ MaxOrderFaults \in Nat

VARIABLES
  algo,
  hasExchange,      \* was the engine given an exchange?
  order,            \* the loop: where it is, iterations and time so far,
                    \*   filled_amount, and the status of the result
  slice,            \* the iceberg slice in hand: its size and what is open
  resting,          \* units of earlier slices left at the exchange
  bought,           \* units the exchange has executed for this order
  assumed,          \* units believed executed that were not
  missed,           \* units executed without the engine's knowing
  orderFaults

books == <<bought, assumed, missed>>
orderVars == <<algo, hasExchange, order, slice, resting, books, orderFaults>>

-----------------------------------------------------------------------------
Algos == {"MARKET", "TWAP", "VWAP", "ICEBERG"}

OrderTypeOK ==
  /\ algo \in Algos /\ hasExchange \in BOOLEAN
  /\ order \in [pc : {"idle", "next", "check", "cancel", "done"}, turn : Nat,
                clock : 0..(MaxDuration + 1), filled : 0..Amount,
                status : {"", "filled", "partial", "failed", "no_exchange"}]
  /\ slice \in [size : Nat, open : Nat]
  /\ resting \in Nat /\ bought \in Nat /\ assumed \in Nat /\ missed \in Nat
  /\ orderFaults \in 0..MaxOrderFaults

NoSlice == [size |-> 0, open |-> 0]

OrderInit ==
  /\ algo = "MARKET" /\ hasExchange = TRUE
  /\ order = [pc |-> "idle", turn |-> 0, clock |-> 0, filled |-> 0, status |-> ""]
  /\ slice = NoSlice
  /\ resting = 0 /\ bought = 0 /\ assumed = 0 /\ missed = 0 /\ orderFaults = 0

\* execute() is called for an order, with an exchange or without.
Submit ==
  /\ order.pc = "idle"
  /\ order' = [order EXCEPT !.pc = "next"]
  /\ algo' \in Algos /\ hasExchange' \in BOOLEAN
  /\ UNCHANGED <<slice, resting, books, orderFaults>>

OrderFault == orderFaults < MaxOrderFaults /\ orderFaults' = orderFaults + 1

\* 99 % of the amount.
Enough(n) == 100 * n >= 99 * Amount

Remaining == Amount - order.filled

Lesser(a, b) == IF a < b THEN a ELSE b

Finish(filled, status) ==
  order' = [order EXCEPT !.pc = "done", !.filled = filled, !.status = status]

\* Time that passed during an iteration, up to where it makes no difference.
Later == Lesser(order.clock + 1, MaxDuration + 1)

Continue(filled) ==
  order' = [order EXCEPT !.turn = @ + 1, !.clock = Later, !.filled = filled]

Credited(n) == order.filled + n

\* What the engine reads from the answer to an order of n units of which some
\* were executed: that number or, when the answer has no "filled", n.
Told(executed, n) == {executed, n}

\* A market order of n units is executed in part or in whole.
MarketOrder(n) ==
  \E executed \in 0..n :
    /\ bought' = bought + executed
    /\ \/ /\ \E filled \in Told(executed, n) :
               /\ Continue(Credited(filled))
               /\ assumed' = assumed + (filled - executed)
          /\ UNCHANGED <<missed, orderFaults>>
       \/ /\ OrderFault
          /\ Continue(order.filled)
          /\ missed' = missed + executed
          /\ UNCHANGED assumed

-----------------------------------------------------------------------------
(***************************************************************************)
(* Market order, TWAP and VWAP                                             *)
(***************************************************************************)
ExecuteMarket ==
  /\ algo = "MARKET" /\ order.pc = "next"
  /\ \/ /\ ~hasExchange
        /\ Finish(0, "no_exchange")
        /\ UNCHANGED <<books, orderFaults>>
     \/ /\ hasExchange
        /\ \E executed \in 0..Amount :
             /\ bought' = executed
             /\ \/ /\ \E filled \in Told(executed, Amount) :
                        Finish(filled, "filled") /\ assumed' = filled - executed
                   /\ UNCHANGED <<missed, orderFaults>>
                \/ /\ OrderFault
                   /\ Finish(0, "failed")
                   /\ missed' = executed
                   /\ UNCHANGED assumed
  /\ UNCHANGED <<algo, hasExchange, slice, resting>>

\* The last slice is what is left.
TwapChunk ==
  IF order.turn = TwapIntervals - 1 THEN Remaining ELSE Amount \div TwapIntervals

ExecuteTwap ==
  /\ algo = "TWAP" /\ order.pc = "next" /\ order.turn < TwapIntervals
  /\ IF hasExchange THEN MarketOrder(TwapChunk)
     ELSE Continue(order.filled) /\ UNCHANGED <<books, orderFaults>>
  /\ UNCHANGED <<algo, hasExchange, slice, resting>>

OutOfTime == order.clock > MaxDuration

VwapChunk(volume) == Lesser(volume, Remaining)

VwapNoExchange ==
  /\ algo = "VWAP" /\ order.pc = "next" /\ ~hasExchange
  /\ Finish(0, "no_exchange")
  /\ UNCHANGED <<algo, hasExchange, slice, resting, books, orderFaults>>

ExecuteVwap ==
  /\ algo = "VWAP" /\ order.pc = "next" /\ hasExchange
  /\ ~Enough(order.filled) /\ ~OutOfTime
  /\ \/ \E volume \in Volumes :
          IF VwapChunk(volume) > 0 THEN MarketOrder(VwapChunk(volume))
          ELSE Continue(order.filled) /\ UNCHANGED <<books, orderFaults>>
     \/ OrderFault /\ Continue(order.filled) /\ UNCHANGED books
  /\ UNCHANGED <<algo, hasExchange, slice, resting>>

-----------------------------------------------------------------------------
(***************************************************************************)
(* Iceberg                                                                 *)
(***************************************************************************)
IcebergGoesOn ==
  /\ algo = "ICEBERG" /\ order.pc = "next"
  /\ ~Enough(order.filled) /\ order.turn < MaxIterations /\ ~OutOfTime

\* create_order may raise although the order was placed: nobody has its id.
PlaceSlice ==
  /\ IcebergGoesOn /\ hasExchange
  /\ \E display \in Displays :
       LET n == Lesser(display, Remaining)
       IN  \/ /\ slice' = [size |-> n, open |-> n]
              /\ order' = [order EXCEPT !.pc = "check"]
              /\ UNCHANGED <<resting, orderFaults>>
           \/ /\ OrderFault
              /\ resting' \in {resting, resting + n}
              /\ Continue(order.filled)
              /\ UNCHANGED slice
  /\ UNCHANGED <<algo, hasExchange, books>>

IdleIterationUncounted ==
  /\ IcebergGoesOn /\ ~hasExchange
  /\ order' = order
  /\ UNCHANGED <<algo, hasExchange, slice, resting, books, orderFaults>>

IdleIteration ==
  /\ IcebergGoesOn /\ ~hasExchange
  /\ order' = [order EXCEPT !.turn = @ + 1]
  /\ UNCHANGED <<algo, hasExchange, slice, resting, books, orderFaults>>

\* The exchange executes some of the slice, or of a slice left behind.
Execute ==
  \/ /\ \E n \in 1..slice.open :
          bought' = bought + n /\ slice' = [slice EXCEPT !.open = @ - n]
     /\ UNCHANGED <<algo, hasExchange, order, resting, assumed, missed, orderFaults>>
  \/ /\ \E n \in 1..resting :
          bought' = bought + n /\ missed' = missed + n /\ resting' = resting - n
     /\ UNCHANGED <<algo, hasExchange, order, slice, assumed, orderFaults>>

Executed == slice.size - slice.open

NextSlice(filled) ==
  /\ order' = [order EXCEPT !.pc = "next", !.turn = @ + 1, !.clock = Later,
                            !.filled = filled]
  /\ slice' = NoSlice

\* fetch_order.  The slice is closed when all of it was executed; an exchange
\* may also close one that was executed in part.
ClosedSlice ==
  /\ order.pc = "check"
  /\ \E filled \in Told(Executed, slice.size) :
       /\ NextSlice(Credited(filled))
       /\ assumed' = assumed + (filled - Executed)
  /\ UNCHANGED <<algo, hasExchange, resting, bought, missed, orderFaults>>

\* A slice that is not closed is to be cancelled.
OpenSlice ==
  /\ order.pc = "check" /\ slice.open > 0
  /\ order' = [order EXCEPT !.pc = "cancel"]
  /\ UNCHANGED <<algo, hasExchange, slice, resting, books, orderFaults>>

CheckSlice == ClosedSlice \/ OpenSlice

CancelSliceCredited ==
  /\ order.pc = "cancel"
  /\ NextSlice(Credited(slice.size))
  /\ UNCHANGED <<algo, hasExchange, resting, books, orderFaults>>

\* The part of the slice that was executed is not counted; nor is a slice
\* that was closed before the cancellation arrived.
CancelSlice ==
  /\ order.pc = "cancel"
  /\ NextSlice(order.filled)
  /\ missed' = missed + Executed
  /\ UNCHANGED <<algo, hasExchange, resting, bought, assumed, orderFaults>>

\* Either call fails, or the order has no id: the slice stays at the exchange.
SliceLeftBehind ==
  /\ order.pc \in {"check", "cancel"}
  /\ OrderFault
  /\ resting' = resting + slice.open
  /\ missed' = missed + Executed
  /\ NextSlice(order.filled)
  /\ UNCHANGED <<algo, hasExchange, bought, assumed>>

-----------------------------------------------------------------------------
\* The loop of an algorithm is over.
OrderEnds ==
  /\ order.pc = "next"
  /\ \/ algo = "TWAP" /\ order.turn >= TwapIntervals
     \/ algo = "VWAP" /\ hasExchange /\ (Enough(order.filled) \/ OutOfTime)
     \/ algo = "ICEBERG" /\ ~IcebergGoesOn
  /\ Finish(order.filled, IF Enough(order.filled) THEN "filled" ELSE "partial")
  /\ UNCHANGED <<algo, hasExchange, slice, resting, books, orderFaults>>

Engine ==
  \/ ExecuteMarket \/ ExecuteTwap \/ VwapNoExchange \/ ExecuteVwap
  \/ PlaceSlice \/ IdleIteration \/ CheckSlice \/ CancelSlice \/ SliceLeftBehind
  \/ OrderEnds

OrderNext == Submit \/ Engine \/ Execute

OrderSpec == OrderInit /\ [][OrderNext]_orderVars

\* execute() awaits calls that return or raise, and sleeps that end.
OrderFairness == WF_orderVars(Engine)

-----------------------------------------------------------------------------
(***************************************************************************)
(* Properties                                                              *)
(***************************************************************************)

\* The engine reports no more than was executed, when a call fails and when a
\* slice is cancelled while it is being executed; but for what was left of
\* orders executed in part whose answers did not say so.
ReportedWasBought == order.filled <= bought + assumed

\* What is executed beyond the order was executed without the engine's
\* knowing: of failing calls and of slices that were cancelled or left behind.
OverboughtWasMissed == bought <= Amount + missed

\* While no call fails the engine misses nothing that market orders execute,
\* whether their answers say how much it was or not, so that the slices never
\* add up to more than the order.
SlicesNeverOverbuy ==
  algo # "ICEBERG" /\ orderFaults = 0 => missed = 0 /\ bought <= Amount

\* What is bought, what is reported and what was ordered fit together.
OrderIsAccountedFor ==
  ReportedWasBought /\ OverboughtWasMissed /\ SlicesNeverOverbuy

\* The order comes to an end: without volume, without an exchange, and
\* however often the calls fail.
OrderComesToAnEnd == order.pc = "next" ~> order.pc = "done"

=============================================================================
