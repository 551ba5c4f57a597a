--------------------------- MODULE ServicesProofs ---------------------------
(***************************************************************************)
(* What the services guarantee by themselves: reconciliation and the       *)
(* circuit breakers, the order engine, the data feed, the event chain      *)
(* validator, the monitoring and the optimisation; for any number of       *)
(* trades, exchanges, callers, signals and failures, and any timeouts.     *)
(***************************************************************************)
EXTENDS SelfHealing, SmartOrder, DataFeed, EventChain, Monitoring, WalkForward,
        FiniteSetTheorems, WellFoundedInduction, TLAPS

-----------------------------------------------------------------------------
(***************************************************************************)
(* Self-healing.  What reconciliation closes was gone, and a breaker that  *)
(* lets requests through counted fewer failures than its threshold. The    *)
(* first needs that every exchange is connected: the code takes one that   *)
(* is not for one without positions.                                       *)
(***************************************************************************)
Guards(b) == b.state \in {"none", "closed"} <=> b.failures < FailureThreshold

\* A failure is counted, and opens the breaker at the threshold.
LEMMA FailedGuards ==
  ASSUME NEW b \in Breaker, Guards(b)
  PROVE  Failed(b) \in Breaker /\ Guards(Failed(b))
<1> DEFINE n == b.failures + 1
<1>1. n \in Nat /\ FailureThreshold \in Nat
  BY HealAssumption DEF Breaker
<1>2. CASE n >= FailureThreshold
  <2>1. Failed(b) = [state |-> "open", failures |-> n, left |-> RecoveryTimeout]
    BY <1>2 DEF Failed
  <2> QED
    BY <1>1, <1>2, <2>1, HealAssumption DEF Breaker, Guards
<1>3. CASE ~(n >= FailureThreshold)
  <2>1. b.state \in {"none", "closed"}
    BY <1>1, <1>3 DEF Guards, Breaker
  <2>2. Failed(b) = [state |-> "closed", failures |-> n, left |-> b.left]
    BY <1>3, <2>1 DEF Failed
  <2> QED
    BY <1>1, <1>3, <2>2 DEF Breaker, Guards
<1> QED
  BY <1>2, <1>3

\* To try an open breaker changes neither its count nor that it guards.
LEMMA TriedGuards ==
  ASSUME NEW b \in Breaker, Guards(b)
  PROVE  Tried(b) \in Breaker /\ Guards(Tried(b))
<1>1. CASE Expired(b)
  <2>1. /\ Tried(b) \in Breaker
        /\ Tried(b).state = "half_open" /\ Tried(b).failures = b.failures
        /\ b.state = "open"
    BY <1>1 DEF Tried, Expired, Breaker
  <2> QED
    BY <2>1 DEF Guards
<1>2. CASE ~Expired(b)
  BY <1>2 DEF Tried
<1> QED
  BY <1>1, <1>2

\* A breaker that recovered counts from zero.
LEMMA RecoveredGuards ==
  ASSUME NEW b
  PROVE  Recovered(b) \in Breaker /\ Guards(Recovered(b))
BY HealAssumption DEF Recovered, Breaker, Guards

AllGuard == /\ breaker \in [Exchanges -> Breaker]
            /\ \A e \in Exchanges : Guards(breaker[e])

\* A change of one breaker to one that guards keeps them all guarding.
LEMMA OneBreakerChanges ==
  ASSUME AllGuard, NEW e \in Exchanges, NEW b \in Breaker, Guards(b),
         breaker' = [breaker EXCEPT ![e] = b]
  PROVE  AllGuard'
BY DEF AllGuard

\* Time passes for the breakers without a change of what they let through.
LEMMA TickGuards ==
  ASSUME AllGuard, Tick
  PROVE  AllGuard'
<1>1. ASSUME NEW e \in Exchanges
      PROVE  breaker'[e] \in Breaker /\ Guards(breaker'[e])
  <2>1. breaker[e] \in Breaker /\ Guards(breaker[e])
    BY DEF AllGuard
  <2>2. breaker'[e] = [breaker[e] EXCEPT !.left = IF @ > 0 THEN @ - 1 ELSE 0]
    BY DEF Tick
  <2>3. breaker[e].left \in 0..RecoveryTimeout
    BY <2>1 DEF Breaker
  <2>4. (IF breaker[e].left > 0 THEN breaker[e].left - 1 ELSE 0) \in 0..RecoveryTimeout
    BY <2>3, HealAssumption
  <2> QED
    BY <2>1, <2>2, <2>4 DEF Breaker, Guards
<1> QED
  BY <1>1 DEF Tick, AllGuard

-----------------------------------------------------------------------------
(***************************************************************************)
(* Types                                                                   *)
(***************************************************************************)
TypedGuards == HealTypeOK /\ AllGuard

\* The types of all variables, and that each breaker guards, are kept by the
\* trade manager and the exchange.
LEMMA TradingTyped ==
  ASSUME TypedGuards, UNCHANGED routed, NEW t \in Rows,
         Fill(t) \/ Record(t) \/ Sell(t) \/ BookSale(t) \/ Vanish(t)
  PROVE  TypedGuards'
<1> USE DEF TypedGuards, HealTypeOK, AllGuard, Guards
<1>1. CASE Fill(t)
  BY <1>1 DEF Fill
<1>2. CASE Record(t)
  BY <1>2 DEF Record
<1>3. CASE Sell(t)
  BY <1>3 DEF Sell
<1>4. CASE BookSale(t)
  BY <1>4 DEF BookSale, Closed
<1>5. CASE Vanish(t)
  BY <1>5 DEF Vanish
<1> QED
  BY <1>1, <1>2, <1>3, <1>4, <1>5

\* A pass of the reconciliation keeps them.
LEMMA ReconciliationTyped ==
  ASSUME TypedGuards, UNCHANGED routed, Reconciliation
  PROVE  TypedGuards'
<1> USE DEF TypedGuards, HealTypeOK
<1>1. CASE ReadRows
  <2>1. recon' \in Recon
    BY <1>1, HealAssumption DEF ReadRows, Recon
  <2> QED
    BY <1>1, <2>1 DEF ReadRows, AllGuard, Guards
<1>2. ASSUME NEW e \in Exchanges, CheckExchange(e)
      PROVE  TypedGuards'
  <2>1. AllGuard'
    <3>1. Tried(breaker[e]) \in Breaker /\ Guards(Tried(breaker[e]))
      BY TriedGuards DEF AllGuard
    <3> QED
      BY <1>2, <3>1, OneBreakerChanges DEF CheckExchange
  <2>2. recon' \in Recon
    <3>1. recon \in Recon /\ recon.pc = "check"
      BY <1>2 DEF CheckExchange
    <3>2. recon \in [pc : {"idle", "check", "correct"}, rows : SUBSET Rows,
                     todo : SUBSET Exchanges, found : SUBSET Rows]
      BY <3>1 DEF Recon
    <3> QED
      BY <1>2, <3>2 DEF CheckExchange, Recon
  <2> QED
    BY <1>2, <2>1, <2>2 DEF CheckExchange, AllGuard
<1>3. CASE FetchPositions
  <2>1. recon' \in Recon
    BY <1>3 DEF FetchPositions, ReconGoesOn, LocalOnly, Recon
  <2> QED
    BY <1>3, <2>1 DEF FetchPositions, AllGuard, Guards
<1>4. CASE FetchFails
  <2>1. recon.at \in Exchanges
    BY <1>4 DEF FetchFails, Recon
  <2>2. AllGuard'
    <3>1. Failed(breaker[recon.at]) \in Breaker /\ Guards(Failed(breaker[recon.at]))
      BY <2>1, FailedGuards DEF AllGuard
    <3> QED
      BY <1>4, <2>1, <3>1, OneBreakerChanges DEF FetchFails
  <2>3. recon' \in Recon
    BY <1>4 DEF FetchFails, ReconGoesOn, Recon
  <2>4. healFaults' \in 0..MaxHealFaults
    BY <1>4, HealAssumption DEF FetchFails, HealFault
  <2> QED
    BY <1>4, <2>2, <2>3, <2>4 DEF FetchFails, AllGuard
<1>5. CASE BeginCorrection
  <2>1. recon \in [pc : {"idle", "check", "correct"}, rows : SUBSET Rows,
                   todo : SUBSET Exchanges, found : SUBSET Rows]
    BY <1>5 DEF BeginCorrection, Recon
  <2>2. recon' \in Recon
    BY <1>5, <2>1 DEF BeginCorrection, Recon, ReconIdle
  <2> QED
    BY <1>5, <2>2 DEF BeginCorrection, AllGuard, Guards
<1>6. ASSUME NEW t \in Rows, CorrectRow(t)
      PROVE  TypedGuards'
  <2>1. recon \in [pc : {"idle", "check", "correct"}, rows : SUBSET Rows,
                   todo : SUBSET Exchanges, found : SUBSET Rows]
    BY <1>6 DEF CorrectRow, Recon
  <2>2. recon' \in Recon
    BY <1>6, <2>1 DEF CorrectRow, Recon, ReconIdle
  <2>3. healFaults' \in 0..MaxHealFaults
    BY <1>6, HealAssumption DEF CorrectRow, HealFault
  <2>4. row' \in [Rows -> {"none", "open", "closed", "reconciled"}]
    BY <1>6 DEF CorrectRow, Closed
  <2> QED
    BY <1>6, <2>2, <2>3, <2>4 DEF CorrectRow, AllGuard, Guards
<1> QED
  BY <1>1, <1>2, <1>3, <1>4, <1>5, <1>6 DEF Reconciliation

\* A pass of the health check keeps them.
LEMMA HealthCheckTyped ==
  ASSUME TypedGuards, UNCHANGED routed, HealthCheck
  PROVE  TypedGuards'
<1> USE DEF TypedGuards, HealTypeOK
<1>1. CASE BeginHealthCheck
  <2>1. health' \in Health
    BY <1>1 DEF BeginHealthCheck, Health, Breakers
  <2> QED
    BY <1>1, <2>1 DEF BeginHealthCheck, AllGuard, Guards
<1>2. ASSUME NEW e \in Exchanges, LookAt(e)
      PROVE  TypedGuards'
  <2>1. AllGuard'
    <3>1. Tried(breaker[e]) \in Breaker /\ Guards(Tried(breaker[e]))
      BY TriedGuards DEF AllGuard
    <3> QED
      BY <1>2, <3>1, OneBreakerChanges DEF LookAt
  <2>2. health' \in Health
    <3>1. health \in [pc : {"scan"}, keys : SUBSET Exchanges, todo : SUBSET Exchanges]
      BY <1>2 DEF LookAt, Health
    <3> QED
      BY <1>2, <3>1 DEF LookAt, Health
  <2> QED
    BY <1>2, <2>1, <2>2 DEF LookAt, AllGuard
<1>3. CASE EndHealthCheck
  <2>1. health' \in Health
    BY <1>3 DEF EndHealthCheck, Health
  <2> QED
    BY <1>3, <2>1 DEF EndHealthCheck, AllGuard, Guards
<1>4. CASE AnswerHealth
  <2>1. health \in [pc : {"ask"}, keys : SUBSET Exchanges, todo : SUBSET Exchanges,
                    at : Exchanges]
    BY <1>4 DEF AnswerHealth, Health
  <2>2. health' \in Health
    BY <1>4, <2>1 DEF AnswerHealth, Health
  <2>3. AllGuard'
    <3>1. CASE breaker' = [breaker EXCEPT ![health.at] = Recovered(@)]
      BY <2>1, <3>1, RecoveredGuards, OneBreakerChanges
    <3>2. CASE UNCHANGED breaker
      BY <3>2 DEF AllGuard, Guards
    <3> QED
      BY <1>4, <3>1, <3>2 DEF AnswerHealth
  <2>4. healFaults' \in 0..MaxHealFaults
    BY <1>4, HealAssumption DEF AnswerHealth, HealFault
  <2> QED
    BY <1>4, <2>2, <2>3, <2>4 DEF AnswerHealth, AllGuard
<1> QED
  BY <1>1, <1>2, <1>3, <1>4 DEF HealthCheck

\* The administrator's commands keep them.
LEMMA AdministratorTyped ==
  ASSUME TypedGuards, UNCHANGED routed, Administrator
  PROVE  TypedGuards'
<1> USE DEF TypedGuards, HealTypeOK
<1>1. ASSUME NEW e \in Exchanges, ResetBreaker(e)
      PROVE  TypedGuards'
  <2>1. AllGuard'
    BY <1>1, RecoveredGuards, OneBreakerChanges DEF ResetBreaker
  <2> QED
    BY <1>1, <2>1 DEF ResetBreaker, AllGuard
<1>2. CASE RecoverAll
  <2>1. ASSUME NEW e \in Exchanges
        PROVE  breaker'[e] \in Breaker /\ Guards(breaker'[e])
    <3>1. breaker'[e] = Recovered(breaker[e]) \/ breaker'[e] = breaker[e]
      BY <1>2 DEF RecoverAll
    <3> QED
      BY <3>1, RecoveredGuards DEF AllGuard
  <2>2. AllGuard'
    BY <1>2, <2>1 DEF RecoverAll, AllGuard
  <2> QED
    BY <1>2, <2>2 DEF RecoverAll, AllGuard
<1> QED
  BY <1>1, <1>2 DEF Administrator

\* Types and guarding breakers hold in every behaviour.
LEMMA TypedInvariant == HealSpec => []TypedGuards
<1>1. HealInit => TypedGuards
  <2> SUFFICES ASSUME HealInit
               PROVE  TypedGuards
    OBVIOUS
  <2>1. AllGuard
    BY HealAssumption DEF HealInit, AllGuard, Breaker, Guards
  <2>2. /\ routed \subseteq Exchanges /\ held \subseteq Rows
        /\ row \in [Rows -> {"none", "open", "closed", "reconciled"}]
        /\ manager \in [Rows -> {"idle", "filled", "watching", "sold", "done"}]
    BY DEF HealInit
  <2>3. recon \in Recon /\ health \in Health
    BY DEF HealInit, ReconIdle, Recon, Health
  <2>4. healFaults \in 0..MaxHealFaults
    BY HealAssumption DEF HealInit
  <2> QED
    BY <2>1, <2>2, <2>3, <2>4 DEF TypedGuards, HealTypeOK, AllGuard
<1>2. TypedGuards /\ [HealNext]_healVars => TypedGuards'
  <2> SUFFICES ASSUME TypedGuards, [HealNext]_healVars
               PROVE  TypedGuards'
    OBVIOUS
  <2>0. HealNext => UNCHANGED routed
    BY DEF HealNext, Trading, Tick, Reconciliation, HealthCheck, Administrator
  <2>1. CASE Trading
    BY <2>1, TradingTyped DEF Trading
  <2>2. CASE Tick
    <3>1. AllGuard'
      BY <2>2, TickGuards DEF TypedGuards
    <3> QED
      BY <2>2, <3>1 DEF Tick, TypedGuards, HealTypeOK, AllGuard
  <2>3. CASE Reconciliation
    BY <2>0, <2>3, ReconciliationTyped DEF HealNext
  <2>4. CASE HealthCheck
    BY <2>0, <2>4, HealthCheckTyped DEF HealNext
  <2>5. CASE Administrator
    BY <2>0, <2>5, AdministratorTyped DEF HealNext
  <2>6. CASE UNCHANGED healVars
    BY <2>6 DEF healVars, TypedGuards, HealTypeOK, AllGuard, Guards
  <2> QED
    BY <2>1, <2>2, <2>3, <2>4, <2>5, <2>6 DEF HealNext
<1> QED
  BY <1>1, <1>2, PTL DEF HealSpec

\* The types of all variables are kept by every step, whatever fails.
THEOREM HealTypeCorrect == HealSpec => []HealTypeOK
<1>1. TypedGuards => HealTypeOK
  BY DEF TypedGuards
<1> QED
  BY <1>1, TypedInvariant, PTL

\* A breaker lets requests through without trial exactly while it counted
\* fewer failures than its threshold, however the loops and the commands of
\* the administrator follow each other.
THEOREM BreakersGuard == HealSpec => []ClosedBelowThreshold
<1>1. TypedGuards => ClosedBelowThreshold
  BY DEF TypedGuards, AllGuard, Guards, ClosedBelowThreshold
<1> QED
  BY <1>1, TypedInvariant, PTL

-----------------------------------------------------------------------------
(***************************************************************************)
(* Reconciliation                                                          *)
(*                                                                         *)
(* ReconciledWereGone is not inductive: the row is corrected some steps    *)
(* after the positions were read.  What was found gone stays gone, because *)
(* a trade is filled only before it has a row.                             *)
(***************************************************************************)
RowsManaged ==
  \A t \in Rows : row[t] # "none" => manager[t] \in {"watching", "sold", "done"}

MentionedHaveRows ==
  \A t \in Rows : t \in recon.rows \cup recon.found => row[t] # "none"

FoundAreGone ==
  \A t \in Rows : t \in recon.found => t \notin held \/ ExchangeOf[t] \notin routed

ReconInv == /\ RowsManaged
            /\ MentionedHaveRows
            /\ FoundAreGone
            /\ ReconciledWereGone

\* Trades are opened and closed without a harm to what was found.
LEMMA TradingKeepsFound ==
  ASSUME HealTypeOK, ReconInv, UNCHANGED routed, NEW t \in Rows,
         Fill(t) \/ Record(t) \/ Sell(t) \/ BookSale(t) \/ Vanish(t)
  PROVE  ReconInv'
<1> USE DEF HealTypeOK, ReconInv, RowsManaged, MentionedHaveRows, FoundAreGone,
            ReconciledWereGone
<1>1. CASE Fill(t)
  <2>1. row[t] = "none" /\ t \notin recon.found
    BY <1>1 DEF Fill
  <2> QED
    BY <1>1, <2>1 DEF Fill
<1>2. CASE Record(t)
  BY <1>2 DEF Record
<1>3. CASE Sell(t)
  BY <1>3 DEF Sell
<1>4. CASE BookSale(t)
  BY <1>4 DEF BookSale, Closed
<1>5. CASE Vanish(t)
  BY <1>5 DEF Vanish
<1> QED
  BY <1>1, <1>2, <1>3, <1>4, <1>5

\* What the positions of an exchange do not show is not held, if the exchange
\* is connected.
LEMMA LocalOnlyAreGone ==
  ASSUME HealTypeOK, recon.rows \subseteq Rows,
         NEW e \in Exchanges, NEW t \in LocalOnly(e)
  PROVE  t \in recon.rows /\ (t \notin held \/ ExchangeOf[t] \notin routed)
<1>1. t \in recon.rows /\ ExchangeOf[t] = e
  BY DEF LocalOnly
<1>2. t \in held /\ e \in routed => t \in Positions(e)
  BY <1>1 DEF Positions
<1> QED
  BY <1>1, <1>2 DEF LocalOnly

\* A pass of the reconciliation finds and corrects only what is gone.
LEMMA ReconciliationCorrectsGone ==
  ASSUME HealTypeOK, ReconInv, UNCHANGED routed, Reconciliation
  PROVE  ReconInv'
<1> USE DEF ReconInv, RowsManaged, MentionedHaveRows, FoundAreGone, ReconciledWereGone
<1>1. CASE ReadRows
  BY <1>1 DEF ReadRows
<1>2. ASSUME NEW e \in Exchanges, CheckExchange(e)
      PROVE  ReconInv'
  <2>1. recon'.rows = recon.rows /\ recon'.found = recon.found
    BY <1>2 DEF CheckExchange, HealTypeOK, Recon
  <2> QED
    BY <1>2, <2>1 DEF CheckExchange
<1>3. CASE FetchPositions
  <2>1. recon.at \in Exchanges /\ recon.rows \subseteq Rows
    BY <1>3 DEF FetchPositions, HealTypeOK, Recon
  <2>2. /\ recon'.rows = recon.rows
        /\ recon'.found = recon.found \cup LocalOnly(recon.at)
    BY <1>3 DEF FetchPositions, ReconGoesOn
  <2>3. \A t \in LocalOnly(recon.at) :
          t \in recon.rows /\ (t \notin held \/ ExchangeOf[t] \notin routed)
    BY <2>1, LocalOnlyAreGone
  <2> QED
    BY <1>3, <2>2, <2>3 DEF FetchPositions
<1>4. CASE FetchFails
  BY <1>4 DEF FetchFails, ReconGoesOn
<1>5. CASE BeginCorrection
  <2>1. recon'.rows \cup recon'.found \subseteq recon.rows \cup recon.found
        /\ recon'.found \subseteq recon.found
    BY <1>5 DEF BeginCorrection, ReconIdle, HealTypeOK, Recon
  <2> QED
    BY <1>5, <2>1 DEF BeginCorrection
<1>6. ASSUME NEW t \in Rows, CorrectRow(t)
      PROVE  ReconInv'
  <2>1. recon'.rows \cup recon'.found \subseteq recon.rows \cup recon.found
        /\ recon'.found \subseteq recon.found
    BY <1>6 DEF CorrectRow, ReconIdle, HealTypeOK, Recon
  <2>2. (t \notin held \/ ExchangeOf[t] \notin routed) /\ row[t] # "none"
    BY <1>6 DEF CorrectRow
  <2>3. \A u \in Rows : /\ row'[u] = row[u] \/ (u = t /\ row'[u] = "reconciled")
                        /\ row'[u] = "none" <=> row[u] = "none"
    BY <1>6, <2>2 DEF CorrectRow, Closed, HealTypeOK
  <2> QED
    BY <1>6, <2>1, <2>2, <2>3 DEF CorrectRow
<1> QED
  BY <1>1, <1>2, <1>3, <1>4, <1>5, <1>6 DEF Reconciliation

\* Reconciliation closes only rows whose position is gone, or whose exchange
\* is not connected.
LEMMA ReconInvariant == HealSpec => []ReconInv
<1>1. HealInit => ReconInv
  BY DEF HealInit, ReconIdle, ReconInv, RowsManaged, MentionedHaveRows, FoundAreGone,
         ReconciledWereGone
<1>2. HealTypeOK /\ ReconInv /\ [HealNext]_healVars => ReconInv'
  <2> SUFFICES ASSUME HealTypeOK, ReconInv, [HealNext]_healVars
               PROVE  ReconInv'
    OBVIOUS
  <2> USE DEF ReconInv, RowsManaged, MentionedHaveRows, FoundAreGone, ReconciledWereGone
  <2>1. CASE Trading
    BY <2>1, TradingKeepsFound DEF Trading
  <2>2. CASE Reconciliation
    BY <2>2, ReconciliationCorrectsGone DEF Reconciliation
  <2>3. CASE UNCHANGED <<routed, held, row, manager, recon>>
    BY <2>3
  <2>4. Tick \/ HealthCheck \/ Administrator => UNCHANGED <<routed, held, row, manager, recon>>
    BY DEF Tick, HealthCheck, BeginHealthCheck, LookAt, EndHealthCheck, AnswerHealth,
           Administrator, ResetBreaker, RecoverAll
  <2> QED
    BY <2>1, <2>2, <2>3, <2>4 DEF HealNext, healVars
<1> QED
  BY <1>1, <1>2, HealTypeCorrect, PTL DEF HealSpec

\* Self-healing never closes the row of a position that a connected exchange
\* still holds, and never lets requests through to an exchange that failed too
\* often: whichever exchanges are connected.
THEOREM SelfHealingIsSafe == HealSpec => []HealingIsSafe
<1>1. HealSpec => []ReconInv
  BY ReconInvariant
<1>2. ReconInv /\ ClosedBelowThreshold => HealingIsSafe
  BY DEF ReconInv, HealingIsSafe
<1> QED
  BY <1>1, <1>2, BreakersGuard, PTL

-----------------------------------------------------------------------------
(***************************************************************************)
(* The order engine.                                                       *)
(***************************************************************************)
Order == [pc : {"idle", "next", "check", "cancel", "done"}, turn : Nat,
          clock : 0..(MaxDuration + 1), filled : 0..Amount,
          status : {"", "filled", "partial", "failed", "no_exchange"}]

\* Orders that are executed in one piece, or not at all, are not begun while
\* they are at the loop.
InOnePiece == algo = "MARKET" \/ (algo = "VWAP" /\ ~hasExchange)

\* Nothing was done for an order that was not begun.
Untouched ==
  order.pc = "idle" \/ (order.pc = "next" /\ InOnePiece) =>
    /\ order.turn = 0 /\ order.filled = 0 /\ resting = 0
    /\ bought = 0 /\ assumed = 0 /\ missed = 0

\* Only an iceberg has a slice, from its order to the look at it.
SliceInHand ==
  /\ order.pc \notin {"check", "cancel"} => slice = NoSlice
  /\ order.pc \in {"check", "cancel"} => algo = "ICEBERG"

\* What the slice in hand lacks is open, and all of it fits into the order.
\* What is reported, was missed and was executed of the slice in hand is what
\* was bought and assumed.
Backed ==
  /\ slice.open <= slice.size
  /\ order.filled + slice.size <= Amount
  /\ order.filled + missed + (slice.size - slice.open) = bought + assumed

\* The slices of a TWAP that are still to come fit into the order.
Slice == Amount \div TwapIntervals

OnPace ==
  algo = "TWAP" /\ order.turn < TwapIntervals =>
    order.filled + (TwapIntervals - order.turn) * Slice <= Amount

\* While nothing fails, the engine misses nothing that market orders execute,
\* and leaves nothing at the exchange.
NothingUnknown ==
  orderFaults = 0 => resting = 0 /\ (algo # "ICEBERG" => missed = 0)

Accounted ==
  OrderTypeOK /\ Untouched /\ SliceInHand /\ Backed /\ OnPace /\ NothingUnknown

-----------------------------------------------------------------------------
LEMMA OrderNumbers ==
  /\ Amount \in Nat /\ TwapIntervals \in Nat /\ TwapIntervals >= 1
  /\ MaxDuration \in Nat /\ MaxOrderFaults \in Nat
  /\ Slice \in Nat /\ TwapIntervals * Slice <= Amount
<1>1. /\ Amount \in Nat /\ TwapIntervals \in Nat /\ TwapIntervals >= 1
      /\ MaxDuration \in Nat /\ MaxOrderFaults \in Nat
  BY OrderAssumption
<1>2. Slice \in Nat /\ TwapIntervals * Slice <= Amount
  BY <1>1 DEF Slice
<1> QED
  BY <1>1, <1>2

LEMMA LesserIsLess ==
  ASSUME NEW a \in Nat, NEW b \in Nat
  PROVE  Lesser(a, b) \in Nat /\ Lesser(a, b) <= a /\ Lesser(a, b) <= b
  BY DEF Lesser

\* A further slice of a TWAP leaves room for those that follow.
LEMMA PaceKept ==
  ASSUME NEW m \in Nat, NEW k \in Nat, NEW f \in Nat, NEW a \in Nat, m >= 1,
         f + m * k <= a
  PROVE  f + k <= a /\ (f + k) + (m - 1) * k <= a
<1>1. m * k = (m - 1) * k + k
  OBVIOUS
<1>2. (m - 1) * k \in Nat
  OBVIOUS
<1> QED
  BY <1>1, <1>2

LEMMA AccountedInit == OrderInit => Accounted
<1> SUFFICES ASSUME OrderInit
             PROVE  Accounted
  OBVIOUS
<1>1. /\ order = [pc |-> "idle", turn |-> 0, clock |-> 0, filled |-> 0, status |-> ""]
      /\ slice.size = 0 /\ slice.open = 0 /\ slice = NoSlice
      /\ algo = "MARKET" /\ bought = 0 /\ assumed = 0 /\ missed = 0
      /\ resting = 0 /\ orderFaults = 0
  BY DEF OrderInit, NoSlice
<1>2. /\ order.pc = "idle" /\ order.turn = 0 /\ order.filled = 0
      /\ slice.size = 0 /\ slice.open = 0
      /\ algo = "MARKET" /\ bought = 0 /\ assumed = 0 /\ missed = 0
      /\ resting = 0 /\ orderFaults = 0
  BY <1>1
<1>3. OrderTypeOK
  <2>1. 0 \in 0..(MaxDuration + 1) /\ 0 \in 0..Amount /\ 0 \in 0..MaxOrderFaults
    BY OrderNumbers
  <2>2. order \in Order
    BY <1>1, <2>1 DEF Order
  <2>3. slice \in [size : Nat, open : Nat]
    BY <1>1 DEF NoSlice
  <2>4. hasExchange \in BOOLEAN
    BY DEF OrderInit
  <2> QED
    BY <1>1, <2>1, <2>2, <2>3, <2>4 DEF OrderTypeOK, Order, Algos
<1>4. Backed
  BY <1>2, OrderNumbers DEF Backed
<1>5. Untouched /\ SliceInHand /\ OnPace
  BY <1>1, <1>2 DEF Untouched, SliceInHand, OnPace
<1>6. NothingUnknown
  BY <1>2, OrderNumbers DEF NothingUnknown
<1> QED
  BY <1>3, <1>4, <1>5, <1>6 DEF Accounted

\* The numbers of a state.
LEMMA AccountedNumbers ==
  ASSUME Accounted
  PROVE  /\ order \in Order /\ order.turn \in Nat /\ order.clock \in 0..(MaxDuration + 1)
         /\ order.filled \in Nat /\ order.filled <= Amount
         /\ slice \in [size : Nat, open : Nat] /\ slice.size \in Nat /\ slice.open \in Nat
         /\ bought \in Nat /\ assumed \in Nat /\ missed \in Nat
         /\ resting \in Nat /\ orderFaults \in Nat
         /\ slice.open <= slice.size /\ order.filled + slice.size <= Amount
         /\ order.filled + missed + (slice.size - slice.open) = bought + assumed
         /\ order.pc \in {"idle", "next", "done"} => order.filled + missed = bought + assumed
         /\ Later \in 0..(MaxDuration + 1)
         /\ OrderFault => /\ orderFaults' \in 0..MaxOrderFaults /\ orderFaults' # 0
<1>1. /\ order \in Order /\ slice \in [size : Nat, open : Nat]
      /\ bought \in Nat /\ assumed \in Nat /\ missed \in Nat
      /\ resting \in Nat /\ orderFaults \in 0..MaxOrderFaults
  BY DEF Accounted, OrderTypeOK, Order
<1>2. /\ order.turn \in Nat /\ order.clock \in 0..(MaxDuration + 1)
      /\ order.filled \in 0..Amount
  BY <1>1 DEF Order
<1>3. slice.size \in Nat /\ slice.open \in Nat
  BY <1>1
<1>4. order.filled \in Nat /\ order.filled <= Amount /\ orderFaults \in Nat
  BY <1>1, <1>2, OrderNumbers
<1>5. /\ slice.open <= slice.size /\ order.filled + slice.size <= Amount
      /\ order.filled + missed + (slice.size - slice.open) = bought + assumed
  BY DEF Accounted, Backed
<1>8. ASSUME order.pc \in {"idle", "next", "done"}
      PROVE  order.filled + missed = bought + assumed
  <2>1. slice = NoSlice
    BY <1>8 DEF Accounted, SliceInHand
  <2>2. slice.size = 0 /\ slice.open = 0
    BY <2>1 DEF NoSlice
  <2> QED
    BY <1>1, <1>4, <1>5, <2>2
<1>6. Later \in 0..(MaxDuration + 1)
  BY <1>2, OrderNumbers DEF Later, Lesser
<1>7. OrderFault => orderFaults' \in 0..MaxOrderFaults /\ orderFaults' # 0
  BY <1>1, OrderNumbers DEF OrderFault
<1> QED
  BY <1>1, <1>2, <1>3, <1>4, <1>5, <1>6, <1>7, <1>8

\* How the engine goes on to the next iteration, and how it ends.
LEMMA Continues ==
  ASSUME Accounted, NEW n \in 0..Amount, Continue(n)
  PROVE  /\ order' \in Order /\ order'.pc = order.pc /\ order'.turn = order.turn + 1
         /\ order'.filled = n
<1>1. order \in Order /\ order.turn + 1 \in Nat /\ Later \in 0..(MaxDuration + 1)
  BY AccountedNumbers
<1>2. order' = [order EXCEPT !.turn = order.turn + 1, !.clock = Later, !.filled = n]
  BY DEF Continue
<1> QED
  BY <1>1, <1>2 DEF Order

LEMMA Finishes ==
  ASSUME Accounted, NEW n \in 0..Amount,
         NEW status \in {"filled", "partial", "failed", "no_exchange"}, Finish(n, status)
  PROVE  /\ order' \in Order /\ order'.pc = "done" /\ order'.turn = order.turn
         /\ order'.filled = n
  BY AccountedNumbers DEF Finish, Order

\* A step between the slices: the slice in hand does not change.
LEMMA WithoutSlice ==
  ASSUME Accounted, order.pc \in {"idle", "next", "done"}, UNCHANGED slice,
         order' \in Order, order'.pc \in {"next", "done"},
         algo' \in Algos, hasExchange' \in BOOLEAN, resting' \in Nat,
         bought' \in Nat, assumed' \in Nat, missed' \in Nat,
         orderFaults' \in 0..MaxOrderFaults,
         order'.filled + missed' = bought' + assumed',
         Untouched', OnPace', NothingUnknown'
  PROVE  Accounted'
<1>1. slice' = NoSlice /\ slice.size = 0 /\ slice.open = 0
  BY DEF Accounted, SliceInHand, NoSlice
<1>2. order'.filled \in 0..Amount
  BY DEF Order
<1>3. OrderTypeOK'
  BY DEF OrderTypeOK, Order, Accounted
<1>4. SliceInHand'
  BY <1>1 DEF SliceInHand
<1>5. Backed'
  <2>1. slice'.size = 0 /\ slice'.open = 0
    BY <1>1
  <2>2. order'.filled \in Nat /\ order'.filled <= Amount
    BY <1>2, OrderNumbers
  <2> QED
    BY <2>1, <2>2, OrderNumbers DEF Backed
<1> QED
  BY <1>3, <1>4, <1>5 DEF Accounted

LEMMA SubmitAccounts ==
  ASSUME Accounted, Submit
  PROVE  Accounted'
<1>1. /\ order.pc = "idle" /\ order' = [order EXCEPT !.pc = "next"]
      /\ algo' \in Algos /\ hasExchange' \in BOOLEAN
      /\ UNCHANGED <<slice, resting, bought, assumed, missed, orderFaults>>
  BY DEF Submit, books
<1>2. /\ order.turn = 0 /\ order.filled = 0 /\ resting = 0
      /\ bought = 0 /\ assumed = 0 /\ missed = 0
  BY <1>1 DEF Accounted, Untouched, InOnePiece
<1>3. order' \in Order /\ order'.pc = "next" /\ order'.turn = 0 /\ order'.filled = 0
  BY <1>1, <1>2, AccountedNumbers DEF Order
<1>4. OnPace'
  <2>1. 0 + (TwapIntervals - 0) * Slice <= Amount
    BY OrderNumbers
  <2> QED
    BY <1>3, <2>1 DEF OnPace
<1>5. NothingUnknown'
  BY <1>1, <1>2, <1>3, OrderNumbers DEF NothingUnknown
<1>6. /\ orderFaults' \in 0..MaxOrderFaults /\ resting' \in Nat
      /\ bought' \in Nat /\ assumed' \in Nat /\ missed' \in Nat
  BY <1>1 DEF Accounted, OrderTypeOK
<1>7. order'.filled + missed' = bought' + assumed'
  BY <1>1, <1>2, <1>3
<1>8. Untouched'
  BY <1>1, <1>2, <1>3 DEF Untouched, InOnePiece
<1> QED
  BY <1>1, <1>3, <1>4, <1>5, <1>6, <1>7, <1>8, WithoutSlice

LEMMA MarketAccounts ==
  ASSUME Accounted, ExecuteMarket
  PROVE  Accounted'
<1>1. /\ algo = "MARKET" /\ order.pc = "next" /\ UNCHANGED <<algo, hasExchange, slice, resting>>
      /\ algo \in Algos /\ hasExchange \in BOOLEAN /\ resting \in Nat
      /\ orderFaults \in 0..MaxOrderFaults
  BY DEF ExecuteMarket, Accounted, OrderTypeOK
<1>2. OnPace'
  BY <1>1 DEF OnPace
<1>3. 0 \in 0..Amount
  BY OrderNumbers
<1>4. CASE Finish(0, "no_exchange") /\ UNCHANGED <<books, orderFaults>>
  <2>1. order' \in Order /\ order'.pc = "done" /\ order'.filled = 0
    BY <1>3, <1>4, Finishes
  <2>2. NothingUnknown'
    BY <1>1, <1>4 DEF Accounted, NothingUnknown, books
  <2>3. /\ bought' \in Nat /\ assumed' \in Nat /\ missed' \in Nat
        /\ order.filled + missed' = bought' + assumed'
    BY <1>1, <1>4, AccountedNumbers DEF books
  <2>4. order.filled = 0
    BY <1>1 DEF Accounted, Untouched, InOnePiece
  <2> QED
    BY <1>1, <1>2, <1>4, <2>1, <2>2, <2>3, <2>4, WithoutSlice DEF Untouched, InOnePiece
<1>5. ASSUME NEW executed \in 0..Amount, bought' = executed,
             \/ /\ \E told \in Told(executed, Amount) :
                     Finish(told, "filled") /\ assumed' = told - executed
                /\ UNCHANGED <<missed, orderFaults>>
             \/ /\ OrderFault /\ Finish(0, "failed")
                /\ missed' = executed /\ UNCHANGED assumed
      PROVE  Accounted'
  <2>1. executed \in Nat /\ executed <= Amount /\ Amount \in 0..Amount
    BY <1>5, OrderNumbers
  <2>2. bought = 0 /\ assumed = 0 /\ missed = 0
    BY <1>1 DEF Accounted, Untouched, InOnePiece
  <2>3. ASSUME NEW told \in Told(executed, Amount), Finish(told, "filled"),
               assumed' = told - executed, UNCHANGED <<missed, orderFaults>>
        PROVE  Accounted'
    <3>1. told \in 0..Amount /\ told \in Nat /\ told - executed \in Nat
      BY <2>1, <2>3, OrderNumbers DEF Told
    <3>2. order' \in Order /\ order'.pc = "done" /\ order'.filled = told
      BY <2>3, <3>1, Finishes
    <3>3. /\ bought' \in Nat /\ assumed' \in Nat /\ missed' \in Nat
          /\ order'.filled + missed' = bought' + assumed'
      BY <1>5, <2>1, <2>2, <2>3, <3>1, <3>2
    <3>4. NothingUnknown'
      BY <1>1, <2>3 DEF Accounted, NothingUnknown
    <3> QED
      BY <1>1, <1>2, <2>3, <3>2, <3>3, <3>4, WithoutSlice DEF Untouched, InOnePiece
  <2>4. ASSUME OrderFault, Finish(0, "failed"), missed' = executed, UNCHANGED assumed
        PROVE  Accounted'
    <3>1. order' \in Order /\ order'.pc = "done" /\ order'.filled = 0
      BY <1>3, <2>4, Finishes
    <3>2. /\ bought' \in Nat /\ assumed' \in Nat /\ missed' \in Nat
          /\ order'.filled + missed' = bought' + assumed'
      BY <1>5, <2>1, <2>2, <2>4, <3>1
    <3>3. orderFaults' \in 0..MaxOrderFaults /\ orderFaults' # 0
      BY <2>4, AccountedNumbers
    <3>4. NothingUnknown'
      BY <3>3 DEF NothingUnknown
    <3> QED
      BY <1>1, <1>2, <3>1, <3>2, <3>3, <3>4, WithoutSlice DEF Untouched, InOnePiece
  <2> QED
    BY <1>5, <2>3, <2>4
<1> QED
  BY <1>4, <1>5 DEF ExecuteMarket

\* A market order of at most what remains, in a TWAP or VWAP.
LEMMA MarketOrderAccounts ==
  ASSUME Accounted, order.pc = "next", algo \in {"TWAP", "VWAP"}, hasExchange,
         NEW n \in Nat, order.filled + n <= Amount, MarketOrder(n),
         UNCHANGED <<algo, hasExchange, slice, resting>>,
         \A f \in 0..(order.filled + n) :
           order'.turn = order.turn + 1 /\ order'.filled = f => OnPace'
  PROVE  Accounted'
<1>1. PICK executed \in 0..n :
        /\ bought' = bought + executed
        /\ \/ /\ \E told \in Told(executed, n) :
                   /\ Continue(Credited(told))
                   /\ assumed' = assumed + (told - executed)
              /\ UNCHANGED <<missed, orderFaults>>
           \/ /\ OrderFault /\ Continue(order.filled)
              /\ missed' = missed + executed /\ UNCHANGED assumed
  BY DEF MarketOrder
<1>2. /\ algo \in Algos /\ hasExchange \in BOOLEAN /\ resting \in Nat
      /\ orderFaults \in 0..MaxOrderFaults
  BY DEF Accounted, OrderTypeOK
<1>3. /\ executed \in Nat /\ executed <= n /\ order.filled \in Nat
      /\ bought \in Nat /\ assumed \in Nat /\ missed \in Nat
      /\ order.filled + missed = bought + assumed /\ Amount \in Nat
  BY AccountedNumbers, OrderNumbers
\* The answer says what was executed, or is taken to say that all was.
<1>4. ASSUME NEW told \in Told(executed, n), Continue(Credited(told)),
             assumed' = assumed + (told - executed), UNCHANGED <<missed, orderFaults>>
      PROVE  Accounted'
  <2>1. told \in Nat /\ told <= n /\ executed <= told
    BY <1>3 DEF Told
  <2>2. /\ Credited(told) = order.filled + told
        /\ Credited(told) \in 0..Amount /\ Credited(told) \in 0..(order.filled + n)
    BY <1>3, <2>1 DEF Credited
  <2>3. /\ order' \in Order /\ order'.pc = "next" /\ order'.turn = order.turn + 1
        /\ order'.filled = order.filled + told
    BY <1>4, <2>2, Continues
  <2>4. OnPace'
    BY <2>2, <2>3
  <2>5. NothingUnknown'
    BY <1>4 DEF Accounted, NothingUnknown
  <2>6. /\ bought' \in Nat /\ assumed' \in Nat /\ missed' \in Nat
        /\ order'.filled + missed' = bought' + assumed'
    BY <1>1, <1>3, <1>4, <2>1, <2>3
  <2>7. ~InOnePiece'
    BY DEF InOnePiece
  <2>8. Untouched'
    BY <2>3, <2>7 DEF Untouched
  <2> QED
    BY <1>2, <1>4, <2>3, <2>4, <2>5, <2>6, <2>8, WithoutSlice
<1>5. ASSUME OrderFault, Continue(order.filled), missed' = missed + executed, UNCHANGED assumed
      PROVE  Accounted'
  <2>1. order.filled \in 0..Amount /\ order.filled \in 0..(order.filled + n)
    BY <1>3, AccountedNumbers
  <2>2. /\ order' \in Order /\ order'.pc = "next" /\ order'.turn = order.turn + 1
        /\ order'.filled = order.filled
        /\ orderFaults' \in 0..MaxOrderFaults /\ orderFaults' # 0
    BY <1>5, <2>1, Continues, AccountedNumbers
  <2>3. OnPace' /\ NothingUnknown'
    BY <2>1, <2>2 DEF NothingUnknown
  <2>4. /\ bought' \in Nat /\ assumed' \in Nat /\ missed' \in Nat
        /\ order'.filled + missed' = bought' + assumed'
    BY <1>1, <1>3, <1>5, <2>2
  <2>5. ~InOnePiece'
    BY DEF InOnePiece
  <2>6. Untouched'
    BY <2>2, <2>5 DEF Untouched
  <2> QED
    BY <1>2, <2>2, <2>3, <2>4, <2>6, WithoutSlice
<1> QED
  BY <1>1, <1>4, <1>5

LEMMA TwapAccounts ==
  ASSUME Accounted, ExecuteTwap
  PROVE  Accounted'
<1> DEFINE m == TwapIntervals - order.turn
<1>1. /\ algo = "TWAP" /\ order.pc = "next" /\ order.turn < TwapIntervals
      /\ UNCHANGED <<algo, hasExchange, slice, resting>>
  BY DEF ExecuteTwap
<1>2. /\ m \in Nat /\ m >= 1 /\ Slice \in Nat /\ order.filled \in Nat /\ Amount \in Nat
      /\ order.turn \in Nat /\ TwapIntervals \in Nat
  BY <1>1, AccountedNumbers, OrderNumbers
<1>3. order.filled + m * Slice <= Amount
  BY <1>1 DEF Accounted, OnPace
<1>4. /\ order.filled + Slice <= Amount
      /\ (order.filled + Slice) + (m - 1) * Slice <= Amount
  <2> HIDE DEF m
  <2> QED
    BY <1>2, <1>3, PaceKept
<1>5. (m - 1) * Slice \in Nat
  <2>1. m - 1 \in Nat
    BY <1>2
  <2> HIDE DEF m
  <2> QED
    BY <1>2, <2>1
\* After this iteration, m - 1 are left: what they take still fits.
<1>6. ASSUME NEW f \in Nat, f <= order.filled + TwapChunk,
             order'.turn = order.turn + 1, order'.filled = f
      PROVE  OnPace'
  <2>1. SUFFICES ASSUME order.turn + 1 < TwapIntervals
                 PROVE  f + (TwapIntervals - (order.turn + 1)) * Slice <= Amount
    BY <1>6 DEF OnPace, Slice
  <2>2. TwapChunk = Slice
    BY <1>2, <2>1 DEF TwapChunk, Slice
  <2>3. TwapIntervals - (order.turn + 1) = m - 1
    BY <1>2
  <2>4. f + (m - 1) * Slice <= Amount
    <3> DEFINE p == (m - 1) * Slice
    <3>1. p \in Nat /\ (order.filled + Slice) + p <= Amount /\ f <= order.filled + Slice
      BY <1>4, <1>5, <1>6, <2>2
    <3> HIDE DEF p
    <3>2. f + p <= Amount
      BY <1>2, <1>6, <3>1
    <3> QED
      BY <3>2 DEF p
  <2> QED
    BY <2>3, <2>4
<1>7. TwapChunk \in Nat /\ order.filled + TwapChunk <= Amount
  <2>1. CASE order.turn = TwapIntervals - 1
    <3>1. TwapChunk = Amount - order.filled
      BY <2>1 DEF TwapChunk, Remaining
    <3> QED
      BY <1>2, <3>1, AccountedNumbers
  <2>2. CASE order.turn # TwapIntervals - 1
    BY <1>2, <1>4, <2>2 DEF TwapChunk, Slice
  <2> QED
    BY <2>1, <2>2
<1>8. CASE hasExchange /\ MarketOrder(TwapChunk)
  <2>1. \A f \in 0..(order.filled + TwapChunk) :
          order'.turn = order.turn + 1 /\ order'.filled = f => OnPace'
    BY <1>2, <1>6, <1>7
  <2> QED
    BY <1>1, <1>7, <1>8, <2>1, MarketOrderAccounts
<1>9. CASE Continue(order.filled) /\ UNCHANGED <<books, orderFaults>>
  <2>1. order.filled \in 0..Amount
    BY AccountedNumbers
  <2>2. /\ order' \in Order /\ order'.pc = "next" /\ order'.turn = order.turn + 1
        /\ order'.filled = order.filled
    BY <1>1, <1>9, <2>1, Continues
  <2>3. OnPace'
    BY <1>2, <1>6, <1>7, <2>2
  <2>4. NothingUnknown'
    BY <1>1, <1>9 DEF Accounted, NothingUnknown, books
  <2>5. /\ algo' \in Algos /\ hasExchange' \in BOOLEAN /\ resting' \in Nat
        /\ bought' \in Nat /\ assumed' \in Nat /\ missed' \in Nat
        /\ orderFaults' \in 0..MaxOrderFaults
    BY <1>1, <1>9 DEF Accounted, OrderTypeOK, books
  <2>6. order'.filled + missed' = bought' + assumed'
    BY <1>1, <1>9, <2>2, AccountedNumbers DEF books
  <2>7. Untouched'
    BY <1>1, <2>2 DEF Untouched, InOnePiece
  <2> QED
    BY <1>1, <2>2, <2>3, <2>4, <2>5, <2>6, <2>7, WithoutSlice
<1> QED
  BY <1>8, <1>9 DEF ExecuteTwap

LEMMA VwapAccounts ==
  ASSUME Accounted, ExecuteVwap \/ VwapNoExchange \/ OrderEnds
  PROVE  Accounted'
<1>1. /\ algo \in Algos /\ hasExchange \in BOOLEAN /\ resting \in Nat
      /\ bought \in Nat /\ assumed \in Nat /\ missed \in Nat
      /\ orderFaults \in 0..MaxOrderFaults /\ order.filled \in 0..Amount
  <2>1. /\ algo \in Algos /\ hasExchange \in BOOLEAN /\ resting \in Nat
        /\ bought \in Nat /\ assumed \in Nat /\ missed \in Nat
        /\ orderFaults \in 0..MaxOrderFaults
    BY DEF Accounted, OrderTypeOK
  <2>2. order.filled \in 0..Amount
    BY AccountedNumbers, OrderNumbers
  <2> QED
    BY <2>1, <2>2
\* Nothing is bought in such a step.
<1>2. ASSUME order.pc = "next", algo = "VWAP", hasExchange,
             Continue(order.filled) /\ UNCHANGED books,
             UNCHANGED <<algo, hasExchange, slice, resting>>,
             OrderFault \/ UNCHANGED orderFaults
      PROVE  Accounted'
  <2>1. /\ order' \in Order /\ order'.pc = "next" /\ order'.filled = order.filled
    BY <1>1, <1>2, Continues
  <2>2. orderFaults' \in 0..MaxOrderFaults /\ (orderFaults' = 0 => orderFaults = 0)
    BY <1>1, <1>2, AccountedNumbers
  <2>3. OnPace'
    BY <1>2 DEF OnPace
  <2>4. NothingUnknown'
    BY <1>2, <2>1, <2>2 DEF Accounted, NothingUnknown, books
  <2>5. /\ UNCHANGED <<bought, assumed, missed>>
        /\ order'.filled + missed' = bought' + assumed'
    BY <1>2, <2>1, AccountedNumbers DEF books
  <2>6. Untouched'
    BY <1>2, <2>1 DEF Untouched, InOnePiece
  <2> QED
    BY <1>1, <1>2, <2>1, <2>2, <2>3, <2>4, <2>5, <2>6, WithoutSlice
<1>3. ASSUME NEW status \in {"filled", "partial", "failed", "no_exchange"},
             Finish(order.filled, status), order.pc = "next",
             UNCHANGED <<algo, hasExchange, slice, resting, books, orderFaults>>
      PROVE  Accounted'
  <2>1. /\ order' \in Order /\ order'.pc = "done" /\ order'.turn = order.turn
        /\ order'.filled = order.filled
    BY <1>1, <1>3, Finishes
  <2>2. /\ UNCHANGED <<bought, assumed, missed>>
        /\ order'.filled + missed' = bought' + assumed'
    BY <1>3, <2>1, AccountedNumbers DEF books
  <2>3. OnPace'
    BY <1>3, <2>1 DEF Accounted, OnPace
  <2>4. NothingUnknown' /\ Untouched'
    BY <1>3, <2>1, <2>2 DEF Accounted, NothingUnknown, Untouched
  <2> QED
    BY <1>1, <1>3, <2>1, <2>2, <2>3, <2>4, WithoutSlice
<1>4. CASE ExecuteVwap
  <2>1. ASSUME NEW volume \in Volumes, VwapChunk(volume) > 0, MarketOrder(VwapChunk(volume))
        PROVE  Accounted'
    <3>1. volume \in Nat /\ Remaining \in Nat /\ Remaining = Amount - order.filled
      BY OrderAssumption, AccountedNumbers DEF Remaining
    <3>2. VwapChunk(volume) \in Nat /\ VwapChunk(volume) <= Remaining
      BY <3>1, LesserIsLess DEF VwapChunk
    <3>3. order.filled + VwapChunk(volume) <= Amount
      BY <3>1, <3>2, AccountedNumbers, OrderNumbers
    <3>4. algo' = "VWAP" /\ OnPace'
      BY <1>4 DEF ExecuteVwap, OnPace
    <3>5. order.pc = "next" /\ algo = "VWAP" /\ hasExchange /\ UNCHANGED <<algo, hasExchange, slice, resting>>
      BY <1>4 DEF ExecuteVwap
    <3> QED
      BY <2>1, <3>2, <3>3, <3>4, <3>5, MarketOrderAccounts
  <2> QED
    BY <1>2, <1>4, <2>1 DEF ExecuteVwap
<1>5. CASE VwapNoExchange
  <2>1. /\ order.pc = "next" /\ Finish(0, "no_exchange")
        /\ UNCHANGED <<algo, hasExchange, slice, resting, books, orderFaults>>
    BY <1>5 DEF VwapNoExchange
  <2>2. order.filled = 0
    BY <1>5 DEF VwapNoExchange, Accounted, Untouched, InOnePiece
  <2> QED
    BY <1>1, <1>3, <2>1, <2>2
<1>6. CASE OrderEnds
  <2>1. PICK status \in {"filled", "partial"} : Finish(order.filled, status)
    BY <1>6 DEF OrderEnds
  <2> QED
    BY <1>1, <1>3, <1>6, <2>1 DEF OrderEnds
<1> QED
  BY <1>4, <1>5, <1>6

\* An iceberg keeps no pace, and misses what is executed of the slices that
\* it cancels.
LEMMA IcebergKnowsLittle ==
  ASSUME Accounted, algo = "ICEBERG", algo' = algo, order'.pc # "idle",
         order'.pc \notin {"check", "cancel"} => slice' = NoSlice,
         order' \in Order, slice' \in [size : Nat, open : Nat], Backed',
         hasExchange' \in BOOLEAN, resting' \in Nat,
         bought' \in Nat, assumed' \in Nat, missed' \in Nat,
         orderFaults' \in 0..MaxOrderFaults, orderFaults' = 0 => resting' = 0
  PROVE  Accounted'
<1>1. OrderTypeOK'
  BY DEF Accounted, OrderTypeOK, Order
<1>2. Untouched' /\ SliceInHand' /\ OnPace' /\ NothingUnknown'
  BY DEF Untouched, InOnePiece, SliceInHand, OnPace, NothingUnknown
<1> QED
  BY <1>1, <1>2 DEF Accounted

LEMMA PlacingAccounts ==
  ASSUME Accounted, PlaceSlice \/ IdleIteration
  PROVE  Accounted'
<1>1. /\ algo = "ICEBERG" /\ order.pc = "next"
      /\ UNCHANGED <<algo, hasExchange, bought, assumed, missed>>
  BY DEF PlaceSlice, IdleIteration, IcebergGoesOn, books
<1>2. /\ algo \in Algos /\ hasExchange \in BOOLEAN /\ resting \in Nat
      /\ bought \in Nat /\ assumed \in Nat /\ missed \in Nat
      /\ orderFaults \in 0..MaxOrderFaults /\ order \in Order
      /\ slice \in [size : Nat, open : Nat]
  BY DEF Accounted, OrderTypeOK, Order
<1>3. /\ order.filled \in Nat /\ order.filled + missed = bought + assumed
      /\ order.filled \in 0..Amount /\ Amount \in Nat /\ order.turn + 1 \in Nat
      /\ Remaining \in Nat /\ Remaining = Amount - order.filled
  BY <1>1, AccountedNumbers, OrderNumbers DEF Remaining
<1>4. slice = NoSlice /\ slice.size = 0 /\ slice.open = 0
  BY <1>1 DEF Accounted, SliceInHand, NoSlice
<1>5. orderFaults = 0 => resting = 0
  BY DEF Accounted, NothingUnknown
<1>6. ASSUME NEW display \in Displays,
             slice' = [size |-> Lesser(display, Remaining), open |-> Lesser(display, Remaining)],
             order' = [order EXCEPT !.pc = "check"], UNCHANGED <<resting, orderFaults>>
      PROVE  Accounted'
  <2> DEFINE n == Lesser(display, Remaining)
  <2>1. n \in Nat /\ n <= Remaining
    BY <1>3, LesserIsLess, OrderAssumption
  <2> HIDE DEF n
  <2>2. slice' \in [size : Nat, open : Nat] /\ slice'.size = n /\ slice'.open = n
    BY <1>6, <2>1 DEF n
  <2>3. order' \in Order /\ order'.pc = "check" /\ order'.filled = order.filled
    BY <1>2, <1>6 DEF Order
  <2>4. Backed'
    BY <1>1, <1>2, <1>3, <2>1, <2>2, <2>3 DEF Backed
  <2> QED
    BY <1>1, <1>2, <1>5, <1>6, <2>2, <2>3, <2>4, IcebergKnowsLittle
<1>7. ASSUME order' \in Order, order'.pc = "next", order'.filled = order.filled,
             UNCHANGED slice, resting' \in Nat, orderFaults' \in 0..MaxOrderFaults,
             orderFaults' = 0 => resting' = 0
      PROVE  Accounted'
  <2>1. Backed'
    BY <1>1, <1>2, <1>3, <1>4, <1>7 DEF Backed
  <2> QED
    BY <1>1, <1>2, <1>4, <1>7, <2>1, IcebergKnowsLittle
<1>8. ASSUME NEW display \in Displays, OrderFault,
             resting' \in {resting, resting + Lesser(display, Remaining)},
             Continue(order.filled), UNCHANGED slice
      PROVE  Accounted'
  <2>1. Lesser(display, Remaining) \in Nat
    BY <1>3, LesserIsLess, OrderAssumption
  <2>2. resting' \in Nat
    BY <1>2, <1>8, <2>1
  <2>3. order' \in Order /\ order'.pc = "next" /\ order'.filled = order.filled
    BY <1>1, <1>3, <1>8, Continues
  <2>4. orderFaults' \in 0..MaxOrderFaults /\ orderFaults' # 0
    BY <1>8, AccountedNumbers
  <2> QED
    BY <1>7, <1>8, <2>2, <2>3, <2>4
<1>9. CASE IdleIteration
  <2>1. /\ order' = [order EXCEPT !.turn = order.turn + 1]
        /\ UNCHANGED <<slice, resting, orderFaults>>
    BY <1>9 DEF IdleIteration
  <2>2. order' \in Order /\ order'.pc = "next" /\ order'.filled = order.filled
    BY <1>1, <1>2, <1>3, <2>1 DEF Order
  <2> QED
    BY <1>2, <1>5, <1>7, <2>1, <2>2
<1> QED
  BY <1>6, <1>8, <1>9 DEF PlaceSlice

\* The engine has done with a slice: what it reports of it was executed, or
\* is assumed to have been, and what it does not report it missed.
LEMMA SlicesAccount ==
  ASSUME Accounted, CheckSlice \/ CancelSlice \/ SliceLeftBehind
  PROVE  Accounted'
<1>1. /\ order.pc \in {"check", "cancel"} /\ algo = "ICEBERG"
      /\ UNCHANGED <<algo, hasExchange, bought>>
  BY DEF CheckSlice, ClosedSlice, OpenSlice, CancelSlice, SliceLeftBehind, books,
     Accounted, SliceInHand
<1>2. /\ algo \in Algos /\ hasExchange \in BOOLEAN /\ resting \in Nat
      /\ bought \in Nat /\ assumed \in Nat /\ missed \in Nat
      /\ orderFaults \in 0..MaxOrderFaults /\ order \in Order
      /\ slice \in [size : Nat, open : Nat]
  BY DEF Accounted, OrderTypeOK, Order
<1>3. /\ order.filled \in Nat /\ order.filled <= Amount
      /\ Amount \in Nat /\ order.turn + 1 \in Nat /\ Later \in 0..(MaxDuration + 1)
      /\ slice.size \in Nat /\ slice.open \in Nat /\ slice.open <= slice.size
      /\ order.filled + slice.size <= Amount
      /\ order.filled + missed + (slice.size - slice.open) = bought + assumed
  BY AccountedNumbers, OrderNumbers
<1>4. orderFaults = 0 => resting = 0
  BY DEF Accounted, NothingUnknown
<1>5. ASSUME NEW f \in Nat, f <= Amount, NextSlice(f), resting' \in Nat,
             assumed' \in Nat, missed' \in Nat, f + missed' = bought + assumed',
             orderFaults' \in 0..MaxOrderFaults, orderFaults' = 0 => resting' = 0
      PROVE  Accounted'
  <2>1. f \in 0..Amount
    BY <1>3, <1>5
  <2>2. order' = [order EXCEPT !.pc = "next", !.turn = order.turn + 1, !.clock = Later,
                               !.filled = f]
    BY <1>5 DEF NextSlice
  <2>3. order' \in Order /\ order'.pc = "next" /\ order'.filled = f
    BY <1>2, <1>3, <2>1, <2>2 DEF Order
  <2>4. /\ slice' = NoSlice /\ slice' \in [size : Nat, open : Nat]
        /\ slice'.size = 0 /\ slice'.open = 0
    BY <1>5 DEF NextSlice, NoSlice
  <2>5. Backed'
    BY <1>1, <1>2, <1>3, <1>5, <2>3, <2>4 DEF Backed
  <2> QED
    BY <1>1, <1>2, <1>5, <2>3, <2>4, <2>5, IcebergKnowsLittle
<1>6. Executed \in Nat /\ Executed <= slice.size /\ Executed = slice.size - slice.open
  BY <1>3 DEF Executed
<1>7. CASE ClosedSlice
  <2>1. PICK told \in Told(Executed, slice.size) :
          NextSlice(Credited(told)) /\ assumed' = assumed + (told - Executed)
    BY <1>7 DEF ClosedSlice
  <2>2. UNCHANGED <<resting, missed, orderFaults>>
    BY <1>7 DEF ClosedSlice
  <2>3. told \in Nat /\ told <= slice.size /\ Executed <= told
    BY <1>3, <1>6 DEF Told
  <2>4. /\ Credited(told) = order.filled + told
        /\ Credited(told) \in Nat /\ Credited(told) <= Amount
    BY <1>3, <2>3 DEF Credited
  <2>5. assumed' \in Nat /\ order.filled + told + missed = bought + assumed'
    <3>1. order.filled + missed + Executed = bought + assumed
      BY <1>3, <1>6
    <3>2. assumed' = assumed + (told - Executed)
      BY <2>1
    <3>3. /\ order.filled \in Nat /\ missed \in Nat /\ bought \in Nat /\ assumed \in Nat
          /\ Executed \in Nat /\ told \in Nat /\ Executed <= told
      BY <1>2, <1>3, <1>6, <2>3
    <3>4. /\ assumed + (told - Executed) \in Nat
          /\ order.filled + told + missed = bought + (assumed + (told - Executed))
      <4> DEFINE f == order.filled
      <4> DEFINE e == Executed
      <4>1. f \in Nat /\ e \in Nat /\ e <= told /\ f + missed + e = bought + assumed
        BY <3>1, <3>3
      <4> HIDE DEF f, e
      <4>2. assumed + (told - e) \in Nat /\ f + told + missed = bought + (assumed + (told - e))
        BY <3>3, <4>1
      <4> QED
        BY <4>2 DEF f, e
    <3> QED
      BY <3>2, <3>4
  <2> QED
    BY <1>2, <1>4, <1>5, <2>1, <2>2, <2>4, <2>5
<1>8. CASE OpenSlice
  <2>1. /\ order' = [order EXCEPT !.pc = "cancel"]
        /\ UNCHANGED <<slice, resting, assumed, missed, orderFaults>>
    BY <1>8 DEF OpenSlice, books
  <2>2. order' \in Order /\ order'.pc = "cancel" /\ order'.filled = order.filled
    BY <1>2, <2>1 DEF Order
  <2>3. Backed'
    BY <1>1, <2>1, <2>2 DEF Accounted, Backed
  <2> QED
    BY <1>1, <1>2, <1>4, <2>1, <2>2, <2>3, IcebergKnowsLittle
\* What was executed of a slice that is given up was missed.
<1>9. ASSUME missed' = missed + Executed
      PROVE  missed' \in Nat /\ order.filled + missed' = bought + assumed
  BY <1>2, <1>3, <1>6, <1>9
<1>10. CASE CancelSlice
  <2>1. /\ NextSlice(order.filled) /\ missed' = missed + Executed
        /\ UNCHANGED <<resting, assumed, orderFaults>>
    BY <1>10 DEF CancelSlice
  <2> QED
    BY <1>2, <1>3, <1>4, <1>5, <1>9, <2>1
<1>11. CASE SliceLeftBehind
  <2>1. /\ OrderFault /\ resting' = resting + slice.open /\ NextSlice(order.filled)
        /\ missed' = missed + Executed /\ UNCHANGED assumed
    BY <1>11 DEF SliceLeftBehind
  <2>2. orderFaults' \in 0..MaxOrderFaults /\ orderFaults' # 0
    BY <2>1, AccountedNumbers
  <2>3. resting' \in Nat
    BY <1>2, <1>3, <2>1
  <2> QED
    BY <1>2, <1>3, <1>5, <1>9, <2>1, <2>2, <2>3
<1> QED
  BY <1>7, <1>8, <1>10, <1>11 DEF CheckSlice

\* What the exchange executes is bought, reported or not.
LEMMA ExecutionsAccount ==
  ASSUME Accounted, Execute
  PROVE  Accounted'
<1>1. /\ algo \in Algos /\ hasExchange \in BOOLEAN /\ resting \in Nat
      /\ bought \in Nat /\ assumed \in Nat /\ missed \in Nat
      /\ orderFaults \in 0..MaxOrderFaults /\ order \in Order
      /\ slice \in [size : Nat, open : Nat] /\ slice.size \in Nat /\ slice.open \in Nat
      /\ order.filled \in Nat
  BY AccountedNumbers DEF Accounted, OrderTypeOK, Order
<1>2. ASSUME NEW n \in 1..slice.open, bought' = bought + n,
             slice' = [slice EXCEPT !.open = slice.open - n],
             UNCHANGED <<algo, hasExchange, order, resting, assumed, missed, orderFaults>>
      PROVE  Accounted'
  <2>1. n \in Nat /\ n >= 1 /\ n <= slice.open /\ slice.open - n \in Nat
    BY <1>1, <1>2
  <2>2. slice.open # 0
    BY <1>1, <2>1
  <2>3. slice # NoSlice
    BY <2>2 DEF NoSlice
  <2>4. order.pc \in {"check", "cancel"} /\ algo = "ICEBERG"
    BY <2>3 DEF Accounted, SliceInHand
  <2>5. /\ slice' \in [size : Nat, open : Nat] /\ slice'.size = slice.size
        /\ slice'.open = slice.open - n
    BY <1>1, <1>2, <2>1
  <2>6. Backed'
    <3>1. /\ order.filled + slice.size <= Amount /\ slice.open <= slice.size
          /\ order.filled + missed + (slice.size - slice.open) = bought + assumed
      BY AccountedNumbers
    <3>2. slice'.open <= slice'.size
      BY <1>1, <2>1, <2>5, <3>1
    <3>3. order.filled + missed + (slice.size - (slice.open - n)) = bought + n + assumed
      <4> DEFINE f == order.filled
      <4> DEFINE size == slice.size
      <4> DEFINE open == slice.open
      <4>1. f \in Nat /\ size \in Nat /\ open \in Nat
              /\ f + missed + (size - open) = bought + assumed
        BY <1>1, <3>1
      <4> HIDE DEF f, size, open
      <4>2. f + missed + (size - (open - n)) = bought + n + assumed
        BY <1>1, <2>1, <4>1
      <4> QED
        BY <4>2 DEF f, size, open
    <3> QED
      BY <1>2, <2>5, <3>1, <3>2, <3>3 DEF Backed
  <2>7. orderFaults = 0 => resting = 0
    BY DEF Accounted, NothingUnknown
  <2>8. bought' \in Nat
    BY <1>1, <1>2, <2>1
  <2> QED
    BY <1>1, <1>2, <2>4, <2>5, <2>6, <2>7, <2>8, IcebergKnowsLittle
<1>3. ASSUME NEW n \in 1..resting, bought' = bought + n, missed' = missed + n,
             resting' = resting - n,
             UNCHANGED <<algo, hasExchange, order, slice, assumed, orderFaults>>
      PROVE  Accounted'
  <2>1. n \in Nat /\ n >= 1 /\ n <= resting /\ resting # 0
    BY <1>1, <1>3
  <2>2. orderFaults # 0 /\ ~(order.pc = "idle" \/ (order.pc = "next" /\ InOnePiece))
    BY <2>1 DEF Accounted, NothingUnknown, Untouched
  <2>3. bought' \in Nat /\ missed' \in Nat /\ resting' \in Nat
    BY <1>1, <1>3, <2>1
  <2>4. Backed'
    <3>1. /\ order.filled + slice.size <= Amount /\ slice.open <= slice.size
          /\ order.filled + missed + (slice.size - slice.open) = bought + assumed
      BY AccountedNumbers
    <3>2. order.filled + (missed + n) + (slice.size - slice.open) = bought + n + assumed
      BY <1>1, <2>1, <3>1
    <3> QED
      BY <1>3, <3>1, <3>2 DEF Backed
  <2>5. OrderTypeOK'
    BY <1>3, <2>3 DEF Accounted, OrderTypeOK
  <2> QED
    BY <1>3, <2>2, <2>4, <2>5
    DEF Accounted, Untouched, InOnePiece, SliceInHand, OnPace, NothingUnknown
<1> QED
  BY <1>2, <1>3 DEF Execute

\* Whatever calls fail and wherever an order stops, the engine reports no more
\* than was executed, but for what answers without a number made it assume; it
\* buys no more than was ordered, but for what was executed without its
\* knowing; and while no call fails, nothing of a market order is executed
\* without its knowing.
THEOREM OrdersAreAccountedFor == OrderSpec => [](OrderTypeOK /\ OrderIsAccountedFor)
<1>1. Accounted /\ [OrderNext]_orderVars => Accounted'
  <2> SUFFICES ASSUME Accounted, [OrderNext]_orderVars
               PROVE  Accounted'
    OBVIOUS
  <2>1. CASE UNCHANGED orderVars
    BY <2>1 DEF orderVars, books, Accounted, OrderTypeOK, Untouched, InOnePiece, SliceInHand,
       Backed, OnPace, NothingUnknown
  <2> QED
    BY <2>1, SubmitAccounts, MarketAccounts, TwapAccounts, VwapAccounts, PlacingAccounts,
       SlicesAccount, ExecutionsAccount DEF OrderNext, Engine
<1>2. Accounted => OrderTypeOK /\ OrderIsAccountedFor
  <2> SUFFICES ASSUME Accounted
               PROVE  OrderTypeOK /\ OrderIsAccountedFor
    OBVIOUS
  <2>1. /\ order.filled <= bought + assumed /\ bought <= Amount + missed
        /\ missed = 0 => bought <= Amount
    BY AccountedNumbers, OrderNumbers
  <2>2. orderFaults = 0 /\ algo # "ICEBERG" => missed = 0
    BY DEF Accounted, NothingUnknown
  <2> QED
    BY <2>1, <2>2 DEF Accounted, OrderIsAccountedFor, ReportedWasBought, OverboughtWasMissed,
       SlicesNeverOverbuy
<1> QED
  BY AccountedInit, <1>1, <1>2, PTL DEF OrderSpec

-----------------------------------------------------------------------------
(***************************************************************************)
(* The data feed.                                                          *)
(***************************************************************************)
Active(s) == request[s].state \in {"asked", "cancelling"}

Owner(c) == asker[c].pc = "owner"

\* The request that newcomers join is the only one under way, and has one
\* owner; there is no other owner.
OneOwner ==
  /\ \A s \in Slots : Active(s) => inflight = s
  /\ \A c \in Callers : Owner(c) => asker[c].slot = inflight
  /\ \A c, d \in Callers : Owner(c) /\ Owner(d) => c = d

\* Nobody waits for a request that was forgotten, and an answer has just come
\* while somebody has still to take it.
AwaitedIsFresh ==
  \A c \in Callers : Awaiting(c) =>
    /\ request[asker[c].slot].state # "free"
    /\ request[asker[c].slot].state = "done" => request[asker[c].slot].at = now

Feeding ==
  /\ FeedTypeOK /\ OneOwner /\ InflightOwned /\ AwaitedIsFresh /\ AnswersFresh
  /\ entry <= now

LEMMA ActiveIsOne ==
  ASSUME OneOwner
  PROVE  SingleFlight
<1> DEFINE A == {s \in Slots : request[s].state \in {"asked", "cancelling"}}
<1>1. CASE A = {}
  <2>1. Cardinality(A) = 0
    BY <1>1, FS_EmptySet
  <2> QED
    BY <2>1 DEF SingleFlight
<1>2. CASE A # {}
  <2>1. PICK s \in A : TRUE
    BY <1>2
  <2>2. \A t \in A : t = s
    BY <2>1 DEF OneOwner, Active
  <2>3. A = {s}
    BY <2>1, <2>2
  <2>4. Cardinality(A) = 1
    BY <2>3, FS_Singleton
  <2> QED
    BY <2>4 DEF SingleFlight
<1> QED
  BY <1>1, <1>2

LEMMA FeedingInit == FeedInit => Feeding
<1> SUFFICES ASSUME FeedInit
             PROVE  Feeding
  OBVIOUS
<1>1. /\ now = 0 /\ connected = TRUE /\ entry = -1 /\ inflight = NoRequest
      /\ feedFaults = 0 /\ cancels = 0
      /\ \A s \in Slots : request[s] = Free
      /\ \A c \in Callers : asker[c].pc = "idle"
  BY DEF FeedInit
<1>2. /\ 0 \in 0..MaxTime /\ -1 \in -1..MaxTime /\ 0 \in 0..MaxFeedFaults
      /\ 0 \in 0..MaxCancels
  BY FeedAssumption
<1>3. FeedTypeOK
  BY <1>1, <1>2 DEF FeedTypeOK, FeedInit, Free
<1>4. OneOwner /\ InflightOwned /\ AwaitedIsFresh /\ AnswersFresh
  BY <1>1 DEF OneOwner, InflightOwned, AwaitedIsFresh, AnswersFresh, Active, Owner,
     Awaiting, Free
<1>5. entry <= now
  BY <1>1
<1> QED
  BY <1>3, <1>4, <1>5 DEF Feeding

\* Who waits, and for what.
LEMMA WaitersAreTyped ==
  ASSUME Feeding, NEW c \in Callers
  PROVE  /\ Awaiting(c) => asker[c].slot \in Slots
         /\ inflight \in Slots \cup {NoRequest} /\ NoRequest \notin Slots
         /\ now \in Nat /\ entry \in Int /\ MaxTime \in Nat /\ TTL \in Nat /\ TTL > 0
         /\ now <= MaxTime
<1>1. asker[c] \in
        [pc : {"idle", "empty", "raised", "cancelled"}]
          \cup [pc : {"owner", "waiter"}, slot : Slots]
          \cup [pc : {"answered"}, age : 0..MaxTime]
  BY DEF Feeding, FeedTypeOK
<1>2. Awaiting(c) => asker[c].slot \in Slots
  BY <1>1 DEF Awaiting
<1>3. now \in 0..MaxTime /\ entry \in -1..MaxTime
  BY DEF Feeding, FeedTypeOK
<1>4. MaxTime \in Nat /\ TTL \in Nat /\ TTL > 0 /\ NoRequest \notin Slots
  BY FeedAssumption
<1>5. now \in Nat /\ entry \in Int /\ now <= MaxTime
  BY <1>3, <1>4
<1>6. inflight \in Slots \cup {NoRequest}
  BY DEF Feeding, FeedTypeOK
<1> QED
  BY <1>2, <1>4, <1>5, <1>6

Asker ==
  [pc : {"idle", "empty", "raised", "cancelled"}]
    \cup [pc : {"owner", "waiter"}, slot : Slots]
    \cup [pc : {"answered"}, age : 0..MaxTime]

\* One caller moves, the others do not.
LEMMA OneCallerMoves ==
  ASSUME Feeding, NEW c \in Callers, NEW state \in Asker, Becomes(c, state)
  PROVE  /\ asker' \in [Callers -> Asker] /\ asker'[c] = state
         /\ \A d \in Callers \ {c} : asker'[d] = asker[d]
<1>1. asker \in [Callers -> Asker]
  BY DEF Feeding, FeedTypeOK, Asker
<1> QED
  BY <1>1 DEF Becomes

\* A caller that does not wait, before or after.
LEMMA OtherCallersFeed ==
  ASSUME Feeding, NEW c \in Callers, NEW state \in Asker, Becomes(c, state),
         ~Awaiting(c), state.pc \notin {"owner", "waiter"},
         state.pc = "answered" => state.age < TTL,
         UNCHANGED <<now, connected, entry, inflight, request, feedFaults, cancels>>
  PROVE  Feeding'
<1>1. /\ asker' \in [Callers -> Asker] /\ asker'[c] = state
      /\ \A d \in Callers \ {c} : asker'[d] = asker[d]
  BY OneCallerMoves
<1>2. FeedTypeOK'
  BY <1>1 DEF Feeding, FeedTypeOK, Asker
<1>3. OneOwner' /\ AwaitedIsFresh'
  BY <1>1 DEF Feeding, OneOwner, AwaitedIsFresh, Active, Owner, Awaiting
<1>4. InflightOwned' /\ AnswersFresh'
  BY <1>1 DEF Feeding, InflightOwned, AnswersFresh, Awaiting
<1> QED
  BY <1>2, <1>3, <1>4 DEF Feeding

\* A caller joins the request under way, which its owner waits for.
LEMMA SharingFeeds ==
  ASSUME Feeding, NEW c \in Callers, Share(c)
  PROVE  Feeding'
<1> DEFINE state == [pc |-> "waiter", slot |-> inflight]
<1>1. /\ ~Awaiting(c) /\ inflight # NoRequest /\ inflight \in Slots
      /\ Becomes(c, state) /\ state \in Asker /\ state.pc = "waiter" /\ state.slot = inflight
      /\ UNCHANGED <<now, connected, entry, inflight, request, feedFaults, cancels>>
  BY WaitersAreTyped DEF Share, Awaiting, Asker
<1> HIDE DEF state
<1>2. /\ asker' \in [Callers -> Asker] /\ asker'[c] = state
      /\ \A d \in Callers \ {c} : asker'[d] = asker[d]
  BY <1>1, OneCallerMoves
<1>3. FeedTypeOK'
  BY <1>1, <1>2 DEF Feeding, FeedTypeOK, Asker
<1>4. PICK d \in Callers : asker[d].pc = "owner" /\ asker[d].slot = inflight
  BY <1>1 DEF Feeding, InflightOwned
<1>5. d # c
  BY <1>1, <1>4 DEF Awaiting
<1>6. OneOwner'
  BY <1>1, <1>2 DEF Feeding, OneOwner, Active, Owner
<1>7. /\ request[inflight].state # "free"
      /\ request[inflight].state = "done" => request[inflight].at = now
  BY <1>4 DEF Feeding, AwaitedIsFresh, Awaiting
<1>8. AwaitedIsFresh'
  BY <1>1, <1>2, <1>7 DEF Feeding, AwaitedIsFresh, Awaiting
<1>9. InflightOwned' /\ AnswersFresh'
  BY <1>1, <1>2, <1>4, <1>5 DEF Feeding, InflightOwned, AnswersFresh
<1> QED
  BY <1>1, <1>3, <1>6, <1>8, <1>9 DEF Feeding

\* A caller that finds neither an answer nor a request makes one: none other
\* is under way, and nobody else is an owner.
LEMMA AskingFeeds ==
  ASSUME Feeding, NEW c \in Callers, Ask(c)
  PROVE  Feeding'
<1>1. PICK s \in Slots : /\ request[s] = Free
                         /\ request' = [request EXCEPT ![s].state = "asked"]
                         /\ inflight' = s
                         /\ Becomes(c, [pc |-> "owner", slot |-> s])
  BY DEF Ask
<1> DEFINE state == [pc |-> "owner", slot |-> s]
<1>2. /\ ~Awaiting(c) /\ inflight = NoRequest /\ Becomes(c, state)
      /\ state \in Asker /\ state.pc = "owner" /\ state.slot = s
      /\ UNCHANGED <<now, connected, entry, feedFaults, cancels>>
  BY <1>1 DEF Ask, Awaiting, Asker
<1> HIDE DEF state
<1>3. /\ asker' \in [Callers -> Asker] /\ asker'[c] = state
      /\ \A d \in Callers \ {c} : asker'[d] = asker[d]
  BY <1>2, OneCallerMoves
<1>4. /\ request[s].state = "free" /\ request[s].at = -1
      /\ request \in [Slots -> [state : {"free", "asked", "cancelling", "done",
                                        "failed", "cancelled"}, at : -1..MaxTime]]
  BY <1>1 DEF Free, Feeding, FeedTypeOK
<1>5. /\ request' \in [Slots -> [state : {"free", "asked", "cancelling", "done",
                                         "failed", "cancelled"}, at : -1..MaxTime]]
      /\ request'[s].state = "asked" /\ request'[s] # Free
      /\ \A t \in Slots \ {s} : request'[t] = request[t]
  BY <1>1, <1>4 DEF Free
<1>6. FeedTypeOK'
  BY <1>1, <1>2, <1>3, <1>5 DEF Feeding, FeedTypeOK, Asker
<1>7. \A d \in Callers : ~Owner(d)
  <2>1. SUFFICES ASSUME NEW d \in Callers, Owner(d)
                 PROVE  FALSE
    OBVIOUS
  <2>2. asker[d].slot = NoRequest
    BY <1>2, <2>1 DEF Feeding, OneOwner
  <2>3. asker[d].slot \in Slots
    BY <2>1, WaitersAreTyped DEF Owner, Awaiting
  <2> QED
    BY <2>2, <2>3, FeedAssumption
<1>8. \A t \in Slots : ~Active(t)
  BY <1>2, FeedAssumption DEF Feeding, OneOwner
<1>9. OneOwner'
  BY <1>1, <1>2, <1>3, <1>5, <1>7, <1>8 DEF OneOwner, Active, Owner
<1>10. AwaitedIsFresh'
  <2> SUFFICES ASSUME NEW d \in Callers, Awaiting(d)'
               PROVE  /\ request'[asker'[d].slot].state # "free"
                      /\ request'[asker'[d].slot].state = "done" =>
                           request'[asker'[d].slot].at = now'
    BY DEF AwaitedIsFresh
  <2>1. CASE d = c
    BY <1>2, <1>3, <1>5, <2>1
  <2>2. CASE d # c
    <3>1. Awaiting(d) /\ asker'[d] = asker[d] /\ asker[d].slot \in Slots
      BY <1>3, <2>2, WaitersAreTyped DEF Awaiting
    <3>2. request[asker[d].slot].state # "free"
      BY <3>1 DEF Feeding, AwaitedIsFresh
    <3> QED
      BY <1>2, <1>4, <1>5, <3>1, <3>2 DEF Feeding, AwaitedIsFresh
  <2> QED
    BY <2>1, <2>2
<1>11. InflightOwned' /\ AnswersFresh'
  BY <1>1, <1>2, <1>3 DEF Feeding, InflightOwned, AnswersFresh
<1> QED
  BY <1>2, <1>6, <1>9, <1>10, <1>11 DEF Feeding

\* A caller stops waiting for a request that is over.  The owner takes the
\* request out of sight; the last who waited lets it be forgotten.
LEMMA LeavingFeeds ==
  ASSUME Feeding, NEW c \in Callers, Awaiting(c), Over(asker[c].slot),
         NEW state \in Asker, Becomes(c, state), state.pc \notin {"owner", "waiter"},
         state.pc = "answered" => state.age < TTL,
         inflight' = Popped(c), request' = Left(c, asker[c].slot),
         UNCHANGED <<now, connected, entry, feedFaults>>, cancels' \in 0..MaxCancels
  PROVE  Feeding'
<1> DEFINE s == asker[c].slot
<1>1. /\ asker' \in [Callers -> Asker] /\ asker'[c] = state
      /\ \A d \in Callers \ {c} : asker'[d] = asker[d]
  BY OneCallerMoves
<1>2. s \in Slots /\ ~Active(s)
  BY WaitersAreTyped DEF Over, Active
<1>3. /\ request \in [Slots -> [state : {"free", "asked", "cancelling", "done",
                                        "failed", "cancelled"}, at : -1..MaxTime]]
      /\ Free \in [state : {"free", "asked", "cancelling", "done",
                            "failed", "cancelled"}, at : -1..MaxTime]
      /\ Free.state = "free"
  BY FeedAssumption DEF Feeding, FeedTypeOK, Free
<1>4. /\ request' \in [Slots -> [state : {"free", "asked", "cancelling", "done",
                                         "failed", "cancelled"}, at : -1..MaxTime]]
      /\ \A t \in Slots \ {s} : request'[t] = request[t]
      /\ \/ request' = request
         \/ request'[s] = Free
            /\ \A d \in Callers \ {c} : Awaiting(d) => asker[d].slot # s
  BY <1>2, <1>3 DEF Left
<1>5. \A t \in Slots : Active(t)' => Active(t) /\ t # s
  BY <1>2, <1>3, <1>4 DEF Active
<1>6. AwaitedIsFresh'
  <2> SUFFICES ASSUME NEW d \in Callers, Awaiting(d)'
               PROVE  /\ request'[asker'[d].slot].state # "free"
                      /\ request'[asker'[d].slot].state = "done" =>
                           request'[asker'[d].slot].at = now'
    BY DEF AwaitedIsFresh
  <2>1. d # c /\ Awaiting(d) /\ asker'[d] = asker[d] /\ asker[d].slot \in Slots
    BY <1>1, WaitersAreTyped DEF Awaiting
  <2>2. request'[asker[d].slot] = request[asker[d].slot]
    BY <1>4, <2>1
  <2> QED
    BY <2>1, <2>2 DEF Feeding, AwaitedIsFresh
<1>7. CASE Owner(c)
  <2>1. inflight' = NoRequest /\ inflight = s
    BY <1>7 DEF Popped, Owner, Feeding, OneOwner
  <2>2. \A d \in Callers : ~Owner(d)'
    BY <1>1, <1>7 DEF Feeding, OneOwner, Owner
  <2>3. \A t \in Slots : ~Active(t)'
    BY <1>5, <2>1 DEF Feeding, OneOwner
  <2>4. OneOwner' /\ InflightOwned'
    BY <2>1, <2>2, <2>3 DEF OneOwner, InflightOwned
  <2> QED
    <3>1. inflight' \in {t \in Slots : request'[t] # Free} \cup {NoRequest}
      BY <2>1
    <3>2. FeedTypeOK'
      BY <1>1, <1>4, <3>1 DEF Feeding, FeedTypeOK, Asker
    <3>3. AnswersFresh'
      BY <1>1 DEF Feeding, AnswersFresh
    <3> QED
      BY <1>6, <2>4, <3>2, <3>3 DEF Feeding
<1>8. CASE ~Owner(c)
  <2>1. inflight' = inflight
    BY <1>8 DEF Popped, Owner
  <2>2. inflight # NoRequest =>
          \E d \in Callers \ {c} : asker[d].pc = "owner" /\ asker[d].slot = inflight
    BY <1>8 DEF Feeding, InflightOwned, Owner
  <2>3. InflightOwned'
    BY <1>1, <2>1, <2>2 DEF InflightOwned
  <2>4. OneOwner'
    BY <1>1, <1>5, <2>1 DEF Feeding, OneOwner, Owner
  <2>5. inflight' \in {t \in Slots : request'[t] # Free} \cup {NoRequest}
    <3>1. CASE inflight = NoRequest
      BY <2>1, <3>1
    <3>2. CASE inflight # NoRequest
      <4>1. PICK d \in Callers \ {c} : asker[d].pc = "owner" /\ asker[d].slot = inflight
        BY <2>2, <3>2
      <4>2. Awaiting(d) /\ inflight \in Slots /\ request[inflight] # Free
        BY <3>2, <4>1 DEF Awaiting, Feeding, FeedTypeOK
      <4> QED
        BY <1>4, <2>1, <4>1, <4>2
    <3> QED
      BY <3>1, <3>2
  <2>6. FeedTypeOK'
    BY <1>1, <1>4, <2>5 DEF Feeding, FeedTypeOK, Asker
  <2>7. AnswersFresh'
    BY <1>1 DEF Feeding, AnswersFresh
  <2> QED
    BY <1>6, <2>3, <2>4, <2>6, <2>7 DEF Feeding
<1> QED
  BY <1>7, <1>8

\* A request goes on, and stays in sight.
LEMMA RequestsFeed ==
  ASSUME Feeding, NEW s \in Slots,
         NEW r \in [state : {"asked", "cancelling", "done", "failed", "cancelled"},
                    at : -1..MaxTime],
         request' = [request EXCEPT ![s] = r],
         Active(s), r.state = "done" => r.at = now,
         UNCHANGED <<now, connected, inflight>>, entry' \in -1..MaxTime, entry' <= now,
         feedFaults' \in 0..MaxFeedFaults, cancels' \in 0..MaxCancels, asker' = asker
  PROVE  Feeding'
<1>1. /\ request \in [Slots -> [state : {"free", "asked", "cancelling", "done",
                                        "failed", "cancelled"}, at : -1..MaxTime]]
  BY DEF Feeding, FeedTypeOK
<1>2. /\ request' \in [Slots -> [state : {"free", "asked", "cancelling", "done",
                                         "failed", "cancelled"}, at : -1..MaxTime]]
      /\ request'[s] = r /\ r # Free /\ r.state # "free"
      /\ \A t \in Slots \ {s} : request'[t] = request[t]
  BY <1>1 DEF Free
<1>3. inflight' \in {t \in Slots : request'[t] # Free} \cup {NoRequest}
  BY <1>2 DEF Feeding, FeedTypeOK
<1>4. FeedTypeOK'
  BY <1>2, <1>3 DEF Feeding, FeedTypeOK
<1>5. OneOwner'
  BY <1>2 DEF Feeding, OneOwner, Active, Owner
<1>6. AwaitedIsFresh'
  <2> SUFFICES ASSUME NEW d \in Callers, Awaiting(d)
               PROVE  /\ request'[asker[d].slot].state # "free"
                      /\ request'[asker[d].slot].state = "done" =>
                           request'[asker[d].slot].at = now
    BY DEF AwaitedIsFresh, Awaiting
  <2>1. asker[d].slot \in Slots
    BY WaitersAreTyped
  <2>2. CASE asker[d].slot = s
    BY <1>2, <2>2
  <2>3. CASE asker[d].slot # s
    BY <1>2, <2>1, <2>3 DEF Feeding, AwaitedIsFresh
  <2> QED
    BY <2>2, <2>3
<1>7. InflightOwned' /\ AnswersFresh'
  BY DEF Feeding, InflightOwned, AnswersFresh
<1>8. entry' <= now'
  OBVIOUS
<1> QED
  BY <1>4, <1>5, <1>6, <1>7, <1>8 DEF Feeding

LEMMA FetchesFeed ==
  ASSUME Feeding, NEW s \in Slots, Fetch(s)
  PROVE  Feeding'
<1>1. /\ now \in 0..MaxTime /\ entry \in -1..MaxTime /\ entry <= now
      /\ feedFaults \in 0..MaxFeedFaults /\ cancels \in 0..MaxCancels
      /\ request[s] \in [state : {"free", "asked", "cancelling", "done",
                                  "failed", "cancelled"}, at : -1..MaxTime]
      /\ MaxTime \in Nat /\ MaxFeedFaults \in Nat
  BY FeedAssumption DEF Feeding, FeedTypeOK
<1>2. CASE Respond(s)
  <2> DEFINE r == [state |-> "done", at |-> now]
  <2>1. /\ Active(s) /\ entry' = now /\ request' = [request EXCEPT ![s] = r]
        /\ UNCHANGED <<now, connected, inflight, asker, feedFaults, cancels>>
    BY <1>2 DEF Respond, Active
  <2>2. /\ now \in -1..MaxTime
        /\ r \in [state : {"asked", "cancelling", "done", "failed", "cancelled"},
                  at : -1..MaxTime] /\ r.at = now
    BY <1>1
  <2>3. /\ entry' \in -1..MaxTime /\ entry' <= now
        /\ feedFaults' \in 0..MaxFeedFaults /\ cancels' \in 0..MaxCancels
    BY <1>1, <2>1, <2>2
  <2> HIDE DEF r
  <2> QED
    BY <2>1, <2>2, <2>3, RequestsFeed
<1>3. ASSUME NEW w \in {"cancelling", "failed", "cancelled"},
             request' = [request EXCEPT ![s].state = w], Active(s),
             UNCHANGED <<now, connected, entry, inflight, asker>>,
             feedFaults' \in 0..MaxFeedFaults, cancels' \in 0..MaxCancels
      PROVE  Feeding'
  <2> DEFINE r == [request[s] EXCEPT !.state = w]
  <2>1. /\ r \in [state : {"asked", "cancelling", "done", "failed", "cancelled"},
                  at : -1..MaxTime] /\ r.state = w
    BY <1>1
  <2>2. request' = [request EXCEPT ![s] = r]
    BY <1>3
  <2> HIDE DEF r
  <2> QED
    BY <1>1, <1>3, <2>1, <2>2, RequestsFeed
<1>4. CASE RequestFails(s)
  <2>1. /\ feedFaults < MaxFeedFaults /\ feedFaults' = feedFaults + 1
        /\ request' = [request EXCEPT ![s].state = "failed"] /\ Active(s)
        /\ UNCHANGED <<now, connected, entry, inflight, asker, cancels>>
    BY <1>4 DEF RequestFails, Active
  <2>2. feedFaults' \in 0..MaxFeedFaults
    BY <1>1, <2>1
  <2> QED
    BY <1>1, <1>3, <2>1, <2>2
<1>5. CASE RequestCancelled(s)
  BY <1>1, <1>3, <1>5 DEF RequestCancelled, Active
<1> QED
  BY <1>2, <1>4, <1>5 DEF Fetch

LEMMA GoingOnFeeds ==
  ASSUME Feeding, NEW c \in Callers, GoOn(c)
  PROVE  Feeding'
<1> DEFINE s == asker[c].slot
<1>1. /\ Awaiting(c) /\ Over(s) /\ inflight' = Popped(c) /\ request' = Left(c, s)
      /\ UNCHANGED <<now, connected, entry, feedFaults>> /\ cancels' \in 0..MaxCancels
  BY DEF GoOn, Feeding, FeedTypeOK
<1>2. CASE request[s].state = "done" /\ Becomes(c, [pc |-> "answered", age |-> now - request[s].at])
  <2> DEFINE state == [pc |-> "answered", age |-> now - request[s].at]
  <2>1. now - request[s].at = 0
    BY <1>1, <1>2, WaitersAreTyped DEF Feeding, AwaitedIsFresh
  <2>2. state \in Asker /\ state.pc = "answered" /\ state.age < TTL
    BY <2>1, WaitersAreTyped DEF Asker
  <2> HIDE DEF state
  <2> QED
    BY <1>1, <1>2, <2>2, LeavingFeeds DEF state
<1>3. CASE Becomes(c, [pc |-> "empty"])
  <2>1. [pc |-> "empty"] \in Asker
    BY DEF Asker
  <2> QED
    BY <1>1, <1>3, <2>1, LeavingFeeds
<1>4. CASE Becomes(c, [pc |-> "cancelled"])
  <2>1. [pc |-> "cancelled"] \in Asker
    BY DEF Asker
  <2> QED
    BY <1>1, <1>4, <2>1, LeavingFeeds
<1> QED
  BY <1>2, <1>3, <1>4 DEF GoOn

LEMMA CancelsFeed ==
  ASSUME Feeding, NEW c \in Callers, Cancel(c)
  PROVE  Feeding'
<1> DEFINE s == asker[c].slot
<1>1. /\ Awaiting(c) /\ s \in Slots /\ UNCHANGED <<now, connected, entry, feedFaults>>
      /\ cancels' \in 0..MaxCancels
  BY WaitersAreTyped, FeedAssumption DEF Cancel, Feeding, FeedTypeOK
<1>2. CASE Over(s)
  <2>1. [pc |-> "cancelled"] \in Asker
    BY DEF Asker
  <2>2. /\ Becomes(c, [pc |-> "cancelled"]) /\ inflight' = Popped(c)
        /\ request' = Left(c, s)
    BY <1>2 DEF Cancel
  <2> QED
    BY <1>1, <1>2, <2>1, <2>2, LeavingFeeds
<1>3. CASE ~Over(s)
  <2>1. /\ request' = [request EXCEPT ![s].state = "cancelling"]
        /\ UNCHANGED <<inflight, asker>>
    BY <1>3 DEF Cancel
  <2>2. /\ request[s] \in [state : {"free", "asked", "cancelling", "done",
                                    "failed", "cancelled"}, at : -1..MaxTime]
        /\ feedFaults' \in 0..MaxFeedFaults /\ entry' \in -1..MaxTime /\ entry' <= now
    BY <1>1 DEF Feeding, FeedTypeOK
  <2>3. Active(s)
    BY <1>1, <1>3, <2>2 DEF Over, Active, Feeding, AwaitedIsFresh
  <2> DEFINE r == [request[s] EXCEPT !.state = "cancelling"]
  <2>4. /\ r \in [state : {"asked", "cancelling", "done", "failed", "cancelled"},
                  at : -1..MaxTime] /\ r.state = "cancelling"
    BY <2>2
  <2>5. request' = [request EXCEPT ![s] = r]
    BY <2>1
  <2> HIDE DEF r
  <2> QED
    BY <1>1, <2>1, <2>2, <2>3, <2>4, <2>5, RequestsFeed
<1> QED
  BY <1>2, <1>3

LEMMA CallersFeed ==
  ASSUME Feeding, NEW c \in Callers, GetTicker(c) \/ AskAgain(c)
  PROVE  Feeding'
<1>1. ASSUME NEW w \in {"idle", "empty", "raised"}, Becomes(c, [pc |-> w]), ~Awaiting(c),
             UNCHANGED <<now, connected, entry, inflight, request, feedFaults, cancels>>
      PROVE  Feeding'
  <2>1. [pc |-> w] \in Asker
    BY DEF Asker
  <2> QED
    BY <1>1, <2>1, OtherCallersFeed
<1>2. CASE AskCached(c)
  <2> DEFINE state == [pc |-> "answered", age |-> now - entry]
  <2>1. now - entry < TTL /\ now - entry \in 0..MaxTime
    BY <1>2, WaitersAreTyped DEF AskCached, Cached, Feeding
  <2>2. state \in Asker /\ state.pc = "answered" /\ state.age < TTL
    BY <2>1 DEF Asker
  <2>3. /\ Becomes(c, state) /\ ~Awaiting(c)
        /\ UNCHANGED <<now, connected, entry, inflight, request, feedFaults, cancels>>
    BY <1>2 DEF AskCached, Awaiting
  <2> HIDE DEF state
  <2> QED
    BY <2>2, <2>3, OtherCallersFeed
<1>3. CASE AskExpiring(c)
  BY <1>1, <1>3 DEF AskExpiring, Awaiting
<1>4. CASE AskNobody(c)
  BY <1>1, <1>4 DEF AskNobody, Awaiting
<1>5. CASE AskAgain(c)
  BY <1>1, <1>5 DEF AskAgain, Awaiting
<1> QED
  BY <1>2, <1>3, <1>4, <1>5, SharingFeeds, AskingFeeds, GoingOnFeeds DEF GetTicker

\* The clock ticks when nobody who waits may go on: an answer does not age
\* before it is taken.
LEMMA TicksFeed ==
  ASSUME Feeding, FeedTick \/ StopFeed
  PROVE  Feeding'
<1>1. CASE FeedTick
  <2>1. /\ now < MaxTime /\ now' = now + 1
        /\ UNCHANGED <<connected, entry, inflight, request, asker, feedFaults, cancels>>
        /\ \A c \in Callers : Awaiting(c) => ~Over(asker[c].slot)
    BY <1>1 DEF FeedTick
  <2>2. now' \in 0..MaxTime /\ entry <= now'
    BY <2>1, FeedAssumption DEF Feeding, FeedTypeOK
  <2>3. FeedTypeOK'
    BY <2>1, <2>2 DEF Feeding, FeedTypeOK
  <2>4. AwaitedIsFresh'
    BY <2>1 DEF Feeding, AwaitedIsFresh, Awaiting, Over
  <2> QED
    BY <2>1, <2>2, <2>3, <2>4 DEF Feeding, OneOwner, InflightOwned, AnswersFresh, Active, Owner
<1>2. CASE StopFeed
  BY <1>2 DEF StopFeed, Feeding, FeedTypeOK, OneOwner, InflightOwned, AwaitedIsFresh,
     AnswersFresh, Active, Owner, Awaiting
<1> QED
  BY <1>1, <1>2

\* However callers come, wait and are cancelled, one request is under way at
\* most, somebody who waits owns it, and no answer is older than the cache allows.
THEOREM TickersAreShared == FeedSpec => [](FeedTypeOK /\ SharedSoundly)
<1>1. Feeding /\ [FeedNext]_feedVars => Feeding'
  <2> SUFFICES ASSUME Feeding, [FeedNext]_feedVars
               PROVE  Feeding'
    OBVIOUS
  <2>1. CASE UNCHANGED feedVars
    BY <2>1 DEF feedVars, Feeding, FeedTypeOK, OneOwner, InflightOwned, AwaitedIsFresh,
       AnswersFresh, Active, Owner, Awaiting
  <2> QED
    BY <2>1, CallersFeed, CancelsFeed, FetchesFeed, TicksFeed DEF FeedNext
<1>2. Feeding => FeedTypeOK /\ SharedSoundly
  BY ActiveIsOne DEF Feeding, SharedSoundly
<1> QED
  BY FeedingInit, <1>1, <1>2, PTL DEF FeedSpec

-----------------------------------------------------------------------------
(***************************************************************************)
(* The event chain validator.                                              *)
(***************************************************************************)
\* The chains that may still be counted as timed out.
Pending == {s \in SignalIds : chain[s].status = "pending"}

\* The chains that a pass of the checker finds late.
LateChains == {s \in SignalIds : TimedOut(s)}

\* Each signal that was counted is counted as timed out or pending, not both.
TimeoutsCounted ==
  /\ ChainTypeOK
  /\ stats["timeout"] + Cardinality(Pending) <= stats["total"]

LEMMA PendingFinite ==
  /\ IsFiniteSet(Pending) /\ Cardinality(Pending) \in Nat
  /\ Pending \subseteq SignalIds
<1>1. Pending \subseteq SignalIds BY DEF Pending
<1>2. IsFiniteSet(Pending) BY <1>1, ChainAssumption, FS_Subset DEF ChainAssumption
<1> QED BY <1>1, <1>2, FS_CardinalityType

LEMMA TimeoutsCountedInit == ChainInit => TimeoutsCounted
<1> SUFFICES ASSUME ChainInit PROVE TimeoutsCounted OBVIOUS
<1>1. ChainTypeOK BY ChainAssumption DEF ChainInit, ChainTypeOK, ChainAssumption
<1>2. Pending = {} BY DEF ChainInit, Pending, NoChain
<1>3. Cardinality(Pending) = 0 BY <1>2, FS_EmptySet
<1> QED BY <1>1, <1>3 DEF TimeoutsCounted, ChainInit

LEMMA TimeoutsCountedStep == TimeoutsCounted /\ [ChainNext]_chainVars => TimeoutsCounted'
<1> SUFFICES ASSUME TimeoutsCounted, [ChainNext]_chainVars PROVE TimeoutsCounted' OBVIOUS
<1> USE ChainAssumption DEF ChainAssumption
<1> DEFINE Stats == {"total", "completed", "timeout", "failed"}
<1> DEFINE Begun == [status : {"pending", "completed", "failed", "timeout"},
                     since : 0..MaxChainTime, risk : {"none", "started", "passed"},
                     placed : BOOLEAN]
<1>0. /\ chainNow \in 0..MaxChainTime /\ chain \in [SignalIds -> {NoChain} \cup Begun]
      /\ stats \in [Stats -> Nat] /\ filled \subseteq SignalIds
  BY DEF TimeoutsCounted, ChainTypeOK
<1>f. IsFiniteSet(Pending) /\ Cardinality(Pending) \in Nat BY PendingFinite
<1>p. \A s \in SignalIds : chain[s].status # "none" => chain[s] \in Begun
  BY <1>0 DEF NoChain
\* A chain that changes while none begins to be pending.
<1>1. ASSUME NEW s \in SignalIds, NEW c \in Begun, chain' = [chain EXCEPT ![s] = c],
             c.status = "pending" => chain[s].status = "pending",
             stats' \in [Stats -> Nat], stats'["total"] = stats["total"],
             stats'["timeout"] = stats["timeout"],
             chainNow' = chainNow, filled' \subseteq SignalIds
      PROVE  TimeoutsCounted'
  <2>1. ChainTypeOK' BY <1>0, <1>1 DEF ChainTypeOK
  <2>2. Pending' \subseteq Pending BY <1>0, <1>1 DEF Pending
  <2>3. Cardinality(Pending') <= Cardinality(Pending) /\ Cardinality(Pending') \in Nat
    BY <1>f, <2>2, FS_Subset, FS_CardinalityType
  <2> QED BY <1>0, <1>1, <1>f, <2>1, <2>3 DEF TimeoutsCounted
<1>2. ASSUME NEW s \in SignalIds, OnSignal(s) PROVE TimeoutsCounted'
  <2>1. [NoChain EXCEPT !.status = "pending", !.since = chainNow] \in Begun
    BY <1>0 DEF NoChain
  <2>2. chain' \in [SignalIds -> {NoChain} \cup Begun] BY <1>0, <1>2, <2>1 DEF OnSignal
  <2>3. /\ stats' \in [Stats -> Nat] /\ stats'["total"] = stats["total"] + 1
        /\ stats'["timeout"] = stats["timeout"]
    BY <1>0, <1>2 DEF OnSignal, Count
  <2>4. ChainTypeOK' BY <1>0, <1>2, <2>2, <2>3 DEF ChainTypeOK, OnSignal
  <2>5. Pending' \subseteq Pending \cup {s} BY <1>0, <1>2 DEF OnSignal, Pending
  <2>6. /\ IsFiniteSet(Pending \cup {s})
        /\ Cardinality(Pending \cup {s}) <= Cardinality(Pending) + 1
    <3>1. /\ IsFiniteSet(Pending \cup {s})
          /\ Cardinality(Pending \cup {s}) =
               IF s \in Pending THEN Cardinality(Pending) ELSE Cardinality(Pending) + 1
      BY <1>f, FS_AddElement, Zenon
    <3> QED BY <1>f, <3>1
  <2>7. /\ Cardinality(Pending') <= Cardinality(Pending \cup {s})
        /\ Cardinality(Pending \cup {s}) \in Nat /\ Cardinality(Pending') \in Nat
    BY <2>5, <2>6, FS_Subset, FS_CardinalityType
  <2> QED BY <1>0, <1>f, <2>3, <2>4, <2>6, <2>7 DEF TimeoutsCounted
<1>3. ASSUME NEW s \in SignalIds, OnRiskCheck(s) PROVE TimeoutsCounted'
  <2>1. PICK r \in {"none", "started", "passed"} :
          chain' = [chain EXCEPT ![s] = [chain[s] EXCEPT !.risk = r]]
    <3>1. PICK b \in BOOLEAN :
            chain' = [chain EXCEPT ![s].risk =
                        IF ~b THEN "passed" ELSE IF @ = "none" THEN "started" ELSE @]
      BY <1>3 DEF OnRiskCheck
    <3>2. chain[s] \in Begun BY <1>3, <1>p DEF OnRiskCheck, Known
    <3>3. chain[s].risk \in {"none", "started", "passed"} BY <3>2
    <3>4. chain' = [chain EXCEPT ![s] = [chain[s] EXCEPT !.risk =
             IF ~b THEN "passed" ELSE IF chain[s].risk = "none" THEN "started"
                                      ELSE chain[s].risk]]
      BY <3>1
    <3>5. (IF ~b THEN "passed" ELSE IF chain[s].risk = "none" THEN "started"
                               ELSE chain[s].risk) \in {"none", "started", "passed"}
      BY <3>3
    <3> QED BY <3>4, <3>5
  <2>2. chain[s] \in Begun BY <1>3, <1>p DEF OnRiskCheck, Known
  <2>3. [chain[s] EXCEPT !.risk = r] \in Begun
          /\ [chain[s] EXCEPT !.risk = r].status = chain[s].status
    BY <2>2
  <2> QED BY <1>0, <1>1, <1>3, <2>1, <2>3 DEF OnRiskCheck
<1>4. ASSUME NEW s \in SignalIds, OnOrderPlaced(s) PROVE TimeoutsCounted'
  <2>1. chain[s] \in Begun BY <1>4, <1>p DEF OnOrderPlaced, Known
  <2>2. [chain[s] EXCEPT !.placed = TRUE] \in Begun
          /\ [chain[s] EXCEPT !.placed = TRUE].status = chain[s].status
    BY <2>1
  <2> QED BY <1>0, <1>1, <1>4, <2>2 DEF OnOrderPlaced
<1>5. ASSUME NEW s \in SignalIds, OnOrderFilled(s) PROVE TimeoutsCounted'
  <2>1. chain[s] \in Begun BY <1>5, <1>p DEF OnOrderFilled, Known
  <2>2. [chain[s] EXCEPT !.status = "completed"] \in Begun
          /\ [chain[s] EXCEPT !.status = "completed"].status = "completed"
    BY <2>1
  <2>3. /\ stats' \in [Stats -> Nat] /\ stats'["total"] = stats["total"]
        /\ stats'["timeout"] = stats["timeout"]
    BY <1>0, <1>5 DEF OnOrderFilled, Count
  <2> QED BY <1>0, <1>1, <1>5, <2>2, <2>3 DEF OnOrderFilled
<1>6. ASSUME NEW s \in SignalIds, OnOrderFailed(s) PROVE TimeoutsCounted'
  <2>1. chain[s] \in Begun BY <1>6, <1>p DEF OnOrderFailed, Known
  <2>2. [chain[s] EXCEPT !.status = "failed"] \in Begun
          /\ [chain[s] EXCEPT !.status = "failed"].status = "failed"
    BY <2>1
  <2>3. /\ stats' \in [Stats -> Nat] /\ stats'["total"] = stats["total"]
        /\ stats'["timeout"] = stats["timeout"]
    BY <1>0, <1>6 DEF OnOrderFailed, Count
  <2> QED BY <1>0, <1>1, <1>6, <2>2, <2>3 DEF OnOrderFailed
\* What the checker counts it takes from the chains that are pending.
<1>7. CASE CheckTimeouts
  <2>1. LateChains \subseteq Pending BY DEF LateChains, Pending, TimedOut
  <2>2. \A s \in LateChains : s \in SignalIds /\ chain[s] \in Begun
    BY <1>p, <2>1 DEF Pending
  <2>3. \A s \in LateChains : [chain[s] EXCEPT !.status = "timeout"] \in Begun
          /\ [chain[s] EXCEPT !.status = "timeout"].status = "timeout"
    BY <2>2
  <2>4. chain' = [s \in SignalIds |-> IF s \in LateChains
                    THEN [chain[s] EXCEPT !.status = "timeout"] ELSE chain[s]]
    BY <1>7 DEF CheckTimeouts, LateChains
  <2>5. /\ stats' = [stats EXCEPT !["timeout"] = @ + Cardinality(LateChains)]
        /\ UNCHANGED <<chainNow, filled>>
    BY <1>7 DEF CheckTimeouts, LateChains
  <2>6. Cardinality(LateChains) \in Nat
    BY <1>f, <2>1, FS_Subset, FS_CardinalityType
  <2>7. chain' \in [SignalIds -> {NoChain} \cup Begun] BY <1>0, <2>3, <2>4
  <2>8. Pending' = Pending \ LateChains BY <2>3, <2>4 DEF Pending
  <2>9. Cardinality(Pending') = Cardinality(Pending) - Cardinality(LateChains)
    <3>1. Pending \cap LateChains = LateChains BY <2>1
    <3>2. Cardinality(Pending \ LateChains) =
            Cardinality(Pending) - Cardinality(Pending \cap LateChains)
      BY <1>f, FS_Difference, Zenon
    <3> QED BY <2>8, <3>1, <3>2
  <2>10. /\ stats' \in [Stats -> Nat] /\ stats'["total"] = stats["total"]
         /\ stats'["timeout"] = stats["timeout"] + Cardinality(LateChains)
    BY <1>0, <2>5, <2>6
  <2>11. ChainTypeOK' BY <1>0, <2>5, <2>7, <2>10 DEF ChainTypeOK
  <2> QED BY <1>0, <1>f, <2>6, <2>9, <2>10, <2>11 DEF TimeoutsCounted
<1>8. CASE ChainTick
  <2>1. Pending' = Pending BY <1>8 DEF ChainTick, Pending
  <2> QED BY <1>8, <2>1 DEF ChainTick, TimeoutsCounted, ChainTypeOK
<1>9. CASE UNCHANGED chainVars
  <2>1. Pending' = Pending BY <1>9 DEF chainVars, Pending
  <2> QED BY <1>9, <2>1 DEF chainVars, TimeoutsCounted, ChainTypeOK
<1> QED BY <1>2, <1>3, <1>4, <1>5, <1>6, <1>7, <1>8, <1>9 DEF ChainNext, ChainEvent

\* The validator never counts more timeouts than it saw signals, however many
\* there are, and leaves a place for each chain that may still time out: in no
\* order of events and of passes of the checker is a chain counted twice.
THEOREM TimeoutsAreCountedOnce == ChainSpec => [](ChainTypeOK /\ TimeoutsWithinSignals)
<1>1. TimeoutsCounted => ChainTypeOK /\ TimeoutsWithinSignals
  BY DEF TimeoutsCounted, TimeoutsWithinSignals, Pending
<1> QED BY <1>1, TimeoutsCountedInit, TimeoutsCountedStep, PTL DEF ChainSpec

-----------------------------------------------------------------------------
(***************************************************************************)
(* Monitoring and its panic.                                               *)
(***************************************************************************)
\* The event bus is never among what failed, and what failed has been seen; the
\* breaker remembers that it has panicked.
Panicked ==
  /\ MonitorTypeOK
  /\ "event_bus" \notin pass.failed
  /\ "database" \in pass.failed => failedSince
  /\ active => failedSince
  /\ panics.sent <= IF active THEN 1 ELSE 0

LEMMA PanickedInit == MonitorInit => Panicked
<1> SUFFICES ASSUME MonitorInit PROVE Panicked OBVIOUS
<1> USE MonitorAssumption
<1>1. active \in BOOLEAN /\ failedSince \in BOOLEAN BY DEF MonitorInit
<1>2. /\ pass \in [pc : Steps, failed : SUBSET {"database", "datafeed", "event_bus"}]
      /\ panics \in [sent : Nat, heard : Nat]
      /\ up \subseteq Components /\ outages \in [Components -> 0..MaxOutages]
      /\ overall \in {"unknown", "healthy", "degraded"}
  BY DEF MonitorInit, Steps
<1> QED BY <1>1, <1>2 DEF MonitorInit, Panicked, MonitorTypeOK

LEMMA PanickedStep == Panicked /\ [MonitorNext]_monitorVars => Panicked'
<1> SUFFICES ASSUME Panicked, [MonitorNext]_monitorVars PROVE Panicked' OBVIOUS
<1> USE MonitorAssumption
<1> DEFINE PassType == [pc : Steps, failed : SUBSET {"database", "datafeed", "event_bus"}]
<1>0. /\ pass \in PassType /\ panics \in [sent : Nat, heard : Nat]
      /\ active \in BOOLEAN /\ failedSince \in BOOLEAN
      /\ outages \in [Components -> 0..MaxOutages] /\ up \subseteq Components
      /\ overall \in {"unknown", "healthy", "degraded"}
  BY DEF Panicked, MonitorTypeOK
<1>1. ASSUME NEW c \in Components, GoDown(c) PROVE Panicked'
  <2>1. outages' \in [Components -> 0..MaxOutages] /\ up' \subseteq Components
    BY <1>0, <1>1 DEF GoDown
  <2> QED BY <1>1, <2>1 DEF GoDown, Panicked, MonitorTypeOK
<1>2. ASSUME NEW c \in Components, ComeBack(c) PROVE Panicked'
  BY <1>2 DEF ComeBack, Panicked, MonitorTypeOK
<1>3. ASSUME pass' \in PassType, pass'.failed \subseteq pass.failed,
             UNCHANGED <<up, outages, active, panics, failedSince>>,
             overall' \in {"unknown", "healthy", "degraded"}
      PROVE  Panicked'
  BY <1>3 DEF Panicked, MonitorTypeOK
<1>4. CASE StartMonitor
  <2>1. pass' \in PassType /\ pass'.failed = pass.failed
    BY <1>0, <1>4 DEF StartMonitor, Steps
  <2> QED BY <1>0, <1>3, <1>4, <2>1 DEF StartMonitor
<1>5. CASE BeginChecks
  <2>1. pass' \in PassType /\ pass'.failed = {} BY <1>5 DEF BeginChecks, Steps
  <2> QED BY <1>0, <1>3, <1>5, <2>1 DEF BeginChecks
<1>6. CASE CheckDatabase
  <2>1. /\ pass' \in PassType
        /\ pass'.failed = IF "database" \in up THEN {} ELSE {"database"}
    BY <1>6 DEF CheckDatabase, Steps
  <2>2. failedSince' \in BOOLEAN /\ (failedSince => failedSince')
          /\ ("database" \notin up => failedSince')
    BY <1>0, <1>6 DEF CheckDatabase
  <2> QED BY <1>6, <2>1, <2>2 DEF CheckDatabase, Panicked, MonitorTypeOK
<1>7. CASE CheckDatafeed
  <2>1. pass' \in PassType /\ pass'.failed = pass.failed \cup {"datafeed"}
    BY <1>0, <1>7 DEF CheckDatafeed, Steps
  <2> QED BY <1>7, <2>1 DEF CheckDatafeed, Panicked, MonitorTypeOK
<1>8. CASE CheckEventBus
  <2>1. pass' \in PassType /\ pass'.failed = pass.failed
    BY <1>0, <1>8 DEF CheckEventBus, Steps
  <2> QED BY <1>0, <1>3, <1>8, <2>1 DEF CheckEventBus
<1>9. CASE PublishHealth
  <2>1. [pc |-> "sleep", failed |-> {}] \in PassType BY DEF Steps
  <2>2. /\ [pass EXCEPT !.pc = "breaker"] \in PassType
        /\ [pass EXCEPT !.pc = "breaker"].failed = pass.failed
    BY <1>0 DEF Steps
  <2>3. pass' \in PassType /\ pass'.failed \subseteq pass.failed
    BY <1>9, <2>1, <2>2 DEF PublishHealth
  <2> QED BY <1>3, <1>9, <2>3 DEF PublishHealth, Overall
<1>10. CASE CheckBreaker
  <2>1. pass' \in PassType /\ pass'.failed = {} BY <1>10 DEF CheckBreaker, Steps
  <2>2. CASE pass.failed \cap Critical # {} /\ ~active
    <3>1. "database" \in pass.failed BY <2>2 DEF Critical, Panicked
    <3>2. active' = TRUE /\ panics'.sent = panics.sent + 1
            /\ panics' \in [sent : Nat, heard : Nat]
      BY <1>0, <1>10, <2>2 DEF CheckBreaker
    <3>3. panics.sent = 0 BY <1>0, <2>2 DEF Panicked
    <3>4. panics'.sent <= 1 BY <3>2, <3>3
    <3>5. failedSince' = failedSince /\ failedSince
      BY <1>10, <3>1 DEF CheckBreaker, Panicked
    <3> QED BY <1>0, <1>10, <2>1, <3>2, <3>4, <3>5 DEF CheckBreaker, Panicked, MonitorTypeOK
  <2>3. CASE ~(pass.failed \cap Critical # {} /\ ~active)
    BY <1>0, <1>3, <1>10, <2>1, <2>3 DEF CheckBreaker
  <2> QED BY <2>2, <2>3
<1>11. CASE UNCHANGED monitorVars BY <1>11 DEF monitorVars, Panicked, MonitorTypeOK
<1> QED BY <1>1, <1>2, <1>4, <1>5, <1>6, <1>7, <1>8, <1>9, <1>10, <1>11
  DEF MonitorNext, HealthLoop

\* The panic that sells every position is sent once at most, and only after the
\* database has been found down, through any number of outages.
THEOREM PanicsHaveAReason == MonitorSpec => [](MonitorTypeOK /\ PanicsOnceWithReason)
<1>1. Panicked => MonitorTypeOK /\ PanicsOnceWithReason
  <2> SUFFICES ASSUME Panicked PROVE MonitorTypeOK /\ PanicsOnceWithReason OBVIOUS
  <2>1. panics.sent \in Nat BY DEF Panicked, MonitorTypeOK
  <2> QED BY <2>1 DEF Panicked, PanicsOnceWithReason
<1> QED BY PanickedInit, PanickedStep, <1>1, PTL DEF MonitorSpec

-----------------------------------------------------------------------------
(***************************************************************************)
(* The walk-forward analysis.                                              *)
(***************************************************************************)
LEMMA NaturalsHaveALeast ==
  ASSUME NEW S \in SUBSET Nat, S # {}
  PROVE  \E x \in S : \A y \in S : x <= y
<1>1. PICK x \in S : \A y \in S : ~ (<<y, x>> \in OpToRel(<, Nat))
  BY NatLessThanWellFounded, WFMin, Zenon
<1>2. \A y \in S : ~ (y < x) BY <1>1 DEF OpToRel
<1> QED BY <1>2

\* A set of days has a first one and, if it is finite, a last one.
LEMMA FirstIsFirst ==
  ASSUME NEW days \in SUBSET Nat, days # {}
  PROVE  Min(days) \in days /\ \A d \in days : Min(days) <= d
<1>1. \E x \in days : \A y \in days : x <= y
  BY NaturalsHaveALeast
<1> QED
  BY <1>1 DEF Min

LEMMA LastIsLast ==
  ASSUME NEW days \in SUBSET Nat, IsFiniteSet(days), days # {}
  PROVE  Max(days) \in days /\ \A d \in days : d <= Max(days)
<1> DEFINE After(x) == {y \in days : y > x}
<1> DEFINE Counts == {Cardinality(After(x)) : x \in days}
<1>1. \A x : IsFiniteSet(After(x)) /\ Cardinality(After(x)) \in Nat
  BY FS_Subset, FS_CardinalityType
<1>2. Counts \in SUBSET Nat /\ Counts # {}
  BY <1>1
<1>3. \E k \in Counts : \A j \in Counts : k <= j
  <2> HIDE DEF Counts
  <2> QED
    BY <1>2, NaturalsHaveALeast
<1>4. PICK x \in days : \A z \in days : Cardinality(After(x)) <= Cardinality(After(z))
  BY <1>3
<1>5. ASSUME NEW y \in days, y > x
      PROVE  FALSE
  <2>1. After(y) \subseteq After(x) /\ y \in After(x) /\ y \notin After(y)
    <3>1. \A z \in days : z > y => z > x
      BY <1>5
    <3>2. ~ (y > y)
      BY <1>5
    <3> QED
      BY <1>5, <3>1, <3>2
  <2>2. After(y) \in SUBSET After(x) /\ After(y) # After(x)
    BY <2>1
  <2>3. Cardinality(After(y)) <= Cardinality(After(x))
          /\ Cardinality(After(y)) # Cardinality(After(x))
    <3> HIDE DEF After
    <3> QED
      BY <1>1, <2>2, FS_Subset
  <2> QED
    BY <1>1, <1>4, <2>3
<1>6. \A y \in days : x >= y
  BY <1>5
<1>7. \E z \in days : \A y \in days : z >= y
  BY <1>6
<1> QED
  BY <1>7 DEF Max

-----------------------------------------------------------------------------
\* The windows begin a week apart, at the first trade.
InStep(s) == s \in Nat /\ FirstDay <= s /\ (s - FirstDay) % StepDays = 0

\* The windows before the next one fit, and each is a fold or lacks trades.
FoldsKept ==
  /\ InStep(window)
  /\ \A s \in DOMAIN sharpe : InStep(s) /\ s < window /\ Fits(s)
  /\ \A s \in Nat :
       InStep(s) /\ s < window => s \in DOMAIN sharpe \/ Train(s) = {} \/ Test(s) = {}

\* They are judged when no further window fits.
Analysed ==
  /\ WfaTypeOK
  /\ trades = {} => sharpe = NoResults /\ verdict = "none"
  /\ trades # {} => FoldsKept
  /\ verdict # "none" => trades # {} /\ ~Fits(window)
  /\ verdict = "stable" => Stable(sharpe)

\* The days of the trades are numbers.
LEMMA AnalysedDays ==
  ASSUME WfaTypeOK, trades # {}
  PROVE  /\ FirstDay \in Nat /\ LastDay \in Nat /\ window \in Nat
         /\ \A d \in trades : d \in Nat /\ FirstDay <= d /\ d <= LastDay
<1>1. trades \in SUBSET Nat /\ IsFiniteSet(trades)
  BY WfaAssumption, FS_Subset DEF WfaAssumption, WfaTypeOK
<1> QED
  BY <1>1, FirstIsFirst, LastIsLast DEF FirstDay, LastDay, WfaTypeOK

LEMMA AnalysedInit == WfaInit => Analysed
<1> SUFFICES ASSUME WfaInit
             PROVE  Analysed
  OBVIOUS
<1>1. DOMAIN sharpe = {} /\ sharpe \in [DOMAIN sharpe -> Sharpes]
  BY DEF WfaInit, NoResults
<1> QED
  BY <1>1 DEF WfaInit, Analysed, WfaTypeOK

\* A list of trades is given: no window was looked at.
LEMMA BeginAnalyses ==
  ASSUME Analysed, BeginAnalysis
  PROVE  Analysed'
<1>1. /\ trades = {} /\ trades' \in (SUBSET TradeDays) \ {{}} /\ window' = Min(trades')
      /\ UNCHANGED <<sharpe, verdict>> /\ sharpe = NoResults /\ verdict = "none"
  BY DEF BeginAnalysis, Analysed
<1>2. trades' \in SUBSET Nat /\ trades' # {}
  BY <1>1, WfaAssumption DEF WfaAssumption
<1>3. window' \in Nat
  BY <1>1, <1>2, FirstIsFirst
<1>4. \A s \in Nat : InStep(s)' => ~(s < window')
  BY <1>1, <1>3 DEF InStep, FirstDay
<1>5. InStep(window)'
  <2>1. window' <= window' /\ (window' - window') % 7 = 0
    <3>1. \A k \in Nat : k <= k /\ (k - k) % 7 = 0
      OBVIOUS
    <3> QED
      BY <1>3, <3>1
  <2> QED
    BY <1>1, <1>3, <2>1 DEF InStep, StepDays, FirstDay
<1>6. DOMAIN sharpe' = {}
  BY <1>1 DEF NoResults
<1>7. FoldsKept'
  BY <1>4, <1>5, <1>6 DEF FoldsKept
<1>8. WfaTypeOK'
  BY <1>1, <1>3 DEF Analysed, WfaTypeOK
<1> QED
  BY <1>1, <1>7, <1>8 DEF Analysed

\* A window that fits is a fold from now on, or lacks trades.
LEMMA NextWindowAnalyses ==
  ASSUME Analysed, PassOver \/ TestFold
  PROVE  Analysed'
<1>1. /\ trades # {} /\ Fits(window) /\ window' = window + 7
      /\ UNCHANGED <<trades, verdict>> /\ FoldsKept /\ verdict = "none"
  BY DEF PassOver, TestFold, NextWindow, StepDays, Analysed
<1>2. /\ FirstDay \in Nat /\ window \in Nat /\ FirstDay <= window
      /\ (window - FirstDay) % 7 = 0
  BY <1>1, AnalysedDays DEF Analysed, FoldsKept, InStep, StepDays
<1>3. /\ \A s : InStep(s)' <=> InStep(s)
      /\ \A s : Fits(s)' <=> Fits(s)
      /\ \A s : Train(s)' = Train(s) /\ Test(s)' = Test(s)
  BY <1>1 DEF InStep, FirstDay, Fits, LastDay, Train, Test
<1>4. InStep(window')
  <2>1. window' \in Nat /\ FirstDay <= window'
    BY <1>1, <1>2
  <2>2. (window' - FirstDay) % 7 = 0
    <3>1. \A k \in Nat : k % 7 = 0 => (k + 7) % 7 = 0
      OBVIOUS
    <3>2. window - FirstDay \in Nat /\ window' - FirstDay = (window - FirstDay) + 7
      BY <1>1, <1>2
    <3> QED
      BY <1>2, <3>1, <3>2
  <2> QED
    BY <2>1, <2>2 DEF InStep, StepDays
\* Between a window and the next one there is no other.
<1>5. \A s \in Nat : InStep(s) /\ s < window' => s < window \/ s = window
  <2>1. SUFFICES ASSUME NEW s \in Nat, InStep(s), s < window + 7, ~(s < window)
                 PROVE  s = window
    BY <1>1
  <2>2. FirstDay <= s /\ (s - FirstDay) % 7 = 0
    BY <2>1 DEF InStep, StepDays
  <2> QED
    BY <1>2, <2>1, <2>2
<1>6. /\ DOMAIN sharpe \subseteq DOMAIN sharpe'
      /\ \A s \in DOMAIN sharpe' : s \in DOMAIN sharpe \/ s = window
      /\ window \in DOMAIN sharpe' \/ Train(window) = {} \/ Test(window) = {}
      /\ sharpe' \in [DOMAIN sharpe' -> Sharpes]
  <2>0. sharpe \in [DOMAIN sharpe -> Sharpes]
    BY DEF Analysed, WfaTypeOK
  <2>1. CASE PassOver
    BY <2>0, <2>1 DEF PassOver
  <2>2. CASE TestFold
    <3>1. PICK r \in Sharpes :
            sharpe' = [s \in DOMAIN sharpe \cup {window} |->
                         IF s = window THEN r ELSE sharpe[s]]
      BY <2>2 DEF TestFold
    <3>2. DOMAIN sharpe' = DOMAIN sharpe \cup {window}
      BY <3>1
    <3> QED
      BY <2>0, <3>1, <3>2
  <2> QED
    BY <2>1, <2>2
<1>7. \A s \in DOMAIN sharpe : InStep(s) /\ s \in Nat /\ s < window /\ Fits(s)
  BY <1>1 DEF FoldsKept, InStep
<1>8. window' \in Nat /\ window < window' /\ \A s \in Nat : s < window => s < window'
  BY <1>1, <1>2
<1>9. \A s \in DOMAIN sharpe' : InStep(s) /\ s < window' /\ Fits(s)
  <2>1. InStep(window)
    BY <1>1 DEF FoldsKept
  <2> QED
    BY <1>1, <1>6, <1>7, <1>8, <2>1
<1>10. \A s \in Nat : InStep(s) /\ s < window' =>
                        s \in DOMAIN sharpe' \/ Train(s) = {} \/ Test(s) = {}
  BY <1>1, <1>5, <1>6 DEF FoldsKept
<1>11. FoldsKept'
  <2>1. InStep(window)' <=> InStep(window')
    BY <1>1 DEF InStep, FirstDay
  <2> QED
    BY <1>3, <1>4, <1>9, <1>10, <2>1 DEF FoldsKept
<1>12. WfaTypeOK'
  <2>1. DOMAIN sharpe' \subseteq Nat
    BY <1>2, <1>6, <1>7
  <2> QED
    BY <1>1, <1>6, <1>8, <2>1 DEF Analysed, WfaTypeOK
<1> QED
  BY <1>1, <1>11, <1>12 DEF Analysed

LEMMA AnalysedStep == Analysed /\ [WfaNext]_wfaVars => Analysed'
<1> SUFFICES ASSUME Analysed, [WfaNext]_wfaVars
             PROVE  Analysed'
  OBVIOUS
<1>1. CASE Judge
  BY <1>1 DEF Judge, Analysed, WfaTypeOK, FoldsKept, InStep, FirstDay, LastDay, Fits, Train,
     Test, Stable, AboveThreshold
<1>2. CASE UNCHANGED wfaVars
  BY <1>2 DEF wfaVars, Analysed, WfaTypeOK, FoldsKept, InStep, FirstDay, LastDay, Fits, Train,
     Test, Stable, AboveThreshold
<1> QED
  BY <1>1, <1>2, BeginAnalyses, NextWindowAnalyses DEF WfaNext

\* Less than six weeks have room for two folds.
LEMMA ThreeFoldsTakeSixWeeks ==
  ASSUME Analysed
  PROVE  StableOnSixWeeks
<1>1. SUFFICES ASSUME verdict = "stable"
               PROVE  LastDay - FirstDay >= 42
  BY DEF StableOnSixWeeks, TrainDays, TestDays
<1>2. trades # {} /\ FoldsKept /\ Cardinality(DOMAIN sharpe) >= 3
  BY <1>1 DEF Analysed, Stable
<1>3. FirstDay \in Nat /\ LastDay \in Nat
  BY <1>2, AnalysedDays DEF Analysed
<1>4. SUFFICES ASSUME LastDay < FirstDay + 42
               PROVE  FALSE
  BY <1>3
<1>5. ASSUME NEW s \in DOMAIN sharpe
      PROVE  s = FirstDay \/ s = FirstDay + 7
  <2>1. s \in Nat /\ FirstDay <= s /\ (s - FirstDay) % 7 = 0 /\ s + 28 <= LastDay
    <3>1. InStep(s) /\ Fits(s)
      BY <1>2 DEF FoldsKept
    <3> QED
      BY <1>3, <3>1 DEF InStep, Fits, StepDays, TrainDays, TestDays
  <2>2. s - FirstDay \in Nat /\ s - FirstDay < 14
    BY <1>3, <1>4, <2>1
  <2>3. \A k \in Nat : k < 14 /\ k % 7 = 0 => k = 0 \/ k = 7
    OBVIOUS
  <2> QED
    BY <1>3, <2>1, <2>2, <2>3
<1>6. DOMAIN sharpe \in SUBSET {FirstDay, FirstDay + 7}
  BY <1>5
<1>7. IsFiniteSet({FirstDay, FirstDay + 7}) /\ Cardinality({FirstDay, FirstDay + 7}) = 2
  <2>1. IsFiniteSet({FirstDay}) /\ Cardinality({FirstDay}) = 1
    BY FS_Singleton
  <2>2. {FirstDay} \cup {FirstDay + 7} = {FirstDay, FirstDay + 7}
          /\ FirstDay + 7 \notin {FirstDay}
    BY <1>3
  <2>3. /\ IsFiniteSet({FirstDay} \cup {FirstDay + 7})
        /\ Cardinality({FirstDay} \cup {FirstDay + 7}) =
             IF FirstDay + 7 \in {FirstDay} THEN Cardinality({FirstDay})
             ELSE Cardinality({FirstDay}) + 1
    BY <2>1, FS_AddElement, Zenon
  <2> QED
    BY <2>1, <2>2, <2>3
<1>8. Cardinality(DOMAIN sharpe) <= 2 /\ Cardinality(DOMAIN sharpe) \in Nat
  BY <1>6, <1>7, FS_Subset, FS_CardinalityType
<1> QED
  BY <1>2, <1>8

\* The window whose test a trade belongs to was looked at.
LEMMA WindowsLeaveNoGap ==
  ASSUME Analysed
  PROVE  LaterTradesTested
<1>1. SUFFICES ASSUME verdict # "none", NEW d \in trades,
                      FirstDay + 21 <= d, d <= LastDay - 7
               PROVE  \E s \in FirstDay..LastDay :
                        /\ (s - FirstDay) % 7 = 0
                        /\ d \in Test(s)
                        /\ s \in DOMAIN sharpe \/ Train(s) = {}
  BY DEF LaterTradesTested, TrainDays, TestDays, StepDays
<1>2. trades # {} /\ FoldsKept /\ ~Fits(window)
  BY <1>1 DEF Analysed
<1>3. FirstDay \in Nat /\ LastDay \in Nat /\ window \in Nat /\ d \in Nat
  BY <1>2, AnalysedDays DEF Analysed
<1>4. PICK s \in Nat : /\ FirstDay <= s /\ (s - FirstDay) % 7 = 0
                       /\ s + 21 <= d /\ d < s + 28
  <2> DEFINE k == (d - FirstDay - 21) \div 7
  <2>1. d - FirstDay - 21 \in Nat
    BY <1>1, <1>3
  <2>2. k \in Nat /\ 7 * k <= d - FirstDay - 21 /\ d - FirstDay - 21 < 7 * k + 7
    BY <2>1
  <2>3. \A n \in Nat : (7 * n) % 7 = 0
    OBVIOUS
  <2> HIDE DEF k
  <2>4. /\ FirstDay + 7 * k \in Nat /\ FirstDay <= FirstDay + 7 * k
        /\ (FirstDay + 7 * k) - FirstDay = 7 * k
        /\ FirstDay + 7 * k + 21 <= d /\ d < FirstDay + 7 * k + 28
    BY <1>3, <2>2
  <2> QED
    BY <2>2, <2>3, <2>4
<1>5. s < window /\ s <= LastDay
  BY <1>1, <1>2, <1>3, <1>4 DEF Fits, TrainDays, TestDays
<1>6. d \in Test(s)
  BY <1>1, <1>3, <1>4 DEF Test, TrainDays, TestDays
<1>7. InStep(s)
  BY <1>4 DEF InStep, StepDays
<1>8. s \in DOMAIN sharpe \/ Train(s) = {}
  BY <1>2, <1>5, <1>6, <1>7 DEF FoldsKept
<1> QED
  BY <1>3, <1>4, <1>5, <1>6, <1>8

\* Whatever days have trades and whatever the tests give, nothing is found
\* stable that was tested on trades of less than six weeks, and no trade falls
\* between the windows.
THEOREM FoldsAreRight == WfaSpec => [](WfaTypeOK /\ FoldsAreSound)
<1>1. Analysed => WfaTypeOK /\ FoldsAreSound
  BY ThreeFoldsTakeSixWeeks, WindowsLeaveNoGap DEF Analysed, FoldsAreSound
<1> QED
  BY AnalysedInit, AnalysedStep, <1>1, PTL DEF WfaSpec

=============================================================================
