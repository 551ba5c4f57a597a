------------------------------ MODULE EventChain ------------------------------
(***************************************************************************)
(* The event chain validator: it follows each signal through risk check,   *)
(* order and fill by the events of the bus, and counts what became of the  *)
(* chains.  (The health score it computes from the counts is left out.)    *)
(*                                                                         *)
(* Events find their chain by the signal_id they carry.  CarriedIds is the *)
(* set of ids that the events after the signal carry; no publisher of the  *)
(* repository sends one, so for the shipped system it is empty.  Times are *)
(* kept only as far as the timeout needs them.                             *)
(***************************************************************************)
EXTENDS Integers, FiniteSets

CONSTANTS
  SignalIds,
  CarriedIds,
  ChainTimeout,    \* timeout_ms, in ticks
  MaxChainTime,    \* bound on the clock: signals come while there is time left
  MaxChainEvents   \* bound on the events of each kind

ASSUME ChainAssumption ==
  /\ IsFiniteSet(SignalIds) /\ CarriedIds \subseteq SignalIds
  /\ ChainTimeout \in Nat /\ MaxChainTime \in Nat /\ MaxChainEvents \in Nat

VARIABLES
  chainNow,
  chain,           \* _chains
  stats,           \* _stats
  filled           \* signals whose present chain has order_filled set

chainVars == <<chainNow, chain, stats, filled>>

-----------------------------------------------------------------------------
NoChain == [status |-> "none", since |-> 0, risk |-> "none", placed |-> FALSE]

ChainTypeOK ==
  /\ chainNow \in 0..MaxChainTime
  /\ chain \in [SignalIds -> {NoChain} \cup
       [status : {"pending", "completed", "failed", "timeout"},
        since : 0..MaxChainTime, risk : {"none", "started", "passed"},
        placed : BOOLEAN]]
  /\ stats \in [{"total", "completed", "timeout", "failed"} -> Nat]
  /\ filled \subseteq SignalIds

ChainInit ==
  /\ chainNow = 0
  /\ chain = [s \in SignalIds |-> NoChain]
  /\ stats = [k \in {"total", "completed", "timeout", "failed"} |-> 0]
  /\ filled = {}

Count(kind) == stats' = [stats EXCEPT ![kind] = @ + 1]

Known(s) == s \in CarriedIds /\ chain[s].status # "none"

-----------------------------------------------------------------------------
\* A signal begins its chain, or begins it anew.
OnSignal(s) ==
  /\ stats["total"] < MaxChainEvents /\ chainNow + ChainTimeout < MaxChainTime
  /\ chain' = [chain EXCEPT ![s] = [NoChain EXCEPT !.status = "pending",
                                                   !.since = chainNow]]
  /\ Count("total")
  /\ filled' = filled \ {s}
  /\ UNCHANGED chainNow

OnRiskCheck(s) ==
  /\ Known(s)
  /\ \E blocked \in BOOLEAN :
       chain' = [chain EXCEPT ![s].risk =
                   IF ~blocked THEN "passed" ELSE IF @ = "none" THEN "started" ELSE @]
  /\ UNCHANGED <<chainNow, stats, filled>>

OnOrderPlaced(s) ==
  /\ Known(s)
  /\ chain' = [chain EXCEPT ![s].placed = TRUE]
  /\ UNCHANGED <<chainNow, stats, filled>>

\* Whatever its status was, and however often it was filled before.
OnOrderFilled(s) ==
  /\ Known(s) /\ stats["completed"] < MaxChainEvents
  /\ chain' = [chain EXCEPT ![s].status = "completed"]
  /\ Count("completed")
  /\ filled' = filled \cup {s}
  /\ UNCHANGED chainNow

OnOrderFailed(s) ==
  /\ Known(s) /\ stats["failed"] < MaxChainEvents
  /\ chain' = [chain EXCEPT ![s].status = "failed"]
  /\ Count("failed")
  /\ UNCHANGED <<chainNow, filled>>

-----------------------------------------------------------------------------
\* is_timeout(), of a chain that is pending.
Late(s) ==
  chain[s].status # "none" /\ s \notin filled
    /\ chainNow - chain[s].since > ChainTimeout

LatePlaced(s) ==
  chain[s].status = "pending" /\ chain[s].placed /\ Late(s)

TimedOut(s) == chain[s].status = "pending" /\ Late(s)

\* A pass of _timeout_checker has no await: it marks all chains at once.
CheckTimeouts ==
  LET late == {s \in SignalIds : TimedOut(s)}
  IN  /\ late # {}
      /\ chain' = [s \in SignalIds |->
                     IF s \in late THEN [chain[s] EXCEPT !.status = "timeout"]
                     ELSE chain[s]]
      /\ stats' = [stats EXCEPT !["timeout"] = @ + Cardinality(late)]
      /\ UNCHANGED <<chainNow, filled>>

\* The clock is started by the first signal.
ChainTick ==
  /\ chainNow < MaxChainTime /\ stats["total"] > 0
  /\ chainNow' = chainNow + 1
  /\ UNCHANGED <<chain, stats, filled>>

-----------------------------------------------------------------------------
ChainEvent(s) ==
  OnSignal(s) \/ OnRiskCheck(s) \/ OnOrderPlaced(s) \/ OnOrderFilled(s)
    \/ OnOrderFailed(s)

ChainNext == (\E s \in SignalIds : ChainEvent(s)) \/ CheckTimeouts \/ ChainTick

ChainSpec == ChainInit /\ [][ChainNext]_chainVars

\* The checker looks once a second, and time passes.
ChainFairness == WF_chainVars(CheckTimeouts) /\ WF_chainVars(ChainTick)

-----------------------------------------------------------------------------
(***************************************************************************)
(* Properties                                                              *)
(***************************************************************************)

\* A signal is counted as timed out once at most, and not after it failed or
\* was filled, whatever the order in which events and passes of the checker
\* come, and when a signal is begun anew.
TimeoutsWithinSignals ==
  stats["timeout"] + Cardinality({s \in SignalIds : chain[s].status = "pending"})
    <= stats["total"]

\* A chain that stays without a fill is found out.
PendingFoundOut ==
  \A s \in SignalIds :
    chain[s].status = "pending" ~> chain[s].status # "pending"

\* Every chain is found out, and counted at most once as timed out.
ChainsFoundOut == []TimeoutsWithinSignals /\ PendingFoundOut

=============================================================================
