---------------------------- MODULE CandidatePool ----------------------------
(***************************************************************************)
(* The strategy engine: the scan loop, which puts what the strategies find *)
(* into the candidate pool, and the confirm loop, which turns waiting      *)
(* candidates into signals.  Both are tasks of one asyncio loop, both      *)
(* write rows of the candidates table, and the signals they lead to are    *)
(* what the trade manager opens trades for (TradeLifecycle!ReceiveSignal). *)
(*                                                                         *)
(* A row has many columns; only its triggered flag decides anything here.  *)
(* Whether a strategy finds or confirms a symbol depends on the market and *)
(* is free.  The macro filter, as it is created, allows every signal.      *)
(***************************************************************************)
EXTENDS Integers, Sequences

CONSTANTS
  Strategies,     \* the enabled strategies, in the order of registration
  Symbols,
  MaxFaults,      \* bound on failing calls
  MaxRestarts     \* bound on restarts of the process

ASSUME PoolAssumption ==
  /\ Strategies \in Seq(STRING) /\ Strategies # <<>>
  /\ \A i, j \in DOMAIN Strategies : Strategies[i] = Strategies[j] => i = j
  /\ MaxFaults \in Nat /\ MaxRestarts \in Nat

VARIABLES
  pool,           \* candidates: the row of each strategy and symbol
  scan,           \* scan_all: the strategy it is at, the symbols to store
  confirm,        \* confirm_all: the same, and the candidate in its hands
  faults, restarts

\* Observation that no action reads.
VARIABLE signals  \* number of SIGNAL_TRIGGERED events of each pair

loops == <<scan, confirm>>
vars  == <<pool, loops, faults, restarts, signals>>

-----------------------------------------------------------------------------
Turns == DOMAIN Strategies

Keys == Turns \X Symbols

TypeOK ==
  /\ pool \in [Keys -> {"none", "waiting", "triggered"}]
  /\ scan \in [at : Turns, todo : SUBSET Symbols]
  /\ confirm \in [pc : {"next"}, at : Turns, todo : SUBSET Symbols]
       \cup [pc : {"examine", "mark", "log", "publish"}, at : Turns,
             todo : SUBSET Symbols, sym : Symbols]
  /\ faults \in 0..MaxFaults /\ restarts \in 0..MaxRestarts
  /\ signals \in [Keys -> Nat]

StartOfScan    == [at |-> Len(Strategies), todo |-> {}]
StartOfConfirm == [pc |-> "next", at |-> Len(Strategies), todo |-> {}]

Init ==
  /\ pool = [k \in Keys |-> "none"]
  /\ scan = StartOfScan
  /\ confirm = StartOfConfirm
  /\ faults = 0 /\ restarts = 0
  /\ signals = [k \in Keys |-> 0]

Fault == faults < MaxFaults /\ faults' = faults + 1

\* The strategy after the i-th one; a new pass begins with the first.
NextTurnUnending(i) == i + 1

NextTurn(i) == IF i = Len(Strategies) THEN 1 ELSE i + 1

-----------------------------------------------------------------------------
(***************************************************************************)
(* scan_all                                                                *)
(***************************************************************************)

\* strategy.scan() of the next strategy; it finds nothing when it raises.
ScanStrategy ==
  /\ scan.todo = {}
  /\ \E found \in SUBSET Symbols :
       scan' = [at |-> NextTurn(scan.at), todo |-> found]
  /\ UNCHANGED <<pool, confirm, faults, restarts, signals>>

UpsertedAfresh(row) == "waiting"

\* The upsert updates the columns it is given; triggered is none of them.
Upserted(row) == IF row = "none" THEN "waiting" ELSE row

StoreCandidate(s) ==
  /\ s \in scan.todo
  /\ pool' = [pool EXCEPT ![<<scan.at, s>>] = Upserted(@)]
  /\ scan' = [scan EXCEPT !.todo = @ \ {s}]
  /\ UNCHANGED <<confirm, faults, restarts, signals>>

\* An exception ends the turn of the strategy.
StoreFails ==
  /\ scan.todo # {}
  /\ Fault
  /\ scan' = [scan EXCEPT !.todo = {}]
  /\ UNCHANGED <<pool, confirm, restarts, signals>>

-----------------------------------------------------------------------------
(***************************************************************************)
(* confirm_all.  The waiting candidates of a strategy are read once and    *)
(* then taken one by one.                                                  *)
(***************************************************************************)
Waiting(i) == {s \in Symbols : pool[<<i, s>>] = "waiting"}

ReadCandidates ==
  /\ confirm.pc = "next" /\ confirm.todo = {}
  /\ LET i == NextTurn(confirm.at)
     IN  \/ /\ confirm' = [pc |-> "next", at |-> i, todo |-> Waiting(i)]
            /\ UNCHANGED faults
         \/ /\ Fault
            /\ confirm' = [pc |-> "next", at |-> i, todo |-> {}]
  /\ UNCHANGED <<pool, scan, restarts, signals>>

\* The order is that of added_at, about which nothing is assumed.
TakeCandidate(s) ==
  /\ confirm.pc = "next" /\ s \in confirm.todo
  /\ confirm' = [pc |-> "examine", at |-> confirm.at,
                 todo |-> confirm.todo \ {s}, sym |-> s]
  /\ UNCHANGED <<pool, scan, faults, restarts, signals>>

GoOn(pc) == confirm' = [confirm EXCEPT !.pc = pc]

\* The candidates that are left for this pass when one is done with.
NoneLeft == {}

Left == confirm.todo

Drop == confirm' = [pc |-> "next", at |-> confirm.at, todo |-> Left]

Confirmed ==
  /\ confirm.pc = "examine"
  /\ GoOn("mark")
  /\ UNCHANGED <<pool, scan, faults, restarts, signals>>

\* strategy.confirm() returns None or raises.
Rejected ==
  /\ confirm.pc = "examine"
  /\ Drop
  /\ UNCHANGED <<pool, scan, faults, restarts, signals>>

MarkTriggered ==
  /\ confirm.pc = "mark"
  /\ pool' = [pool EXCEPT ![<<confirm.at, confirm.sym>>] = "triggered"]
  /\ GoOn("log")
  /\ UNCHANGED <<scan, faults, restarts, signals>>

LogSignal ==
  /\ confirm.pc = "log"
  /\ GoOn("publish")
  /\ UNCHANGED <<pool, scan, faults, restarts, signals>>

PublishSignal ==
  /\ confirm.pc = "publish"
  /\ signals' = [signals EXCEPT ![<<confirm.at, confirm.sym>>] = @ + 1]
  /\ Drop
  /\ UNCHANGED <<pool, scan, faults, restarts>>

\* The database raises, or publish() returns False: on to the next candidate.
SignalFails ==
  /\ confirm.pc \in {"mark", "log", "publish"}
  /\ Fault
  /\ Drop
  /\ UNCHANGED <<pool, scan, restarts, signals>>

-----------------------------------------------------------------------------
\* The process is stopped or dies, and is started again.
Restart ==
  /\ restarts < MaxRestarts
  /\ restarts' = restarts + 1
  /\ scan' = StartOfScan
  /\ confirm' = StartOfConfirm
  /\ UNCHANGED <<pool, faults, signals>>

ScanLoop == \/ ScanStrategy
            \/ \E s \in Symbols : StoreCandidate(s)
            \/ StoreFails

ConfirmLoop == \/ ReadCandidates
               \/ \E s \in Symbols : TakeCandidate(s)
               \/ Confirmed
               \/ Rejected
               \/ MarkTriggered
               \/ LogSignal
               \/ PublishSignal
               \/ SignalFails

Next == ScanLoop \/ ConfirmLoop \/ Restart

Spec == Init /\ [][Next]_vars

\* Both loops catch every exception, sleep and go on.
FairSpec == Spec /\ WF_vars(ScanLoop) /\ WF_vars(ConfirmLoop)

-----------------------------------------------------------------------------
(***************************************************************************)
(* Properties                                                              *)
(***************************************************************************)

\* A candidate leads to one signal at most: not when the scan finds it again
\* while the confirm loop has it in its hands or after it was signalled, and
\* not when a failure or a restart makes the confirm loop read it anew.
SignalledOnce == \A k \in Keys : signals[k] <= 1

\* A waiting candidate gets its turn in the confirm loop, however many others
\* the scan adds, whatever fails, wherever its strategy stands in the order.
Examined(i, s) ==
  confirm.pc = "examine" /\ confirm.at = i /\ confirm.sym = s

WaitingExamined ==
  \A i \in Turns, s \in Symbols :
    pool[<<i, s>>] = "waiting" ~> Examined(i, s) \/ pool[<<i, s>>] = "triggered"

=============================================================================
