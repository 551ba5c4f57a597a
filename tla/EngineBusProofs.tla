-------------------------- MODULE EngineBusProofs ---------------------------
(***************************************************************************)
(* What the strategy engine and the event bus guarantee: a candidate leads *)
(* to one signal at most, handlers are called in the order in which they   *)
(* were subscribed, and a reconnection forgets nobody; for any strategies, *)
(* symbols, handlers and messages, any failures and restarts.              *)
(***************************************************************************)
EXTENDS MCEngineBus, FiniteSetTheorems, SequenceTheorems, TLAPS

-----------------------------------------------------------------------------
(***************************************************************************)
(* The candidate pool.                                                     *)
(***************************************************************************)
\* The turn after a turn is a turn.
LEMMA NextTurnIsATurn ==
  ASSUME NEW i \in Turns
  PROVE  NextTurn(i) \in Turns
BY PoolAssumption DEF NextTurn, Turns

\* Both loops start at the last turn, so that the first is next.
LEMMA LastIsATurn == Len(Strategies) \in Turns
<1>1. Len(Strategies) \in Nat /\ Len(Strategies) # 0
  BY PoolAssumption
<1> QED
  BY <1>1, PoolAssumption DEF Turns

\* The types of all variables are kept by every step, whatever fails.
THEOREM PoolTypeCorrect == Spec => []TypeOK
<1>1. Init => TypeOK
  BY LastIsATurn, PoolAssumption
  DEF Init, TypeOK, StartOfScan, StartOfConfirm, Keys
<1>2. TypeOK /\ [Next]_vars => TypeOK'
  <2> SUFFICES ASSUME TypeOK, [Next]_vars
               PROVE  TypeOK'
    OBVIOUS
  <2> USE DEF TypeOK
  <2>1. CASE ScanStrategy
    <3>1. NextTurn(scan.at) \in Turns
      BY NextTurnIsATurn
    <3> QED
      BY <2>1, <3>1 DEF ScanStrategy
  <2>2. ASSUME NEW s \in Symbols, StoreCandidate(s)
        PROVE  TypeOK'
    BY <2>2 DEF StoreCandidate, Upserted, Keys
  <2>3. CASE StoreFails
    BY <2>3, PoolAssumption DEF StoreFails, Fault
  <2>4. CASE ReadCandidates
    <3>1. NextTurn(confirm.at) \in Turns
      BY NextTurnIsATurn
    <3>2. Waiting(NextTurn(confirm.at)) \subseteq Symbols
      BY DEF Waiting
    <3>3. faults' \in 0..MaxFaults
      BY <2>4, PoolAssumption DEF ReadCandidates, Fault
    <3> QED
      BY <2>4, <3>1, <3>2, <3>3 DEF ReadCandidates
  <2>5. ASSUME NEW s \in Symbols, TakeCandidate(s)
        PROVE  TypeOK'
    BY <2>5 DEF TakeCandidate
  <2>6. CASE Confirmed
    BY <2>6 DEF Confirmed, GoOn
  <2>7. CASE Rejected
    BY <2>7 DEF Rejected, Drop, Left
  <2>8. CASE MarkTriggered
    BY <2>8 DEF MarkTriggered, GoOn, Keys
  <2>9. CASE LogSignal
    BY <2>9 DEF LogSignal, GoOn
  <2>10. CASE PublishSignal
    BY <2>10 DEF PublishSignal, Drop, Left, Keys
  <2>11. CASE SignalFails
    BY <2>11, PoolAssumption DEF SignalFails, Drop, Left, Fault
  <2>12. CASE Restart
    BY <2>12, LastIsATurn, PoolAssumption
    DEF Restart, StartOfScan, StartOfConfirm
  <2>13. CASE UNCHANGED vars
    BY <2>13 DEF vars, loops
  <2> QED
    BY <2>1, <2>2, <2>3, <2>4, <2>5, <2>6, <2>7, <2>8, <2>9, <2>10, <2>11,
       <2>12, <2>13
    DEF Next, ScanLoop, ConfirmLoop
<1> QED
  BY <1>1, <1>2, PTL DEF Spec

-----------------------------------------------------------------------------
(***************************************************************************)
(* Why one signal at most: a signalled candidate is triggered for ever, so *)
(* it is never listed again; and what the confirm loop has listed or holds *)
(* has not been signalled.                                                 *)
(***************************************************************************)
SignalledIsTriggered ==
  \A k \in Keys : signals[k] # 0 => pool[k] = "triggered"

ListedIsNew ==
  \A s \in confirm.todo : signals[<<confirm.at, s>>] = 0

HeldIsNew ==
  confirm.pc # "next" =>
    /\ signals[<<confirm.at, confirm.sym>>] = 0
    /\ confirm.sym \notin confirm.todo

PublishedIsMarked ==
  confirm.pc \in {"log", "publish"} =>
    pool[<<confirm.at, confirm.sym>>] = "triggered"

SignalInv ==
  /\ SignalledIsTriggered
  /\ ListedIsNew
  /\ HeldIsNew
  /\ PublishedIsMarked
  /\ SignalledOnce

\* A candidate leads to one signal at most.
THEOREM OneSignalPerCandidate == Spec => []SignalledOnce
<1>1. Init => SignalInv
  BY DEF Init, SignalInv, SignalledIsTriggered, ListedIsNew, HeldIsNew,
         PublishedIsMarked, SignalledOnce, StartOfConfirm
<1>2. TypeOK /\ TypeOK' /\ SignalInv /\ [Next]_vars => SignalInv'
  <2> SUFFICES ASSUME TypeOK, TypeOK', SignalInv, [Next]_vars
               PROVE  SignalInv'
    OBVIOUS
  <2> USE DEF SignalInv, SignalledIsTriggered, ListedIsNew, HeldIsNew,
              PublishedIsMarked, SignalledOnce
  <2>1. CASE ScanStrategy
    BY <2>1 DEF ScanStrategy
  <2>2. ASSUME NEW s \in Symbols, StoreCandidate(s)
        PROVE  SignalInv'
    BY <2>2 DEF StoreCandidate, Upserted, TypeOK, Keys
  <2>3. CASE StoreFails
    BY <2>3 DEF StoreFails
  <2>4. CASE ReadCandidates
    <3>1. ASSUME NEW s \in confirm'.todo
          PROVE  signals[<<confirm'.at, s>>] = 0
      <4>1. /\ confirm'.at \in Turns
            /\ s \in Symbols
            /\ pool[<<confirm'.at, s>>] = "waiting"
        BY <2>4, NextTurnIsATurn DEF ReadCandidates, Waiting, TypeOK
      <4> QED
        BY <4>1 DEF Keys
    <3>2. confirm'.pc = "next"
      BY <2>4 DEF ReadCandidates
    <3> QED
      BY <2>4, <3>1, <3>2 DEF ReadCandidates
  <2>5. ASSUME NEW s \in Symbols, TakeCandidate(s)
        PROVE  SignalInv'
    BY <2>5 DEF TakeCandidate
  <2>6. CASE Confirmed
    BY <2>6 DEF Confirmed, GoOn, TypeOK
  <2>7. CASE Rejected
    BY <2>7 DEF Rejected, Drop, Left
  <2>8. CASE MarkTriggered
    BY <2>8 DEF MarkTriggered, GoOn, TypeOK, Keys
  <2>9. CASE LogSignal
    BY <2>9 DEF LogSignal, GoOn, TypeOK
  <2>10. CASE PublishSignal
    <3>1. confirm.at \in Turns /\ confirm.sym \in Symbols
      BY <2>10 DEF PublishSignal, TypeOK, Keys
    <3>2. signals' = [signals EXCEPT ![<<confirm.at, confirm.sym>>] = 1]
      <4>1. signals[<<confirm.at, confirm.sym>>] = 0
        BY <2>10 DEF PublishSignal
      <4>2. signals[<<confirm.at, confirm.sym>>] + 1 = 1
        BY <4>1
      <4> HIDE DEF SignalInv, SignalledIsTriggered, ListedIsNew, HeldIsNew,
                   PublishedIsMarked, SignalledOnce
      <4> QED
        BY <2>10, <4>2 DEF PublishSignal
    <3>3. /\ confirm'.pc = "next" /\ confirm'.at = confirm.at
          /\ confirm'.todo = confirm.todo
          /\ pool' = pool
      BY <2>10 DEF PublishSignal, Drop, Left
    <3>4. confirm.sym \notin confirm.todo
      BY <2>10 DEF PublishSignal
    <3>5. ListedIsNew'
      BY <3>2, <3>3, <3>4 DEF TypeOK, Keys
    <3>6. SignalledIsTriggered' /\ SignalledOnce'
      BY <2>10, <3>1, <3>2, <3>3 DEF PublishSignal, TypeOK
    <3> QED
      BY <3>3, <3>5, <3>6
  <2>11. CASE SignalFails
    BY <2>11 DEF SignalFails, Drop, Left
  <2>12. CASE Restart
    BY <2>12 DEF Restart, StartOfConfirm
  <2>13. CASE UNCHANGED vars
    BY <2>13 DEF vars, loops
  <2> QED
    BY <2>1, <2>2, <2>3, <2>4, <2>5, <2>6, <2>7, <2>8, <2>9, <2>10, <2>11,
       <2>12, <2>13
    DEF Next, ScanLoop, ConfirmLoop
<1>3. SignalInv => SignalledOnce
  BY DEF SignalInv
<1> QED
  BY <1>1, <1>2, <1>3, PoolTypeCorrect, PTL DEF Spec

-----------------------------------------------------------------------------
(***************************************************************************)
(* The event bus.                                                          *)
(***************************************************************************)
\* The table holds each subscribed handler once.
TableInOrder ==
  /\ \A i, j \in DOMAIN subs : subs[i] = subs[j] => i = j
  /\ \A h \in Handlers : caller[h].pc \in {"subscribing", "in"} <=> h \in Subscribed

\* Messages arrive, and are dispatched, in the order of their numbers.
Dispatching == listener.pc \in {"dispatch", "calling"}

Numbered ==
  /\ \A i \in DOMAIN inbox : inbox[i].num <= published
  /\ \A i, j \in DOMAIN inbox : i < j => inbox[i].num < inbox[j].num
  /\ \A h \in Handlers : \A k \in DOMAIN calls[h] :
       /\ calls[h][k] <= published
       /\ \A i \in DOMAIN inbox : calls[h][k] < inbox[i].num
  /\ Dispatching =>
       /\ listener.msg.num <= published
       /\ \A i \in DOMAIN inbox : listener.msg.num < inbox[i].num
       /\ \A h \in Handlers : \A k \in DOMAIN calls[h] : calls[h][k] <= listener.msg.num

\* Who is still to be called has been subscribed, is there once, and has not
\* been called with this message.
DueOnce ==
  Dispatching =>
    /\ \A i, j \in DOMAIN listener.due : listener.due[i] = listener.due[j] => i = j
    /\ \A i \in DOMAIN listener.due :
         /\ caller[listener.due[i]].pc # "out"
         /\ \A k \in DOMAIN calls[listener.due[i]] :
              calls[listener.due[i]][k] < listener.msg.num

\* A handler that was subscribed before another one that is still to be called
\* is to be called before it, or has been called.
DueInOrder ==
  /\ Dispatching =>
       \A i \in DOMAIN listener.due : \A g \in Subscribed :
         ChannelOf[g] = listener.msg.channel /\ Before(g, listener.due[i]) =>
           \/ \E j \in DOMAIN listener.due : j < i /\ listener.due[j] = g
           \/ Contains(calls[g], listener.msg.num)
  /\ listener.pc = "calling" => caller[listener.handler].pc # "out"

\* Unless it reconnects, the listener has an object, and every subscribed
\* handler is heard, is about to be, or is known to be missed.
NoGap ==
  listener.pc # "connect" =>
    /\ pubsub
    /\ \A h \in Subscribed :
         \/ ChannelOf[h] \in heard
         \/ caller[h].pc = "subscribing" /\ caller[h].current
         \/ ChannelOf[h] \in missed
         \/ listener.pc = "resubscribe" /\ Contains(listener.todo, h)

Called ==
  /\ BusTypeOK /\ TableInOrder /\ Numbered /\ DueOnce /\ DueInOrder /\ NoGap
  /\ CalledInOrder

-----------------------------------------------------------------------------
\* What is left of a sequence without the element at a place.
LEMMA RemoveAtProperties ==
  ASSUME NEW S, NEW s \in Seq(S), NEW i \in 1..Len(s)
  PROVE  /\ RemoveAt(s, i) \in Seq(S)
         /\ Len(RemoveAt(s, i)) = Len(s) - 1
         /\ \A k \in 1..(Len(s) - 1) :
              RemoveAt(s, i)[k] = IF k < i THEN s[k] ELSE s[k + 1]
<1> DEFINE L == SubSeq(s, 1, i - 1)
           R == SubSeq(s, i + 1, Len(s))
<1>1. Len(s) \in Nat /\ i \in Nat BY LenProperties
<1>2. /\ L \in Seq(S) /\ Len(L) = i - 1
      /\ \A k \in 1..(i - 1) : L[k] = s[k]
  <2>1. \A j \in 1..(i - 1) : s[j] \in S BY <1>1, ElementOfSeq
  <2>2. /\ L \in Seq(S) /\ Len(L) = IF 1 <= i - 1 THEN i - 1 - 1 + 1 ELSE 0
        /\ \A k \in 1..(i - 1 - 1 + 1) : L[k] = s[1 + k - 1]
    BY <1>1, <2>1, SubSeqProperties
  <2>3. \A k \in 1..(i - 1) : k \in 1..(i - 1 - 1 + 1) /\ 1 + k - 1 = k BY <1>1
  <2>4. Len(L) = i - 1 BY <1>1, <2>2
  <2>5. ASSUME NEW k \in 1..(i - 1) PROVE L[k] = s[k] BY <2>2, <2>3
  <2> QED BY <2>2, <2>4, <2>5
<1>3. /\ R \in Seq(S) /\ Len(R) = Len(s) - i
      /\ \A k \in 1..(Len(s) - i) : R[k] = s[i + k]
  <2>1. \A j \in (i + 1)..Len(s) : s[j] \in S BY <1>1, ElementOfSeq
  <2>2. /\ R \in Seq(S)
        /\ Len(R) = IF i + 1 <= Len(s) THEN Len(s) - (i + 1) + 1 ELSE 0
        /\ \A k \in 1..(Len(s) - (i + 1) + 1) : R[k] = s[i + 1 + k - 1]
    BY <1>1, <2>1, SubSeqProperties
  <2>3. \A k \in 1..(Len(s) - i) : k \in 1..(Len(s) - (i + 1) + 1) /\ i + 1 + k - 1 = i + k
    BY <1>1
  <2>4. Len(R) = Len(s) - i BY <1>1, <2>2
  <2>5. ASSUME NEW k \in 1..(Len(s) - i) PROVE R[k] = s[i + k] BY <2>2, <2>3
  <2> QED BY <2>2, <2>4, <2>5
<1> HIDE DEF L, R
<1>4. /\ L \o R \in Seq(S) /\ Len(L \o R) = Len(L) + Len(R)
      /\ \A k \in 1..(Len(L) + Len(R)) :
           (L \o R)[k] = IF k <= Len(L) THEN L[k] ELSE R[k - Len(L)]
  BY <1>2, <1>3, ConcatProperties
<1>5. Len(L) + Len(R) = Len(s) - 1 BY <1>1, <1>2, <1>3
<1>6. ASSUME NEW k \in 1..(Len(s) - 1)
      PROVE  (L \o R)[k] = IF k < i THEN s[k] ELSE s[k + 1]
  <2>1. CASE k < i
    <3>1. k <= Len(L) /\ k \in 1..(i - 1) BY <1>1, <1>2, <2>1
    <3> QED BY <1>2, <1>4, <1>5, <2>1, <3>1
  <2>2. CASE ~(k < i)
    <3>1. ~(k <= Len(L)) /\ k - Len(L) \in 1..(Len(s) - i) /\ i + (k - Len(L)) = k + 1
      BY <1>1, <1>2, <2>2
    <3>2. (L \o R)[k] = R[k - Len(L)] BY <1>4, <1>5, <3>1
    <3>3. R[k - Len(L)] = s[i + (k - Len(L))] BY <1>3, <3>1
    <3> QED BY <2>2, <3>1, <3>2, <3>3
  <2> QED BY <2>1, <2>2
<1>7. RemoveAt(s, i) = L \o R BY DEF RemoveAt, L, R
<1> QED BY <1>4, <1>5, <1>6, <1>7

\* The places of the table, and what it holds.
LEMMA TableFacts ==
  ASSUME BusTypeOK
  PROVE  /\ subs \in Seq(Handlers) /\ Len(subs) \in Nat /\ DOMAIN subs = 1..Len(subs)
         /\ \A i \in DOMAIN subs : subs[i] \in Handlers
         /\ Subscribed = {subs[i] : i \in DOMAIN subs} /\ Subscribed \subseteq Handlers
<1>1. subs \in Seq(Handlers) BY DEF BusTypeOK
<1> QED BY <1>1, LenProperties, ElementOfSeq DEF Subscribed, ToSet

\* The table is not longer than there are handlers.
LEMMA TableIsShort ==
  ASSUME BusTypeOK, TableInOrder
  PROVE  /\ Cardinality(Handlers) \in Nat
         /\ DOMAIN subs \subseteq 1..Cardinality(Handlers)
<1>1. subs \in [1..Len(subs) -> Handlers] /\ Len(subs) \in Nat
        /\ DOMAIN subs = 1..Len(subs)
  BY TableFacts, LenProperties
<1>2. IsFiniteSet(Handlers) /\ Cardinality(Handlers) \in Nat
  BY BusAssumption, FS_CardinalityType
<1>3. IsFiniteSet(1..Len(subs)) /\ Cardinality(1..Len(subs)) = Len(subs)
  <2>1. /\ IsFiniteSet(1..Len(subs))
        /\ Cardinality(1..Len(subs)) = IF 1 > Len(subs) THEN 0 ELSE Len(subs) - 1 + 1
    BY <1>1, FS_Interval
  <2> QED BY <1>1, <2>1
<1>4. ASSUME Cardinality(Handlers) < Len(subs) PROVE FALSE
  <2>1. \E x, y \in 1..Len(subs) : x # y /\ subs[x] = subs[y]
    BY <1>1, <1>2, <1>3, <1>4, FS_PigeonHole
  <2> QED BY <1>1, <2>1 DEF TableInOrder
<1>5. Len(subs) <= Cardinality(Handlers) BY <1>1, <1>2, <1>4
<1>6. \A i \in 1..Len(subs) : i \in 1..Cardinality(Handlers) BY <1>1, <1>2, <1>5
<1> QED BY <1>1, <1>2, <1>6

\* The shapes of a listener.
LEMMA ListenerShape ==
  ASSUME BusTypeOK
  PROVE  /\ listener.pc \in {"poll", "connect", "resubscribe", "dispatch", "calling"}
         /\ listener.pc = "resubscribe" =>
              listener \in [pc : {"resubscribe"}, todo : Seq(Handlers)]
         /\ listener.pc = "dispatch" =>
              listener \in [pc : {"dispatch"}, msg : Message, due : Due]
         /\ listener.pc = "calling" =>
              listener \in [pc : {"calling"}, msg : Message, due : Due, handler : Handlers]
         /\ Dispatching => listener.msg \in Message /\ listener.due \in Due
BY DEF BusTypeOK, Listener, Dispatching

LEMMA DueFacts ==
  ASSUME NEW due \in Due
  PROVE  /\ due \in [DOMAIN due -> Handlers] /\ DOMAIN due \subseteq Nat
         /\ \A i \in DOMAIN due :
              /\ due[i] \in Handlers
              /\ Rest(due, i) \in Due /\ DOMAIN Rest(due, i) = DOMAIN due \ {i}
              /\ \A j \in DOMAIN due \ {i} : Rest(due, i)[j] = due[j]
<1>1. PICK D \in SUBSET (1..Cardinality(Handlers)) : due \in [D -> Handlers] BY DEF Due
<1>2. ASSUME NEW i \in DOMAIN due
      PROVE  /\ due[i] \in Handlers
             /\ Rest(due, i) \in Due /\ DOMAIN Rest(due, i) = DOMAIN due \ {i}
             /\ \A j \in DOMAIN due \ {i} : Rest(due, i)[j] = due[j]
  <2>1. Rest(due, i) = [j \in D \ {i} |-> due[j]] BY <1>1 DEF Rest, Restrict
  <2>2. Rest(due, i) \in [D \ {i} -> Handlers] BY <1>1, <2>1
  <2>3. D \ {i} \in SUBSET (1..Cardinality(Handlers)) OBVIOUS
  <2> QED BY <1>1, <2>1, <2>2, <2>3 DEF Due
<1>3. D = DOMAIN due BY <1>1
<1>4. \A i \in D : i \in Nat
  <2>1. Cardinality(Handlers) \in Nat BY BusAssumption, FS_CardinalityType
  <2>2. \A i \in 1..Cardinality(Handlers) : i \in Nat BY <2>1
  <2> QED BY <2>2
<1> QED BY <1>1, <1>2, <1>3, <1>4

\* The handlers that are to be called with a message.
LEMMA MatchingFacts ==
  ASSUME BusTypeOK, TableInOrder, NEW c \in Channels
  PROVE  /\ Matching(c) \in Due
         /\ DOMAIN Matching(c) = {i \in DOMAIN subs : ChannelOf[subs[i]] = c}
         /\ \A i \in DOMAIN Matching(c) : Matching(c)[i] = subs[i]
<1> DEFINE D == {i \in DOMAIN subs : ChannelOf[subs[i]] = c}
<1>1. D \in SUBSET (1..Cardinality(Handlers)) BY TableIsShort
<1>2. \A i \in D : subs[i] \in Handlers BY TableFacts
<1>3. Matching(c) = [i \in D |-> subs[i]] BY DEF Matching
<1>4. Matching(c) \in [D -> Handlers] BY <1>2, <1>3
<1> QED BY <1>1, <1>3, <1>4 DEF Due

\* The shapes of a caller.
LEMMA CallerShape ==
  ASSUME BusTypeOK, NEW h \in Handlers
  PROVE  /\ caller[h] \in Caller
         /\ caller[h].pc \in {"out", "in", "gone", "subscribing", "unsubscribing"}
         /\ caller[h].pc \in {"subscribing", "unsubscribing"} =>
              caller[h] \in [pc : {"subscribing", "unsubscribing"}, current : BOOLEAN]
<1>1. caller[h] \in Caller BY DEF BusTypeOK
<1>2. CASE caller[h] \in [pc : {"out", "in", "gone"}] BY <1>1, <1>2
<1>3. CASE caller[h] \in [pc : {"subscribing", "unsubscribing"}, current : BOOLEAN]
  BY <1>1, <1>3
<1> QED BY <1>1, <1>2, <1>3 DEF Caller

LEMMA CallerShapes ==
  /\ \A pc \in {"out", "in", "gone"} : [pc |-> pc] \in Caller
  /\ \A pc \in {"subscribing", "unsubscribing"} : \A b \in BOOLEAN :
       [pc |-> pc, current |-> b] \in Caller
BY DEF Caller

\* Commands that lose their object go on as before.
LEMMA LosePubsubFacts ==
  ASSUME BusTypeOK, LosePubsub
  PROVE  /\ caller' \in [Handlers -> Caller]
         /\ \A h \in Handlers : caller'[h].pc = caller[h].pc
<1>1. ASSUME NEW h \in Handlers
      PROVE  caller'[h] \in Caller /\ caller'[h].pc = caller[h].pc
  <2>1. CASE caller[h].pc \in {"subscribing", "unsubscribing"}
    <3>1. caller[h] \in [pc : {"subscribing", "unsubscribing"}, current : BOOLEAN]
      BY <2>1, CallerShape
    <3>2. caller'[h] = [caller[h] EXCEPT !.current = FALSE] BY <2>1 DEF LosePubsub
    <3>3. [caller[h] EXCEPT !.current = FALSE]
            \in [pc : {"subscribing", "unsubscribing"}, current : BOOLEAN]
      BY <3>1
    <3>4. [caller[h] EXCEPT !.current = FALSE].pc = caller[h].pc BY <3>1
    <3> QED BY <3>2, <3>3, <3>4 DEF Caller
  <2>2. CASE caller[h].pc \notin {"subscribing", "unsubscribing"}
    <3>1. caller'[h] = caller[h] BY <2>2 DEF LosePubsub
    <3> QED BY <3>1, CallerShape
  <2> QED BY <2>1, <2>2
<1>2. caller' = [h \in Handlers |-> caller'[h]] BY DEF LosePubsub
<1>3. caller' \in [Handlers -> Caller] BY <1>1, <1>2
<1> QED BY <1>1, <1>3

\* The steps of the services keep the types.
LEMMA ServiceTypes ==
  ASSUME BusTypeOK, NEW h \in Handlers, Subscribe(h) \/ Unsubscribe(h) \/ Answer(h)
  PROVE  BusTypeOK'
<1> USE BusAssumption
<1>1. ChannelOf[h] \in Channels OBVIOUS
<1>2. CASE Subscribe(h)
  <2>1. Append(subs, h) \in Seq(Handlers) BY TableFacts, AppendProperties
  <2>2. subs' \in Seq(Handlers) BY <1>2, <2>1 DEF Subscribe, Registered
  <2>3. caller' \in [Handlers -> Caller]
    <3>1. [pc |-> "subscribing", current |-> TRUE] \in Caller /\ [pc |-> "in"] \in Caller
      BY CallerShapes
    <3> QED BY <1>2, <3>1 DEF Subscribe, BusTypeOK
  <2> QED BY <1>2, <2>2, <2>3 DEF Subscribe, BusTypeOK, redis, bounds, history
<1>3. CASE Unsubscribe(h)
  <2>1. subs' \in Seq(Handlers)
    <3>1. PICK i \in DOMAIN subs : subs' = RemoveAt(subs, i) BY <1>3 DEF Unsubscribe
    <3> QED BY <3>1, TableFacts, RemoveAtProperties
  <2>2. caller' \in [Handlers -> Caller]
    <3>1. [pc |-> "unsubscribing", current |-> TRUE] \in Caller /\ [pc |-> "gone"] \in Caller
      BY CallerShapes
    <3> QED BY <1>3, <3>1 DEF Unsubscribe, BusTypeOK
  <2>3. unsubscribes' \in 0..MaxUnsubscribes BY <1>3 DEF Unsubscribe, BusTypeOK
  <2> QED BY <1>3, <2>1, <2>2, <2>3 DEF Unsubscribe, BusTypeOK, redis, history
<1>4. CASE SubscribeDone(h)
  <2>1. caller' \in [Handlers -> Caller]
    BY <1>4, CallerShapes DEF SubscribeDone, BusTypeOK
  <2>2. heard' \subseteq Channels /\ wired' \in BOOLEAN
    BY <1>1, <1>4 DEF SubscribeDone, BusTypeOK
  <2> QED BY <1>4, <2>1, <2>2 DEF SubscribeDone, BusTypeOK, bounds, history
<1>5. CASE SubscribeFails(h)
  <2>1. caller' \in [Handlers -> Caller]
    BY <1>5, CallerShapes DEF SubscribeFails, BusTypeOK
  <2>2. missed' \subseteq Channels BY <1>1, <1>5 DEF SubscribeFails, BusTypeOK
  <2>3. wired' \in BOOLEAN BY <1>5 DEF SubscribeFails, BusTypeOK
  <2>4. failures' \in 0..MaxFailures BY <1>5 DEF SubscribeFails, BusTypeOK
  <2> QED BY <1>5, <2>1, <2>2, <2>3, <2>4 DEF SubscribeFails, BusTypeOK
<1>6. CASE UnsubscribeDone(h)
  <2>1. caller' \in [Handlers -> Caller]
    BY <1>6, CallerShapes DEF UnsubscribeDone, BusTypeOK
  <2>2. missed' \subseteq Channels /\ heard' \subseteq Channels
    BY <1>1, <1>6 DEF UnsubscribeDone, BusTypeOK
  <2> QED BY <1>6, <2>1, <2>2 DEF UnsubscribeDone, BusTypeOK, bounds
<1> QED BY <1>2, <1>3, <1>4, <1>5, <1>6 DEF Answer

\* and so do those of the listener.
LEMMA ListenTypes ==
  ASSUME BusTypeOK, TableInOrder, Listen
  PROVE  BusTypeOK'
<1> USE BusAssumption
<1>1. CASE Receive
  <2>1. /\ Head(inbox) \in Message /\ Tail(inbox) \in Seq(Message)
    BY <1>1, HeadTailProperties DEF Receive, BusTypeOK
  <2>2. Matching(Head(inbox).channel) \in Due
    BY <2>1, MatchingFacts DEF Message
  <2>3. listener' \in Listener BY <1>1, <2>1, <2>2 DEF Receive, Listener
  <2> QED BY <1>1, <2>1, <2>3 DEF Receive, BusTypeOK, bounds, history
<1>2. CASE CallNext
  <2>1. listener \in [pc : {"dispatch"}, msg : Message, due : Due]
    BY <1>2, ListenerShape DEF CallNext
  <2>2. PICK i \in DOMAIN listener.due :
          /\ calls' = [calls EXCEPT ![listener.due[i]] =
                         Append(calls[listener.due[i]], listener.msg.num)]
          /\ listener' = [pc |-> "calling", msg |-> listener.msg,
                          handler |-> listener.due[i], due |-> Rest(listener.due, i)]
    BY <1>2 DEF CallNext, BusTypeOK
  <2>3. listener.due[i] \in Handlers /\ Rest(listener.due, i) \in Due
    BY <2>1, DueFacts
  <2>4. listener' \in [pc : {"calling"}, msg : Message, due : Due, handler : Handlers]
    BY <2>1, <2>2, <2>3
  <2>5. Append(calls[listener.due[i]], listener.msg.num) \in Seq(1..MaxMessages)
    <3>1. calls[listener.due[i]] \in Seq(1..MaxMessages) BY <2>3 DEF BusTypeOK
    <3>2. listener.msg.num \in 1..MaxMessages BY <2>1 DEF Message
    <3> QED BY <3>1, <3>2, AppendProperties
  <2>6. calls' \in [Handlers -> Seq(1..MaxMessages)] BY <2>2, <2>3, <2>5 DEF BusTypeOK
  <2> QED BY <1>2, <2>4, <2>6 DEF CallNext, BusTypeOK, Listener, redis, bounds
<1>3. CASE Return
  <2>1. listener \in [pc : {"calling"}, msg : Message, due : Due, handler : Handlers]
    BY <1>3, ListenerShape DEF Return
  <2>2. listener' \in [pc : {"dispatch"}, msg : Message, due : Due]
    BY <1>3, <2>1 DEF Return
  <2> QED BY <1>3, <2>2 DEF Return, BusTypeOK, Listener, redis, bounds, history
<1>4. CASE AllCalled
  BY <1>4 DEF AllCalled, BusTypeOK, Listener, redis, bounds, history
<1>5. ASSUME LosePubsub, errors' \in 0..MaxErrors,
             UNCHANGED <<subs, published, failures, unsubscribes, history>>
      PROVE  BusTypeOK'
  <2>1. caller' \in [Handlers -> Caller] BY <1>5, LosePubsubFacts
  <2>2. <<>> \in Seq(Message) OBVIOUS
  <2>3. listener' \in Listener BY <1>5 DEF LosePubsub, Listener
  <2> QED BY <1>5, <2>1, <2>2, <2>3 DEF LosePubsub, BusTypeOK, history
<1>6. CASE PollFails BY <1>5, <1>6 DEF PollFails, BusTypeOK
<1>7. CASE ResubscribeFails BY <1>5, <1>7 DEF ResubscribeFails, BusTypeOK
<1>8. CASE Reconnect
  BY <1>8 DEF Reconnect, PubsubAfterConnect, BusTypeOK, bounds, history
<1>9. CASE StartResubscribe
  <2>1. listener' \in [pc : {"resubscribe"}, todo : Seq(Handlers)]
    BY <1>9, TableFacts DEF StartResubscribe, Resubscription
  <2> QED BY <1>9, <2>1 DEF StartResubscribe, BusTypeOK, Listener, redis, bounds
<1>10. CASE Resubscribe
  <2>1. listener \in [pc : {"resubscribe"}, todo : Seq(Handlers)]
    BY <1>10, ListenerShape DEF Resubscribe
  <2>2. CASE listener.todo = <<>>
    BY <1>10, <2>2 DEF Resubscribe, BusTypeOK, Listener, bounds, history
  <2>3. CASE listener.todo # <<>>
    <3>1. Head(listener.todo) \in Handlers /\ Tail(listener.todo) \in Seq(Handlers)
      BY <2>1, <2>3, HeadTailProperties
    <3>2. listener' = [listener EXCEPT !.todo = Tail(listener.todo)]
      BY <1>10, <2>3 DEF Resubscribe
    <3>3. listener' \in [pc : {"resubscribe"}, todo : Seq(Handlers)]
      BY <2>1, <3>1, <3>2
    <3>4. heard' \subseteq Channels
      BY <1>10, <2>3, <3>1 DEF Resubscribe, BusTypeOK
    <3> QED BY <1>10, <2>3, <3>3, <3>4
      DEF Resubscribe, BusTypeOK, Listener, bounds, history
  <2> QED BY <2>2, <2>3
<1> QED BY <1>1, <1>2, <1>3, <1>4, <1>6, <1>7, <1>8, <1>9, <1>10 DEF Listen

LEMMA BusTypes == BusTypeOK /\ TableInOrder /\ [BusNext]_busVars => BusTypeOK'
<1> SUFFICES ASSUME BusTypeOK, TableInOrder, [BusNext]_busVars PROVE BusTypeOK' OBVIOUS
<1>1. ASSUME NEW h \in Handlers, Subscribe(h) \/ Unsubscribe(h) \/ Answer(h)
      PROVE  BusTypeOK'
  BY <1>1, ServiceTypes
<1>2. ASSUME NEW c \in Channels, Publish(c) PROVE BusTypeOK'
  <2>1. published' \in 0..MaxMessages /\ published + 1 \in 1..MaxMessages
    BY <1>2, BusAssumption DEF Publish, BusTypeOK
  <2>2. [num |-> published + 1, channel |-> c] \in Message BY <2>1 DEF Message
  <2>3. inbox' \in Seq(Message)
    BY <1>2, <2>2, AppendProperties DEF Publish, BusTypeOK
  <2> QED BY <1>2, <2>1, <2>3 DEF Publish, BusTypeOK, bounds, history
<1>3. CASE Listen BY <1>3, ListenTypes
<1>4. CASE UNCHANGED busVars BY <1>4 DEF busVars, redis, bounds, history, BusTypeOK
<1> QED BY <1>1, <1>2, <1>3, <1>4 DEF BusNext

-----------------------------------------------------------------------------
\* A subscription goes to the end of the table,
LEMMA SubscribeTable ==
  ASSUME BusTypeOK, TableInOrder, NEW h \in Handlers, Subscribe(h)
  PROVE  /\ h \notin Subscribed /\ Subscribed' = Subscribed \cup {h}
         /\ \A i, j \in DOMAIN subs' : subs'[i] = subs'[j] => i = j
         /\ \A g, k \in Handlers : Before(g, k)' => Before(g, k) \/ k = h
<1>1. /\ subs \in Seq(Handlers) /\ Len(subs) \in Nat /\ DOMAIN subs = 1..Len(subs)
      /\ Subscribed = {subs[i] : i \in DOMAIN subs}
  BY TableFacts
<1>2. subs' = Append(subs, h) BY DEF Subscribe, Registered
<1>3. /\ subs' \in Seq(Handlers) /\ Len(subs') = Len(subs) + 1
      /\ \A i \in 1..Len(subs) : subs'[i] = subs[i]
      /\ subs'[Len(subs) + 1] = h
  BY <1>1, <1>2, AppendProperties
<1>4. DOMAIN subs' = 1..(Len(subs) + 1) BY <1>3, LenProperties
<1>5. h \notin Subscribed BY DEF Subscribe, TableInOrder
<1>6. \A i : i \in DOMAIN subs' <=> i \in DOMAIN subs \/ i = Len(subs) + 1
  BY <1>1, <1>4
<1>7. Len(subs) + 1 \notin DOMAIN subs BY <1>1
<1>8. Subscribed' = Subscribed \cup {h}
  <2>1. Subscribed' = {subs'[i] : i \in DOMAIN subs'} BY DEF Subscribed, ToSet
  <2> QED BY <1>1, <1>3, <1>6, <2>1
<1>9. ASSUME NEW i \in DOMAIN subs', NEW j \in DOMAIN subs', subs'[i] = subs'[j]
      PROVE  i = j
  <2>1. \A n \in DOMAIN subs : subs[n] # h BY <1>1, <1>5
  <2>2. \A n \in DOMAIN subs : subs'[n] = subs[n] BY <1>1, <1>3
  <2> QED BY <1>3, <1>6, <1>9, <2>1, <2>2 DEF TableInOrder
<1>10. ASSUME NEW g \in Handlers, NEW k \in Handlers, Before(g, k)'
       PROVE  Before(g, k) \/ k = h
  <2>1. PICK i, j \in DOMAIN subs' : i < j /\ subs'[i] = g /\ subs'[j] = k
    BY <1>10 DEF Before
  <2>2. CASE j = Len(subs) + 1 BY <1>3, <2>1, <2>2
  <2>3. CASE j # Len(subs) + 1
    <3>1. i \in DOMAIN subs /\ j \in DOMAIN subs BY <1>1, <1>4, <2>1, <2>3
    <3>2. subs[i] = g /\ subs[j] = k BY <1>1, <1>3, <2>1, <3>1
    <3> QED BY <2>1, <3>1, <3>2 DEF Before
  <2> QED BY <2>2, <2>3
<1> QED BY <1>5, <1>8, <1>9, <1>10

\* and the end of one leaves the others where they were to each other.
LEMMA UnsubscribeTable ==
  ASSUME BusTypeOK, TableInOrder, NEW h \in Handlers, Unsubscribe(h)
  PROVE  /\ Subscribed' = Subscribed \ {h}
         /\ \A i, j \in DOMAIN subs' : subs'[i] = subs'[j] => i = j
         /\ \A g, k \in Handlers : Before(g, k)' => Before(g, k)
<1>1. /\ subs \in Seq(Handlers) /\ Len(subs) \in Nat /\ DOMAIN subs = 1..Len(subs)
      /\ Subscribed = {subs[i] : i \in DOMAIN subs}
  BY TableFacts
<1>2. PICK p \in DOMAIN subs : subs[p] = h /\ subs' = RemoveAt(subs, p)
  BY DEF Unsubscribe
<1>3. /\ subs' \in Seq(Handlers) /\ Len(subs') = Len(subs) - 1
      /\ \A k \in 1..(Len(subs) - 1) : subs'[k] = IF k < p THEN subs[k] ELSE subs[k + 1]
  BY <1>1, <1>2, RemoveAtProperties
<1>4. DOMAIN subs' = 1..(Len(subs) - 1) BY <1>3, LenProperties
<1> DEFINE old(k) == IF k < p THEN k ELSE k + 1
<1>5. \A k \in DOMAIN subs' : old(k) \in DOMAIN subs \ {p} /\ subs'[k] = subs[old(k)]
  BY <1>1, <1>2, <1>3, <1>4
<1>6. \A k, n \in DOMAIN subs' : (old(k) = old(n) => k = n) /\ (k < n => old(k) < old(n))
  BY <1>1, <1>2, <1>4
<1>7. \A n \in DOMAIN subs \ {p} : \E k \in DOMAIN subs' : old(k) = n
  <2> SUFFICES ASSUME NEW n \in DOMAIN subs \ {p}
               PROVE  \E k \in DOMAIN subs' : old(k) = n
    OBVIOUS
  <2>1. CASE n < p
    <3>1. n \in DOMAIN subs' /\ old(n) = n BY <1>1, <1>2, <1>4, <2>1
    <3> QED BY <3>1
  <2>2. CASE ~(n < p)
    <3>1. n - 1 \in DOMAIN subs' /\ old(n - 1) = n BY <1>1, <1>2, <1>4, <2>2
    <3> QED BY <3>1
  <2> QED BY <2>1, <2>2
<1> HIDE DEF old
<1>8. Subscribed' = Subscribed \ {h}
  <2>1. Subscribed' = {subs'[i] : i \in DOMAIN subs'} BY DEF Subscribed, ToSet
  <2>2. \A n \in DOMAIN subs \ {p} : subs[n] # h BY <1>2 DEF TableInOrder
  <2>3. ASSUME NEW x \in Subscribed' PROVE x \in Subscribed \ {h}
    <3>1. PICK k \in DOMAIN subs' : x = subs'[k] BY <2>1, <2>3
    <3> QED BY <1>1, <1>5, <2>2, <3>1
  <2>4. ASSUME NEW x \in Subscribed \ {h} PROVE x \in Subscribed'
    <3>1. PICK n \in DOMAIN subs : x = subs[n] BY <1>1, <2>4
    <3>2. n # p BY <1>2, <2>4, <3>1
    <3>3. PICK k \in DOMAIN subs' : old(k) = n BY <1>7, <3>2
    <3> QED BY <1>5, <2>1, <3>1, <3>3
  <2> QED BY <2>3, <2>4
<1>9. ASSUME NEW i \in DOMAIN subs', NEW j \in DOMAIN subs', subs'[i] = subs'[j]
      PROVE  i = j
  BY <1>5, <1>6, <1>9 DEF TableInOrder
<1>10. ASSUME NEW g \in Handlers, NEW k \in Handlers, Before(g, k)'
       PROVE  Before(g, k)
  <2>1. PICK i, j \in DOMAIN subs' : i < j /\ subs'[i] = g /\ subs'[j] = k
    BY <1>10 DEF Before
  <2>2. old(i) < old(j) /\ subs[old(i)] = g /\ subs[old(j)] = k
          /\ old(i) \in DOMAIN subs /\ old(j) \in DOMAIN subs
    BY <1>5, <1>6, <2>1
  <2> QED BY <2>2 DEF Before
<1> QED BY <1>8, <1>9, <1>10

\* Whoever is subscribed, or has been, is no longer a stranger, and no step but
\* those of the table changes who is in it.
LEMMA CallerSteps ==
  ASSUME BusTypeOK, [BusNext]_busVars,
         \A h \in Handlers : ~Subscribe(h) /\ ~Unsubscribe(h)
  PROVE  /\ subs' = subs
         /\ \A h \in Handlers :
              /\ caller'[h].pc = "out" <=> caller[h].pc = "out"
              /\ caller'[h].pc \in {"subscribing", "in"} <=>
                   caller[h].pc \in {"subscribing", "in"}
<1>1. ASSUME NEW h \in Handlers, Answer(h)
      PROVE  /\ subs' = subs
             /\ \A g \in Handlers :
                  /\ caller'[g].pc = "out" <=> caller[g].pc = "out"
                  /\ caller'[g].pc \in {"subscribing", "in"} <=>
                       caller[g].pc \in {"subscribing", "in"}
  <2>1. subs' = subs
    BY <1>1 DEF Answer, SubscribeDone, SubscribeFails, UnsubscribeDone
  <2>2. \/ caller[h].pc = "subscribing" /\ caller' = [caller EXCEPT ![h] = [pc |-> "in"]]
        \/ caller[h].pc = "unsubscribing" /\ caller' = [caller EXCEPT ![h] = [pc |-> "gone"]]
    BY <1>1 DEF Answer, SubscribeDone, SubscribeFails, UnsubscribeDone
  <2>3. \A g \in Handlers : g # h => caller'[g] = caller[g] BY <2>2 DEF BusTypeOK
  <2>4. \/ caller[h].pc = "subscribing" /\ caller'[h].pc = "in"
        \/ caller[h].pc = "unsubscribing" /\ caller'[h].pc = "gone"
    BY <2>2 DEF BusTypeOK
  <2> QED BY <2>1, <2>3, <2>4
<1>2. CASE LosePubsub /\ subs' = subs BY <1>2, LosePubsubFacts
<1>3. CASE UNCHANGED <<subs, caller>> BY <1>3
<1>4. ASSUME NEW c \in Channels, Publish(c) PROVE UNCHANGED <<subs, caller>>
  BY <1>4 DEF Publish
<1>5. CASE UNCHANGED busVars BY <1>3, <1>5 DEF busVars
<1>6. CASE Listen
  <2>1. CASE PollFails \/ ResubscribeFails
    BY <1>2, <2>1 DEF PollFails, ResubscribeFails
  <2>2. CASE ~(PollFails \/ ResubscribeFails)
    BY <1>3, <1>6, <2>2
      DEF Listen, Receive, CallNext, Return, AllCalled, Reconnect, StartResubscribe,
          Resubscribe
  <2> QED BY <2>1, <2>2
<1> QED BY <1>1, <1>3, <1>4, <1>5, <1>6 DEF BusNext

LEMMA TableStep ==
  ASSUME BusTypeOK, TableInOrder, [BusNext]_busVars
  PROVE  TableInOrder'
<1>1. ASSUME NEW h \in Handlers, Subscribe(h) PROVE TableInOrder'
  <2>1. /\ Subscribed' = Subscribed \cup {h}
        /\ \A i, j \in DOMAIN subs' : subs'[i] = subs'[j] => i = j
    BY <1>1, SubscribeTable
  <2>2. /\ caller'[h].pc \in {"subscribing", "in"}
        /\ \A g \in Handlers : g # h => caller'[g] = caller[g]
    BY <1>1 DEF Subscribe, BusTypeOK
  <2> QED BY <2>1, <2>2 DEF TableInOrder
<1>2. ASSUME NEW h \in Handlers, Unsubscribe(h) PROVE TableInOrder'
  <2>1. /\ Subscribed' = Subscribed \ {h}
        /\ \A i, j \in DOMAIN subs' : subs'[i] = subs'[j] => i = j
    BY <1>2, UnsubscribeTable
  <2>2. /\ caller'[h].pc \in {"unsubscribing", "gone"}
        /\ \A g \in Handlers : g # h => caller'[g] = caller[g]
    BY <1>2 DEF Unsubscribe, BusTypeOK
  <2> QED BY <2>1, <2>2 DEF TableInOrder
<1>3. CASE \A h \in Handlers : ~Subscribe(h) /\ ~Unsubscribe(h)
  <2>1. subs' = subs BY <1>3, CallerSteps
  <2>2. Subscribed' = Subscribed BY <2>1 DEF Subscribed
  <2> QED BY <1>3, <2>1, <2>2, CallerSteps DEF TableInOrder
<1> QED BY <1>1, <1>2, <1>3

-----------------------------------------------------------------------------
\* Most steps leave the messages and the dispatching alone, or end it.
Quiet ==
  /\ UNCHANGED <<published, calls>>
  /\ inbox' \in {inbox, <<>>}
  /\ listener' = listener \/ listener'.pc \in {"poll", "connect", "resubscribe"}

LEMMA QuietSteps ==
  ASSUME BusTypeOK, [BusNext]_busVars
  PROVE  Quiet \/ (\E c \in Channels : Publish(c)) \/ Receive \/ CallNext \/ Return
<1>1. ASSUME NEW h \in Handlers, Subscribe(h) \/ Unsubscribe(h) \/ Answer(h) PROVE Quiet
  BY <1>1 DEF Subscribe, Unsubscribe, Answer, SubscribeDone, SubscribeFails,
              UnsubscribeDone, Quiet, redis, history
<1>2. CASE AllCalled \/ PollFails \/ Reconnect \/ StartResubscribe \/ ResubscribeFails
  BY <1>2 DEF AllCalled, PollFails, Reconnect, StartResubscribe, ResubscribeFails,
              LosePubsub, Quiet, redis, history
<1>3. CASE Resubscribe
  <2>1. CASE listener.todo = <<>> BY <1>3, <2>1 DEF Resubscribe, Quiet, history
  <2>2. CASE listener.todo # <<>>
    <3>1. listener \in [pc : {"resubscribe"}, todo : Seq(Handlers)]
      BY <1>3, ListenerShape DEF Resubscribe
    <3>2. listener'.pc = "resubscribe" BY <1>3, <2>2, <3>1 DEF Resubscribe
    <3> QED BY <1>3, <3>2 DEF Resubscribe, Quiet, history
  <2> QED BY <2>1, <2>2
<1>4. CASE UNCHANGED busVars BY <1>4 DEF busVars, Quiet, redis, history
<1> QED BY <1>1, <1>2, <1>3, <1>4 DEF BusNext, Listen

\* Numbers of messages.
LEMMA NumberTypes ==
  ASSUME BusTypeOK
  PROVE  /\ published \in Nat /\ inbox \in Seq(Message) /\ Len(inbox) \in Nat
         /\ DOMAIN inbox = 1..Len(inbox)
         /\ \A i \in DOMAIN inbox : inbox[i] \in Message /\ inbox[i].num \in Nat
         /\ \A h \in Handlers :
              /\ calls[h] \in Seq(1..MaxMessages) /\ Len(calls[h]) \in Nat
              /\ DOMAIN calls[h] = 1..Len(calls[h])
              /\ \A k \in DOMAIN calls[h] : calls[h][k] \in Nat
         /\ Dispatching => listener.msg.num \in 1..MaxMessages /\ listener.msg.num \in Nat
<1> USE BusAssumption
<1>1. \A n \in 1..MaxMessages : n \in Nat OBVIOUS
<1>2. published \in Nat BY DEF BusTypeOK
<1>3. inbox \in Seq(Message) /\ \A m \in Message : m.num \in Nat
  BY <1>1 DEF BusTypeOK, Message
<1>4. \A h \in Handlers : calls[h] \in Seq(1..MaxMessages) BY DEF BusTypeOK
<1>5. Len(inbox) \in Nat /\ DOMAIN inbox = 1..Len(inbox)
        /\ \A i \in DOMAIN inbox : inbox[i] \in Message
  BY <1>3, LenProperties, ElementOfSeq
<1>6. ASSUME NEW h \in Handlers
      PROVE  /\ Len(calls[h]) \in Nat /\ DOMAIN calls[h] = 1..Len(calls[h])
             /\ \A k \in DOMAIN calls[h] : calls[h][k] \in Nat
  <2>1. calls[h] \in Seq(1..MaxMessages) BY <1>4
  <2>2. Len(calls[h]) \in Nat /\ DOMAIN calls[h] = 1..Len(calls[h]) BY <2>1, LenProperties
  <2>3. \A k \in 1..Len(calls[h]) : calls[h][k] \in 1..MaxMessages BY <2>1, ElementOfSeq
  <2> QED BY <1>1, <2>2, <2>3
<1>7. Dispatching => listener.msg.num \in 1..MaxMessages BY ListenerShape DEF Message
<1> QED BY <1>1, <1>2, <1>3, <1>4, <1>5, <1>6, <1>7

\* A call adds the number of the message at the end, for one handler.
LEMMA CallFacts ==
  ASSUME BusTypeOK, CallNext
  PROVE  \E m \in DOMAIN listener.due :
           LET h == listener.due[m]
           IN  /\ h \in Handlers /\ Dispatching /\ listener.due \in Due
               /\ DOMAIN listener.due \subseteq Nat
               /\ \A j \in DOMAIN listener.due : m <= j
               /\ listener'.pc = "calling" /\ listener'.msg = listener.msg
               /\ listener'.handler = h /\ Dispatching'
               /\ DOMAIN listener'.due = DOMAIN listener.due \ {m}
               /\ \A j \in DOMAIN listener'.due : listener'.due[j] = listener.due[j]
               /\ \A g \in Handlers : g # h => calls'[g] = calls[g]
               /\ DOMAIN calls'[h] = 1..(Len(calls[h]) + 1)
               /\ \A k \in DOMAIN calls[h] : calls'[h][k] = calls[h][k]
               /\ calls'[h][Len(calls[h]) + 1] = listener.msg.num
               /\ Contains(calls'[h], listener.msg.num)
<1>1. PICK m \in DOMAIN listener.due :
        /\ \A j \in DOMAIN listener.due : m <= j
        /\ calls' = [calls EXCEPT ![listener.due[m]] =
                       Append(calls[listener.due[m]], listener.msg.num)]
        /\ listener' = [pc |-> "calling", msg |-> listener.msg,
                        handler |-> listener.due[m], due |-> Rest(listener.due, m)]
  BY DEF CallNext, BusTypeOK
<1> DEFINE h == listener.due[m]
           n == listener.msg.num
<1>2. listener.pc = "dispatch" /\ Dispatching BY DEF CallNext, Dispatching
<1>3. listener.due \in Due BY <1>2, ListenerShape
<1>4. /\ h \in Handlers /\ DOMAIN listener.due \subseteq Nat
      /\ DOMAIN Rest(listener.due, m) = DOMAIN listener.due \ {m}
      /\ \A j \in DOMAIN listener.due \ {m} :
           Rest(listener.due, m)[j] = listener.due[j]
  BY <1>3, DueFacts
<1>5. calls[h] \in Seq(1..MaxMessages) /\ DOMAIN calls[h] = 1..Len(calls[h])
        /\ Len(calls[h]) \in Nat /\ n \in 1..MaxMessages
  BY <1>2, <1>4, NumberTypes
<1>6. calls'[h] = Append(calls[h], n) /\ \A g \in Handlers : g # h => calls'[g] = calls[g]
  BY <1>1, <1>4 DEF BusTypeOK
<1>7. /\ calls'[h] \in Seq(1..MaxMessages) /\ Len(calls'[h]) = Len(calls[h]) + 1
      /\ \A k \in 1..Len(calls[h]) : calls'[h][k] = calls[h][k]
      /\ calls'[h][Len(calls[h]) + 1] = n
  BY <1>5, <1>6, AppendProperties
<1>8. DOMAIN calls'[h] = 1..(Len(calls[h]) + 1) BY <1>7, LenProperties
<1>9. Contains(calls'[h], n)
  <2>1. Len(calls[h]) + 1 \in 1..Len(calls'[h]) BY <1>5, <1>7
  <2> QED BY <1>7, <2>1 DEF Contains
<1>10. /\ listener'.pc = "calling" /\ listener'.msg = listener.msg
       /\ listener'.handler = h /\ Dispatching'
       /\ listener'.due = Rest(listener.due, m)
  BY <1>1 DEF Dispatching
<1> QED BY <1>1, <1>2, <1>3, <1>4, <1>5, <1>6, <1>7, <1>8, <1>9, <1>10

LEMMA NumberedStep ==
  ASSUME BusTypeOK, Numbered, [BusNext]_busVars
  PROVE  Numbered'
<1>1. CASE Quiet
  <2>1. Dispatching' => listener' = listener BY <1>1 DEF Quiet, Dispatching
  <2>2. inbox' = inbox \/ DOMAIN inbox' = {} BY <1>1 DEF Quiet
  <2>3. published' = published /\ calls' = calls BY <1>1 DEF Quiet
  <2> QED BY <2>1, <2>2, <2>3 DEF Numbered, Dispatching
<1>2. ASSUME NEW c \in Channels, Publish(c) PROVE Numbered'
  <2>1. /\ published' = published + 1 /\ calls' = calls /\ listener' = listener
        /\ inbox' = inbox \/ inbox' = Append(inbox, [num |-> published + 1, channel |-> c])
    BY <1>2 DEF Publish, history
  <2>2. published \in Nat /\ Len(inbox) \in Nat /\ DOMAIN inbox = 1..Len(inbox)
          /\ \A i \in DOMAIN inbox : inbox[i].num \in Nat
    BY NumberTypes
  <2>3. ASSUME NEW i \in DOMAIN inbox'
        PROVE  \/ i \in DOMAIN inbox /\ inbox'[i] = inbox[i]
               \/ /\ \A j \in DOMAIN inbox' : j <= i
                  /\ inbox'[i].num = published + 1
    <3>1. CASE inbox' = inbox BY <3>1
    <3>2. CASE inbox' = Append(inbox, [num |-> published + 1, channel |-> c])
      <4>1. [num |-> published + 1, channel |-> c] \in Message
        BY <1>2, <2>2, BusAssumption DEF Publish, Message
      <4>2. /\ inbox' \in Seq(Message) /\ Len(inbox') = Len(inbox) + 1
            /\ \A k \in 1..Len(inbox) : inbox'[k] = inbox[k]
            /\ inbox'[Len(inbox) + 1] = [num |-> published + 1, channel |-> c]
        BY <3>2, <4>1, NumberTypes, AppendProperties
      <4>3. DOMAIN inbox' = 1..(Len(inbox) + 1) BY <4>2, LenProperties
      <4>4. CASE i = Len(inbox) + 1 BY <2>2, <4>2, <4>3, <4>4
      <4>5. CASE i # Len(inbox) + 1 BY <2>2, <4>2, <4>3, <4>5
      <4> QED BY <4>4, <4>5
    <3> QED BY <2>1, <3>1, <3>2
  <2>4. \A i \in DOMAIN inbox' : i \in Nat
    <3>1. \A i \in DOMAIN inbox : i \in Nat BY <2>2
    <3>2. Len(inbox) + 1 \in Nat BY <2>2
    <3>3. CASE inbox' = inbox BY <3>1, <3>3
    <3>4. CASE inbox' = Append(inbox, [num |-> published + 1, channel |-> c])
      BY <3>1, <3>2, <3>4, <2>2
    <3> QED BY <2>1, <3>3, <3>4
  <2>5. \A n \in Nat : n <= published => n <= published + 1 /\ n < published + 1
    BY <2>2
  <2>6. \A i \in DOMAIN inbox' : inbox'[i].num <= published'
    BY <2>1, <2>2, <2>3, <2>5 DEF Numbered
  <2>7. \A i, j \in DOMAIN inbox' : i < j => inbox'[i].num < inbox'[j].num
    <3> SUFFICES ASSUME NEW i \in DOMAIN inbox', NEW j \in DOMAIN inbox', i < j
                 PROVE  inbox'[i].num < inbox'[j].num
      OBVIOUS
    <3>1. i \in DOMAIN inbox /\ inbox'[i] = inbox[i] BY <2>3, <2>4
    <3>2. CASE j \in DOMAIN inbox /\ inbox'[j] = inbox[j] BY <3>1, <3>2 DEF Numbered
    <3>3. CASE inbox'[j].num = published + 1
      BY <2>2, <2>5, <3>1, <3>3 DEF Numbered
    <3> QED BY <2>3, <3>2, <3>3
  <2>8. ASSUME NEW n \in Nat, n <= published, \A i \in DOMAIN inbox : n < inbox[i].num
        PROVE  n <= published' /\ \A i \in DOMAIN inbox' : n < inbox'[i].num
    BY <2>1, <2>3, <2>5, <2>8
  <2>9. \A h \in Handlers : \A k \in DOMAIN calls'[h] :
          /\ calls'[h][k] <= published'
          /\ \A i \in DOMAIN inbox' : calls'[h][k] < inbox'[i].num
    BY <2>1, <2>8, NumberTypes DEF Numbered
  <2>10. Dispatching' =>
           /\ listener'.msg.num <= published'
           /\ \A i \in DOMAIN inbox' : listener'.msg.num < inbox'[i].num
           /\ \A h \in Handlers : \A k \in DOMAIN calls'[h] :
                calls'[h][k] <= listener'.msg.num
    BY <2>1, <2>8, NumberTypes DEF Numbered, Dispatching
  <2> QED BY <2>6, <2>7, <2>9, <2>10 DEF Numbered
<1>3. CASE Receive
  <2>1. /\ published' = published /\ calls' = calls /\ inbox # <<>>
        /\ inbox' = Tail(inbox) /\ listener'.msg = Head(inbox)
    BY <1>3 DEF Receive, history
  <2>2. inbox \in Seq(Message) /\ DOMAIN inbox = 1..Len(inbox) /\ Len(inbox) \in Nat
    BY NumberTypes
  <2>3. /\ inbox' \in Seq(Message) /\ Len(inbox') = Len(inbox) - 1
        /\ \A i \in 1..Len(inbox') : inbox'[i] = inbox[i + 1]
    BY <2>1, <2>2, HeadTailProperties
  <2>4. DOMAIN inbox' = 1..(Len(inbox) - 1) BY <2>3, LenProperties
  <2>5. Head(inbox) = inbox[1] /\ Len(inbox) # 0 BY <2>1, <2>2
  <2>6. \A i \in DOMAIN inbox' :
          /\ i + 1 \in DOMAIN inbox /\ 1 < i + 1 /\ inbox'[i] = inbox[i + 1]
          /\ \A j \in DOMAIN inbox' : i < j => i + 1 < j + 1
    BY <2>2, <2>3, <2>4
  <2>7. 1 \in DOMAIN inbox BY <2>2, <2>5
  <2>8. \A n, o \in Nat : n < o => n <= o OBVIOUS
  <2>9. \A h \in Handlers : \A k \in DOMAIN calls[h] : calls[h][k] <= inbox[1].num
    BY <2>7, <2>8, NumberTypes DEF Numbered
  <2> QED BY <2>1, <2>5, <2>6, <2>7, <2>9 DEF Numbered
<1>4. CASE CallNext
  <2>1. PICK m \in DOMAIN listener.due :
          LET h == listener.due[m]
          IN  /\ h \in Handlers /\ Dispatching
              /\ listener'.msg = listener.msg
              /\ \A g \in Handlers : g # h => calls'[g] = calls[g]
              /\ DOMAIN calls'[h] = 1..(Len(calls[h]) + 1)
              /\ \A k \in DOMAIN calls[h] : calls'[h][k] = calls[h][k]
              /\ calls'[h][Len(calls[h]) + 1] = listener.msg.num
    BY <1>4, CallFacts
  <2>2. published' = published /\ inbox' = inbox BY <1>4 DEF CallNext, redis
  <2>3. ASSUME NEW g \in Handlers, NEW k \in DOMAIN calls'[g]
        PROVE  \/ k \in DOMAIN calls[g] /\ calls'[g][k] = calls[g][k]
               \/ calls'[g][k] = listener.msg.num
    <3>1. CASE g # listener.due[m] BY <2>1, <3>1
    <3>2. CASE g = listener.due[m]
      <4>1. DOMAIN calls[g] = 1..Len(calls[g]) /\ Len(calls[g]) \in Nat BY NumberTypes
      <4>2. k \in DOMAIN calls[g] \/ k = Len(calls[g]) + 1 BY <2>1, <3>2, <4>1
      <4> QED BY <2>1, <3>2, <4>2
    <3> QED BY <3>1, <3>2
  <2>4. listener.msg.num \in Nat BY <2>1, NumberTypes
  <2>5. \A h \in Handlers : \A k \in DOMAIN calls'[h] :
          /\ calls'[h][k] <= published
          /\ \A i \in DOMAIN inbox : calls'[h][k] < inbox[i].num
          /\ calls'[h][k] <= listener.msg.num
    BY <2>1, <2>3, <2>4 DEF Numbered
  <2> QED BY <2>1, <2>2, <2>5 DEF Numbered
<1>5. CASE Return
  <2>1. /\ published' = published /\ calls' = calls /\ inbox' = inbox
        /\ listener'.msg = listener.msg /\ Dispatching
    BY <1>5 DEF Return, history, redis, Dispatching
  <2> QED BY <2>1 DEF Numbered
<1> QED BY <1>1, <1>2, <1>3, <1>4, <1>5, QuietSteps

\* Nobody becomes a stranger again, and the table alone decides who is before
\* whom.
LEMMA NoStrangers ==
  ASSUME BusTypeOK, TableInOrder, [BusNext]_busVars
  PROVE  \A h \in Handlers : caller'[h].pc = "out" => caller[h].pc = "out"
<1>1. ASSUME NEW h \in Handlers, Subscribe(h) \/ Unsubscribe(h)
      PROVE  \A g \in Handlers : caller'[g].pc = "out" => caller[g].pc = "out"
  <2>1. \A g \in Handlers : g # h => caller'[g] = caller[g]
    BY <1>1 DEF Subscribe, Unsubscribe, BusTypeOK
  <2>2. caller'[h].pc \in {"subscribing", "in", "unsubscribing", "gone"}
    BY <1>1 DEF Subscribe, Unsubscribe, BusTypeOK
  <2> QED BY <2>1, <2>2
<1>2. CASE \A h \in Handlers : ~Subscribe(h) /\ ~Unsubscribe(h)
  BY <1>2, CallerSteps
<1> QED BY <1>1, <1>2

LEMMA SubscribedFacts ==
  ASSUME BusTypeOK, TableInOrder
  PROVE  /\ \A i \in DOMAIN subs : caller[subs[i]].pc # "out"
         /\ \A g, k \in Handlers : Before(g, k) => g \in Subscribed
<1>1. \A i \in DOMAIN subs : subs[i] \in Subscribed /\ subs[i] \in Handlers BY TableFacts
<1>2. \A i \in DOMAIN subs : caller[subs[i]].pc # "out" BY <1>1 DEF TableInOrder
<1> QED BY <1>1, <1>2 DEF Before

\* Whoever is due is due once.
LEMMA DueOnceStep ==
  ASSUME BusTypeOK, TableInOrder, Numbered, DueOnce, [BusNext]_busVars
  PROVE  DueOnce'
<1>0. Dispatching => \A i \in DOMAIN listener.due : listener.due[i] \in Handlers
  BY ListenerShape, DueFacts
<1>1. ASSUME listener' = listener, calls' = calls PROVE DueOnce'
  BY <1>0, <1>1, NoStrangers DEF DueOnce, Dispatching
<1>2. CASE Quiet
  <2>1. ASSUME listener'.pc \in {"poll", "connect", "resubscribe"} PROVE DueOnce'
    BY <2>1 DEF DueOnce, Dispatching
  <2> QED BY <1>1, <1>2, <2>1 DEF Quiet
<1>3. ASSUME NEW c \in Channels, Publish(c) PROVE DueOnce'
  BY <1>1, <1>3 DEF Publish, history
<1>4. CASE Receive
  <2>1. /\ inbox # <<>> /\ calls' = calls /\ caller' = caller
        /\ listener'.msg = Head(inbox)
        /\ listener'.due = Matching(Head(inbox).channel)
    BY <1>4 DEF Receive, history
  <2>2. inbox \in Seq(Message) BY NumberTypes
  <2>3. Head(inbox) = inbox[1] /\ 1 \in DOMAIN inbox /\ Head(inbox).channel \in Channels
    BY <2>1, <2>2, NumberTypes DEF Message
  <2>4. /\ DOMAIN listener'.due \subseteq DOMAIN subs
        /\ \A i \in DOMAIN listener'.due : listener'.due[i] = subs[i]
    BY <2>1, <2>3, MatchingFacts
  <2>5. \A i, j \in DOMAIN listener'.due : listener'.due[i] = listener'.due[j] => i = j
    BY <2>4 DEF TableInOrder
  <2>6. \A i \in DOMAIN listener'.due :
          /\ caller'[listener'.due[i]].pc # "out"
          /\ \A k \in DOMAIN calls'[listener'.due[i]] :
               calls'[listener'.due[i]][k] < listener'.msg.num
    BY <2>1, <2>3, <2>4, SubscribedFacts, TableFacts DEF Numbered
  <2> QED BY <2>5, <2>6 DEF DueOnce
<1>5. CASE CallNext
  <2>1. PICK m \in DOMAIN listener.due :
          LET h == listener.due[m]
          IN  /\ h \in Handlers /\ Dispatching
              /\ listener'.msg = listener.msg
              /\ DOMAIN listener'.due = DOMAIN listener.due \ {m}
              /\ \A j \in DOMAIN listener'.due : listener'.due[j] = listener.due[j]
              /\ \A g \in Handlers : g # h => calls'[g] = calls[g]
    BY <1>5, CallFacts
  <2>2. caller' = caller BY <1>5 DEF CallNext
  <2>3. \A j \in DOMAIN listener'.due : listener.due[j] # listener.due[m]
    BY <2>1 DEF DueOnce
  <2> QED BY <1>0, <2>1, <2>2, <2>3 DEF DueOnce
<1>6. CASE Return
  <2>1. /\ calls' = calls /\ caller' = caller /\ Dispatching
        /\ listener'.msg = listener.msg /\ listener'.due = listener.due
    BY <1>6 DEF Return, history, Dispatching
  <2> QED BY <2>1 DEF DueOnce
<1> QED BY <1>2, <1>3, <1>4, <1>5, <1>6, QuietSteps

\* Nobody sees a message twice, or an older one after it.
LEMMA OrderedStep ==
  ASSUME BusTypeOK, DueOnce, OrderedAtMostOnce, [BusNext]_busVars
  PROVE  OrderedAtMostOnce'
<1>1. CASE calls' = calls BY <1>1 DEF OrderedAtMostOnce
<1>2. CASE CallNext
  <2>1. PICK m \in DOMAIN listener.due :
          LET h == listener.due[m]
          IN  /\ h \in Handlers /\ Dispatching
              /\ \A g \in Handlers : g # h => calls'[g] = calls[g]
              /\ DOMAIN calls'[h] = 1..(Len(calls[h]) + 1)
              /\ \A k \in DOMAIN calls[h] : calls'[h][k] = calls[h][k]
              /\ calls'[h][Len(calls[h]) + 1] = listener.msg.num
    BY <1>2, CallFacts
  <2> DEFINE h == listener.due[m]
  <2>2. DOMAIN calls[h] = 1..Len(calls[h]) /\ Len(calls[h]) \in Nat BY <2>1, NumberTypes
  <2>3. \A k \in DOMAIN calls[h] : calls[h][k] < listener.msg.num BY <2>1 DEF DueOnce
  <2>4. ASSUME NEW i \in DOMAIN calls'[h], NEW j \in DOMAIN calls'[h], i < j
        PROVE  calls'[h][i] < calls'[h][j]
    <3>1. i \in DOMAIN calls[h] BY <2>1, <2>2, <2>4
    <3>2. CASE j \in DOMAIN calls[h]
      BY <2>1, <2>4, <3>1, <3>2 DEF OrderedAtMostOnce
    <3>3. CASE j \notin DOMAIN calls[h]
      <4>1. j = Len(calls[h]) + 1 BY <2>1, <2>2, <3>3
      <4> QED BY <2>1, <2>3, <3>1, <4>1
    <3> QED BY <3>2, <3>3
  <2> QED BY <2>1, <2>4 DEF OrderedAtMostOnce
<1>3. (\E c \in Channels : Publish(c)) \/ Receive \/ Return \/ Quiet => calls' = calls
  BY DEF Publish, Receive, Return, Quiet, history
<1> QED BY <1>1, <1>2, <1>3, QuietSteps

\* The steps of the table leave the order of those who are due.
LEMMA BeforeSteps ==
  ASSUME BusTypeOK, TableInOrder, [BusNext]_busVars,
         NEW k \in Handlers, caller[k].pc # "out", NEW g \in Subscribed', Before(g, k)'
  PROVE  g \in Subscribed /\ Before(g, k)
<1>1. ASSUME NEW h \in Handlers, Subscribe(h) PROVE g \in Subscribed /\ Before(g, k)
  <2>1. g \in Handlers /\ k # h
    BY <1>1, TableFacts, SubscribeTable DEF Subscribe
  <2>2. Before(g, k) BY <1>1, <2>1, SubscribeTable
  <2> QED BY <2>1, <2>2, SubscribedFacts
<1>2. ASSUME NEW h \in Handlers, Unsubscribe(h) PROVE g \in Subscribed /\ Before(g, k)
  <2>1. g \in Subscribed /\ g \in Handlers BY <1>2, TableFacts, UnsubscribeTable
  <2> QED BY <1>2, <2>1, UnsubscribeTable
<1>3. CASE \A h \in Handlers : ~Subscribe(h) /\ ~Unsubscribe(h)
  <2>1. subs' = subs BY <1>3, CallerSteps
  <2> QED BY <2>1 DEF Subscribed, Before
<1> QED BY <1>1, <1>2, <1>3

LEMMA DueInOrderStep ==
  ASSUME BusTypeOK, TableInOrder, DueOnce, DueInOrder, [BusNext]_busVars
  PROVE  DueInOrder'
<1>0. Dispatching => \A i \in DOMAIN listener.due : listener.due[i] \in Handlers
  BY ListenerShape, DueFacts
<1>1. listener.pc = "calling" => listener.handler \in Handlers /\ Dispatching
  BY ListenerShape DEF Dispatching
<1>2. ASSUME calls' = calls, Dispatching,
             listener'.msg = listener.msg, listener'.due = listener.due,
             listener'.pc = "calling" =>
               listener.pc = "calling" /\ listener'.handler = listener.handler
      PROVE  DueInOrder'
  <2>1. ASSUME NEW i \in DOMAIN listener'.due, NEW g \in Subscribed',
               ChannelOf[g] = listener'.msg.channel, Before(g, listener.due[i])'
        PROVE  \/ \E j \in DOMAIN listener'.due : j < i /\ listener'.due[j] = g
               \/ Contains(calls'[g], listener'.msg.num)
    <3>1. PICK k \in Handlers : k = listener.due[i] /\ k = listener'.due[i]
      BY <1>0, <1>2, <2>1
    <3>2. caller[k].pc # "out" BY <1>2, <2>1, <3>1 DEF DueOnce
    <3>3. Before(g, k)' BY <2>1, <3>1 DEF Before
    <3>4. g \in Subscribed /\ Before(g, k) BY <3>2, <3>3, BeforeSteps
    <3> QED BY <1>2, <2>1, <3>1, <3>4 DEF DueInOrder
  <2>2. listener'.pc = "calling" => caller'[listener'.handler].pc # "out"
    BY <1>1, <1>2, NoStrangers DEF DueInOrder
  <2> QED BY <2>1, <2>2 DEF DueInOrder
<1>3. CASE ~Dispatching'
  BY <1>3 DEF DueInOrder, Dispatching
<1>4. CASE Quiet
  <2>1. CASE listener' = listener /\ Dispatching
    BY <1>2, <1>4, <2>1 DEF Quiet
  <2>2. CASE listener' = listener /\ ~Dispatching BY <1>3, <2>2 DEF Dispatching
  <2>3. CASE listener'.pc \in {"poll", "connect", "resubscribe"}
    BY <1>3, <2>3 DEF Dispatching
  <2> QED BY <1>4, <2>1, <2>2, <2>3 DEF Quiet
<1>5. ASSUME NEW c \in Channels, Publish(c) PROVE DueInOrder'
  <2>1. listener' = listener /\ calls' = calls BY <1>5 DEF Publish, history
  <2>2. CASE Dispatching BY <1>2, <2>1, <2>2
  <2>3. CASE ~Dispatching BY <1>3, <2>1, <2>3 DEF Dispatching
  <2> QED BY <2>2, <2>3
<1>6. CASE Receive
  <2>1. /\ inbox # <<>> /\ subs' = subs /\ listener'.pc = "dispatch"
        /\ listener'.msg = Head(inbox)
        /\ listener'.due = Matching(Head(inbox).channel)
    BY <1>6 DEF Receive
  <2>2. Head(inbox).channel \in Channels
    <3>1. inbox \in Seq(Message) BY NumberTypes
    <3>2. Head(inbox) \in Message BY <2>1, <3>1, HeadTailProperties
    <3> QED BY <3>2 DEF Message
  <2>3. /\ DOMAIN listener'.due = {i \in DOMAIN subs : ChannelOf[subs[i]] = Head(inbox).channel}
        /\ \A i \in DOMAIN listener'.due : listener'.due[i] = subs[i]
    BY <2>1, <2>2, MatchingFacts
  <2>4. ASSUME NEW i \in DOMAIN listener'.due, NEW g \in Subscribed',
               ChannelOf[g] = listener'.msg.channel, Before(g, listener.due[i])'
        PROVE  \E j \in DOMAIN listener'.due : j < i /\ listener'.due[j] = g
    <3>1. PICK a, b \in DOMAIN subs : a < b /\ subs[a] = g /\ subs[b] = subs[i]
      BY <2>1, <2>3, <2>4 DEF Before
    <3>2. b = i BY <2>3, <3>1 DEF TableInOrder
    <3>3. a \in DOMAIN listener'.due /\ listener'.due[a] = g
      BY <2>1, <2>3, <2>4, <3>1
    <3> QED BY <3>1, <3>2, <3>3
  <2> QED BY <2>1, <2>4 DEF DueInOrder
<1>7. CASE CallNext
  <2>1. PICK m \in DOMAIN listener.due :
          LET h == listener.due[m]
          IN  /\ h \in Handlers /\ Dispatching /\ listener.due \in Due
              /\ listener'.msg = listener.msg /\ listener'.handler = h
              /\ DOMAIN listener'.due = DOMAIN listener.due \ {m}
              /\ \A j \in DOMAIN listener'.due : listener'.due[j] = listener.due[j]
              /\ \A g \in Handlers : g # h => calls'[g] = calls[g]
              /\ Contains(calls'[h], listener.msg.num)
    BY <1>7, CallFacts
  <2>2. caller' = caller /\ subs' = subs BY <1>7 DEF CallNext
  <2>3. Subscribed' = Subscribed /\ Subscribed \subseteq Handlers
    BY <2>2, TableFacts DEF Subscribed
  <2>4. ASSUME NEW i \in DOMAIN listener'.due, NEW g \in Subscribed,
               ChannelOf[g] = listener.msg.channel, Before(g, listener.due[i])'
        PROVE  \/ \E j \in DOMAIN listener'.due : j < i /\ listener'.due[j] = g
               \/ Contains(calls'[g], listener.msg.num)
    <3>1. Before(g, listener.due[i])
      <4>1. listener'.due[i] = listener.due[i] BY <2>1
      <4> QED BY <2>2, <2>4, <4>1 DEF Before
    <3>2. CASE g = listener.due[m] BY <2>1, <3>2
    <3>3. CASE g # listener.due[m]
      <4>1. calls'[g] = calls[g] BY <2>1, <2>3, <3>3
      <4>2. \/ \E j \in DOMAIN listener.due : j < i /\ listener.due[j] = g
            \/ Contains(calls[g], listener.msg.num)
        BY <2>1, <2>4, <3>1 DEF DueInOrder
      <4>3. CASE Contains(calls[g], listener.msg.num) BY <4>1, <4>3
      <4>4. CASE \E j \in DOMAIN listener.due : j < i /\ listener.due[j] = g
        <5>1. PICK j \in DOMAIN listener.due : j < i /\ listener.due[j] = g BY <4>4
        <5>2. j \in DOMAIN listener'.due /\ listener'.due[j] = g BY <2>1, <3>3, <5>1
        <5> QED BY <5>1, <5>2
      <4> QED BY <4>2, <4>3, <4>4
    <3> QED BY <3>2, <3>3
  <2>5. caller'[listener'.handler].pc # "out" BY <2>1, <2>2 DEF DueOnce
  <2> QED BY <2>1, <2>3, <2>4, <2>5 DEF DueInOrder
<1>8. CASE Return
  <2>1. /\ calls' = calls /\ Dispatching /\ listener'.pc = "dispatch"
        /\ listener'.msg = listener.msg /\ listener'.due = listener.due
    BY <1>8 DEF Return, history, Dispatching
  <2> QED BY <1>2, <2>1
<1> QED BY <1>4, <1>5, <1>6, <1>7, <1>8, QuietSteps

\* Whoever is called is called after those that subscribed before it.
LEMMA InOrderStep ==
  ASSUME BusTypeOK, TableInOrder, DueOnce, DueInOrder, CalledInOrderOfSubscription,
         [BusNext]_busVars
  PROVE  CalledInOrderOfSubscription'
<1>1. ASSUME listener' = listener, calls' = calls PROVE CalledInOrderOfSubscription'
  <2> SUFFICES ASSUME listener'.pc = "calling", NEW g \in Subscribed',
                      ChannelOf[g] = listener'.msg.channel, Before(g, listener.handler)'
               PROVE  Contains(calls'[g], listener'.msg.num)
    BY DEF CalledInOrderOfSubscription
  <2>1. listener.pc = "calling" /\ listener.handler \in Handlers
          /\ caller[listener.handler].pc # "out"
    BY <1>1, ListenerShape DEF DueInOrder
  <2>2. PICK k \in Handlers : k = listener.handler /\ k = listener'.handler
    BY <1>1, <2>1
  <2>3. Before(g, k)' BY <2>2 DEF Before
  <2>4. g \in Subscribed /\ Before(g, k) BY <2>1, <2>2, <2>3, BeforeSteps
  <2> QED BY <1>1, <2>1, <2>2, <2>4 DEF CalledInOrderOfSubscription
<1>2. CASE listener'.pc # "calling" BY <1>2 DEF CalledInOrderOfSubscription
<1>3. CASE Quiet BY <1>1, <1>2, <1>3 DEF Quiet
<1>4. ASSUME NEW c \in Channels, Publish(c) PROVE CalledInOrderOfSubscription'
  BY <1>1, <1>4 DEF Publish, history
<1>5. CASE Receive \/ Return BY <1>2, <1>5 DEF Receive, Return
<1>6. CASE CallNext
  <2>1. PICK m \in DOMAIN listener.due :
          LET h == listener.due[m]
          IN  /\ h \in Handlers /\ Dispatching /\ listener.due \in Due
              /\ DOMAIN listener.due \subseteq Nat
              /\ \A j \in DOMAIN listener.due : m <= j
              /\ listener'.msg = listener.msg /\ listener'.handler = h
              /\ \A g \in Handlers : g # h => calls'[g] = calls[g]
              /\ Contains(calls'[h], listener.msg.num)
    BY <1>6, CallFacts
  <2>2. subs' = subs /\ Subscribed' = Subscribed /\ Subscribed \subseteq Handlers
    BY <1>6, TableFacts DEF CallNext, Subscribed
  <2>3. ASSUME NEW g \in Subscribed, ChannelOf[g] = listener.msg.channel,
               Before(g, listener.handler)'
        PROVE  Contains(calls'[g], listener.msg.num)
    <3>1. Before(g, listener.due[m]) BY <2>1, <2>2, <2>3 DEF Before
    <3>2. ~ \E j \in DOMAIN listener.due : j < m /\ listener.due[j] = g
      <4>1. \A j \in DOMAIN listener.due : ~(j < m) BY <2>1
      <4> QED BY <4>1
    <3>3. Contains(calls[g], listener.msg.num)
      BY <2>1, <2>3, <3>1, <3>2 DEF DueInOrder
    <3> QED BY <2>1, <2>2, <3>3
  <2> QED BY <2>1, <2>2, <2>3 DEF CalledInOrderOfSubscription
<1> QED BY <1>3, <1>4, <1>5, <1>6, QuietSteps

\* No interleaving of the services with a reconnection leaves a gap.
Covered(h) ==
  \/ ChannelOf[h] \in heard
  \/ caller[h].pc = "subscribing" /\ caller[h].current
  \/ ChannelOf[h] \in missed
  \/ listener.pc = "resubscribe" /\ Contains(listener.todo, h)

LEMMA NoGapStep ==
  ASSUME BusTypeOK, TableInOrder, NoGap, [BusNext]_busVars
  PROVE  NoGap'
<1>0. listener.pc # "connect" => pubsub /\ \A h \in Subscribed : Covered(h)
  BY DEF NoGap, Covered
<1>1. SUFFICES ASSUME listener'.pc # "connect"
               PROVE  pubsub' /\ \A h \in Subscribed' : Covered(h)'
  BY DEF NoGap, Covered
<1>2. ASSUME listener.pc # "connect", pubsub' = pubsub, Subscribed' \subseteq Subscribed,
             caller' = caller, heard' = heard, missed' = missed,
             listener.pc # "resubscribe" \/ listener' = listener
      PROVE  pubsub' /\ \A h \in Subscribed' : Covered(h)'
  BY <1>0, <1>2 DEF Covered
<1>3. ASSUME NEW g \in Handlers, Subscribe(g)
      PROVE  pubsub' /\ \A h \in Subscribed' : Covered(h)'
  <2>1. pubsub /\ \A h \in Subscribed : Covered(h)
    BY <1>0, <1>1, <1>3 DEF Subscribe
  <2>2. /\ pubsub' = pubsub /\ heard' = heard /\ missed' = missed /\ listener' = listener
        /\ Subscribed' = Subscribed \cup {g} /\ Subscribed \subseteq Handlers
        /\ caller' = [caller EXCEPT ![g] = [pc |-> "subscribing", current |-> TRUE]]
    BY <1>3, <2>1, SubscribeTable, TableFacts DEF Subscribe, redis, history
  <2>3. /\ caller'[g] = [pc |-> "subscribing", current |-> TRUE]
        /\ \A h \in Handlers : h # g => caller'[h] = caller[h]
    BY <2>2 DEF BusTypeOK
  <2>4. Covered(g)' BY <2>3 DEF Covered
  <2>5. ASSUME NEW h \in Subscribed, h # g PROVE Covered(h)'
    <3>1. caller'[h] = caller[h] BY <2>2, <2>3, <2>5
    <3> QED BY <2>1, <2>2, <3>1 DEF Covered
  <2> QED BY <2>1, <2>2, <2>4, <2>5
<1>4. ASSUME NEW g \in Handlers, Unsubscribe(g)
      PROVE  pubsub' /\ \A h \in Subscribed' : Covered(h)'
  <2>1. /\ pubsub' = pubsub /\ heard' = heard /\ missed' = missed /\ listener' = listener
        /\ Subscribed' = Subscribed \ {g} /\ Subscribed \subseteq Handlers
    BY <1>4, UnsubscribeTable, TableFacts DEF Unsubscribe, redis, history
  <2>2. \A h \in Handlers : h # g => caller'[h] = caller[h]
    BY <1>4 DEF Unsubscribe, BusTypeOK
  <2>3. ASSUME NEW h \in Subscribed, h # g PROVE Covered(h)'
    <3>1. caller'[h] = caller[h] BY <2>1, <2>2, <2>3
    <3> QED BY <1>0, <1>1, <2>1, <3>1 DEF Covered
  <2> QED BY <1>0, <1>1, <2>1, <2>3
<1>5. ASSUME NEW g \in Handlers, Answer(g)
      PROVE  pubsub' /\ \A h \in Subscribed' : Covered(h)'
  <2>1. /\ pubsub' = pubsub /\ listener' = listener /\ subs' = subs
    BY <1>5 DEF Answer, SubscribeDone, SubscribeFails, UnsubscribeDone
  <2>2. Subscribed' = Subscribed /\ Subscribed \subseteq Handlers
    BY <2>1, TableFacts DEF Subscribed
  <2>3. \A h \in Handlers : h # g => caller'[h] = caller[h]
    BY <1>5 DEF Answer, SubscribeDone, SubscribeFails, UnsubscribeDone, BusTypeOK
  <2>4. \A c : c \in heard \cup missed => c \in heard' \cup missed'
    BY <1>5 DEF Answer, SubscribeDone, SubscribeFails, UnsubscribeDone, history
  <2>5. caller[g].pc = "subscribing" /\ caller[g].current =>
          ChannelOf[g] \in heard' \cup missed'
    BY <1>5 DEF Answer, SubscribeDone, SubscribeFails, UnsubscribeDone
  <2>6. ASSUME NEW h \in Subscribed PROVE Covered(h)'
    <3>1. Covered(h) BY <1>0, <1>1, <2>1
    <3>2. CASE h = g BY <2>1, <2>4, <2>5, <3>1, <3>2 DEF Covered
    <3>3. CASE h # g
      <4>1. caller'[h] = caller[h] BY <2>2, <2>3, <3>3
      <4> QED BY <2>1, <2>4, <3>1, <4>1 DEF Covered
    <3> QED BY <3>2, <3>3
  <2> QED BY <1>0, <1>1, <2>1, <2>2, <2>6
<1>6. CASE \E c \in Channels : Publish(c)
  BY <1>1, <1>2, <1>6 DEF Publish, history, Subscribed
<1>7. CASE Receive \/ CallNext \/ Return \/ AllCalled
  BY <1>2, <1>7 DEF Receive, CallNext, Return, AllCalled, redis, history, Subscribed
<1>8. CASE PollFails \/ ResubscribeFails \/ Reconnect
  BY <1>1, <1>8 DEF PollFails, ResubscribeFails, Reconnect, LosePubsub
<1>9. CASE StartResubscribe
  <2>1. /\ pubsub /\ pubsub' = pubsub /\ subs' = subs
        /\ listener' = [pc |-> "resubscribe", todo |-> subs]
    BY <1>9 DEF StartResubscribe, Resubscription, redis
  <2>2. \A h \in Subscribed : Contains(subs, h) BY TableFacts DEF Contains
  <2>3. Subscribed' = Subscribed BY <2>1 DEF Subscribed
  <2> QED BY <2>1, <2>2, <2>3 DEF Covered
<1>10. CASE Resubscribe
  <2>1. /\ pubsub /\ pubsub' = pubsub /\ subs' = subs /\ caller' = caller
        /\ missed' = missed /\ \A h \in Subscribed : Covered(h)
    BY <1>0, <1>10 DEF Resubscribe, history
  <2>2. Subscribed' = Subscribed BY <2>1 DEF Subscribed
  <2>3. listener \in [pc : {"resubscribe"}, todo : Seq(Handlers)]
    BY <1>10, ListenerShape DEF Resubscribe
  <2>4. CASE listener.todo = <<>>
    <3>1. heard' = heard BY <1>10, <2>4 DEF Resubscribe
    <3>2. \A h : ~Contains(listener.todo, h) BY <2>4 DEF Contains
    <3> QED BY <2>1, <2>2, <3>1, <3>2 DEF Covered
  <2>5. CASE listener.todo # <<>>
    <3>1. /\ heard' = heard \cup {ChannelOf[Head(listener.todo)]}
          /\ listener' = [listener EXCEPT !.todo = Tail(listener.todo)]
      BY <1>10, <2>5 DEF Resubscribe
    <3>2. listener'.pc = "resubscribe" /\ listener'.todo = Tail(listener.todo)
      BY <2>3, <3>1
    <3>3. ASSUME NEW h, Contains(listener.todo, h), h # Head(listener.todo)
          PROVE  Contains(Tail(listener.todo), h)
      <4>1. PICK i \in 1..Len(listener.todo) : listener.todo[i] = h
        BY <3>3 DEF Contains
      <4>2. /\ Len(listener.todo) \in Nat /\ Head(listener.todo) = listener.todo[1]
            /\ Len(Tail(listener.todo)) = Len(listener.todo) - 1
            /\ \A k \in 1..Len(Tail(listener.todo)) :
                 Tail(listener.todo)[k] = listener.todo[k + 1]
        BY <2>3, <2>5, HeadTailProperties, LenProperties
      <4>3. i # 1 BY <3>3, <4>1, <4>2
      <4>4. i - 1 \in 1..Len(Tail(listener.todo)) /\ (i - 1) + 1 = i
        BY <4>1, <4>2, <4>3
      <4>5. Tail(listener.todo)[i - 1] = h BY <4>1, <4>2, <4>4
      <4> QED BY <4>4, <4>5 DEF Contains
    <3>4. ASSUME NEW h \in Subscribed PROVE Covered(h)'
      <4>1. CASE h = Head(listener.todo) BY <3>1, <4>1 DEF Covered
      <4>2. CASE h # Head(listener.todo)
        BY <2>1, <3>1, <3>2, <3>3, <4>2 DEF Covered
      <4> QED BY <4>1, <4>2
    <3> QED BY <2>1, <2>2, <3>4
  <2> QED BY <2>4, <2>5
<1>11. CASE UNCHANGED busVars
  BY <1>0, <1>1, <1>11 DEF busVars, redis, history, Subscribed, Covered
<1> QED BY <1>3, <1>4, <1>5, <1>6, <1>7, <1>8, <1>9, <1>10, <1>11 DEF BusNext, Listen

-----------------------------------------------------------------------------
LEMMA CalledInit == BusInit => Called
<1> SUFFICES ASSUME BusInit PROVE Called OBVIOUS
<1> USE BusAssumption
<1>1. BusTypeOK
  <2>1. caller \in [Handlers -> Caller] BY CallerShapes DEF BusInit
  <2>2. <<>> \in Seq(Handlers) /\ <<>> \in Seq(Message) /\ <<>> \in Seq(1..MaxMessages)
    OBVIOUS
  <2>3. listener \in Listener BY DEF BusInit, Listener
  <2>4. calls \in [Handlers -> Seq(1..MaxMessages)] BY <2>2 DEF BusInit
  <2>5. /\ published \in 0..MaxMessages
        /\ errors \in 0..MaxErrors /\ failures \in 0..MaxFailures
        /\ unsubscribes \in 0..MaxUnsubscribes
    BY DEF BusInit
  <2>6. /\ pubsub \in BOOLEAN /\ wired \in BOOLEAN /\ heard \subseteq Channels
        /\ missed \subseteq Channels
    BY DEF BusInit
  <2>7. subs \in Seq(Handlers) /\ inbox \in Seq(Message) BY <2>2 DEF BusInit
  <2> QED BY <2>1, <2>3, <2>4, <2>5, <2>6, <2>7 DEF BusTypeOK
<1>2. /\ DOMAIN subs = {} /\ DOMAIN inbox = {}
      /\ \A h \in Handlers : calls[h] = <<>> /\ DOMAIN calls[h] = {}
  BY DEF BusInit
<1>3. Subscribed = {} BY <1>2 DEF Subscribed, ToSet
<1>4. TableInOrder BY <1>2, <1>3 DEF TableInOrder, BusInit
<1>5. listener.pc = "poll" /\ ~Dispatching /\ pubsub BY DEF BusInit, Dispatching
<1>6. Numbered BY <1>2, <1>5 DEF Numbered
<1>7. DueOnce /\ DueInOrder BY <1>5 DEF DueOnce, DueInOrder
<1>8. NoGap BY <1>3, <1>5 DEF NoGap
<1>9. CalledInOrder
  BY <1>2, <1>5 DEF CalledInOrder, OrderedAtMostOnce, CalledInOrderOfSubscription
<1> QED BY <1>1, <1>4, <1>6, <1>7, <1>8, <1>9 DEF Called

LEMMA CalledStep == Called /\ [BusNext]_busVars => Called'
<1> SUFFICES ASSUME Called, [BusNext]_busVars PROVE Called' OBVIOUS
<1>1. /\ BusTypeOK /\ TableInOrder /\ Numbered /\ DueOnce /\ DueInOrder /\ NoGap
      /\ OrderedAtMostOnce /\ CalledInOrderOfSubscription
  BY DEF Called, CalledInOrder
<1>2. BusTypeOK' /\ TableInOrder' /\ Numbered' /\ DueOnce' /\ DueInOrder' /\ NoGap'
  BY <1>1, BusTypes, TableStep, NumberedStep, DueOnceStep, DueInOrderStep, NoGapStep
<1>3. CalledInOrder' BY <1>1, OrderedStep, InOrderStep DEF CalledInOrder
<1> QED BY <1>2, <1>3 DEF Called

\* Every handler sees the messages in the order of publication and at most
\* once, after the handlers that subscribed before it: for any number of
\* handlers, channels and messages, through reconnections, failures and changes
\* of the table while a message is dispatched.
THEOREM CallsAreInOrder == BusSpec => []CalledInOrder
<1>1. Called => CalledInOrder BY DEF Called
<1> QED BY CalledInit, CalledStep, <1>1, PTL DEF BusSpec

\* No interleaving of subscriptions, unsubscriptions and reconnections leaves a
\* subscribed handler unheard that no failure has left so.
THEOREM NobodyIsForgotten == BusSpec => [](BusTypeOK /\ SubscribersHeard)
<1>1. Called => BusTypeOK /\ SubscribersHeard
  BY DEF Called, NoGap, SubscribersHeard
<1> QED BY CalledInit, CalledStep, <1>1, PTL DEF BusSpec

-----------------------------------------------------------------------------
(***************************************************************************)
(* Both together.                                                          *)
(***************************************************************************)

\* Engine and bus share no state: what one of them does the other sees as a
\* stutter, so each behaves as it does alone.
LEMMA EngineAndBusAreApart ==
  /\ AllInit => Init /\ BusInit
  /\ [AllNext]_allVars => [Next]_vars /\ [BusNext]_busVars
<1>1. AllInit => Init /\ BusInit BY DEF AllInit
<1>2. ASSUME Engine, UNCHANGED <<part, busVars>> PROVE [Next]_vars /\ [BusNext]_busVars
  BY <1>2 DEF Engine
<1>3. ASSUME Bus, UNCHANGED <<part, vars>> PROVE [Next]_vars /\ [BusNext]_busVars
  BY <1>3 DEF Bus
<1>4. ASSUME UNCHANGED allVars PROVE [Next]_vars /\ [BusNext]_busVars
  BY <1>4 DEF allVars
<1> QED BY <1>1, <1>2, <1>3, <1>4 DEF AllNext

\* So what has been proved of each by itself holds of both.
THEOREM EngineAndBusBehaveAsAlone == AllSpec => Spec /\ BusSpec
BY EngineAndBusAreApart, PTL DEF AllSpec, Spec, BusSpec

\* Whatever the engine and the bus do, their variables keep to their types.
THEOREM EngineBusTypeCorrect == AllSpec => []EngineBusTypeOK
<1>1. TypeOK /\ BusTypeOK => EngineBusTypeOK BY DEF EngineBusTypeOK
<1> QED
  BY <1>1, EngineAndBusBehaveAsAlone, PoolTypeCorrect, NobodyIsForgotten, PTL

=============================================================================
