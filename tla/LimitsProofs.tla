---------------------------- MODULE LimitsProofs ----------------------------
(***************************************************************************)
(* What limits trading besides the risk control service: the regime of the *)
(* market, the local engine, the blacklist, the simulated runs, and the    *)
(* scan of the markets; for any readings of the market, stakes, profits,   *)
(* ticks, requests, failures, paths, exchanges and tickers.                *)
(***************************************************************************)
EXTENDS MCLimits, RiskControlProofs, SequenceTheorems

-----------------------------------------------------------------------------
(***************************************************************************)
(* The regime's detector, filter and listener: the scores follow the       *)
(* filter.                                                                 *)
(***************************************************************************)
\* Every reading is a regime.
LEMMA ClassifiedIsARegime ==
  ASSUME NEW trend \in Trends, NEW wild \in BOOLEAN
  PROVE  Classified(trend, wild) \in Regimes
BY RegimeAssumption DEF Classified, Regimes

\* "none" is not a regime.
LEMMA NoneIsNoRegime == "none" \notin Regimes
BY DEF Regimes

\* Each regime has its multipliers.
LEMMA MultipliersInRange ==
  ASSUME NEW regime
  PROVE  Multipliers(regime) \in [Sides -> 0..20]
BY DEF Multipliers, Sides

\* What the filter goes by is a regime.
LEMMA KnownIsARegime ==
  ASSUME RegimeTypeOK
  PROVE  KnownRegime \in Regimes
BY DEF RegimeTypeOK, KnownRegime, Regimes

\* The types of all variables are kept by every step, among them that no
\* stake is more than twice the usual one.
THEOREM RegimeTypeCorrect == RegimeSpec => []RegimeTypeOK
<1>1. RegimeInit => RegimeTypeOK
  <2>1. Multipliers("ranging") \in [Sides -> 0..20]
    BY MultipliersInRange
  <2>2. ASSUME RegimeInit
        PROVE  regimeEvents \in Seq(Regimes) /\ Len(regimeEvents) <= MaxRegimeEvents
    BY <2>2, RegimeAssumption DEF RegimeInit
  <2>3. {"none", "ranging"} \subseteq Regimes \cup {"none"} /\ "ranging" \in Regimes
    BY DEF Regimes
  <2>4. Undecided \in [allow : BOOLEAN, stake : 0..20]
    BY DEF Undecided
  <2> QED
    BY <2>1, <2>2, <2>3, <2>4 DEF RegimeInit, RegimeTypeOK
<1>2. RegimeTypeOK /\ [RegimeNext]_regimeVars => RegimeTypeOK'
  <2> SUFFICES ASSUME RegimeTypeOK, [RegimeNext]_regimeVars
               PROVE  RegimeTypeOK'
    OBVIOUS
  <2> USE DEF RegimeTypeOK
  <2>1. ASSUME NEW trend \in Trends, NEW wild \in BOOLEAN, DetectSame(trend, wild)
        PROVE  RegimeTypeOK'
    BY <2>1 DEF DetectSame
  <2>2. ASSUME NEW trend \in Trends, NEW wild \in BOOLEAN, DetectChange(trend, wild)
        PROVE  RegimeTypeOK'
    <3>1. Classified(trend, wild) \in Regimes
      BY ClassifiedIsARegime
    <3>2. regimeEvents' \in Seq(Regimes) /\ Len(regimeEvents') <= MaxRegimeEvents
      BY <2>2, <3>1, RegimeAssumption DEF DetectChange
    <3> QED
      BY <2>2, <3>1, <3>2 DEF DetectChange
  <2>3. CASE PutDown
    BY <2>3 DEF PutDown
  <2>4. CASE OnRegimeChanged
    <3>1. Multipliers(KnownRegime) \in [Sides -> 0..20]
      BY MultipliersInRange
    <3>2. /\ regimeEvents' \in Seq(Regimes) /\ Len(regimeEvents') <= MaxRegimeEvents
          /\ engineRegime' \in Regimes
      BY <2>4, RegimeAssumption DEF OnRegimeChanged
    <3> QED
      BY <2>4, <3>1, <3>2 DEF OnRegimeChanged, ByTheDetector
  <2>5. ASSUME NEW regime \in Regimes, ForceRegime(regime)
        PROVE  RegimeTypeOK'
    <3>1. regimeEvents' \in Seq(Regimes) /\ Len(regimeEvents') <= MaxRegimeEvents
      BY <2>5, RegimeAssumption DEF ForceRegime
    <3> QED
      BY <2>5, <3>1 DEF ForceRegime
  <2>6. ASSUME NEW side \in Sides, ConfirmSignal(side)
        PROVE  RegimeTypeOK'
    <3>1. Multipliers(KnownRegime)[side] \in 0..20
      BY MultipliersInRange
    <3> QED
      BY <2>6, <3>1 DEF ConfirmSignal, Evaluated
  <2>7. CASE UNCHANGED regimeVars
    BY <2>7 DEF regimeVars
  <2> QED
    BY <2>1, <2>2, <2>3, <2>4, <2>5, <2>6, <2>7 DEF RegimeNext
<1> QED
  BY <1>1, <1>2, PTL DEF RegimeSpec

-----------------------------------------------------------------------------
(***************************************************************************)
(* A change that is being published is announced by an event that waits,   *)
(* unless it was lost or overtaken.  Without this, ScoredAsJudged says     *)
(* nothing of the moment before the detector puts its change down.         *)
(***************************************************************************)
ChangeIsAnnounced == changing # "none" /\ ~outrun => regimeEvents # <<>>

\* Once all events are handled the engine scores by the regime that the filter
\* judges by, unless a change was lost or overtook the detector.
THEOREM ScoresFollowFilter == RegimeSpec => []ScoredAsJudged
<1>1. RegimeInit => ChangeIsAnnounced /\ ScoredAsJudged
  BY DEF RegimeInit, ChangeIsAnnounced, ScoredAsJudged, KnownRegime
<1>2. RegimeTypeOK /\ ChangeIsAnnounced /\ ScoredAsJudged /\ [RegimeNext]_regimeVars
        => ChangeIsAnnounced' /\ ScoredAsJudged'
  <2> SUFFICES ASSUME RegimeTypeOK, ChangeIsAnnounced, ScoredAsJudged,
                      [RegimeNext]_regimeVars
               PROVE  ChangeIsAnnounced' /\ ScoredAsJudged'
    OBVIOUS
  <2> USE DEF ChangeIsAnnounced, ScoredAsJudged
  <2>1. ASSUME NEW trend \in Trends, NEW wild \in BOOLEAN, DetectSame(trend, wild)
        PROVE  ChangeIsAnnounced' /\ ScoredAsJudged'
    BY <2>1 DEF DetectSame, KnownRegime
  <2>2. ASSUME NEW trend \in Trends, NEW wild \in BOOLEAN, DetectChange(trend, wild)
        PROVE  ChangeIsAnnounced' /\ ScoredAsJudged'
    <3>1. changing' # "none"
      BY <2>2, ClassifiedIsARegime, NoneIsNoRegime DEF DetectChange
    <3>2. outrun' \/ regimeEvents' # <<>>
      BY <2>2 DEF DetectChange, RegimeTypeOK
    <3> QED
      BY <3>1, <3>2
  <2>3. CASE PutDown
    BY <2>3 DEF PutDown
  <2>4. CASE OnRegimeChanged
    BY <2>4 DEF OnRegimeChanged, ByTheDetector, KnownRegime
  <2>5. ASSUME NEW regime \in Regimes, ForceRegime(regime)
        PROVE  ChangeIsAnnounced' /\ ScoredAsJudged'
    <3>1. regimeEvents' # <<>>
      BY <2>5 DEF ForceRegime, RegimeTypeOK
    <3> QED
      BY <3>1
  <2>6. ASSUME NEW side \in Sides, ConfirmSignal(side)
        PROVE  ChangeIsAnnounced' /\ ScoredAsJudged'
    BY <2>6 DEF ConfirmSignal, KnownRegime
  <2>7. CASE UNCHANGED regimeVars
    BY <2>7 DEF regimeVars, KnownRegime
  <2> QED
    BY <2>1, <2>2, <2>3, <2>4, <2>5, <2>6, <2>7 DEF RegimeNext
<1> QED
  BY <1>1, <1>2, RegimeTypeCorrect, PTL DEF RegimeSpec

-----------------------------------------------------------------------------
(***************************************************************************)
(* The local engine, and what its trades book.                             *)
(***************************************************************************)
Trade == [sym : LocalSymbols, tp1 : BOOLEAN, opened : 0..MaxTicks]

Booking == [halves : 0..3, stopped : BOOLEAN]

(***************************************************************************)
(* What an open trade has booked: nothing before the first target, and     *)
(* one half after it.  With it a place never books more than three halves, *)
(* and three only when the stop is the last to book.                       *)
(***************************************************************************)
BookedByTarget ==
  \A p \in Places : trade[p] # Closed =>
    booked[p].halves = (IF trade[p].tp1 THEN 1 ELSE 0)

\* The losses in a row stay below the limit when they start over at it.
LEMMA StreakBelowLimit ==
  ASSUME NEW n \in Nat
  PROVE  n % StreakLimit \in 0..(StreakLimit - 1)
<1>1. StreakLimit \in Nat /\ StreakLimit > 0
  BY LocalAssumption
<1> QED
  BY <1>1

\* A trade that is closed books at most the whole stake, and no more than what
\* its first target left, unless it was stopped.
LEMMA HalvesBooked ==
  ASSUME NEW p \in Places, NEW price \in Prices, trade[p].tp1 \in BOOLEAN,
         Reason(p, price) # "none"
  PROVE  LET first == IF TakesTP1(p, price) THEN 1 ELSE 0
             then == IF trade[p].tp1 THEN 1 ELSE 0
             all  == then + (Halves(p, price) + first)
         IN  /\ Halves(p, price) \in 1..2
             /\ all \in 0..3
             /\ all > 2 => price = "stop"
<1>1. CASE price = "stop"
  <2>1. Reason(p, price) = "stop" /\ ~TakesTP1(p, price)
    BY <1>1 DEF Reason, TakesTP1
  <2>2. Halves(p, price) = 2
    BY <2>1 DEF Halves
  <2> QED
    BY <1>1, <2>1, <2>2
<1>2. CASE price # "stop"
  <2>1. Reason(p, price) # "stop"
    BY <1>2 DEF Reason
  <2>2. Halves(p, price) = IF trade[p].tp1 \/ TakesTP1(p, price) THEN 1 ELSE 2
    BY <2>1 DEF Halves
  <2>3. TakesTP1(p, price) => ~trade[p].tp1
    BY DEF TakesTP1
  <2> QED
    BY <2>2, <2>3
<1> QED
  BY <1>1, <1>2

\* Profits and losses are whole numbers.
LEMMA GainsAreNumbers ==
  ASSUME NEW reason
  PROVE  Gains(reason) \subseteq Int
<1>1. \A a \in Amounts : a \in Nat
  BY LocalAssumption
<1>2. \A a \in Amounts : a \in Int /\ -a \in Int
  BY <1>1
<1> QED
  BY <1>2 DEF Gains

LocalInv == LocalTypeOK /\ BookedByTarget /\ StakeBookedOnce

\* A trade that reaches its first target has booked nothing before.
LEMMA HoldKeepsInv ==
  ASSUME LocalInv, NEW p \in Places, NEW price \in Prices, Hold(p, price)
  PROVE  LocalInv'
<1> USE DEF LocalInv, LocalTypeOK, BookedByTarget, StakeBookedOnce
<1>1. trade[p] # Closed /\ trade[p] \in Trade /\ booked[p] \in Booking
  BY DEF Hold, OpenPlaces, Trade, Booking
<1>2. CASE TakesTP1(p, price)
  <2>1. ~trade[p].tp1 /\ booked[p].halves = 0
    BY <1>1, <1>2 DEF TakesTP1
  <2>2. /\ capital' \in Int /\ streak' = 0
        /\ trade' = [trade EXCEPT ![p].tp1 = TRUE]
        /\ booked' = [booked EXCEPT ![p].halves = @ + 1]
    BY <1>2, LocalAssumption DEF Hold
  <2>3. trade'[p].tp1 /\ trade'[p] \in Trade /\ trade'[p] # Closed
    BY <1>1, <2>2 DEF Trade, Closed
  <2>4. booked'[p].halves = 1 /\ booked'[p] \in Booking
    BY <1>1, <2>1, <2>2 DEF Booking
  <2>5. \A q \in Places : q # p => trade'[q] = trade[q] /\ booked'[q] = booked[q]
    BY <2>2
  <2>6. trade' \in [Places -> {Closed} \cup Trade] /\ booked' \in [Places -> Booking]
    BY <2>2, <2>3, <2>4 DEF Trade, Booking
  <2>7. toManage' \subseteq OpenPlaces'
    BY <2>3, <2>5 DEF Hold, OpenPlaces
  <2>8. streak' \in 0..(StreakLimit - 1)
    BY <2>2, LocalAssumption
  <2>9. BookedByTarget' /\ StakeBookedOnce'
    BY <2>3, <2>4, <2>5
  <2> QED
    BY <2>2, <2>6, <2>7, <2>8, <2>9 DEF Hold, Trade, Booking
<1>3. CASE ~TakesTP1(p, price)
  BY <1>3 DEF Hold, OpenPlaces
<1> QED
  BY <1>2, <1>3

\* A trade that is closed books its stake once over its life, or is stopped.
LEMMA CloseKeepsInv ==
  ASSUME LocalInv, NEW p \in Places, NEW price \in Prices, Close(p, price)
  PROVE  LocalInv'
<1> USE DEF LocalInv, LocalTypeOK, BookedByTarget, StakeBookedOnce
<1>1. trade[p] # Closed /\ trade[p] \in Trade /\ booked[p] \in Booking
  BY DEF Close, OpenPlaces, Trade, Booking
<1> DEFINE half == IF TakesTP1(p, price) THEN 1 ELSE 0
           new  == [halves  |-> booked[p].halves + Halves(p, price) + half,
                    stopped |-> price = "stop"]
<1>2. booked' = [booked EXCEPT ![p] = new] /\ trade' = [trade EXCEPT ![p] = Closed]
  BY DEF Close
<1>3. new \in Booking /\ (new.halves > 2 => new.stopped)
  <2>1. trade[p].tp1 \in BOOLEAN /\ Reason(p, price) # "none"
    BY <1>1 DEF Close, Trade
  <2>2. booked[p].halves = IF trade[p].tp1 THEN 1 ELSE 0
    BY <1>1
  <2>3. /\ Halves(p, price) \in 1..2
        /\ booked[p].halves + Halves(p, price) + half \in 0..3
        /\ booked[p].halves + Halves(p, price) + half > 2 => price = "stop"
    BY <2>1, <2>2, HalvesBooked
  <2> QED
    BY <2>3 DEF Booking
<1>4. capital' \in Int /\ dayLost' \in Nat
  <2>1. PICK gain \in (IF TakesTP1(p, price) THEN Amounts ELSE {0}),
             pnl \in Gains(Reason(p, price)) :
          capital' = capital + gain + pnl /\ dayLost' = LossesAfter(pnl)
    BY DEF Close
  <2>2. gain \in Int /\ pnl \in Int
    BY GainsAreNumbers, LocalAssumption
  <2> QED
    BY <2>1, <2>2 DEF LossesAfter
<1>5. streak' \in 0..(StreakLimit - 1) /\ coolUntil' \in 0..(MaxTicks + Cooldown)
  <2>1. PICK pnl \in Gains(Reason(p, price)) :
          LET losses == Streak(pnl, IF TakesTP1(p, price) THEN 0 ELSE streak)
          IN  /\ streak' = losses % StreakLimit
              /\ coolUntil' = IF losses = StreakLimit THEN tick + Cooldown ELSE coolUntil
    BY DEF Close
  <2>2. Streak(pnl, IF TakesTP1(p, price) THEN 0 ELSE streak) \in Nat
    BY LocalAssumption DEF Streak
  <2> QED
    BY <2>1, <2>2, StreakBelowLimit, LocalAssumption
<1>6. /\ trade' \in [Places -> {Closed} \cup Trade]
      /\ booked' \in [Places -> Booking]
  BY <1>2, <1>3 DEF Trade, Booking
<1>7. toManage' \subseteq OpenPlaces'
  BY <1>2 DEF Close, OpenPlaces
<1>8. BookedByTarget' /\ StakeBookedOnce'
  <2>1. trade'[p] = Closed /\ booked'[p] = new
    BY <1>2
  <2>2. \A q \in Places : q # p => trade'[q] = trade[q] /\ booked'[q] = booked[q]
    BY <1>2
  <2> QED
    BY <1>3, <2>1, <2>2
<1> QED
  BY <1>4, <1>5, <1>6, <1>7, <1>8 DEF Close, Trade, Booking

\* New trades take free places and begin with nothing booked.
LEMMA ScanKeepsInv ==
  ASSUME LocalInv, NEW new \in SUBSET Places, Scan(new)
  PROVE  LocalInv'
<1> USE DEF LocalInv, LocalTypeOK, BookedByTarget, StakeBookedOnce
<1>1. PICK sym \in [new -> LocalSymbols \ {trade[q].sym : q \in OpenPlaces}] :
        trade' = [q \in Places |->
                    IF q \in new THEN [sym |-> sym[q], tp1 |-> FALSE, opened |-> tick]
                    ELSE trade[q]]
  BY DEF Scan
<1>2. booked' = [q \in Places |->
                   IF q \in new THEN [halves |-> 0, stopped |-> FALSE] ELSE booked[q]]
  BY DEF Scan
<1>3. trade' \in [Places -> {Closed} \cup Trade] /\ booked' \in [Places -> Booking]
  BY <1>1, <1>2 DEF Trade, Booking
<1>4. BookedByTarget' /\ StakeBookedOnce'
  <2>1. \A q \in new : ~trade'[q].tp1 /\ booked'[q].halves = 0
    BY <1>1, <1>2
  <2>2. \A q \in Places \ new : trade'[q] = trade[q] /\ booked'[q] = booked[q]
    BY <1>1, <1>2
  <2> QED
    BY <2>1, <2>2
<1> QED
  BY <1>3, <1>4 DEF Scan, Trade, Booking

\* The invariant holds in every behaviour.
LEMMA LocalInvariant == LocalSpec => []LocalInv
<1>1. LocalInit => LocalInv
  <2> SUFFICES ASSUME LocalInit
               PROVE  LocalInv
    OBVIOUS
  <2>1. /\ tick \in 0..MaxTicks /\ capital \in Int /\ dayLost \in Nat
        /\ streak \in 0..(StreakLimit - 1) /\ coolUntil \in 0..(MaxTicks + Cooldown)
    BY LocalAssumption DEF LocalInit
  <2>2. trade \in [Places -> {Closed} \cup Trade]
    BY DEF LocalInit
  <2>3. booked \in [Places -> Booking]
    BY DEF LocalInit, Booking
  <2>4. toManage = {} /\ scanned = FALSE
    BY DEF LocalInit
  <2>5. BookedByTarget /\ StakeBookedOnce
    BY DEF LocalInit, BookedByTarget, StakeBookedOnce
  <2> QED
    BY <2>1, <2>2, <2>3, <2>4, <2>5 DEF LocalInv, LocalTypeOK, Trade, Booking
<1>2. LocalInv /\ [LocalNext]_localVars => LocalInv'
  <2> SUFFICES ASSUME LocalInv, [LocalNext]_localVars
               PROVE  LocalInv'
    OBVIOUS
  <2>1. CASE LocalTick
    <3>1. tick' \in 0..MaxTicks
      BY <2>1, LocalAssumption DEF LocalTick, LocalInv, LocalTypeOK
    <3>2. OpenPlaces' = OpenPlaces /\ toManage' = OpenPlaces /\ scanned' = FALSE
      BY <2>1 DEF LocalTick, OpenPlaces
    <3>3. BookedByTarget' /\ StakeBookedOnce'
      BY <2>1 DEF LocalTick, LocalInv, BookedByTarget, StakeBookedOnce
    <3> QED
      BY <2>1, <3>1, <3>2, <3>3 DEF LocalTick, LocalInv, LocalTypeOK
  <2>2. ASSUME NEW p \in Places, NEW price \in Prices, Hold(p, price) \/ Close(p, price)
        PROVE  LocalInv'
    BY <2>2, HoldKeepsInv, CloseKeepsInv
  <2>3. ASSUME NEW new \in SUBSET Places, Scan(new)
        PROVE  LocalInv'
    BY <2>3, ScanKeepsInv
  <2>4. CASE UNCHANGED localVars
    BY <2>4
    DEF localVars, LocalInv, LocalTypeOK, BookedByTarget, StakeBookedOnce, OpenPlaces
  <2> QED
    BY <2>1, <2>2, <2>3, <2>4 DEF LocalNext
<1> QED
  BY <1>1, <1>2, PTL DEF LocalSpec

\* The types of all variables are kept by every step: the counter of losses in
\* a row stays below its limit, no place books more than three halves.
THEOREM LocalTypeCorrect == LocalSpec => []LocalTypeOK
<1>1. LocalInv => LocalTypeOK
  BY DEF LocalInv
<1> QED
  BY <1>1, LocalInvariant, PTL

\* A trade books its stake once over its life, unless a stop ended it.
THEOREM StakesBookedOnce == LocalSpec => []StakeBookedOnce
<1>1. LocalInv => StakeBookedOnce
  BY DEF LocalInv
<1> QED
  BY <1>1, LocalInvariant, PTL

-----------------------------------------------------------------------------
(***************************************************************************)
(* The blacklist.                                                          *)
(***************************************************************************)
\* As long as nothing has troubled the list, at most one request is under way,
OneAtATime == \A r, s \in Asked : r = s

\* and what it is going to write is what the row holds with its change made.
WritesOnTop ==
  \A r \in Edits : edit[r].pc \in {"find", "insert", "update"} =>
    edit[r].list = Changed(Row, edit[r].req)

ListKept ==
  /\ BlackTypeOK
  /\ troubled = {} => OneAtATime /\ Row = wanted /\ WritesOnTop

-----------------------------------------------------------------------------
\* A request changes a list of coins to a list of coins.
LEMMA ChangedType ==
  ASSUME NEW list \in SUBSET Symbols, NEW req \in Request
  PROVE  Changed(list, req) \in SUBSET Symbols
BY DEF Changed, Request

\* A record of a request under way.
LEMMA RunningType ==
  ASSUME NEW pc \in {"read", "find", "insert", "update"}, NEW req \in Request,
         NEW list \in SUBSET Symbols
  PROVE  [pc |-> pc, req |-> req, list |-> list] \in Running
BY DEF Running

\* A request that is under way has the fields of one.
LEMMA AskedIsRunning ==
  ASSUME BlackTypeOK, NEW r \in Edits, edit[r].pc # "none"
  PROVE  /\ edit[r] \in Running /\ edit[r].req \in Request /\ edit[r].list \in SUBSET Symbols
         /\ edit[r].pc \in {"read", "find", "insert", "update"}
<1>1. edit[r] \in Running \cup [pc : {"none"}] BY DEF BlackTypeOK
<1>2. edit[r] \notin [pc : {"none"}] OBVIOUS
<1> QED BY <1>1, <1>2 DEF Running

\* The row is a list of coins.
LEMMA RowType == BlackTypeOK => Row \in SUBSET Symbols
BY DEF BlackTypeOK, Row

LEMMA ListKeptInit == BlackInit => ListKept
<1> SUFFICES ASSUME BlackInit PROVE ListKept OBVIOUS
<1>1. BlackTypeOK
  BY FS_EmptySet, BlacklistAssumption DEF BlackInit, BlackTypeOK
<1>2. Row = wanted BY DEF BlackInit, Row
<1>3. \A r \in Edits : edit[r].pc = "none" BY DEF BlackInit
<1> QED BY <1>1, <1>2, <1>3 DEF ListKept, OneAtATime, Asked, WritesOnTop

\* Every step keeps the types.
LEMMA BlackTypeStep == BlackTypeOK /\ [BlackNext]_blackVars => BlackTypeOK'
<1> SUFFICES ASSUME BlackTypeOK, [BlackNext]_blackVars PROVE BlackTypeOK' OBVIOUS
<1> USE BlacklistAssumption
<1>0. [pc |-> "none"] \in [pc : {"none"}] OBVIOUS
<1>1. ASSUME NEW r \in Edits, Ask(r) PROVE BlackTypeOK'
  <2>1. PICK req \in Request : AskAdmin(r, req) \/ AskWeb(r, req) BY <1>1 DEF Ask
  <2>2. memory \in SUBSET Symbols BY DEF BlackTypeOK
  <2>3. Changed(memory, req) \in SUBSET Symbols BY <2>2, ChangedType
  <2>4. [pc |-> "find", req |-> req, list |-> Changed(memory, req)] \in Running
    BY <2>3, RunningType
  <2>5. [pc |-> "read", req |-> req, list |-> {}] \in Running BY RunningType
  <2>6. memory' \subseteq Symbols BY <2>1, <2>2, <2>3 DEF AskAdmin, AskWeb
  <2>7. edit' \in [Edits -> Running \cup [pc : {"none"}]]
    BY <2>1, <2>4, <2>5 DEF AskAdmin, AskWeb, MemoryAfter, BlackTypeOK
  <2>8. troubled' \subseteq {"overlap", "failure", "stale"}
    BY <2>1 DEF AskAdmin, AskWeb, Overlap, BlackTypeOK
  <2> QED BY <1>1, <2>6, <2>7, <2>8 DEF Ask, BlackTypeOK
<1>2. ASSUME NEW r \in Edits, ReadRow(r) PROVE BlackTypeOK'
  <2>1. edit[r] \in Running /\ edit[r].req \in Request
    BY <1>2, AskedIsRunning DEF ReadRow
  <2>2. Changed(Row, edit[r].req) \in SUBSET Symbols BY <2>1, RowType, ChangedType
  <2>3. [edit[r] EXCEPT !.pc = "find", !.list = Changed(Row, edit[r].req)] \in Running
    BY <2>1, <2>2 DEF Running
  <2>4. edit' = [edit EXCEPT ![r] = [edit[r] EXCEPT !.pc = "find",
                                       !.list = Changed(Row, edit[r].req)]]
    BY <1>2, <2>1 DEF ReadRow, BlackTypeOK
  <2> QED BY <1>2, <2>3, <2>4 DEF ReadRow, BlackTypeOK
<1>3. ASSUME NEW r \in Edits, FindRow(r) PROVE BlackTypeOK'
  <2>1. edit[r] \in Running BY <1>3, AskedIsRunning DEF FindRow
  <2>2. PICK pc \in {"insert", "update"} : edit' = [edit EXCEPT ![r].pc = pc]
    BY <1>3 DEF FindRow
  <2>3. [edit[r] EXCEPT !.pc = pc] \in Running BY <2>1 DEF Running
  <2>4. edit' \in [Edits -> Running \cup [pc : {"none"}]] BY <2>2, <2>3 DEF BlackTypeOK
  <2> QED BY <1>3, <2>4 DEF FindRow, BlackTypeOK
<1>4. ASSUME NEW r \in Edits, WriteRow(r) PROVE BlackTypeOK'
  <2>1. edit[r].req \in Request /\ edit[r].list \in SUBSET Symbols
    BY <1>4, AskedIsRunning DEF WriteRow
  <2>2. stored' = {edit[r].list} BY <1>4 DEF WriteRow, Upserted
  <2>3. stored' \in SUBSET SUBSET Symbols /\ Cardinality(stored') <= 1
    <3>1. Cardinality({edit[r].list}) = 1 BY FS_Singleton
    <3> QED BY <2>1, <2>2, <3>1
  <2>4. wanted' \subseteq Symbols
    <3>1. wanted \in SUBSET Symbols BY DEF BlackTypeOK
    <3>2. wanted' = Changed(wanted, edit[r].req) BY <1>4 DEF WriteRow
    <3> QED BY <2>1, <3>1, <3>2, ChangedType
  <2>5. edit' \in [Edits -> Running \cup [pc : {"none"}]]
    BY <1>4, <1>0 DEF WriteRow, BlackTypeOK
  <2> QED BY <1>4, <2>3, <2>4, <2>5 DEF WriteRow, BlackTypeOK
<1>5. ASSUME NEW r \in Edits, EditFails(r) PROVE BlackTypeOK'
  <2>1. rowFaults' \in 0..MaxRowFaults BY <1>5 DEF EditFails, RowFault, BlackTypeOK
  <2>2. edit' \in [Edits -> Running \cup [pc : {"none"}]]
    BY <1>5, <1>0 DEF EditFails, BlackTypeOK
  <2> QED BY <1>5, <2>1, <2>2 DEF EditFails, BlackTypeOK
<1>6. ASSUME RestartAdmin PROVE BlackTypeOK'
  <2>1. memory' \subseteq Symbols BY <1>6, RowType DEF RestartAdmin
  <2>2. rowFaults' \in 0..MaxRowFaults BY <1>6 DEF RestartAdmin, RowFault, BlackTypeOK
  <2>3. adminRestarts' \in 0..MaxAdminRestarts BY <1>6 DEF RestartAdmin, BlackTypeOK
  <2> QED BY <1>6, <2>1, <2>2, <2>3 DEF RestartAdmin, BlackTypeOK
<1>7. ASSUME UNCHANGED blackVars PROVE BlackTypeOK' BY <1>7 DEF blackVars, BlackTypeOK
<1> QED BY <1>1, <1>2, <1>3, <1>4, <1>5, <1>6, <1>7 DEF BlackNext

\* and every step keeps the list in order, as long as nothing has troubled it.
LEMMA ListKeptStep == ListKept /\ [BlackNext]_blackVars => ListKept'
<1> SUFFICES ASSUME ListKept, [BlackNext]_blackVars, troubled' = {}
             PROVE  (OneAtATime /\ Row = wanted /\ WritesOnTop)'
  BY BlackTypeStep DEF ListKept
<1> USE DEF Asked
<1>0. BlackTypeOK BY DEF ListKept
<1>1. ASSUME troubled = {} PROVE OneAtATime /\ Row = wanted /\ WritesOnTop
  BY <1>1 DEF ListKept
<1>2. ASSUME NEW r \in Edits, Ask(r)
      PROVE  (OneAtATime /\ Row = wanted /\ WritesOnTop)'
  <2>1. PICK req \in Request : AskAdmin(r, req) \/ AskWeb(r, req) BY <1>2 DEF Ask
  <2>2. troubled = {} /\ Overlap = {} BY <2>1 DEF AskAdmin, AskWeb
  <2>3. \A s \in Edits : edit[s].pc = "none" BY <2>2 DEF Overlap
  <2>4. \A s \in Edits : s # r => edit'[s] = edit[s]
    BY <1>0, <2>1 DEF AskAdmin, AskWeb, BlackTypeOK
  <2>5. OneAtATime' BY <2>3, <2>4 DEF OneAtATime
  <2>6. (Row = wanted)' BY <1>1, <1>2, <2>2 DEF Ask, Row
  <2>7. ASSUME edit'[r].pc \in {"find", "insert", "update"}
        PROVE  edit'[r].list = Changed(Row', edit'[r].req)
    <3>1. AskAdmin(r, req) BY <1>0, <2>1, <2>7 DEF AskWeb, BlackTypeOK
    <3>2. memory = Row BY <3>1 DEF AskAdmin
    <3>3. edit'[r] = [pc |-> "find", req |-> req, list |-> Changed(Row, req)]
      BY <1>0, <3>1, <3>2 DEF AskAdmin, MemoryAfter, BlackTypeOK
    <3>4. Row' = Row BY <1>2 DEF Ask, Row
    <3> QED BY <3>3, <3>4
  <2>8. WritesOnTop'
    <3> SUFFICES ASSUME NEW s \in Edits, edit'[s].pc \in {"find", "insert", "update"}
                 PROVE  edit'[s].list = Changed(Row', edit'[s].req)
      BY DEF WritesOnTop, Changed
    <3> QED BY <2>3, <2>4, <2>7
  <2> QED BY <2>5, <2>6, <2>8
<1>3. ASSUME NEW r \in Edits, ReadRow(r)
      PROVE  (OneAtATime /\ Row = wanted /\ WritesOnTop)'
  <2>1. OneAtATime /\ Row = wanted /\ WritesOnTop BY <1>1, <1>3 DEF ReadRow
  <2>2. edit[r] \in Running BY <1>0, <1>3, AskedIsRunning DEF ReadRow
  <2>3. /\ edit'[r].list = Changed(Row, edit[r].req) /\ edit'[r].req = edit[r].req
        /\ edit'[r].pc = "find"
        /\ \A s \in Edits : s # r => edit'[s] = edit[s]
    BY <1>0, <1>3, <2>2 DEF ReadRow, BlackTypeOK, Running
  <2>4. Row' = Row /\ wanted' = wanted BY <1>3 DEF ReadRow, Row
  <2>5. OneAtATime'
    <3>1. \A s \in Edits : edit'[s].pc # "none" => edit[s].pc # "none"
      BY <1>3, <2>3 DEF ReadRow
    <3> QED BY <2>1, <3>1 DEF OneAtATime
  <2>6. WritesOnTop' BY <2>1, <2>3, <2>4 DEF WritesOnTop, Changed
  <2> QED BY <2>1, <2>4, <2>5, <2>6
<1>4. ASSUME NEW r \in Edits, FindRow(r)
      PROVE  (OneAtATime /\ Row = wanted /\ WritesOnTop)'
  <2>1. OneAtATime /\ Row = wanted /\ WritesOnTop BY <1>1, <1>4 DEF FindRow
  <2>2. edit[r] \in Running BY <1>0, <1>4, AskedIsRunning DEF FindRow
  <2>3. /\ edit'[r].list = edit[r].list /\ edit'[r].req = edit[r].req
        /\ \A s \in Edits : s # r => edit'[s] = edit[s]
    BY <1>0, <1>4, <2>2 DEF FindRow, BlackTypeOK, Running
  <2>4. Row' = Row /\ wanted' = wanted BY <1>4 DEF FindRow, Row
  <2>5. OneAtATime'
    <3>1. \A s \in Edits : edit'[s].pc # "none" => edit[s].pc # "none"
      BY <1>4, <2>3 DEF FindRow
    <3> QED BY <2>1, <3>1 DEF OneAtATime
  <2>6. WritesOnTop' BY <1>4, <2>1, <2>3, <2>4 DEF WritesOnTop, Changed, FindRow
  <2> QED BY <2>1, <2>4, <2>5, <2>6
<1>5. ASSUME NEW r \in Edits, WriteRow(r)
      PROVE  (OneAtATime /\ Row = wanted /\ WritesOnTop)'
  <2>1. OneAtATime /\ Row = wanted /\ WritesOnTop BY <1>1, <1>5 DEF WriteRow
  <2>2. Row' = edit[r].list BY <1>5 DEF WriteRow, Upserted, Row
  <2>3. edit[r].list = Changed(wanted, edit[r].req)
    BY <1>5, <2>1 DEF WriteRow, WritesOnTop
  <2>4. wanted' = Changed(wanted, edit[r].req) BY <1>5 DEF WriteRow
  <2>5. \A s \in Edits : edit'[s].pc = "none"
    BY <1>0, <1>5, <2>1 DEF WriteRow, OneAtATime, BlackTypeOK
  <2> QED BY <2>2, <2>3, <2>4, <2>5 DEF OneAtATime, WritesOnTop
<1>6. ASSUME NEW r \in Edits, EditFails(r)
      PROVE  (OneAtATime /\ Row = wanted /\ WritesOnTop)'
  BY <1>6 DEF EditFails
<1>7. ASSUME RestartAdmin PROVE (OneAtATime /\ Row = wanted /\ WritesOnTop)'
  BY <1>1, <1>7 DEF RestartAdmin, OneAtATime, WritesOnTop, Row, Changed
<1>8. ASSUME UNCHANGED blackVars PROVE (OneAtATime /\ Row = wanted /\ WritesOnTop)'
  BY <1>1, <1>8 DEF blackVars, OneAtATime, WritesOnTop, Row, Changed
<1> QED BY <1>2, <1>3, <1>4, <1>5, <1>6, <1>7, <1>8 DEF BlackNext

\* Whatever the number of requests to the two applications and however they
\* interleave: unless two of them overlap, one fails or the admin application
\* writes an old memory, the row holds what the answered ones asked for.
THEOREM TheRowIsWanted == BlackSpec => [](BlackTypeOK /\ RowIsWanted)
<1>1. ListKept => BlackTypeOK /\ RowIsWanted BY DEF ListKept, RowIsWanted
<1> QED BY ListKeptInit, ListKeptStep, <1>1, PTL DEF BlackSpec

-----------------------------------------------------------------------------
(***************************************************************************)
(* The simulated runs, and the drawdown of the resampled paths.            *)
(***************************************************************************)
LEMMA SimTyped == SimInit => SimTypeOK
<1> SUFFICES ASSUME SimInit PROVE SimTypeOK OBVIOUS
<1>1. <<>> \in Seq(Int) /\ Len(<<>>) = 0 BY EmptySeq
<1> QED BY <1>1, SimAssumption DEF SimInit, SimTypeOK, TradesDone, SimAssumption

LEMMA SimStepTyped == SimTypeOK /\ [SimNext]_simVars => SimTypeOK'
<1> SUFFICES ASSUME SimTypeOK, [SimNext]_simVars PROVE SimTypeOK' OBVIOUS
<1> USE SimAssumption DEF SimAssumption
<1>1. /\ turn \in 0..MaxTurns /\ simCapital \in Int /\ won \in Nat /\ lostTrades \in Nat
      /\ won + lostTrades <= turn /\ inARow \in 0..SimStreak /\ pauseLeft \in 0..SimPause
      /\ dailyLoss \in Nat /\ LossToday \in Nat
      /\ path \in Seq(Int) /\ Len(path) <= MaxSample
  BY DEF SimTypeOK, TradesDone, LossToday
\* A turn of the loop, with one trade at most.
<1>2. ASSUME Turn, simCapital' \in Int, dailyLoss' \in Nat,
             inARow' \in 0..SimStreak, pauseLeft' \in 0..SimPause,
             \/ won' = won /\ lostTrades' = lostTrades
             \/ won' = won + 1 /\ lostTrades' = lostTrades
             \/ won' = won /\ lostTrades' = lostTrades + 1
      PROVE  SimTypeOK'
  <2>1. turn' \in 0..MaxTurns /\ turn' = turn + 1 /\ path' = path
    BY <1>1, <1>2 DEF Turn
  <2>2. won' \in Nat /\ lostTrades' \in Nat /\ won' + lostTrades' <= turn'
    BY <1>1, <1>2, <2>1
  <2> QED BY <1>1, <1>2, <2>1, <2>2 DEF SimTypeOK, TradesDone
<1>3. CASE AtTheLimit BY <1>1, <1>2, <1>3 DEF AtTheLimit
<1>4. CASE Paused BY <1>1, <1>2, <1>4 DEF Paused
<1>5. CASE BeginPause BY <1>1, <1>2, <1>5 DEF BeginPause
<1>6. ASSUME NEW pnl \in Outcomes, Win(pnl) PROVE SimTypeOK'
  BY <1>1, <1>2, <1>6 DEF Win
<1>7. ASSUME NEW pnl \in Outcomes, Lose(pnl) PROVE SimTypeOK'
  BY <1>1, <1>2, <1>7 DEF Lose, MayTrade
<1>8. ASSUME NEW r \in Outcomes, Draw(r) PROVE SimTypeOK'
  <2>1. path' \in Seq(Int) /\ Len(path') = Len(path) + 1
    <3>1. PICK k \in Int : path' = Append(path, k)
      <4>1. CASE path = <<>> BY <1>8, <4>1 DEF Draw
      <4>2. CASE path # <<>>
        <5>1. path[Len(path)] \in Int BY <1>1, <4>2, EmptySeq, LenProperties, ElementOfSeq
        <5> QED BY <1>8, <4>2, <5>1 DEF Draw
      <4> QED BY <4>1, <4>2
    <3> QED BY <1>1, <3>1, AppendProperties
  <2>2. Len(path) \in Nat BY <1>1, LenProperties
  <2>3. Len(path') <= MaxSample BY <1>8, <2>1, <2>2 DEF Draw
  <2> QED BY <1>8, <2>1, <2>3 DEF Draw, SimTypeOK, TradesDone
<1>9. CASE UNCHANGED simVars BY <1>9 DEF simVars, SimTypeOK, TradesDone
<1> QED BY <1>3, <1>4, <1>5, <1>6, <1>7, <1>8, <1>9 DEF SimNext

\* In a simulated run no trade is made out of turn, and the counters of the
\* streak, of the pause and of the day's loss stay within their limits.
THEOREM SimTypeCorrect == SimSpec => []SimTypeOK
BY SimTyped, SimStepTyped, PTL DEF SimSpec

\* Finitely many integers have a greatest one: the one that the fewest exceed.
LEMMA MaxIsGreatest ==
  ASSUME NEW D, IsFiniteSet(D), D # {}, NEW f \in [D -> Int],
         NEW S, S = {f[d] : d \in D}
  PROVE  Max(S) \in S /\ \A y \in S : y <= Max(S)
<1> DEFINE Above(x) == {d \in D : f[d] > f[x]}
<1> DEFINE Counts == {Cardinality(Above(x)) : x \in D}
<1>1. \A x : IsFiniteSet(Above(x)) /\ Cardinality(Above(x)) \in Nat
  BY FS_Subset, FS_CardinalityType
<1>2. Counts \in SUBSET Nat /\ Counts # {} BY <1>1
<1>3. \E k \in Counts : \A j \in Counts : k <= j
  <2> HIDE DEF Counts
  <2> QED BY <1>2, NaturalsHaveALeast
<1>4. PICK x \in D : \A z \in D : Cardinality(Above(x)) <= Cardinality(Above(z))
  BY <1>3
<1>5. ASSUME NEW y \in D, f[y] > f[x] PROVE FALSE
  <2>1. Above(y) \subseteq Above(x) /\ y \in Above(x) /\ y \notin Above(y)
    <3>1. \A z \in D : f[z] > f[y] => f[z] > f[x] BY <1>5
    <3>2. ~ (f[y] > f[y]) OBVIOUS
    <3> QED BY <1>5, <3>1, <3>2
  <2>2. Above(y) \in SUBSET Above(x) /\ Above(y) # Above(x) BY <2>1
  <2>3. Cardinality(Above(y)) <= Cardinality(Above(x))
          /\ Cardinality(Above(y)) # Cardinality(Above(x))
    <3> HIDE DEF Above
    <3> QED BY <1>1, <2>2, FS_Subset
  <2>4. Cardinality(Above(x)) <= Cardinality(Above(y)) BY <1>4, <1>5
  <2>5. Cardinality(Above(x)) \in Nat /\ Cardinality(Above(y)) \in Nat BY <1>1
  <2> HIDE DEF Above
  <2> QED BY <2>3, <2>4, <2>5
<1>6. \A y \in D : f[x] >= f[y] BY <1>5
<1>7. \E z \in S : \A y \in S : z >= y BY <1>6
<1>8. Max(S) \in S /\ \A y \in S : Max(S) >= y BY <1>7 DEF Max
<1>9. S \subseteq Int OBVIOUS
<1> QED BY <1>8, <1>9

\* The running maximum is a point of the path so far, and none is above it.
LEMMA RunningMaxIsGreatest ==
  ASSUME NEW s \in Seq(Int), NEW i \in 1..Len(s)
  PROVE  /\ RunningMax(s, i) \in Int
         /\ \E j \in 1..i : RunningMax(s, i) = s[j]
         /\ \A j \in 1..i : s[j] <= RunningMax(s, i)
<1> DEFINE f == [j \in 1..i |-> s[j]]
<1>1. Len(s) \in Nat /\ \A j \in 1..Len(s) : s[j] \in Int BY LenProperties, ElementOfSeq
<1>2. f \in [1..i -> Int] /\ {s[j] : j \in 1..i} = {f[j] : j \in 1..i} BY <1>1
<1>3. IsFiniteSet(1..i) /\ 1..i # {}
  <2>1. 1 \in Int /\ i \in Int /\ 1 \in 1..i BY <1>1
  <2> QED BY <2>1, FS_Interval
<1>4. Max({s[j] : j \in 1..i}) \in {s[j] : j \in 1..i}
        /\ \A y \in {s[j] : j \in 1..i} : y <= Max({s[j] : j \in 1..i})
  <2> HIDE DEF f
  <2> QED BY <1>2, <1>3, MaxIsGreatest
<1>5. Max({s[j] : j \in 1..i}) = RunningMax(s, i) BY DEF RunningMax
<1>6. RunningMax(s, i) \in {s[j] : j \in 1..i}
        /\ \A y \in {s[j] : j \in 1..i} : y <= RunningMax(s, i)
  BY <1>4, <1>5
<1>7. \A j \in 1..i : s[j] \in Int BY <1>1
<1> QED BY <1>6, <1>7

LEMMA MaxDrawdownIsGreatest ==
  ASSUME NEW s \in Seq(Int), s # <<>>
  PROVE  /\ MaxDrawdown(s) \in Int
         /\ \E i \in 1..Len(s) : MaxDrawdown(s) = RunningMax(s, i) - s[i]
         /\ \A i \in 1..Len(s) : RunningMax(s, i) - s[i] <= MaxDrawdown(s)
<1> DEFINE f == [i \in 1..Len(s) |-> RunningMax(s, i) - s[i]]
<1> DEFINE S == {RunningMax(s, i) - s[i] : i \in 1..Len(s)}
<1>1. /\ Len(s) \in Nat /\ Len(s) # 0
      /\ \A i \in 1..Len(s) : s[i] \in Int /\ RunningMax(s, i) \in Int
  BY EmptySeq, LenProperties, ElementOfSeq, RunningMaxIsGreatest
<1>2. f \in [1..Len(s) -> Int] /\ S = {f[i] : i \in 1..Len(s)} BY <1>1
<1>3. IsFiniteSet(1..Len(s)) /\ 1..Len(s) # {}
  <2>1. 1 \in Int /\ Len(s) \in Int /\ 1 \in 1..Len(s) BY <1>1
  <2> QED BY <2>1, FS_Interval
<1>4. Max(S) \in S /\ \A y \in S : y <= Max(S)
  <2> HIDE DEF f, S
  <2> QED BY <1>2, <1>3, MaxIsGreatest
<1>5. Max(S) = MaxDrawdown(s) BY DEF MaxDrawdown
<1> QED BY <1>1, <1>4, <1>5

LEMMA LargestFallIsGreatest ==
  ASSUME NEW s \in Seq(Int)
  PROVE  /\ LargestFall(s) \in Int
         /\ \E i, j \in 0..Len(s) : i <= j /\ LargestFall(s) = At(s, i) - At(s, j)
         /\ \A i, j \in 0..Len(s) : i <= j => At(s, i) - At(s, j) <= LargestFall(s)
<1> DEFINE D == {p \in (0..Len(s)) \X (0..Len(s)) : p[1] <= p[2]}
<1> DEFINE f == [p \in D |-> At(s, p[1]) - At(s, p[2])]
<1> DEFINE S == {At(s, p[1]) - At(s, p[2]) : p \in D}
<1>1. Len(s) \in Nat /\ \A i \in 0..Len(s) : At(s, i) \in Int
  BY LenProperties, ElementOfSeq DEF At
<1>2. f \in [D -> Int] /\ S = {f[p] : p \in D} BY <1>1
<1>3. IsFiniteSet(D)
  <2>1. 0 \in Int /\ Len(s) \in Int BY <1>1
  <2>2. IsFiniteSet(0..Len(s)) BY <2>1, FS_Interval
  <2>3. IsFiniteSet((0..Len(s)) \X (0..Len(s))) BY <2>2, FS_Product, Zenon
  <2> QED BY <2>3, FS_Subset
<1>4. <<0, 0>> \in D BY <1>1
<1>5. Max(S) \in S /\ \A y \in S : y <= Max(S)
  <2> HIDE DEF D, f, S
  <2> QED BY <1>2, <1>3, <1>4, MaxIsGreatest
<1>6. Max(S) = LargestFall(s) BY DEF LargestFall
<1>7. \A i, j \in 0..Len(s) : i <= j => <<i, j>> \in D OBVIOUS
<1>8. ASSUME NEW i \in 0..Len(s), NEW j \in 0..Len(s), i <= j
      PROVE  At(s, i) - At(s, j) \in S
  <2>1. <<i, j>> \in D /\ <<i, j>>[1] = i /\ <<i, j>>[2] = j BY <1>7, <1>8
  <2> QED BY <2>1
<1>9. \E i, j \in 0..Len(s) : i <= j /\ Max(S) = At(s, i) - At(s, j) BY <1>5
<1>10. Max(S) \in Int BY <1>1, <1>9
<1> QED BY <1>5, <1>6, <1>8, <1>9, <1>10

LEMMA NoLessThanNothing ==
  ASSUME NEW x \in Int
  PROVE  Max({0, x}) \in Int /\ Max({0, x}) >= 0 /\ Max({0, x}) >= x
<1>1. \E z \in {0, x} : \A y \in {0, x} : z >= y OBVIOUS
<1>2. Max({0, x}) \in {0, x} /\ \A y \in {0, x} : Max({0, x}) >= y BY <1>1 DEF Max
<1> QED BY <1>2

\* The drawdown compares points of the path with each other, the largest fall
\* the start of the path as well: there only the first step can differ.
LEMMA DrawdownsCompared ==
  ASSUME NEW s \in Seq(Int), s # <<>>
  PROVE  /\ MaxDrawdown(s) <= LargestFall(s)
         /\ LargestFall(s) <= MaxDrawdown(s) + Max({0, -s[1]})
<1>1. /\ Len(s) \in Nat /\ Len(s) # 0 /\ \A i \in 1..Len(s) : s[i] \in Int
      /\ 1 \in 1..Len(s)
  BY EmptySeq, LenProperties, ElementOfSeq
<1>2. /\ MaxDrawdown(s) \in Int
      /\ \A i \in 1..Len(s) : RunningMax(s, i) - s[i] <= MaxDrawdown(s)
  BY MaxDrawdownIsGreatest
<1>3. /\ LargestFall(s) \in Int
      /\ \A i, j \in 0..Len(s) : i <= j => At(s, i) - At(s, j) <= LargestFall(s)
  BY LargestFallIsGreatest
<1>4. \A i \in 1..Len(s) : At(s, i) = s[i] /\ At(s, 0) = 0 BY <1>1 DEF At
<1>5. -s[1] \in Int /\ Max({0, -s[1]}) \in Int /\ Max({0, -s[1]}) >= 0
        /\ Max({0, -s[1]}) >= -s[1]
  BY <1>1, NoLessThanNothing
<1>6. MaxDrawdown(s) <= LargestFall(s)
  <2>1. PICK i \in 1..Len(s) : MaxDrawdown(s) = RunningMax(s, i) - s[i]
    BY MaxDrawdownIsGreatest
  <2>2. PICK j \in 1..i : RunningMax(s, i) = s[j] BY RunningMaxIsGreatest
  <2>3. j \in 1..Len(s) /\ j \in 0..Len(s) /\ i \in 0..Len(s) /\ j <= i BY <1>1
  <2>4. At(s, j) - At(s, i) <= LargestFall(s) BY <1>3, <2>3
  <2> QED BY <1>4, <2>1, <2>2, <2>3, <2>4
\* Whatever is below an earlier point of the path counts for the drawdown.
<1>7. ASSUME NEW i \in 1..Len(s), NEW j \in 1..Len(s), i <= j
      PROVE  s[i] - s[j] <= MaxDrawdown(s)
  <2>1. i \in 1..j BY <1>1, <1>7
  <2>2. RunningMax(s, j) \in Int /\ s[i] <= RunningMax(s, j)
    BY <2>1, RunningMaxIsGreatest
  <2>3. RunningMax(s, j) - s[j] <= MaxDrawdown(s) BY <1>2
  <2> QED BY <1>1, <1>2, <2>2, <2>3
<1>8. LargestFall(s) <= MaxDrawdown(s) + Max({0, -s[1]})
  <2>1. PICK i \in 0..Len(s), j \in 0..Len(s) :
          i <= j /\ LargestFall(s) = At(s, i) - At(s, j)
    BY LargestFallIsGreatest
  <2>2. 0 <= MaxDrawdown(s)
    <3>1. s[1] - s[1] <= MaxDrawdown(s) BY <1>1, <1>7
    <3> QED BY <1>1, <3>1
  <2>3. CASE i # 0
    <3>1. i \in 1..Len(s) /\ j \in 1..Len(s) BY <1>1, <2>1, <2>3
    <3>2. LargestFall(s) = s[i] - s[j] BY <1>4, <2>1, <3>1
    <3>3. s[i] - s[j] <= MaxDrawdown(s) BY <1>7, <2>1, <3>1
    <3> QED BY <1>2, <1>3, <1>5, <3>2, <3>3
  <2>4. CASE i = 0 /\ j = 0
    <3>1. LargestFall(s) = 0 BY <1>1, <1>4, <2>1, <2>4
    <3> QED BY <1>2, <1>5, <2>2, <3>1
  <2>5. CASE i = 0 /\ j # 0
    <3>1. j \in 1..Len(s) /\ 1 <= j BY <1>1, <2>5
    <3>2. LargestFall(s) = -s[j] /\ s[j] \in Int BY <1>1, <1>4, <2>1, <2>5, <3>1
    <3>3. s[1] - s[j] <= MaxDrawdown(s) BY <1>1, <1>7, <3>1
    <3> QED BY <1>1, <1>2, <1>5, <3>2, <3>3
  <2> QED BY <2>3, <2>4, <2>5
<1> QED BY <1>6, <1>8

\* The drawdown that is reported for a resampled path is its largest fall from
\* an earlier high, save a loss of the first trade: for every path, however
\* long and whatever its returns.
THEOREM DrawdownsMissFirstLossOnly == SimSpec => []DrawdownMissesFirstLoss
<1>1. SimTypeOK => DrawdownMissesFirstLoss
  <2> SUFFICES ASSUME SimTypeOK PROVE DrawdownMissesFirstLoss OBVIOUS
  <2>1. path \in Seq(Int) BY DEF SimTypeOK
  <2>2. path # <<>> =>
          /\ MaxDrawdown(path) <= LargestFall(path)
          /\ LargestFall(path) <= MaxDrawdown(path) + Max({0, -path[1]})
    BY <2>1, DrawdownsCompared
  <2> QED BY <2>2 DEF DrawdownMissesFirstLoss
<1> QED BY <1>1, SimTypeCorrect, PTL

-----------------------------------------------------------------------------
(***************************************************************************)
(* The scan of the markets.  First what folds over sequences return, by    *)
(* induction: d[k] is what the first k steps lead to.                      *)
(***************************************************************************)

\* d is what the first steps of n lead to, each time.
IsRun(d, n, base, step) ==
  d[0] = base /\ \A k \in 1..n : d[k] = step[k][d[k - 1]]

\* Steps that can always be taken can be taken one after the other.
LEMMA RunExists ==
  ASSUME NEW n \in Nat, NEW V, NEW base \in V, NEW step \in [1..n -> [V -> V]]
  PROVE  \E d \in [0..n -> V] : IsRun(d, n, base, step)
<1> DEFINE T == {m \in Nat : m <= n => \E d \in [0..m -> V] : IsRun(d, m, base, step)}
<1>1. 0 \in T
  <2> DEFINE d == [k \in 0..0 |-> base]
  <2>1. d \in [0..0 -> V] /\ IsRun(d, 0, base, step) BY DEF IsRun
  <2> HIDE DEF d
  <2> QED BY <2>1
<1>2. ASSUME NEW m \in Nat, m \in T PROVE m + 1 \in T
  <2> SUFFICES ASSUME m + 1 <= n
               PROVE  \E d \in [0..(m + 1) -> V] : IsRun(d, m + 1, base, step)
    OBVIOUS
  <2>1. PICK d \in [0..m -> V] : IsRun(d, m, base, step) BY <1>2
  <2> DEFINE e == [k \in 0..(m + 1) |-> IF k <= m THEN d[k] ELSE step[m + 1][d[m]]]
  <2>2. step[m + 1] \in [V -> V] /\ d[m] \in V OBVIOUS
  <2>3. e \in [0..(m + 1) -> V] BY <2>2
  <2>4. e[0] = base BY <2>1 DEF IsRun
  <2>5. ASSUME NEW k \in 1..(m + 1) PROVE e[k] = step[k][e[k - 1]]
    <3>1. CASE k <= m
      <4>1. k \in 1..m /\ k - 1 \in 0..m /\ k - 1 <= m BY <3>1
      <4> QED BY <2>1, <3>1, <4>1 DEF IsRun
    <3>2. CASE k = m + 1 BY <3>2
    <3> QED BY <3>1, <3>2
  <2> HIDE DEF e
  <2> QED BY <2>3, <2>4, <2>5 DEF IsRun
<1>3. n \in T
  <2> HIDE DEF T
  <2> QED BY <1>1, <1>2, AllNaturals
<1> QED BY <1>3

\* Numbers up to n have a greatest one.
LEMMA MaxOfNumbers ==
  ASSUME NEW n \in Nat, NEW s \in SUBSET (1..n), s # {}
  PROVE  Max(s) \in s /\ \A y \in s : y <= Max(s)
<1> DEFINE f == [x \in s |-> x]
<1>1. IsFiniteSet(s)
  <2>1. IsFiniteSet(1..n) BY FS_Interval
  <2> QED BY <2>1, FS_Subset
<1>2. f \in [s -> Int] OBVIOUS
<1>3. s = {f[x] : x \in s}
  <2>1. \A x \in s : f[x] = x OBVIOUS
  <2> HIDE DEF f
  <2> QED BY <2>1
<1> HIDE DEF f
<1> QED BY <1>1, <1>2, <1>3, MaxIsGreatest

\* Of the first k numbers the last one is taken first.
LEMMA FirstNumbers ==
  ASSUME NEW k \in Nat \ {0}
  PROVE  Max(1..k) = k /\ (1..k) \ {k} = 1..(k - 1)
<1>1. 1..k \in SUBSET (1..k) /\ k \in 1..k OBVIOUS
<1>2. Max(1..k) \in 1..k /\ k <= Max(1..k) BY <1>1, MaxOfNumbers
<1>3. (1..k) \ {k} = 1..(k - 1) OBVIOUS
<1> QED BY <1>2, <1>3

\* The value of a fold from the left at each set of places.
FoldedAt(g, s, base, step) ==
  IF s = {} THEN base ELSE step[Max(s)][g[s \ {Max(s)}]]

IsLeftFold(g, n, base, step) ==
  \A s \in SUBSET (1..n) : g[s] = FoldedAt(g, s, base, step)

\* A fold from the left has a value at each set of places.
LEMMA FoldFromLeftExists ==
  ASSUME NEW n \in Nat, NEW V, NEW base \in V, NEW step \in [1..n -> [V -> V]]
  PROVE  \E g \in [SUBSET (1..n) -> V] : IsLeftFold(g, n, base, step)
<1> DEFINE S == 1..n
           pick == [s \in SUBSET S |-> Max(s)]
           each == [s \in SUBSET S |-> [v \in V |-> IF s = {} THEN v ELSE step[Max(s)][v]]]
<1>1. Chooses(pick, S) BY MaxOfNumbers DEF Chooses
<1>2. each \in [SUBSET S -> [V -> V]]
  <2> SUFFICES ASSUME NEW s \in SUBSET S, NEW v \in V, s # {}
               PROVE  step[Max(s)][v] \in V
    OBVIOUS
  <2>1. Max(s) \in 1..n BY MaxOfNumbers
  <2> QED BY <2>1
<1>3. IsFiniteSet(S) BY FS_Interval
<1>4. PICK g \in [SUBSET S -> V] : IsFold(g, S, base, each, pick)
  <2> HIDE DEF S, pick, each
  <2> QED BY <1>1, <1>2, <1>3, FoldExists
<1>5. ASSUME NEW s \in SUBSET S PROVE g[s] = FoldedAt(g, s, base, step)
  <2>1. CASE s = {} BY <1>4, <2>1 DEF IsFold, FoldedAt
  <2>2. CASE s # {}
    <3>1. g[s] = each[s][g[s \ {pick[s]}]]
      <4> HIDE DEF S, each, pick
      <4> QED BY <1>4, <2>2 DEF IsFold
    <3>2. pick[s] = Max(s) /\ s \ {Max(s)} \in SUBSET S OBVIOUS
    <3>3. g[s \ {Max(s)}] \in V BY <3>2
    <3> QED BY <2>2, <3>1, <3>2, <3>3 DEF FoldedAt
  <2> QED BY <2>1, <2>2
<1> QED BY <1>5 DEF IsLeftFold


\* The symbol of c was seen.
Known(s, c) == \E k \in DOMAIN s : s[k].symbol = c.symbol

\* What is kept of a symbol is a candidate again.
LEMMA MoreLiquidTyped ==
  ASSUME NEW s \in Seq(Found), NEW c \in Found
  PROVE  /\ MoreLiquid(s, c) \in Seq(Found)
         /\ Len(MoreLiquid(s, c)) = Len(s)
<1>1. DOMAIN s = 1..Len(s) /\ Len(s) \in Nat OBVIOUS
<1>2. \A k \in 1..Len(s) : s[k] \in Found OBVIOUS
<1>3. MoreLiquid(s, c) \in [1..Len(s) -> Found] BY <1>1, <1>2 DEF MoreLiquid
<1> QED BY <1>1, <1>3

\* A symbol that was seen keeps its place, with the greater volume.
LEMMA SeenAgain ==
  ASSUME NEW s \in Seq(Found), NEW c \in Found, Known(s, c)
  PROVE  /\ Seen(s, c) \in Seq(Found) /\ Len(Seen(s, c)) = Len(s)
         /\ \A k \in 1..Len(s) : Seen(s, c)[k] =
              IF s[k].symbol = c.symbol /\ c.volume > s[k].volume THEN c ELSE s[k]
<1>1. Seen(s, c) = MoreLiquid(s, c) BY DEF Seen, FirstOf, Known
<1>2. DOMAIN s = 1..Len(s) OBVIOUS
<1> QED BY <1>1, <1>2, MoreLiquidTyped DEF MoreLiquid

\* A symbol that was not seen is entered at the end.
LEMMA SeenFirst ==
  ASSUME NEW s \in Seq(Found), NEW c \in Found, ~Known(s, c)
  PROVE  /\ Seen(s, c) \in Seq(Found) /\ Len(Seen(s, c)) = Len(s) + 1
         /\ \A k \in 1..Len(s) : Seen(s, c)[k] = s[k]
         /\ Seen(s, c)[Len(s) + 1] = c
<1> DEFINE a == Append(s, c)
<1>1. Seen(s, c) = MoreLiquid(a, c) BY DEF Seen, FirstOf, Known
<1>2. /\ a \in Seq(Found) /\ Len(a) = Len(s) + 1 /\ DOMAIN a = 1..(Len(s) + 1)
      /\ \A k \in 1..Len(s) : a[k] = s[k]
      /\ a[Len(s) + 1] = c
  OBVIOUS
<1>3. \A k \in 1..Len(s) : s[k].symbol # c.symbol BY DEF Known
<1>4. Len(s) \in Nat OBVIOUS
<1>5. c.volume \in Nat BY DEF Found
<1>6. ~(c.volume > c.volume) BY <1>5
<1> HIDE DEF a
<1>7. \A k \in 1..(Len(s) + 1) : MoreLiquid(a, c)[k] =
         IF a[k].symbol = c.symbol /\ c.volume > a[k].volume THEN c ELSE a[k]
  BY <1>2 DEF MoreLiquid
<1>8. \A k \in 1..Len(s) : MoreLiquid(a, c)[k] = s[k] BY <1>2, <1>3, <1>4, <1>7
<1>9. MoreLiquid(a, c)[Len(s) + 1] = c BY <1>2, <1>4, <1>6, <1>7
<1> QED BY <1>1, <1>2, <1>8, <1>9, MoreLiquidTyped

\* Either way what was seen remains a list of candidates.
LEMMA SeenTyped ==
  ASSUME NEW s \in Seq(Found), NEW c \in Found
  PROVE  Seen(s, c) \in Seq(Found)
BY SeenAgain, SeenFirst

\* Deduplication takes one candidate after the other.
LEMMA DeduplicatedInTurn ==
  ASSUME NEW n \in Nat, NEW list \in [1..n -> Found]
  PROVE  \E d : /\ d[0] = <<>> /\ \A k \in 1..n : d[k] = Seen(d[k - 1], list[k])
                /\ Deduplicated(list) = d[n]
<1> DEFINE S == 1..n
           V == Seq(Found)
           step == [k \in S |-> [v \in V |-> Seen(v, list[k])]]
           Body(g, s) == IF s = {} THEN <<>>
                         ELSE Seen(g[s \ {Max(s)}], list[Max(s)])
           Iter == CHOOSE g : g = [s \in SUBSET S |-> Body(g, s)]
<1>1. Deduplicated(list) = Iter[S]
  <2>1. DOMAIN list = S OBVIOUS
  <2> HIDE DEF S
  <2> QED BY <2>1 DEF Deduplicated, FoldLeft, MapThenFoldSet
<1>2. <<>> \in V /\ step \in [S -> [V -> V]] BY SeenTyped
<1>3. PICK g \in [SUBSET S -> V] : IsLeftFold(g, n, <<>>, step)
  <2> HIDE DEF V, step
  <2> QED BY <1>2, FoldFromLeftExists
<1>4. ASSUME NEW s \in SUBSET S PROVE g[s] = Body(g, s)
  <2>1. CASE s = {} BY <1>3, <2>1 DEF IsLeftFold, FoldedAt
  <2>2. CASE s # {}
    <3>1. Max(s) \in S BY <2>2, MaxOfNumbers
    <3>2. g[s \ {Max(s)}] \in V OBVIOUS
    <3>3. step[Max(s)][g[s \ {Max(s)}]] = Seen(g[s \ {Max(s)}], list[Max(s)])
      <4> HIDE DEF V
      <4> QED BY <3>1, <3>2
    <3> HIDE DEF step, V
    <3> QED BY <1>3, <2>2, <3>3 DEF IsLeftFold, FoldedAt
  <2> QED BY <2>1, <2>2
<1>5. g = [s \in SUBSET S |-> Body(g, s)]
  <2> HIDE DEF Body, V, S
  <2> QED BY <1>3, <1>4
<1>6. Iter = [s \in SUBSET S |-> Body(Iter, s)]
  <2> HIDE DEF Body, S
  <2> QED BY <1>5
<1>7. ASSUME NEW s \in SUBSET S PROVE Iter[s] = Body(Iter, s)
  <2> HIDE DEF Body, Iter, S
  <2> QED BY <1>6
<1> DEFINE d == [k \in 0..n |-> Iter[1..k]]
<1>8. d[0] = <<>>
  <2>1. 1..0 = {} /\ {} \in SUBSET S OBVIOUS
  <2>2. Iter[{}] = <<>>
    <3> HIDE DEF Iter
    <3> QED BY <2>1, <1>7
  <2> HIDE DEF Iter
  <2> QED BY <2>1, <2>2
<1>9. ASSUME NEW k \in 1..n PROVE d[k] = Seen(d[k - 1], list[k])
  <2>1. 1..k \in SUBSET S /\ k \in 1..k /\ k \in 0..n /\ k - 1 \in 0..n
    <3> HIDE DEF Iter, Body
    <3> QED OBVIOUS
  <2>2. Max(1..k) = k /\ (1..k) \ {k} = 1..(k - 1) BY FirstNumbers
  <2> HIDE DEF Iter
  <2>3. Iter[1..k] = Seen(Iter[1..(k - 1)], list[k]) BY <1>7, <2>1, <2>2
  <2> QED BY <2>1, <2>3
<1>10. d[n] = Deduplicated(list)
  <2> HIDE DEF Iter
  <2> QED BY <1>1
<1> HIDE DEF d
<1> QED BY <1>8, <1>9, <1>10


-----------------------------------------------------------------------------
(***************************************************************************)
(* What deduplication leaves of the first k candidates of a list that is   *)
(* sorted by gain.                                                         *)
(***************************************************************************)

\* The greatest gains come first.
Falling(list, n) == \A i, j \in 1..n : i < j => list[i].gain >= list[j].gain

\* f is rather kept than e.
Covers(f, e) == f.volume > e.volume \/ (f.volume = e.volume /\ f.gain >= e.gain)

\* Each symbol is there once,
Once(s) == \A i, j \in DOMAIN s : s[i].symbol = s[j].symbol => i = j

\* as one of the first k of the list,
Taken(s, list, k) == \A i \in DOMAIN s : \E m \in 1..k : s[i] = list[m]

\* one that is rather kept than any other of them,
CoveredAt(s, e) == \E i \in DOMAIN s : s[i].symbol = e.symbol /\ Covers(s[i], e)

Covered(s, list, k) == \A m \in 1..k : CoveredAt(s, list[m])

\* A symbol had a gain before that no candidate of the other exceeds.
Leads(a, b, list, k) ==
  \E m \in 1..k :
    /\ list[m].symbol = a
    /\ \A q \in 1..k : list[q].symbol = b => list[m].gain >= list[q].gain

InOrder(s, list, k) ==
  \A i, j \in DOMAIN s : i < j => Leads(s[i].symbol, s[j].symbol, list, k)

Left(s, list, k) ==
  s \in Seq(Found) /\ Once(s) /\ Taken(s, list, k) /\ Covered(s, list, k)
    /\ InOrder(s, list, k)

\* A candidate is as liquid as itself.
LEMMA CoversItself ==
  ASSUME NEW e \in Found
  PROVE  Covers(e, e)
<1>1. e.volume \in Nat /\ e.gain \in Int BY DEF Found
<1> QED BY <1>1 DEF Covers

\* Who has more volume than one that covers another covers it, too.
LEMMA CoversOnwards ==
  ASSUME NEW a \in Found, NEW b \in Found, NEW e \in Found,
         a.volume > b.volume, Covers(b, e)
  PROVE  Covers(a, e)
<1>1. a.volume \in Nat /\ b.volume \in Nat /\ e.volume \in Nat BY DEF Found
<1>2. b.volume >= e.volume BY <1>1 DEF Covers
<1>3. a.volume > e.volume BY <1>1, <1>2
<1> QED BY <1>3 DEF Covers

\* A candidate whose symbol was seen before follows candidates of no smaller gain.
LEMMA LeftOfKnown ==
  ASSUME NEW n \in Nat, NEW list \in [1..n -> Found], Falling(list, n),
         NEW k \in 1..n, NEW s, Left(s, list, k - 1), Known(s, list[k])
  PROVE  Left(Seen(s, list[k]), list, k)
<1> DEFINE c == list[k]
           t == Seen(s, c)
<1>1. c \in Found OBVIOUS
<1>2. s \in Seq(Found) /\ DOMAIN s = 1..Len(s) /\ Len(s) \in Nat BY DEF Left
<1>3. t \in Seq(Found) /\ DOMAIN t = DOMAIN s
  BY <1>1, <1>2, SeenAgain
<1>4. \A i \in DOMAIN s :
        t[i] = IF s[i].symbol = c.symbol /\ c.volume > s[i].volume THEN c ELSE s[i]
  BY <1>1, <1>2, SeenAgain
<1>5. \A i \in DOMAIN s : t[i].symbol = s[i].symbol BY <1>4
<1>6. \A m \in 1..(k - 1) : m \in 1..k /\ m \in 1..n /\ m < k OBVIOUS
<1>7. \A i \in DOMAIN s : s[i] \in Found BY <1>2
<1> HIDE DEF c, t
<1>8. Once(t) BY <1>3, <1>5 DEF Left, Once
<1>9. Taken(t, list, k)
  <2>1. ASSUME NEW i \in DOMAIN s PROVE \E m \in 1..k : t[i] = list[m]
    <3>1. CASE t[i] = c BY <3>1 DEF c
    <3>2. CASE t[i] = s[i] BY <3>2, <1>6 DEF Left, Taken
    <3> QED BY <1>4, <3>1, <3>2
  <2> QED BY <1>3, <2>1 DEF Taken
<1>10. Covered(t, list, k)
  <2>1. ASSUME NEW m \in 1..(k - 1) PROVE CoveredAt(t, list[m])
    <3>1. PICK i \in DOMAIN s : s[i].symbol = list[m].symbol /\ Covers(s[i], list[m])
      BY DEF Left, Covered, CoveredAt
    <3>2. list[m] \in Found /\ s[i] \in Found BY <1>6, <1>7
    <3>3. Covers(t[i], list[m])
      BY <1>1, <1>4, <3>1, <3>2, CoversOnwards
    <3> QED BY <1>3, <1>5, <3>1, <3>3 DEF CoveredAt
  <2>2. CoveredAt(t, c)
    <3>1. PICK i \in DOMAIN s : s[i].symbol = c.symbol BY DEF Known, c
    <3>2. CASE c.volume > s[i].volume
      <4>1. t[i] = c BY <1>4, <3>1, <3>2
      <4> QED BY <1>1, <1>3, <4>1, CoversItself DEF CoveredAt
    <3>3. CASE ~(c.volume > s[i].volume)
      <4>1. t[i] = s[i] BY <1>4, <3>3
      <4>2. PICK m \in 1..(k - 1) : s[i] = list[m] BY DEF Left, Taken
      <4>3. s[i].gain >= c.gain BY <1>6, <4>2 DEF Falling, c
      <4>4. c.volume \in Nat /\ s[i].volume \in Nat BY <1>1, <1>7 DEF Found
      <4>5. Covers(s[i], c) BY <3>3, <4>3, <4>4 DEF Covers
      <4> QED BY <1>3, <3>1, <4>1, <4>5 DEF CoveredAt
    <3> QED BY <3>2, <3>3
  <2>3. \A m \in 1..k : m \in 1..(k - 1) \/ m = k OBVIOUS
  <2> QED BY <2>1, <2>2, <2>3 DEF Covered, c
<1>11. InOrder(t, list, k)
  <2> SUFFICES ASSUME NEW i \in DOMAIN s, NEW j \in DOMAIN s, i < j
               PROVE  Leads(s[i].symbol, s[j].symbol, list, k)
    BY <1>3, <1>5 DEF InOrder
  <2>1. Leads(s[i].symbol, s[j].symbol, list, k - 1) BY DEF Left, InOrder
  <2>2. PICK m \in 1..(k - 1) :
          /\ list[m].symbol = s[i].symbol
          /\ \A q \in 1..(k - 1) : list[q].symbol = s[j].symbol =>
               list[m].gain >= list[q].gain
    BY <2>1 DEF Leads
  <2>3. list[m].gain >= list[k].gain BY <1>6 DEF Falling
  <2>4. \A q \in 1..k : q \in 1..(k - 1) \/ q = k OBVIOUS
  <2> QED BY <1>6, <2>2, <2>3, <2>4 DEF Leads
<1> QED BY <1>3, <1>8, <1>9, <1>10, <1>11 DEF Left, c, t

\* A candidate of a new symbol comes last, and has no greater gain.
LEMMA LeftOfNew ==
  ASSUME NEW n \in Nat, NEW list \in [1..n -> Found], Falling(list, n),
         NEW k \in 1..n, NEW s, Left(s, list, k - 1), ~Known(s, list[k])
  PROVE  Left(Seen(s, list[k]), list, k)
<1> DEFINE c == list[k]
           t == Seen(s, c)
           new == Len(s) + 1
<1>1. c \in Found OBVIOUS
<1>2. s \in Seq(Found) /\ DOMAIN s = 1..Len(s) /\ Len(s) \in Nat BY DEF Left
<1>3. t \in Seq(Found) /\ Len(t) = Len(s) + 1 BY <1>1, <1>2, SeenFirst
<1>4. DOMAIN t = DOMAIN s \cup {new} /\ \A i \in DOMAIN s : i < new /\ i # new
  BY <1>2, <1>3
<1>5. \A i \in DOMAIN s : t[i] = s[i] BY <1>1, <1>2, SeenFirst
<1>6. t[new] = c BY <1>1, <1>2, SeenFirst
<1>7. \A m \in 1..(k - 1) : m \in 1..k /\ m \in 1..n /\ m < k OBVIOUS
<1>8. \A i \in DOMAIN s : s[i].symbol # c.symbol BY DEF Known
<1>9. \A m \in 1..k : m \in 1..(k - 1) \/ m = k OBVIOUS
<1>10. \A i \in DOMAIN s : ~(new < i)
  BY <1>2
<1>11. ~(new < new) BY <1>2
<1> HIDE DEF c, t, new
<1>12. Once(t) BY <1>4, <1>5, <1>6, <1>8 DEF Left, Once
<1>13. Taken(t, list, k)
  <2>1. \A i \in DOMAIN s : \E m \in 1..k : t[i] = list[m]
    BY <1>5, <1>7 DEF Left, Taken
  <2>2. k \in 1..k /\ t[new] = list[k] BY <1>6 DEF c
  <2> QED BY <1>4, <2>1, <2>2 DEF Taken
<1>14. Covered(t, list, k)
  <2>1. ASSUME NEW m \in 1..(k - 1) PROVE CoveredAt(t, list[m])
    BY <1>4, <1>5 DEF Left, Covered, CoveredAt
  <2>2. CoveredAt(t, c) BY <1>1, <1>4, <1>6, CoversItself DEF CoveredAt
  <2> QED BY <1>9, <2>1, <2>2 DEF Covered, c
<1>15. InOrder(t, list, k)
  <2>1. ASSUME NEW i \in DOMAIN s, NEW j \in DOMAIN s, i < j
        PROVE  Leads(s[i].symbol, s[j].symbol, list, k)
    <3>1. Leads(s[i].symbol, s[j].symbol, list, k - 1) BY <2>1 DEF Left, InOrder
    <3>2. PICK m \in 1..(k - 1) :
            /\ list[m].symbol = s[i].symbol
            /\ \A q \in 1..(k - 1) : list[q].symbol = s[j].symbol =>
                 list[m].gain >= list[q].gain
      BY <3>1 DEF Leads
    <3>3. list[m].gain >= list[k].gain BY <1>7 DEF Falling
    <3> QED BY <1>7, <1>9, <3>2, <3>3 DEF Leads
  <2>2. ASSUME NEW i \in DOMAIN s PROVE Leads(s[i].symbol, c.symbol, list, k)
    <3>1. PICK m \in 1..(k - 1) : s[i] = list[m] BY DEF Left, Taken
    <3>2. list[m].gain >= list[k].gain BY <1>7 DEF Falling
    <3>3. \A q \in 1..(k - 1) : list[q].symbol # c.symbol
      BY <1>8 DEF Left, Covered, CoveredAt
    <3> QED BY <1>7, <1>9, <3>1, <3>2, <3>3 DEF Leads
  <2> QED BY <1>4, <1>5, <1>6, <1>10, <1>11, <2>1, <2>2 DEF InOrder
<1> QED BY <1>3, <1>12, <1>13, <1>14, <1>15 DEF Left, c, t

\* Of a list that is sorted by gain, deduplication leaves each symbol once, the
\* most liquid candidate of it, in the order of the best gains.
LEMMA DeduplicationIsRight ==
  ASSUME NEW n \in Nat, NEW list \in [1..n -> Found], Falling(list, n)
  PROVE  Left(Deduplicated(list), list, n)
<1>1. PICK d : /\ d[0] = <<>> /\ \A k \in 1..n : d[k] = Seen(d[k - 1], list[k])
               /\ Deduplicated(list) = d[n]
  BY DeduplicatedInTurn
<1> DEFINE T == {k \in Nat : k <= n => Left(d[k], list, k)}
<1>2. 0 \in T
  <2>1. DOMAIN <<>> = {} /\ 1..0 = {} /\ <<>> \in Seq(Found) OBVIOUS
  <2>2. Left(<<>>, list, 0)
    BY <2>1 DEF Left, Once, Taken, Covered, InOrder
  <2> QED BY <1>1, <2>2
<1>3. ASSUME NEW m \in Nat, m \in T PROVE m + 1 \in T
  <2> SUFFICES ASSUME m + 1 <= n PROVE Left(d[m + 1], list, m + 1)
    OBVIOUS
  <2> DEFINE k == m + 1
  <2>1. k \in 1..n /\ k - 1 = m OBVIOUS
  <2>2. Left(d[k - 1], list, k - 1) BY <1>3, <2>1
  <2>3. d[k] = Seen(d[k - 1], list[k]) BY <1>1, <2>1
  <2> HIDE DEF k
  <2>4. Left(d[k], list, k) BY <2>1, <2>2, <2>3, LeftOfKnown, LeftOfNew
  <2> QED BY <2>4 DEF k
<1>4. n \in T
  <2> HIDE DEF T
  <2> QED BY <1>2, <1>3, AllNaturals
<1> QED BY <1>1, <1>4


-----------------------------------------------------------------------------
(***************************************************************************)
(* The sort: a candidate's place is known by how many are ahead of it.     *)
(***************************************************************************)

\* Fewer are ahead of one that is itself ahead.
LEMMA AheadIsStrict ==
  ASSUME NEW n \in Nat, NEW list \in [1..n -> Found],
         NEW i \in 1..n, NEW j \in Ahead(list, i)
  PROVE  Cardinality(Ahead(list, j)) < Cardinality(Ahead(list, i))
<1> DEFINE A == Ahead(list, i)
           B == Ahead(list, j)
<1>1. DOMAIN list = 1..n /\ j \in 1..n BY DEF Ahead
<1>2. \A x \in 1..n : list[x].gain \in Int BY DEF Found
<1>3. B \in SUBSET A
  <2> SUFFICES ASSUME NEW x \in B PROVE x \in A
    OBVIOUS
  <2>1. x \in 1..n BY <1>1 DEF Ahead
  <2>2. \/ list[x].gain > list[j].gain
        \/ list[x].gain = list[j].gain /\ x < j
    BY DEF Ahead
  <2>3. \/ list[j].gain > list[i].gain
        \/ list[j].gain = list[i].gain /\ j < i
    BY DEF Ahead
  <2>4. list[x].gain \in Int /\ list[j].gain \in Int /\ list[i].gain \in Int
    BY <1>1, <1>2, <2>1
  <2>5. \/ list[x].gain > list[i].gain
        \/ list[x].gain = list[i].gain /\ x < i
    BY <1>1, <2>1, <2>2, <2>3, <2>4
  <2> QED BY <1>1, <2>1, <2>5 DEF Ahead
<1>4. j \notin B
  <2>1. ~(list[j].gain > list[j].gain) /\ ~(j < j) BY <1>1, <1>2
  <2> QED BY <2>1 DEF Ahead
<1>5. IsFiniteSet(A)
  <2>1. IsFiniteSet(1..n) BY FS_Interval
  <2>2. A \in SUBSET (1..n) BY <1>1 DEF Ahead
  <2> QED BY <2>1, <2>2, FS_Subset
<1>6. B # A BY <1>4
<1>7. /\ IsFiniteSet(B) /\ Cardinality(B) <= Cardinality(A)
      /\ Cardinality(A) = Cardinality(B) => A = B
  <2> HIDE DEF A, B
  <2> QED BY <1>3, <1>5, FS_Subset
<1>8. Cardinality(A) \in Nat /\ Cardinality(B) \in Nat
  BY <1>5, <1>7, FS_CardinalityType
<1> HIDE DEF A, B
<1>9. Cardinality(B) < Cardinality(A) BY <1>6, <1>7, <1>8
<1> QED BY <1>9 DEF A, B

\* Each place is that of one candidate.
LEMMA PlacesAreTaken ==
  ASSUME NEW n \in Nat, NEW list \in [1..n -> Found]
  PROVE  /\ \A k \in 1..n : \E i \in 1..n : Cardinality(Ahead(list, i)) = k - 1
         /\ \A i \in 1..n : Cardinality(Ahead(list, i)) + 1 \in 1..n
         /\ \A i, j \in 1..n :
              Cardinality(Ahead(list, i)) = Cardinality(Ahead(list, j)) => i = j
<1> DEFINE place == [i \in 1..n |-> Cardinality(Ahead(list, i)) + 1]
<1>1. IsFiniteSet(1..n) /\ Cardinality(1..n) = n
  <2>1. /\ IsFiniteSet(1..n)
        /\ Cardinality(1..n) = IF 1 > n THEN 0 ELSE n - 1 + 1
    BY FS_Interval
  <2> QED BY <2>1
<1>2. ASSUME NEW i \in 1..n
      PROVE  Cardinality(Ahead(list, i)) \in Nat /\ Cardinality(Ahead(list, i)) <= n - 1
  <2> DEFINE Rest == (1..n) \ {i}
  <2>1. IsFiniteSet(Rest) /\ Cardinality(Rest) = n - 1
    <3>1. /\ IsFiniteSet(Rest)
          /\ Cardinality(Rest) =
               IF i \in 1..n THEN Cardinality(1..n) - 1 ELSE Cardinality(1..n)
      BY <1>1, FS_RemoveElement, Zenon
    <3> HIDE DEF Rest
    <3> QED BY <1>1, <3>1
  <2>2. Ahead(list, i) \in SUBSET Rest
    <3>1. list[i].gain \in Int BY DEF Found
    <3>2. ~(list[i].gain > list[i].gain) /\ ~(i < i) BY <3>1
    <3> QED BY <3>2 DEF Ahead
  <2> HIDE DEF Rest
  <2>3. IsFiniteSet(Ahead(list, i)) /\ Cardinality(Ahead(list, i)) <= n - 1
    BY <2>1, <2>2, FS_Subset
  <2> QED BY <2>3, FS_CardinalityType
<1>3. ASSUME NEW i \in 1..n, NEW j \in 1..n, i # j
      PROVE  i \in Ahead(list, j) \/ j \in Ahead(list, i)
  <2>1. list[i].gain \in Int /\ list[j].gain \in Int BY DEF Found
  <2>2. list[i].gain = list[j].gain \/ list[i].gain > list[j].gain
          \/ list[j].gain > list[i].gain
    BY <2>1
  <2>3. i < j \/ j < i BY <1>3
  <2>4. DOMAIN list = 1..n OBVIOUS
  <2> QED BY <2>2, <2>3, <2>4 DEF Ahead
<1>4. ASSUME NEW i \in 1..n, NEW j \in 1..n,
             Cardinality(Ahead(list, i)) = Cardinality(Ahead(list, j)), i # j
      PROVE  FALSE
  <2>1. Cardinality(Ahead(list, i)) < Cardinality(Ahead(list, j))
          \/ Cardinality(Ahead(list, j)) < Cardinality(Ahead(list, i))
    BY <1>3, <1>4, AheadIsStrict
  <2> QED BY <1>2, <1>4, <2>1
<1>5. \A i \in 1..n : Cardinality(Ahead(list, i)) + 1 \in 1..n
  BY <1>2
<1>6. place \in [1..n -> 1..n] BY <1>5
<1>7. \A i, j \in 1..n : place[i] = place[j] => i = j
  <2> SUFFICES ASSUME NEW i \in 1..n, NEW j \in 1..n, place[i] = place[j] PROVE i = j
    OBVIOUS
  <2>1. Cardinality(Ahead(list, i)) + 1 = Cardinality(Ahead(list, j)) + 1 OBVIOUS
  <2>2. Cardinality(Ahead(list, i)) = Cardinality(Ahead(list, j)) BY <1>2, <2>1
  <2> QED BY <1>4, <2>2
<1>8. ASSUME NEW k \in 1..n PROVE \E i \in 1..n : place[i] = k
  <2> HIDE DEF place
  <2>1. place \in Injection(1..n, 1..n) BY <1>6, <1>7 DEF Injection, IsInjective
  <2>2. place \in Surjection(1..n, 1..n) BY <1>1, <2>1, FS_Injection
  <2> QED BY <2>2 DEF Surjection
<1>9. ASSUME NEW k \in 1..n
      PROVE  \E i \in 1..n : Cardinality(Ahead(list, i)) = k - 1
  <2>1. PICK i \in 1..n : place[i] = k BY <1>8
  <2>2. Cardinality(Ahead(list, i)) + 1 = k BY <2>1
  <2> QED BY <1>2, <2>2
<1> QED BY <1>4, <1>5, <1>9

\* Sorting loses no candidate, makes none up, and puts the greatest gains first.
LEMMA SortingIsRight ==
  ASSUME NEW n \in Nat, NEW list \in [1..n -> Found]
  PROVE  /\ ByGain(list) \in [1..n -> Found]
         /\ Falling(ByGain(list), n)
         /\ \A k \in 1..n : \E i \in 1..n : ByGain(list)[k] = list[i]
         /\ \A i \in 1..n : \E k \in 1..n : ByGain(list)[k] = list[i]
<1> DEFINE at(k) == CHOOSE i \in 1..n : Cardinality(Ahead(list, i)) = k - 1
<1>1. ByGain(list) = [k \in 1..n |-> list[at(k)]]
  <2>1. DOMAIN list = 1..n OBVIOUS
  <2> QED BY <2>1 DEF ByGain
<1>2. \A k \in 1..n : at(k) \in 1..n /\ Cardinality(Ahead(list, at(k))) = k - 1
  BY PlacesAreTaken
<1> HIDE DEF at
<1>3. ByGain(list) \in [1..n -> Found] BY <1>1, <1>2
<1>4. ASSUME NEW k \in 1..n, NEW l \in 1..n, k < l
      PROVE  list[at(k)].gain >= list[at(l)].gain
  <2>1. at(k) \in 1..n /\ at(l) \in 1..n BY <1>2
  <2>2. list[at(k)].gain \in Int /\ list[at(l)].gain \in Int BY <2>1 DEF Found
  <2> SUFFICES ASSUME list[at(l)].gain > list[at(k)].gain PROVE FALSE
    BY <2>2
  <2>3. DOMAIN list = 1..n OBVIOUS
  <2>4. at(l) \in Ahead(list, at(k)) BY <2>1, <2>3 DEF Ahead
  <2>5. Cardinality(Ahead(list, at(l))) < Cardinality(Ahead(list, at(k)))
    BY <2>1, <2>4, AheadIsStrict
  <2>6. l - 1 < k - 1 BY <1>2, <2>5
  <2> QED BY <1>4, <2>6
<1>5. Falling(ByGain(list), n) BY <1>1, <1>4 DEF Falling
<1>6. ASSUME NEW i \in 1..n PROVE \E k \in 1..n : ByGain(list)[k] = list[i]
  <2> DEFINE k == Cardinality(Ahead(list, i)) + 1
  <2>1. k \in 1..n BY PlacesAreTaken
  <2>2. Cardinality(Ahead(list, i)) \in Nat /\ IsFiniteSet(Ahead(list, i))
    <3>1. IsFiniteSet(1..n) BY FS_Interval
    <3>2. Ahead(list, i) \in SUBSET (1..n) BY DEF Ahead
    <3>3. IsFiniteSet(Ahead(list, i)) BY <3>1, <3>2, FS_Subset
    <3> QED BY <3>3, FS_CardinalityType
  <2>3. Cardinality(Ahead(list, at(k))) = k - 1 /\ at(k) \in 1..n BY <1>2, <2>1
  <2>4. Cardinality(Ahead(list, at(k))) = Cardinality(Ahead(list, i)) BY <2>2, <2>3
  <2>5. at(k) = i BY <2>3, <2>4, PlacesAreTaken
  <2> QED BY <1>1, <2>1, <2>5
<1> QED BY <1>1, <1>2, <1>3, <1>5, <1>6


-----------------------------------------------------------------------------
(***************************************************************************)
(* What the exchanges' results are made of, and what joining them keeps.   *)
(***************************************************************************)

\* A finite set is listed with nothing left out.
LEMMA SetsAreListed ==
  ASSUME NEW S, IsFiniteSet(S)
  PROVE  /\ Cardinality(S) \in Nat
         /\ SetToSeq(S) \in [1..Cardinality(S) -> S]
         /\ \A x \in S : \E k \in 1..Cardinality(S) : SetToSeq(S)[k] = x
<1> DEFINE n == Cardinality(S)
           f == SetToSeq(S)
<1>1. n \in Nat /\ ExistsBijection(1..n, S) BY FS_CardinalityType
<1>2. \E g \in [1..n -> S] : IsInjective(g)
  BY <1>1 DEF ExistsBijection, Bijection, Injection
<1>3. f \in [1..n -> S] /\ IsInjective(f) BY <1>2 DEF SetToSeq
<1>4. Cardinality(1..n) = n
  <2>1. Cardinality(1..n) = IF 1 > n THEN 0 ELSE n - 1 + 1 BY <1>1, FS_Interval
  <2> QED BY <1>1, <2>1
<1> HIDE DEF f
<1>5. f \in Injection(1..n, S) BY <1>3 DEF Injection
<1>6. f \in Surjection(1..n, S) BY <1>4, <1>5, FS_Injection
<1>7. \A x \in S : \E k \in 1..n : f[k] = x BY <1>6 DEF Surjection
<1> QED BY <1>1, <1>3, <1>7 DEF f

\* The elements of sequences that are joined are those of each of them.
LEMMA JoiningIsRight ==
  ASSUME NEW V, NEW seqs \in Seq(Seq(V))
  PROVE  /\ FlattenSeq(seqs) \in Seq(V)
         /\ Range(FlattenSeq(seqs)) = UNION {Range(seqs[i]) : i \in DOMAIN seqs}
<1> DEFINE n == Len(seqs)
           Body(g, i) == IF i = 1 THEN seqs[i] ELSE g[i - 1] \o seqs[i]
           flatten == CHOOSE g : g = [i \in 1..n |-> Body(g, i)]
<1>1. n \in Nat /\ DOMAIN seqs = 1..n /\ \A i \in 1..n : seqs[i] \in Seq(V)
  OBVIOUS
<1>2. CASE n = 0
  <2>1. FlattenSeq(seqs) = seqs /\ seqs = <<>> BY <1>2 DEF FlattenSeq
  <2>2. Range(<<>>) = {} BY DEF Range
  <2> QED BY <1>1, <1>2, <2>1, <2>2
<1>3. CASE n # 0
  <2>1. FlattenSeq(seqs) = flatten[n] BY <1>3 DEF FlattenSeq
  <2> DEFINE step == [k \in 1..n |-> [v \in Seq(V) |-> v \o seqs[k]]]
  <2>2. step \in [1..n -> [Seq(V) -> Seq(V)]] BY <1>1, ConcatProperties
  <2>3. PICK d \in [0..n -> Seq(V)] : IsRun(d, n, <<>>, step)
    <3>1. <<>> \in Seq(V) OBVIOUS
    <3> HIDE DEF step, n
    <3> QED BY <1>1, <2>2, <3>1, RunExists
  <2> DEFINE h == [i \in 1..n |-> d[i]]
  <2>4. ASSUME NEW i \in 1..n PROVE h[i] = Body(h, i)
    <3>1. i \in 0..n /\ i - 1 \in 0..n BY <1>1
    <3>2. d[i - 1] \in Seq(V) BY <3>1
    <3>3. d[i] = d[i - 1] \o seqs[i] BY <2>3, <3>2 DEF IsRun
    <3>4. CASE i = 1
      <4>1. <<>> \o seqs[1] = seqs[1] BY <1>1, <3>4
      <4>2. d[i - 1] = <<>>
        <5>1. d[0] = <<>> BY <2>3 DEF IsRun
        <5>2. i - 1 = 0 BY <3>4
        <5> HIDE DEF step, h, n
        <5> QED BY <5>1, <5>2
      <4>3. d[i] = seqs[i]
        <5> HIDE DEF step, h, n
        <5> QED BY <3>3, <3>4, <4>1, <4>2
      <4> HIDE DEF step
      <4> QED BY <3>4, <4>3
    <3>5. CASE i # 1
      <4>1. i - 1 \in 1..n BY <1>1, <3>5
      <4> QED BY <3>3, <3>5, <4>1
    <3> QED BY <3>4, <3>5
  <2>5. h = [i \in 1..n |-> Body(h, i)]
    <3>1. h = [i \in 1..n |-> h[i]] OBVIOUS
    <3> HIDE DEF h, Body, n
    <3> QED BY <2>4, <3>1
  <2>6. flatten = [i \in 1..n |-> Body(flatten, i)]
    <3> HIDE DEF h, Body, n
    <3> QED BY <2>5
  <2>7. \A i \in 1..n : flatten[i] = Body(flatten, i)
    <3> HIDE DEF flatten, Body, n
    <3> QED BY <2>6
  <2> HIDE DEF flatten
  <2> DEFINE Joins(m) == /\ flatten[m] \in Seq(V)
                         /\ Range(flatten[m]) = UNION {Range(seqs[i]) : i \in 1..m}
             T == {m \in Nat : m \in 1..n => Joins(m)}
  <2>8. 0 \in T OBVIOUS
  <2>9. ASSUME NEW m \in Nat, m \in T PROVE m + 1 \in T
    <3> SUFFICES ASSUME m + 1 \in 1..n PROVE Joins(m + 1)
      OBVIOUS
    <3>1. CASE m = 0
      <4>1. flatten[1] = seqs[1]
        <5>1. 1 \in 1..n BY <3>1
        <5> HIDE DEF n, T, Joins, h, step
        <5> QED BY <2>7, <5>1
      <4>2. 1..1 = {1} OBVIOUS
      <4>3. UNION {Range(seqs[i]) : i \in 1..1} = Range(seqs[1]) BY <4>2
      <4> QED BY <1>1, <3>1, <4>1, <4>3
    <3>2. CASE m # 0
      <4>1. m \in 1..n /\ m + 1 # 1 /\ (m + 1) - 1 = m BY <3>2
      <4>2. flatten[m + 1] = flatten[m] \o seqs[m + 1] BY <2>7, <4>1
      <4>3. Joins(m) BY <2>9, <4>1
      <4>4. 1..(m + 1) = (1..m) \cup {m + 1} OBVIOUS
      <4>5. UNION {Range(seqs[i]) : i \in 1..(m + 1)} =
              (UNION {Range(seqs[i]) : i \in 1..m}) \cup Range(seqs[m + 1])
        BY <4>4
      <4>6. /\ flatten[m + 1] \in Seq(V)
            /\ Range(flatten[m + 1]) = Range(flatten[m]) \cup Range(seqs[m + 1])
        BY <1>1, <4>2, <4>3, ConcatProperties, RangeConcatenation
      <4> QED BY <4>3, <4>5, <4>6
    <3> QED BY <3>1, <3>2
  <2>10. n \in T
    <3> HIDE DEF T
    <3> QED BY <1>1, <2>8, <2>9, AllNaturals
  <2>11. Joins(n) BY <1>1, <1>3, <2>10
  <2> QED BY <1>1, <2>1, <2>11
<1> QED BY <1>2, <1>3

-----------------------------------------------------------------------------
(***************************************************************************)
(* The scan itself: what its result has to do with the exchanges'          *)
(* answers.                                                                *)
(***************************************************************************)

\* Every exchange that has answered has answered with tickers.
TickersOK ==
  DOMAIN tickers \subseteq Turns /\ \A i \in DOMAIN tickers : tickers[i] \in Answers

AllAnswered == TickersOK /\ DOMAIN tickers = Turns

\* The symbols that pass the filter at the i-th exchange, and their entries.
Passing(i) == {c \in Coins : Fits(tickers[i][c])}

Entry(i, c) ==
  [symbol |-> c, exchange |-> Venues[i],
   volume |-> tickers[i][c].volume, gain |-> tickers[i][c].gain]

IsEntryOf(e, i) == \E c \in Passing(i) : e = Entry(i, c)

\* The turns are the numbers of the exchanges.
LEMMA TurnsOfVenues ==
  /\ Len(Venues) \in Nat /\ Turns = 1..Len(Venues)
  /\ \A i \in Turns : Venues[i] \in Range(Venues)
<1>1. Venues \in Seq(Range(Venues)) BY ScanAssumption
<1>2. DOMAIN Venues = 1..Len(Venues) /\ Len(Venues) \in Nat BY <1>1
<1> QED BY <1>2 DEF Turns, Range

\* An answer has a quote for each symbol, if only that it is not listed.
LEMMA QuotesTyped ==
  ASSUME TickersOK, NEW i \in DOMAIN tickers, NEW c \in Coins
  PROVE  tickers[i][c] \in [volume : Nat, gain : Int, price : Nat]
<1>1. tickers[i] \in [Coins -> Quotes \cup {Unlisted}] BY DEF TickersOK, Answers
<1>2. tickers[i][c] \in Quotes \cup {Unlisted} BY <1>1
<1>3. Unlisted \in [volume : Nat, gain : Int, price : Nat] BY DEF Unlisted
<1> QED BY <1>2, <1>3, ScanAssumption

\* An entry is a candidate.
LEMMA EntriesAreFound ==
  ASSUME AllAnswered, NEW i \in Turns, NEW c \in Coins
  PROVE  Entry(i, c) \in Found
<1>1. tickers[i][c] \in [volume : Nat, gain : Int, price : Nat]
  BY QuotesTyped DEF AllAnswered
<1> QED BY <1>1, TurnsOfVenues DEF Entry, Found

\* An exchange's scan returns the symbols that pass its filter.
LEMMA EntriesOfOne ==
  ASSUME AllAnswered, NEW i \in Turns
  PROVE  /\ ScanOf(i) \in Seq(Found)
         /\ \A e : e \in Range(ScanOf(i)) <=> IsEntryOf(e, i)
<1> DEFINE S == Passing(i)
           n == Cardinality(S)
           fits == SetToSeq(S)
<1>1. IsFiniteSet(S)
  <2>1. S \in SUBSET Coins BY DEF Passing
  <2> QED BY <2>1, ScanAssumption, FS_Subset
<1>2. /\ n \in Nat /\ fits \in [1..n -> S]
      /\ \A c \in S : \E k \in 1..n : fits[k] = c
  <2> HIDE DEF S
  <2> QED BY <1>1, SetsAreListed
<1>3. ScanOf(i) = [k \in DOMAIN fits |-> Entry(i, fits[k])]
  BY DEF ScanOf, Entry, Passing
<1> HIDE DEF fits, n
<1>4. ScanOf(i) = [k \in 1..n |-> Entry(i, fits[k])] BY <1>2, <1>3
<1>5. \A k \in 1..n : fits[k] \in S /\ fits[k] \in Coins BY <1>2 DEF Passing
<1>6. \A k \in 1..n : Entry(i, fits[k]) \in Found BY <1>5, EntriesAreFound
<1>7. ScanOf(i) \in Seq(Found)
  <2>1. ScanOf(i) \in [1..n -> Found] BY <1>4, <1>6
  <2> QED BY <1>2, <2>1
<1>8. Range(ScanOf(i)) = {Entry(i, fits[k]) : k \in 1..n}
  BY <1>4 DEF Range
<1> HIDE DEF S
<1>9. \A e : e \in Range(ScanOf(i)) <=> \E c \in S : e = Entry(i, c)
  BY <1>2, <1>5, <1>8
<1> QED BY <1>7, <1>9 DEF S, IsEntryOf

\* What is joined are the entries of all exchanges.
LEMMA JoinedEntries ==
  ASSUME AllAnswered
  PROVE  /\ Joined \in Seq(Found)
         /\ \A e : e \in Range(Joined) <=> \E i \in Turns : IsEntryOf(e, i)
<1> DEFINE seqs == [i \in Turns |-> ScanOf(i)]
<1>1. seqs \in Seq(Seq(Found)) /\ DOMAIN seqs = Turns
  <2>1. seqs \in [1..Len(Venues) -> Seq(Found)] BY EntriesOfOne, TurnsOfVenues
  <2> HIDE DEF seqs
  <2> QED BY <2>1, TurnsOfVenues
<1>2. \A i \in Turns : seqs[i] = ScanOf(i) OBVIOUS
<1>3. Joined = FlattenSeq(seqs) BY DEF Joined
<1> HIDE DEF seqs
<1>4. /\ Joined \in Seq(Found)
      /\ Range(Joined) = UNION {Range(seqs[i]) : i \in Turns}
  BY <1>1, <1>3, JoiningIsRight
<1>5. \A e : e \in Range(Joined) <=> \E i \in Turns : e \in Range(ScanOf(i))
  BY <1>2, <1>4
<1>6. \A i \in Turns : \A e : e \in Range(ScanOf(i)) <=> IsEntryOf(e, i)
  BY EntriesOfOne
<1> QED BY <1>4, <1>5, <1>6

\* The list that is deduplicated has an entry for each symbol that passes the
\* filter at an exchange, and no other.
Lists(list, n) ==
  /\ list \in [1..n -> Found]
  /\ \A m \in 1..n : \E i \in Turns : IsEntryOf(list[m], i)
  /\ \A i \in Turns : \A c \in Passing(i) : \E m \in 1..n : list[m] = Entry(i, c)

\* What a scan returns when all exchanges have answered.
Result == Deduplicated(ByGain(Joined))

\* The result is what is left of such a list.
LEMMA ResultIsLeft ==
  ASSUME AllAnswered
  PROVE  \E n \in Nat : \E list : Lists(list, n) /\ Left(Result, list, n)
<1> DEFINE n == Len(Joined)
           list == ByGain(Joined)
<1>1. n \in Nat /\ Joined \in [1..n -> Found]
  BY JoinedEntries
<1> HIDE DEF n
<1>2. /\ list \in [1..n -> Found] /\ Falling(list, n)
      /\ \A k \in 1..n : \E i \in 1..n : list[k] = Joined[i]
      /\ \A i \in 1..n : \E k \in 1..n : list[k] = Joined[i]
  BY <1>1, SortingIsRight
<1> HIDE DEF list
<1>3. \A e : e \in Range(Joined) <=> \E k \in 1..n : e = Joined[k]
  BY <1>1 DEF Range
<1>4. \A e : e \in Range(Joined) <=> \E i \in Turns : IsEntryOf(e, i)
  BY JoinedEntries
<1>5. ASSUME NEW k \in 1..n PROVE \E i \in Turns : IsEntryOf(list[k], i)
  <2>1. PICK m \in 1..n : list[k] = Joined[m] BY <1>2
  <2>2. list[k] \in Range(Joined) BY <1>3, <2>1
  <2> QED BY <1>4, <2>2
<1>6. ASSUME NEW i \in Turns, NEW c \in Passing(i)
      PROVE  \E m \in 1..n : list[m] = Entry(i, c)
  <2>1. IsEntryOf(Entry(i, c), i) BY DEF IsEntryOf
  <2>2. Entry(i, c) \in Range(Joined) BY <1>4, <2>1
  <2>3. PICK k \in 1..n : Entry(i, c) = Joined[k] BY <1>3, <2>2
  <2>4. PICK m \in 1..n : list[m] = Joined[k] BY <1>2
  <2> QED BY <2>3, <2>4
<1>7. Lists(list, n) BY <1>2, <1>5, <1>6 DEF Lists
<1>8. Left(Result, list, n)
  <2>1. Left(Deduplicated(list), list, n) BY <1>1, <1>2, DeduplicationIsRight
  <2> QED BY <2>1 DEF Result, list
<1> QED BY <1>1, <1>7, <1>8

\* The inductive invariant.
ScanInv ==
  TickersOK /\ (candidates # <<>> => DOMAIN tickers = Turns /\ candidates = Result)

\* Once there is a result it is that of the answers of all exchanges.
LEMMA ScanInvHolds == ScanSpec => []ScanInv
<1>1. ScanInit => ScanInv
  <2>1. DOMAIN <<>> = {} OBVIOUS
  <2> QED BY <2>1 DEF ScanInit, ScanInv, TickersOK
<1>2. ScanInv /\ [ScanNext]_scanVars => ScanInv'
  <2> SUFFICES ASSUME ScanInv, [ScanNext]_scanVars PROVE ScanInv'
    OBVIOUS
  <2>1. ASSUME NEW i \in Turns, Answer(i) PROVE ScanInv'
    <3>1. PICK ts \in Answers \cup {Failing} :
            tickers' = [j \in DOMAIN tickers \cup {i} |-> IF j = i THEN ts ELSE tickers[j]]
      BY <2>1 DEF Answer
    <3>2. ts \in Answers BY <3>1 DEF Failing, Answers
    <3>3. TickersOK' BY <3>1, <3>2 DEF ScanInv, TickersOK, Answers
    <3>4. candidates' = <<>> BY <2>1 DEF Answer, ScanInv
    <3> QED BY <3>3, <3>4 DEF ScanInv
  <2>2. CASE EndScan
    <3>1. Result' = Result BY <2>2 DEF EndScan, Result, Joined, ScanOf
    <3>2. tickers' = tickers /\ candidates' = Result BY <2>2 DEF EndScan, Result
    <3>3. TickersOK' BY <3>2 DEF ScanInv, TickersOK
    <3> QED BY <2>2, <3>1, <3>2, <3>3 DEF ScanInv, EndScan
  <2>3. CASE UNCHANGED scanVars
    <3>1. tickers' = tickers /\ candidates' = candidates BY <2>3 DEF scanVars
    <3>2. Result' = Result BY <3>1 DEF Result, Joined, ScanOf
    <3> QED BY <3>1, <3>2 DEF ScanInv, TickersOK
  <2> QED BY <2>1, <2>2, <2>3 DEF ScanNext
<1> QED BY <1>1, <1>2, PTL DEF ScanSpec

\* The exchanges' answers and the candidates are of their types, and no
\* symbol is returned twice.
THEOREM ScanTypeCorrect == ScanSpec => []ScanTypeOK
<1>1. ScanInv => ScanTypeOK
  <2> SUFFICES ASSUME ScanInv PROVE ScanTypeOK
    OBVIOUS
  <2>1. /\ Range(candidates) \subseteq Found
        /\ \A i, j \in DOMAIN candidates :
             candidates[i].symbol = candidates[j].symbol => i = j
    <3>1. CASE candidates = <<>>
      <4>1. DOMAIN <<>> = {} OBVIOUS
      <4> QED BY <3>1, <4>1 DEF Range
    <3>2. CASE candidates # <<>>
      <4>1. AllAnswered /\ candidates = Result BY <3>2 DEF ScanInv, AllAnswered
      <4>2. PICK n \in Nat : \E list : Left(candidates, list, n)
        BY <4>1, ResultIsLeft
      <4>3. candidates \in Seq(Found) /\ Once(candidates) BY <4>2 DEF Left
      <4> QED BY <4>3, RangeOfSeq DEF Once
    <3> QED BY <3>1, <3>2
  <2> QED BY <2>1 DEF ScanInv, TickersOK, ScanTypeOK
<1> QED BY <1>1, ScanInvHolds, PTL

\* The exchanges where a symbol fits are those where it passes the filter.
LEMMA FittingPass ==
  ASSUME AllAnswered, NEW c \in Coins
  PROVE  Fitting(c) = {i \in Turns : c \in Passing(i)}
BY DEF Fitting, Passing, AllAnswered

\* They are finitely many.
LEMMA FittingAreFinite ==
  ASSUME AllAnswered, NEW c \in Coins
  PROVE  IsFiniteSet(Fitting(c))
<1>1. IsFiniteSet(1..Len(Venues)) BY TurnsOfVenues, FS_Interval
<1>2. Fitting(c) \in SUBSET (1..Len(Venues)) BY TurnsOfVenues, FittingPass
<1> QED BY <1>1, <1>2, FS_Subset

\* What a candidate stands for: it passes the filter where it comes from.
LEMMA ListedFit ==
  ASSUME AllAnswered, NEW n \in Nat, NEW list, Lists(list, n), NEW m \in 1..n
  PROVE  /\ list[m].symbol \in Coins
         /\ \E i \in Fitting(list[m].symbol) : list[m] = Entry(i, list[m].symbol)
<1>1. PICK i \in Turns : IsEntryOf(list[m], i) BY DEF Lists
<1>2. PICK c \in Passing(i) : list[m] = Entry(i, c) BY <1>1 DEF IsEntryOf
<1>3. c \in Coins BY DEF Passing
<1>4. list[m].symbol = c BY <1>2 DEF Entry
<1> QED BY <1>2, <1>3, <1>4, FittingPass

\* Where a symbol fits it was listed.
LEMMA FittingListed ==
  ASSUME AllAnswered, NEW n \in Nat, NEW list, Lists(list, n),
         NEW c \in Coins, NEW i \in Fitting(c)
  PROVE  \E m \in 1..n : list[m] = Entry(i, c)
BY FittingPass DEF Lists

\* First part of ScanIsRight: no symbol is lost, doubled or less liquid.
LEMMA MostLiquid ==
  ASSUME ScanInv
  PROVE  MostLiquidKept
<1> SUFFICES ASSUME Scanned PROVE MostLiquidKept
  BY DEF MostLiquidKept
<1>1. AllAnswered /\ candidates = Result BY DEF ScanInv, AllAnswered, Scanned
<1>2. PICK n \in Nat : \E list : Lists(list, n) /\ Left(candidates, list, n)
  BY <1>1, ResultIsLeft
<1>3. PICK list : Lists(list, n) /\ Left(candidates, list, n) BY <1>2
<1> SUFFICES ASSUME NEW c \in Coins
             PROVE  LET listed == {f \in Range(candidates) : f.symbol = c}
                    IN  /\ Cardinality(listed) = Cardinality({c : i \in Fitting(c)})
                        /\ \A f \in listed, i \in Fitting(c) :
                             LET q == tickers[i][c]
                             IN  \/ f.volume > q.volume
                                 \/ f.volume = q.volume /\ f.gain >= q.gain
  BY DEF MostLiquidKept
<1> DEFINE listed == {f \in Range(candidates) : f.symbol = c}
           here == {c : i \in Fitting(c)}
<1>4. ASSUME NEW f \in listed PROVE Fitting(c) # {}
  <2>1. PICK k \in DOMAIN candidates : f = candidates[k] BY DEF Range
  <2>2. PICK m \in 1..n : f = list[m] BY <1>3, <2>1 DEF Left, Taken
  <2> QED BY <1>1, <1>3, <2>2, ListedFit
<1>5. ASSUME NEW i \in Fitting(c)
      PROVE  \E f \in listed : listed = {f} /\ Covers(f, Entry(i, c))
  <2>1. PICK m \in 1..n : list[m] = Entry(i, c) BY <1>1, <1>3, FittingListed
  <2>2. CoveredAt(candidates, Entry(i, c)) BY <1>3, <2>1 DEF Left, Covered
  <2>3. Entry(i, c).symbol = c BY DEF Entry
  <2>4. PICK k \in DOMAIN candidates :
          candidates[k].symbol = c /\ Covers(candidates[k], Entry(i, c))
    BY <2>2, <2>3 DEF CoveredAt
  <2>5. candidates[k] \in listed BY <2>4 DEF Range
  <2>6. ASSUME NEW f \in listed PROVE f = candidates[k]
    <3>1. PICK l \in DOMAIN candidates : f = candidates[l] BY DEF Range
    <3> QED BY <1>3, <2>4, <3>1 DEF Left, Once
  <2>7. listed = {candidates[k]} BY <2>5, <2>6
  <2> QED BY <2>4, <2>5, <2>7
<1>6. Cardinality(listed) = Cardinality(here)
  <2>1. CASE Fitting(c) = {}
    <3>1. listed = {} BY <1>4, <2>1
    <3>2. here = {} BY <2>1
    <3> QED BY <3>1, <3>2
  <2>2. CASE Fitting(c) # {}
    <3>1. PICK f \in listed : listed = {f} BY <1>5, <2>2
    <3>2. here = {c} BY <2>2
    <3> HIDE DEF listed, here
    <3>3. Cardinality(listed) = 1 BY <3>1, FS_Singleton
    <3>4. Cardinality(here) = 1 BY <3>2, FS_Singleton
    <3> QED BY <3>3, <3>4
  <2> QED BY <2>1, <2>2
<1>7. ASSUME NEW f \in listed, NEW i \in Fitting(c)
      PROVE  \/ f.volume > tickers[i][c].volume
             \/ f.volume = tickers[i][c].volume /\ f.gain >= tickers[i][c].gain
  <2>1. Covers(f, Entry(i, c)) BY <1>5
  <2> HIDE DEF listed
  <2> QED BY <2>1 DEF Covers, Entry
<1> QED BY <1>6, <1>7

\* The gains of a symbol where it fits.
GainsOf(c) == {tickers[i][c].gain : i \in Fitting(c)}

\* The best gain of a symbol is that of a candidate that was joined.
LEMMA BestGain ==
  ASSUME AllAnswered, NEW c \in Coins, Fitting(c) # {}
  PROVE  /\ \E i \in Fitting(c) : Max(GainsOf(c)) = tickers[i][c].gain
         /\ \A i \in Fitting(c) : Max(GainsOf(c)) >= tickers[i][c].gain
         /\ Max(GainsOf(c)) \in Int
<1> DEFINE f == [i \in Fitting(c) |-> tickers[i][c].gain]
<1> DEFINE G == GainsOf(c)
<1>1. \A i \in Fitting(c) : tickers[i][c].gain \in Int
  BY QuotesTyped, FittingPass DEF AllAnswered
<1>2. f \in [Fitting(c) -> Int] BY <1>1
<1>3. G = {f[i] : i \in Fitting(c)}
  <2>1. \A i \in Fitting(c) : f[i] = tickers[i][c].gain OBVIOUS
  <2> HIDE DEF f
  <2> QED BY <2>1 DEF GainsOf
<1> HIDE DEF f, G
<1>4. Max(G) \in G /\ \A y \in G : y <= Max(G)
  <2> DEFINE D == Fitting(c)
  <2>1. IsFiniteSet(D) BY FittingAreFinite
  <2>2. D # {} /\ f \in [D -> Int] /\ G = {f[i] : i \in D} BY <1>2, <1>3
  <2> HIDE DEF D
  <2> QED BY <2>1, <2>2, MaxIsGreatest
<1>5. G = {tickers[i][c].gain : i \in Fitting(c)} BY DEF G, GainsOf
<1>6. \A y \in G : y \in Int BY <1>1, <1>5
<1>7. \A y \in G : Max(G) >= y BY <1>4, <1>6
<1> QED BY <1>4, <1>5, <1>6, <1>7 DEF G

\* Second part: the order is that of the best gains.
LEMMA BestGainsFirst ==
  ASSUME ScanInv
  PROVE  OrderOfBestGain
<1> SUFFICES ASSUME Scanned PROVE OrderOfBestGain
  BY DEF OrderOfBestGain
<1>1. AllAnswered /\ candidates = Result BY DEF ScanInv, AllAnswered, Scanned
<1>2. PICK n \in Nat : \E list : Lists(list, n) /\ Left(candidates, list, n)
  BY <1>1, ResultIsLeft
<1>3. PICK list : Lists(list, n) /\ Left(candidates, list, n) BY <1>2
<1> DEFINE best(f) == Max({tickers[i][f.symbol].gain : i \in Fitting(f.symbol)})
<1> SUFFICES ASSUME NEW x \in DOMAIN candidates, NEW y \in DOMAIN candidates, x < y
             PROVE  best(candidates[x]) >= best(candidates[y])
  BY DEF OrderOfBestGain
<1> DEFINE a == candidates[x].symbol
           b == candidates[y].symbol
           A == GainsOf(a)
           B == GainsOf(b)
<1>4. PICK m \in 1..n :
        /\ list[m].symbol = a
        /\ \A q \in 1..n : list[q].symbol = b => list[m].gain >= list[q].gain
  BY <1>3 DEF Left, InOrder, Leads
<1>5. a \in Coins /\ \E i \in Fitting(a) : list[m] = Entry(i, a)
  BY <1>1, <1>3, <1>4, ListedFit
<1>6. b \in Coins /\ Fitting(b) # {}
  <2>1. PICK q \in 1..n : candidates[y] = list[q] BY <1>3 DEF Left, Taken
  <2> QED BY <1>1, <1>3, <2>1, ListedFit
<1> HIDE DEF a, b
<1>7. Max(A) >= list[m].gain
  <2>1. PICK i \in Fitting(a) : list[m] = Entry(i, a) BY <1>5
  <2>2. list[m].gain = tickers[i][a].gain BY <2>1 DEF Entry
  <2> QED BY <1>1, <1>5, <2>2, BestGain
<1>8. PICK i \in Fitting(b) : Max(B) = tickers[i][b].gain
  BY <1>1, <1>6, BestGain
<1>9. PICK q \in 1..n : list[q] = Entry(i, b) BY <1>1, <1>3, <1>6, FittingListed
<1>10. list[q].symbol = b /\ list[q].gain = Max(B) BY <1>8, <1>9 DEF Entry
<1>11. list[m].gain >= Max(B) BY <1>4, <1>10
<1>12. Max(A) \in Int /\ Max(B) \in Int /\ list[m].gain \in Int
  <2>1. Max(A) \in Int BY <1>1, <1>5, BestGain
  <2>2. Max(B) \in Int BY <1>1, <1>6, BestGain
  <2>3. list[m] \in Found BY <1>3 DEF Lists
  <2>4. list[m].gain \in Int BY <2>3 DEF Found
  <2> QED BY <2>1, <2>2, <2>4
<1>13. Max(A) >= Max(B)
  <2> HIDE DEF A, B
  <2> QED BY <1>7, <1>11, <1>12
<1> QED BY <1>13 DEF a, b, GainsOf

-----------------------------------------------------------------------------
(***************************************************************************)
(* The best exchange for a symbol: the first of those with the greatest    *)
(* volume.                                                                 *)
(***************************************************************************)

\* What get_best_exchange_for_symbol knows of the best one so far.
Best == [venue : Range(Venues) \cup {Primary}, volume : Nat]

AnswerOf(i, c) == [venue |-> Venues[i], volume |-> tickers[i][c].volume]

NoneYet == [venue |-> Primary, volume |-> 0]

\* What an exchange answers has a name and a volume.
LEMMA AnswersTyped ==
  ASSUME AllAnswered, NEW c \in Coins, NEW i \in Turns
  PROVE  AnswerOf(i, c) \in Best
<1>1. tickers[i][c] \in [volume : Nat, gain : Int, price : Nat]
  BY QuotesTyped DEF AllAnswered
<1> QED BY <1>1, TurnsOfVenues DEF AnswerOf, Best

\* The best exchange is found by one answer after the other.
LEMMA BestInTurn ==
  ASSUME AllAnswered, NEW c \in Coins
  PROVE  \E d : /\ d[0] = NoneYet
                /\ \A k \in Turns : d[k] = FirstOfTheGreatest(d[k - 1], AnswerOf(k, c))
                /\ BestExchange(c) = d[Len(Venues)].venue
<1> DEFINE n == Len(Venues)
           S == 1..n
           list == [i \in Turns |-> AnswerOf(i, c)]
           step == [k \in S |-> [v \in Best |-> FirstOfTheGreatest(v, list[k])]]
           Body(g, s) == IF s = {} THEN NoneYet
                         ELSE FirstOfTheGreatest(g[s \ {Max(s)}], list[Max(s)])
           Iter == CHOOSE g : g = [s \in SUBSET S |-> Body(g, s)]
<1>1. n \in Nat /\ Turns = S BY TurnsOfVenues
<1>2. BestExchange(c) = Iter[S].venue
  <2>1. DOMAIN list = S BY <1>1
  <2>2. BestExchange(c) = FoldLeft(FirstOfTheGreatest, NoneYet, list).venue
    BY DEF BestExchange, AnswerOf, NoneYet
  <2> HIDE DEF S, list
  <2> QED BY <2>1, <2>2 DEF FoldLeft, MapThenFoldSet
<1>3. NoneYet \in Best /\ step \in [S -> [Best -> Best]]
  <2>1. NoneYet \in Best BY DEF NoneYet, Best
  <2>2. \A k \in S : list[k] \in Best BY <1>1, AnswersTyped
  <2> HIDE DEF list
  <2> QED BY <2>1, <2>2 DEF FirstOfTheGreatest
<1>4. PICK g \in [SUBSET S -> Best] : IsLeftFold(g, n, NoneYet, step)
  <2> HIDE DEF step, n
  <2> QED BY <1>1, <1>3, FoldFromLeftExists
<1>5. ASSUME NEW s \in SUBSET S PROVE g[s] = Body(g, s)
  <2>1. CASE s = {} BY <1>4, <2>1 DEF IsLeftFold, FoldedAt
  <2>2. CASE s # {}
    <3>1. Max(s) \in S BY <1>1, <2>2, MaxOfNumbers
    <3>2. g[s \ {Max(s)}] \in Best OBVIOUS
    <3>3. step[Max(s)][g[s \ {Max(s)}]] =
            FirstOfTheGreatest(g[s \ {Max(s)}], list[Max(s)])
      <4> HIDE DEF list, S
      <4> QED BY <3>1, <3>2
    <3> HIDE DEF step, list
    <3> QED BY <1>4, <2>2, <3>3 DEF IsLeftFold, FoldedAt
  <2> QED BY <2>1, <2>2
<1>6. g = [s \in SUBSET S |-> Body(g, s)]
  <2> HIDE DEF Body, S
  <2> QED BY <1>4, <1>5
<1>7. Iter = [s \in SUBSET S |-> Body(Iter, s)]
  <2> HIDE DEF Body, S
  <2> QED BY <1>6
<1>8. ASSUME NEW s \in SUBSET S PROVE Iter[s] = Body(Iter, s)
  <2> HIDE DEF Body, Iter, S
  <2> QED BY <1>7
<1> DEFINE d == [k \in 0..n |-> Iter[1..k]]
<1>9. d[0] = NoneYet
  <2>1. 1..0 = {} /\ {} \in SUBSET S /\ 0 \in 0..n
    <3> HIDE DEF Iter, Body, list
    <3> QED BY <1>1
  <2>2. Iter[{}] = NoneYet
    <3> HIDE DEF Iter
    <3> QED BY <2>1, <1>8
  <2> HIDE DEF Iter
  <2> QED BY <2>1, <2>2
<1>10. ASSUME NEW k \in Turns PROVE d[k] = FirstOfTheGreatest(d[k - 1], AnswerOf(k, c))
  <2>1. 1..k \in SUBSET S /\ k \in 1..k /\ k \in 0..n /\ k - 1 \in 0..n
    <3> HIDE DEF Iter, Body, list
    <3> QED BY <1>1
  <2>2. Max(1..k) = k /\ (1..k) \ {k} = 1..(k - 1)
    <3>1. k \in Nat \ {0} BY <1>1
    <3> QED BY <3>1, FirstNumbers
  <2>3. list[k] = AnswerOf(k, c) OBVIOUS
  <2> HIDE DEF Iter, list
  <2>4. Iter[1..k] = FirstOfTheGreatest(Iter[1..(k - 1)], list[k])
    BY <1>8, <2>1, <2>2
  <2> QED BY <2>1, <2>3, <2>4
<1>11. BestExchange(c) = d[n].venue
  <2> HIDE DEF Iter
  <2> QED BY <1>1, <1>2
<1> HIDE DEF d
<1> QED BY <1>9, <1>10, <1>11

\* Of the first k exchanges, none has a greater volume than the best so far.
BestOf(best, c, k) ==
  /\ best \in Best
  /\ best.volume > 0 => \E i \in Turns : best = AnswerOf(i, c)
  /\ \A i \in Turns : i <= k => tickers[i][c].volume <= best.volume

\* After the last exchange none has a greater volume.
LEMMA BestIsTheGreatest ==
  ASSUME AllAnswered, NEW c \in Coins
  PROVE  \E best : BestOf(best, c, Len(Venues)) /\ BestExchange(c) = best.venue
<1> DEFINE n == Len(Venues)
<1>1. PICK d : /\ d[0] = NoneYet
               /\ \A k \in Turns : d[k] = FirstOfTheGreatest(d[k - 1], AnswerOf(k, c))
               /\ BestExchange(c) = d[n].venue
  BY BestInTurn
<1>2. n \in Nat /\ Turns = 1..n BY TurnsOfVenues
<1> HIDE DEF n
<1> DEFINE T == {k \in Nat : k <= n => BestOf(d[k], c, k)}
<1>3. 0 \in T
  <2>1. NoneYet \in Best /\ NoneYet.volume = 0 BY DEF NoneYet, Best
  <2>2. \A i \in Turns : ~(i <= 0) BY <1>2
  <2>3. BestOf(NoneYet, c, 0) BY <2>1, <2>2 DEF BestOf
  <2> QED BY <1>1, <2>3
<1>4. ASSUME NEW m \in Nat, m \in T PROVE m + 1 \in T
  <2> SUFFICES ASSUME m + 1 <= n PROVE BestOf(d[m + 1], c, m + 1)
    OBVIOUS
  <2> DEFINE k == m + 1
             q == AnswerOf(k, c)
             b == d[m]
  <2>1. k \in Turns /\ k - 1 = m /\ k \in Nat BY <1>2
  <2>2. BestOf(b, c, m)
    <3>1. m <= n BY <1>2
    <3> QED BY <1>4, <3>1
  <2>3. d[k] = FirstOfTheGreatest(b, q) BY <1>1, <2>1
  <2>4. q \in Best /\ b \in Best /\ q.volume = tickers[k][c].volume
    BY <2>1, <2>2, AnswersTyped DEF BestOf, AnswerOf
  <2>5. q.volume \in Nat /\ b.volume \in Nat BY <2>4 DEF Best
  <2>6. \A i \in Turns : tickers[i][c].volume \in Nat
    BY QuotesTyped DEF AllAnswered
  <2>7. \A i \in Turns : i <= k => i <= m \/ i = k BY <1>2
  <2>8. \A i \in Turns : i <= m => tickers[i][c].volume <= b.volume
    BY <2>2 DEF BestOf
  <2> HIDE DEF k, q, b
  <2>9. CASE q.volume > b.volume
    <3>1. d[k] = q BY <2>3, <2>9 DEF FirstOfTheGreatest
    <3>2. \A i \in Turns : i <= k => tickers[i][c].volume <= q.volume
      BY <2>4, <2>5, <2>6, <2>7, <2>8, <2>9
    <3>3. BestOf(q, c, k) BY <2>1, <2>4, <3>2 DEF BestOf, q
    <3> QED BY <3>1, <3>3 DEF k
  <2>10. CASE ~(q.volume > b.volume)
    <3>1. d[k] = b BY <2>3, <2>10 DEF FirstOfTheGreatest
    <3>2. \A i \in Turns : i <= k => tickers[i][c].volume <= b.volume
      BY <2>4, <2>5, <2>6, <2>7, <2>8, <2>10
    <3>3. BestOf(b, c, k) BY <2>2, <3>2 DEF BestOf
    <3> QED BY <3>1, <3>3 DEF k
  <2> QED BY <2>9, <2>10
<1>5. n \in T
  <2> HIDE DEF T
  <2> QED BY <1>2, <1>3, <1>4, AllNaturals
<1>6. BestOf(d[n], c, n) BY <1>2, <1>5
<1> QED BY <1>1, <1>6 DEF n

\* Third part: the best exchange is the one the scan returns.
LEMMA BestAgrees ==
  ASSUME ScanInv
  PROVE  BestIsTheScanned
<1> SUFFICES ASSUME Scanned PROVE BestIsTheScanned
  BY DEF BestIsTheScanned
<1>1. AllAnswered /\ candidates = Result BY DEF ScanInv, AllAnswered, Scanned
<1>2. PICK n \in Nat : \E list : Lists(list, n) /\ Left(candidates, list, n)
  BY <1>1, ResultIsLeft
<1>3. PICK list : Lists(list, n) /\ Left(candidates, list, n) BY <1>2
<1> SUFFICES ASSUME NEW f \in Range(candidates),
                    {i \in Turns : tickers[i][f.symbol] # Unlisted} = Fitting(f.symbol),
                    \A i, j \in {i \in Turns : tickers[i][f.symbol] # Unlisted} :
                      tickers[i][f.symbol].volume = tickers[j][f.symbol].volume => i = j
             PROVE  BestExchange(f.symbol) = f.exchange
  BY DEF BestIsTheScanned
<1> DEFINE c == f.symbol
<1>4. PICK x \in DOMAIN candidates : f = candidates[x] BY DEF Range
<1>5. PICK m \in 1..n : f = list[m] BY <1>3, <1>4 DEF Left, Taken
<1>6. PICK at \in Fitting(c) : f = Entry(at, c) BY <1>1, <1>3, <1>5, ListedFit
<1>7. c \in Coins BY <1>1, <1>3, <1>5, ListedFit
<1>8. \A i \in Fitting(c) : tickers[i][c].volume <= f.volume
  <2> SUFFICES ASSUME NEW i \in Fitting(c) PROVE tickers[i][c].volume <= f.volume
    OBVIOUS
  <2>1. PICK p \in 1..n : list[p] = Entry(i, c) BY <1>1, <1>3, <1>7, FittingListed
  <2>2. PICK y \in DOMAIN candidates :
          candidates[y].symbol = Entry(i, c).symbol /\ Covers(candidates[y], Entry(i, c))
    BY <1>3, <2>1 DEF Left, Covered, CoveredAt
  <2>3. Entry(i, c).symbol = c /\ Entry(i, c).volume = tickers[i][c].volume
    BY DEF Entry
  <2>4. y = x BY <1>3, <1>4, <2>2, <2>3 DEF Left, Once
  <2>5. Covers(f, Entry(i, c)) BY <1>4, <2>2, <2>4
  <2>6. f.volume \in Nat /\ tickers[i][c].volume \in Nat
    <3>1. f \in Found BY <1>3, <1>5 DEF Lists
    <3>2. i \in Turns BY <1>1, <1>7, FittingPass
    <3> QED BY <1>1, <1>7, <3>1, <3>2, QuotesTyped DEF Found, AllAnswered
  <2> QED BY <2>3, <2>5, <2>6 DEF Covers
<1>9. f.volume = tickers[at][c].volume /\ f.exchange = Venues[at]
  BY <1>6 DEF Entry
<1>10. at \in Turns /\ Fits(tickers[at][c]) BY <1>1, <1>7, FittingPass DEF Passing
<1>11. tickers[at][c].volume # 0 BY <1>10 DEF Fits
<1>12. \A i \in Turns : tickers[i][c].volume \in Nat
  BY <1>1, <1>7, QuotesTyped DEF AllAnswered
<1>13. PICK best : BestOf(best, c, Len(Venues)) /\ BestExchange(c) = best.venue
  BY <1>1, <1>7, BestIsTheGreatest
<1>14. \A i \in Turns : i <= Len(Venues) BY TurnsOfVenues
<1>15. tickers[at][c].volume <= best.volume BY <1>10, <1>13, <1>14 DEF BestOf
<1>16. best.volume \in Nat BY <1>13 DEF BestOf, Best
<1>17. best.volume > 0 BY <1>10, <1>11, <1>12, <1>15, <1>16
<1>18. PICK i \in Turns : best = AnswerOf(i, c) BY <1>13, <1>17 DEF BestOf
<1>19. best.volume = tickers[i][c].volume /\ best.venue = Venues[i]
  BY <1>18 DEF AnswerOf
<1>20. tickers[i][c] # Unlisted
  <2>1. Unlisted.volume = 0 BY DEF Unlisted
  <2> QED BY <1>12, <1>17, <1>19, <2>1
<1>21. i \in Fitting(c) BY <1>20
<1>22. tickers[i][c].volume = tickers[at][c].volume
  BY <1>8, <1>9, <1>10, <1>12, <1>15, <1>19, <1>21
<1>23. i = at BY <1>6, <1>21, <1>22
<1> QED BY <1>9, <1>13, <1>19, <1>23

\* The result of a scan has each symbol that passes the filter once, from the
\* most liquid exchange, in the order of the best gains; the exchange that is
\* best for a symbol is the one that the scan returns.
THEOREM ScansAreRight == ScanSpec => []ScanIsRight
<1>1. ScanInv => ScanIsRight
  BY MostLiquid, BestGainsFirst, BestAgrees DEF ScanIsRight
<1> QED BY <1>1, ScanInvHolds, PTL

-----------------------------------------------------------------------------
(***************************************************************************)
(* All that limits trading together.                                       *)
(***************************************************************************)

\* The parts share no state: what one of them does the others see as a
\* stutter, so each behaves as it does alone.
LEMMA LimitsAreApart ==
  [AllNext]_allVars =>
    /\ [Next]_vars /\ [RegimeNext]_regimeVars /\ [LocalNext]_localVars
    /\ [SimNext]_simVars /\ [BlackNext]_blackVars /\ [ScanNext]_scanVars
BY DEF AllNext, Risk, Regime, Local, Simulated, Listed, Markets, allVars, limitVars

\* So what has been proved of each part by itself holds of all of them.
THEOREM LimitsBehaveAsAlone ==
  AllSpec => Spec /\ RegimeSpec /\ LocalSpec /\ SimSpec /\ BlackSpec /\ ScanSpec
<1>1. AllInit => /\ Init /\ RegimeInit /\ LocalInit /\ SimInit /\ BlackInit /\ ScanInit
  BY DEF AllInit
<1> QED
  BY <1>1, LimitsAreApart, PTL
  DEF AllSpec, Spec, RegimeSpec, LocalSpec, SimSpec, BlackSpec, ScanSpec

\* Every variable of everything that limits trading keeps to its type.
THEOREM LimitsTypeCorrect == AllSpec => []LimitsTypeOK
<1>1. AllSpec => /\ []TypeOK /\ []RegimeTypeOK /\ []LocalTypeOK
                 /\ []SimTypeOK /\ [](BlackTypeOK /\ RowIsWanted) /\ []ScanTypeOK
  BY LimitsBehaveAsAlone, RiskTypeCorrect, RegimeTypeCorrect, LocalTypeCorrect,
     SimTypeCorrect, TheRowIsWanted, ScanTypeCorrect
<1>2. TypeOK /\ RegimeTypeOK /\ LocalTypeOK /\ SimTypeOK /\ BlackTypeOK /\ ScanTypeOK
        => LimitsTypeOK
  BY DEF LimitsTypeOK
<1> QED BY <1>1, <1>2, PTL

=============================================================================
