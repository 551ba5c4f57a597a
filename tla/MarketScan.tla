------------------------------ MODULE MarketScan ------------------------------
(***************************************************************************)
(* The scan of all markets of the data feed: every exchange is asked at    *)
(* the same time for all its tickers; those that pass the filter become    *)
(* candidates, sorted by their gain; of a symbol that several exchanges    *)
(* list, the candidate of the greatest volume is kept.  And the choice of  *)
(* the best exchange for one symbol, which takes the answers in turn.      *)
(***************************************************************************)
EXTENDS Integers, Sequences, SequencesExt, FiniteSetsExt

CONSTANTS
  Venues,            \* _exchanges, in order
  Coins,             \* the symbols, all of them /USDT
  Quotes,            \* the tickers an exchange may answer with
  MinVolume, MinGain, MaxPrice,
  Primary            \* settings.exchange.primary_exchange

ASSUME ScanAssumption ==
  /\ Venues \in Seq(Range(Venues)) /\ IsInjective(Venues)
  /\ IsFiniteSet(Coins)
  /\ Quotes \subseteq [volume : Nat, gain : Int, price : Nat]

VARIABLES
  tickers,           \* what each exchange has answered so far
  candidates         \* what scan_potential_symbols returns

scanVars == <<tickers, candidates>>

-----------------------------------------------------------------------------
\* A symbol that an exchange does not list, and the answer of one that fails.
Unlisted == [volume |-> 0, gain |-> 0, price |-> 0]

Failing == [c \in Coins |-> Unlisted]

Answers == [Coins -> Quotes \cup {Unlisted}]

Turns == DOMAIN Venues

Found == [symbol : Coins, exchange : Range(Venues), volume : Nat, gain : Int]

ScanTypeOK ==
  /\ DOMAIN tickers \subseteq Turns
  /\ \A i \in DOMAIN tickers : tickers[i] \in Answers
  /\ Range(candidates) \subseteq Found
  /\ \A i, j \in DOMAIN candidates :
       candidates[i].symbol = candidates[j].symbol => i = j

ScanInit == tickers = <<>> /\ candidates = <<>>

-----------------------------------------------------------------------------
(***************************************************************************)
(* scan_potential_symbols                                                  *)
(***************************************************************************)
Fits(q) ==
  /\ q.price # 0 /\ q.volume # 0
  /\ q.price <= MaxPrice /\ q.volume >= MinVolume /\ q.gain >= MinGain

\* _scan_single_exchange
ScanOf(i) ==
  LET ts   == tickers[i]
      fits == SetToSeq({c \in Coins : Fits(ts[c])})
  IN  [k \in DOMAIN fits |-> [symbol |-> fits[k], exchange |-> Venues[i],
        volume |-> ts[fits[k]].volume, gain |-> ts[fits[k]].gain]]

\* The results are joined in the order of the exchanges, however late they come.
Joined == FlattenSeq([i \in Turns |-> ScanOf(i)])

\* Python's sort is stable: a candidate comes after those of a greater gain, and
\* after those of its own gain that were before it.
Ahead(list, i) ==
  {j \in DOMAIN list : \/ list[j].gain > list[i].gain
                       \/ list[j].gain = list[i].gain /\ j < i}

ByGain(list) ==
  LET at(k) == CHOOSE i \in DOMAIN list : Cardinality(Ahead(list, i)) = k - 1
  IN  [k \in DOMAIN list |-> list[at(k)]]

FirstOf(seen, c) ==
  IF \E k \in DOMAIN seen : seen[k].symbol = c.symbol THEN seen ELSE Append(seen, c)

AsLiquid(seen, c) ==
  [k \in DOMAIN seen |->
    IF seen[k].symbol = c.symbol /\ c.volume >= seen[k].volume THEN c ELSE seen[k]]

\* A dict keeps the place at which a key was first entered.
MoreLiquid(seen, c) ==
  [k \in DOMAIN seen |->
    IF seen[k].symbol = c.symbol /\ c.volume > seen[k].volume THEN c ELSE seen[k]]

Seen(seen, c) == MoreLiquid(FirstOf(seen, c), c)

\* _deduplicate_candidates
Deduplicated(list) == FoldLeft(Seen, <<>>, list)

Answer(i) ==
  /\ i \notin DOMAIN tickers
  /\ \E ts \in Answers \cup {Failing} :
       tickers' = [j \in DOMAIN tickers \cup {i} |-> IF j = i THEN ts ELSE tickers[j]]
  /\ UNCHANGED candidates

\* asyncio.gather waits for all.
EndScan ==
  /\ DOMAIN tickers = Turns /\ candidates = <<>>
  /\ candidates' = Deduplicated(ByGain(Joined))
  /\ UNCHANGED tickers

ScanNext == (\E i \in Turns : Answer(i)) \/ EndScan

ScanSpec == ScanInit /\ [][ScanNext]_scanVars

-----------------------------------------------------------------------------
FirstOfTheGreatest(best, q) == IF q.volume > best.volume THEN q ELSE best

\* get_best_exchange_for_symbol by volume, when it is answered with the same
\* tickers: an exchange that fails is passed over.
BestExchange(c) ==
  LET answers == [i \in Turns |-> [venue |-> Venues[i], volume |-> tickers[i][c].volume]]
  IN  FoldLeft(FirstOfTheGreatest, [venue |-> Primary, volume |-> 0], answers).venue

-----------------------------------------------------------------------------
(***************************************************************************)
(* Properties                                                              *)
(***************************************************************************)
Fitting(c) == {i \in DOMAIN tickers : Fits(tickers[i][c])}

Scanned == DOMAIN tickers = Turns /\ candidates # <<>>

\* A scan returns each symbol once that passes the filter somewhere, from the
\* exchange of the greatest volume among those where it passes and, of equal
\* ones, of the greatest gain.
MostLiquidKept ==
  Scanned => \A c \in Coins :
    LET listed == {f \in Range(candidates) : f.symbol = c}
    IN  /\ Cardinality(listed) = Cardinality({c : i \in Fitting(c)})
        /\ \A f \in listed, i \in Fitting(c) :
             LET q == tickers[i][c]
             IN  \/ f.volume > q.volume
                 \/ f.volume = q.volume /\ f.gain >= q.gain

\* The symbols come in the order of the greatest gain that each of them has
\* anywhere, be it at another exchange than the one that is returned.
OrderOfBestGain ==
  LET best(f) == Max({tickers[i][f.symbol].gain : i \in Fitting(f.symbol)})
  IN  Scanned => \A i, j \in DOMAIN candidates :
        i < j => best(candidates[i]) >= best(candidates[j])

\* The exchange that is best for a symbol is the one that the scan returns it
\* from, if that symbol passes the filter wherever it is listed and no two
\* exchanges have the same volume.
BestIsTheScanned ==
  Scanned => \A f \in Range(candidates) :
    LET listing == {i \in Turns : tickers[i][f.symbol] # Unlisted}
    IN  /\ listing = Fitting(f.symbol)
        /\ \A i, j \in listing :
             tickers[i][f.symbol].volume = tickers[j][f.symbol].volume => i = j
        => BestExchange(f.symbol) = f.exchange

\* A scan picks, orders and places the symbols as its callers rely on.
ScanIsRight == MostLiquidKept /\ OrderOfBestGain /\ BestIsTheScanned

=============================================================================
