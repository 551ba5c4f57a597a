------------------------------- MODULE DataFeed -------------------------------
(***************************************************************************)
(* The data feed's get_ticker for one symbol of one exchange: a cache      *)
(* whose entries expire, and one request in flight that all who ask in the *)
(* meantime wait for.  The callers are tasks of one asyncio loop (the      *)
(* price loop, the strategies, the regime detector), and any of them may   *)
(* be cancelled while it waits.                                            *)
(*                                                                         *)
(* What a ticker says is left out; only its age is kept.                   *)
(***************************************************************************)
EXTENDS Integers, FiniteSets

CONSTANTS
  Callers,
  Slots,          \* names for the request tasks that exist at a time
  TTL,            \* ticks after which an entry has expired
  MaxTime,        \* bound on the clock
  MaxFeedFaults,  \* bound on requests that fail
  MaxCancels      \* bound on cancelled callers

NoRequest == "no request"

ASSUME FeedAssumption ==
  /\ IsFiniteSet(Callers) /\ NoRequest \notin Slots
  /\ TTL \in Nat \ {0} /\ MaxTime \in Nat
  /\ MaxFeedFaults \in Nat /\ MaxCancels \in Nat

VARIABLES
  now,
  connected,      \* is the exchange in _exchanges?
  entry,          \* the cache's entry: when it was written, or -1
  inflight,       \* _inflight: the request of the symbol
  request,        \* the request tasks
  asker,         \* what each caller is at, and how old its answer was
  feedFaults, cancels

feedVars == <<now, connected, entry, inflight, request, asker, feedFaults, cancels>>

-----------------------------------------------------------------------------
Free == [state |-> "free", at |-> -1]

FeedTypeOK ==
  /\ now \in 0..MaxTime /\ connected \in BOOLEAN
  /\ entry \in -1..MaxTime
  /\ inflight \in {s \in Slots : request[s] # Free} \cup {NoRequest}
  /\ request \in [Slots -> [state : {"free", "asked", "cancelling", "done",
                                     "failed", "cancelled"}, at : -1..MaxTime]]
  /\ asker \in [Callers ->
       [pc : {"idle", "empty", "raised", "cancelled"}]
         \cup [pc : {"owner", "waiter"}, slot : Slots]
         \cup [pc : {"answered"}, age : 0..MaxTime]]
  /\ feedFaults \in 0..MaxFeedFaults /\ cancels \in 0..MaxCancels

FeedInit ==
  /\ now = 0 /\ connected = TRUE
  /\ entry = -1
  /\ inflight = NoRequest
  /\ request = [s \in Slots |-> Free]
  /\ asker = [c \in Callers |-> [pc |-> "idle"]]
  /\ feedFaults = 0 /\ cancels = 0

Awaiting(c) == asker[c].pc \in {"owner", "waiter"}

OverUnlessFailed(s) == request[s].state \in {"done", "cancelled"}

Over(s) == request[s].state \in {"done", "failed", "cancelled"}

Cached == entry >= 0 /\ now - entry < TTL

Becomes(c, state) == asker' = [asker EXCEPT ![c] = state]

-----------------------------------------------------------------------------
AskCached(c) ==
  /\ asker[c].pc = "idle" /\ Cached
  /\ Becomes(c, [pc |-> "answered", age |-> now - entry])
  /\ UNCHANGED <<now, connected, entry, inflight, request, feedFaults, cancels>>

\* The entry expires between the test for the key and its use.
AskExpiring(c) ==
  /\ asker[c].pc = "idle" /\ Cached /\ now - entry = TTL - 1
  /\ Becomes(c, [pc |-> "raised"])
  /\ UNCHANGED <<now, connected, entry, inflight, request, feedFaults, cancels>>

Share(c) ==
  /\ asker[c].pc = "idle" /\ ~Cached /\ inflight # NoRequest
  /\ Becomes(c, [pc |-> "waiter", slot |-> inflight])
  /\ UNCHANGED <<now, connected, entry, inflight, request, feedFaults, cancels>>

AskNobody(c) ==
  /\ asker[c].pc = "idle" /\ ~Cached /\ inflight = NoRequest /\ ~connected
  /\ Becomes(c, [pc |-> "empty"])
  /\ UNCHANGED <<now, connected, entry, inflight, request, feedFaults, cancels>>

Ask(c) ==
  /\ asker[c].pc = "idle" /\ ~Cached /\ inflight = NoRequest /\ connected
  /\ \E s \in Slots :
       /\ request[s] = Free
       /\ request' = [request EXCEPT ![s].state = "asked"]
       /\ inflight' = s
       /\ Becomes(c, [pc |-> "owner", slot |-> s])
  /\ UNCHANGED <<now, connected, entry, feedFaults, cancels>>

-----------------------------------------------------------------------------
\* _fetch: the answer is entered before anybody who waits for it goes on.
Respond(s) ==
  /\ request[s].state = "asked"
  /\ entry' = now
  /\ request' = [request EXCEPT ![s] = [state |-> "done", at |-> now]]
  /\ UNCHANGED <<now, connected, inflight, asker, feedFaults, cancels>>

RequestFails(s) ==
  /\ request[s].state = "asked"
  /\ feedFaults < MaxFeedFaults /\ feedFaults' = feedFaults + 1
  /\ request' = [request EXCEPT ![s].state = "failed"]
  /\ UNCHANGED <<now, connected, entry, inflight, asker, cancels>>

RequestCancelled(s) ==
  /\ request[s].state = "cancelling"
  /\ request' = [request EXCEPT ![s].state = "cancelled"]
  /\ UNCHANGED <<now, connected, entry, inflight, asker, feedFaults, cancels>>

\* The request is forgotten with the last of those who waited for it.
Left(c, s) ==
  IF \E d \in Callers \ {c} : Awaiting(d) /\ asker[d].slot = s
  THEN request ELSE [request EXCEPT ![s] = Free]

PoppedByAny(c) == NoRequest

\* The owner removes the entry however its wait ends (finally).
Popped(c) == IF asker[c].pc = "owner" THEN NoRequest ELSE inflight

\* A cancelled request cancels all who wait for it.
GoOn(c) ==
  /\ Awaiting(c) /\ Over(asker[c].slot)
  /\ LET s == asker[c].slot
     IN  /\ \/ /\ request[s].state = "done"
               /\ Becomes(c, [pc |-> "answered", age |-> now - request[s].at])
            \/ request[s].state = "failed" /\ Becomes(c, [pc |-> "empty"])
            \/ request[s].state = "cancelled" /\ Becomes(c, [pc |-> "cancelled"])
         /\ inflight' = Popped(c)
         /\ request' = Left(c, s)
  /\ UNCHANGED <<now, connected, entry, feedFaults, cancels>>

\* To cancel a task that awaits a request is to cancel the request.  If the
\* request is over, the cancelled task alone does not get its result.
Cancel(c) ==
  /\ Awaiting(c)
  /\ cancels < MaxCancels /\ cancels' = cancels + 1
  /\ LET s == asker[c].slot
     IN  IF Over(s)
         THEN /\ Becomes(c, [pc |-> "cancelled"])
              /\ inflight' = Popped(c)
              /\ request' = Left(c, s)
         ELSE /\ request' = [request EXCEPT ![s].state = "cancelling"]
              /\ UNCHANGED <<inflight, asker>>
  /\ UNCHANGED <<now, connected, entry, feedFaults>>

-----------------------------------------------------------------------------
\* A caller that had an answer, or none, asks again later.
AskAgain(c) ==
  /\ asker[c].pc \in {"answered", "empty", "raised"}
  /\ Becomes(c, [pc |-> "idle"])
  /\ UNCHANGED <<now, connected, entry, inflight, request, feedFaults, cancels>>

\* Whoever may go on does so before the clock ticks.
FeedTick ==
  /\ now < MaxTime
  /\ ~ \E c \in Callers : Awaiting(c) /\ Over(asker[c].slot)
  /\ now' = now + 1
  /\ UNCHANGED <<connected, entry, inflight, request, asker, feedFaults, cancels>>

StopFeed ==
  /\ connected
  /\ connected' = FALSE
  /\ UNCHANGED <<now, entry, inflight, request, asker, feedFaults, cancels>>

GetTicker(c) ==
  \/ AskCached(c) \/ AskExpiring(c) \/ Share(c) \/ AskNobody(c) \/ Ask(c)
  \/ GoOn(c)

Fetch(s) == Respond(s) \/ RequestFails(s) \/ RequestCancelled(s)

FeedNext ==
  \/ \E c \in Callers : GetTicker(c) \/ Cancel(c) \/ AskAgain(c)
  \/ \E s \in Slots : Fetch(s)
  \/ FeedTick \/ StopFeed

FeedSpec == FeedInit /\ [][FeedNext]_feedVars

\* Requests return or time out, and tasks that can go on do.
FeedFairness ==
  /\ \A s \in Slots : WF_feedVars(Fetch(s))
  /\ \A c \in Callers : WF_feedVars(GoOn(c))

-----------------------------------------------------------------------------
(***************************************************************************)
(* Properties                                                              *)
(***************************************************************************)

\* There is one request at a time, however many ask while it fails, is
\* cancelled, or has been answered to some of them only.
SingleFlight ==
  Cardinality({s \in Slots : request[s].state \in {"asked", "cancelling"}}) <= 1

\* The request that newcomers join still has its owner waiting, who will
\* remove it: nobody is sent for ever to a request that is over.
InflightOwned ==
  inflight # NoRequest =>
    \E c \in Callers : asker[c].pc = "owner" /\ asker[c].slot = inflight

\* No answer is older than the lifetime of a cache entry, whether it came
\* from the cache, from an own request or from another caller's.
AnswersFresh ==
  \A c \in Callers : asker[c].pc = "answered" => asker[c].age < TTL

\* A shared request is sent once, is owned while it can be joined, and gives
\* fresh answers.  That is all: who shares a request also shares its failure,
\* and its cancellation by another.
SharedSoundly == SingleFlight /\ InflightOwned /\ AnswersFresh

\* Whoever waits for a request, its own or another's, does not wait for ever.
WaitEnds == \A c \in Callers : Awaiting(c) ~> ~Awaiting(c)

=============================================================================
