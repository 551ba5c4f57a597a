------------------------------ MODULE EventBus -------------------------------
(***************************************************************************)
(* The event bus of a process: its table of subscriptions, the pub/sub     *)
(* object it has at Redis, and the listener task that reads messages and   *)
(* calls the handlers one after the other.                                 *)
(*                                                                         *)
(* The services subscribe and unsubscribe in tasks of their own.  They and *)
(* the listener share a lock, which subscribe() gives back before it talks *)
(* to Redis and unsubscribe() and the resubscription keep while they do.   *)
(* A connection error makes the listener drop the pub/sub object, and with *)
(* it the messages that wait in it.  Redis and its client are external:    *)
(* they appear as what commands and polls may answer.                      *)
(*                                                                         *)
(* No service subscribes with a wildcard: a channel is a name here.  The   *)
(* bus is started once, before any service, as main.py does, and a service *)
(* subscribes once.                                                        *)
(***************************************************************************)
EXTENDS Integers, Sequences, FiniteSets, SequencesExt

CONSTANTS
  Handlers,       \* subscription ids
  Channels,
  ChannelOf,      \* the channel each handler subscribes to
  MaxMessages,    \* bound on published messages
  MaxErrors,      \* bound on connection errors
  MaxFailures,    \* bound on SUBSCRIBE commands that fail
  MaxUnsubscribes \* bound on unsubscriptions

ASSUME BusAssumption ==
  /\ IsFiniteSet(Handlers)
  /\ ChannelOf \in [Handlers -> Channels]
  /\ MaxMessages \in Nat /\ MaxErrors \in Nat
  /\ MaxFailures \in Nat /\ MaxUnsubscribes \in Nat

VARIABLES
  subs,           \* _subscriptions: the handlers in the order of the dict
  caller,         \* what the service of a handler is doing with the bus
  pubsub,         \* is _pubsub an object, and not None?
  wired,          \* has the current object a connection?  It gets one with
                  \*   its first command, and cannot be polled before
  heard,          \* Redis: channels the current object is subscribed to
  inbox,          \* messages that wait in the current object
  listener,       \* _listen_loop
  published,      \* number of messages published so far
  errors, failures, unsubscribes

\* Observations that no action reads.
VARIABLES
  calls,          \* the messages each handler was called with
  missed          \* channels for which a SUBSCRIBE failed, or was undone by
                  \*   the UNSUBSCRIBE of another handler, since the last
                  \*   resubscription

redis   == <<pubsub, wired, heard, inbox>>
history == <<calls, missed>>
bounds  == <<errors, failures, unsubscribes>>
busVars == <<subs, caller, redis, listener, published, bounds, history>>

-----------------------------------------------------------------------------
Message == [num : 1..MaxMessages, channel : Channels]

\* Handlers that are still to be called, at their places in the table.
Due == UNION {[D -> Handlers] : D \in SUBSET (1..Cardinality(Handlers))}

Caller == [pc : {"out", "in", "gone"}]
  \cup [pc : {"subscribing", "unsubscribing"}, current : BOOLEAN]

Listener == [pc : {"poll", "connect"}]
  \cup [pc : {"resubscribe"}, todo : Seq(Handlers)]
  \cup [pc : {"dispatch"}, msg : Message, due : Due]
  \cup [pc : {"calling"}, msg : Message, due : Due, handler : Handlers]

BusTypeOK ==
  /\ subs \in Seq(Handlers)
  /\ caller \in [Handlers -> Caller]
  /\ pubsub \in BOOLEAN /\ wired \in BOOLEAN
  /\ heard \subseteq Channels
  /\ inbox \in Seq(Message)
  /\ listener \in Listener
  /\ published \in 0..MaxMessages
  /\ errors \in 0..MaxErrors /\ failures \in 0..MaxFailures
  /\ unsubscribes \in 0..MaxUnsubscribes
  /\ calls \in [Handlers -> Seq(1..MaxMessages)]
  /\ missed \subseteq Channels

\* start(): connected, and the listener task is created.
BusInit ==
  /\ subs = <<>>
  /\ caller = [h \in Handlers |-> [pc |-> "out"]]
  /\ pubsub = TRUE /\ wired = FALSE
  /\ heard = {}
  /\ inbox = <<>>
  /\ listener = [pc |-> "poll"]
  /\ published = 0
  /\ errors = 0 /\ failures = 0 /\ unsubscribes = 0
  /\ calls = [h \in Handlers |-> <<>>]
  /\ missed = {}

-----------------------------------------------------------------------------
Subscribed == ToSet(subs)

LockFree ==
  /\ listener.pc # "resubscribe"
  /\ \A h \in Handlers : caller[h].pc # "unsubscribing"

RegisteredFirst(h) == <<h>> \o subs

Registered(h) == Append(subs, h)

(***************************************************************************)
(* subscribe(): the entry in the table, then the command, to the object    *)
(* that was current at that time.                                          *)
(***************************************************************************)
Subscribe(h) ==
  /\ caller[h].pc = "out"
  /\ LockFree
  /\ subs' = Registered(h)
  /\ caller' = [caller EXCEPT ![h] =
       IF pubsub THEN [pc |-> "subscribing", current |-> TRUE] ELSE [pc |-> "in"]]
  /\ UNCHANGED <<redis, listener, published, bounds, history>>

SubscribeDone(h) ==
  /\ caller[h].pc = "subscribing"
  /\ caller' = [caller EXCEPT ![h] = [pc |-> "in"]]
  /\ IF caller[h].current
     THEN heard' = heard \cup {ChannelOf[h]} /\ wired' = TRUE
     ELSE UNCHANGED <<heard, wired>>
  /\ UNCHANGED <<subs, pubsub, inbox, listener, published, bounds, history>>

\* The exception of the command is logged; the caller is told nothing.
SubscribeFails(h) ==
  /\ caller[h].pc = "subscribing"
  /\ failures < MaxFailures
  /\ failures' = failures + 1
  /\ caller' = [caller EXCEPT ![h] = [pc |-> "in"]]
  /\ IF caller[h].current
     THEN missed' = missed \cup {ChannelOf[h]} /\ wired' \in {wired, TRUE}
     ELSE UNCHANGED <<missed, wired>>
  /\ UNCHANGED <<subs, pubsub, heard, inbox, listener, published, errors,
                 unsubscribes, calls>>

\* unsubscribe(): out of the table, then the command, under the lock.
Unsubscribe(h) ==
  /\ caller[h].pc = "in"
  /\ unsubscribes < MaxUnsubscribes
  /\ LockFree
  /\ unsubscribes' = unsubscribes + 1
  /\ \E i \in DOMAIN subs : subs[i] = h /\ subs' = RemoveAt(subs, i)
  /\ caller' = [caller EXCEPT ![h] =
       IF pubsub THEN [pc |-> "unsubscribing", current |-> TRUE]
                 ELSE [pc |-> "gone"]]
  /\ UNCHANGED <<redis, listener, published, errors, failures, history>>

\* An error of the command is ignored.
UnsubscribeDone(h) ==
  /\ caller[h].pc = "unsubscribing"
  /\ caller' = [caller EXCEPT ![h] = [pc |-> "gone"]]
  /\ \/ /\ caller[h].current
        /\ heard' = heard \ {ChannelOf[h]}
        /\ missed' = missed \cup {ChannelOf[h]}
     \/ UNCHANGED <<heard, missed>>
  /\ UNCHANGED <<subs, pubsub, wired, inbox, listener, published, bounds,
                 calls>>

-----------------------------------------------------------------------------
\* publish(), by this process or another one.
Publish(c) ==
  /\ published < MaxMessages
  /\ published' = published + 1
  /\ inbox' = IF pubsub /\ c \in heard
              THEN Append(inbox, [num |-> published + 1, channel |-> c])
              ELSE inbox
  /\ UNCHANGED <<subs, caller, pubsub, wired, heard, listener, bounds,
                 history>>

(***************************************************************************)
(* The listener                                                            *)
(***************************************************************************)
Matching(c) == [i \in {i \in DOMAIN subs : ChannelOf[subs[i]] = c} |-> subs[i]]

\* The subscribers of a message are those of the moment it is read.
Receive ==
  /\ listener.pc = "poll"
  /\ inbox # <<>>
  /\ LockFree
  /\ inbox' = Tail(inbox)
  /\ listener' = [pc |-> "dispatch", msg |-> Head(inbox),
                  due |-> Matching(Head(inbox).channel)]
  /\ UNCHANGED <<subs, caller, pubsub, wired, heard, published, bounds,
                 history>>

Rest(due, i) == Restrict(due, DOMAIN due \ {i})

CallNext ==
  /\ listener.pc = "dispatch"
  /\ \E i \in DOMAIN listener.due :
       LET h == listener.due[i]
       IN  /\ \A j \in DOMAIN listener.due : i <= j
           /\ calls' = [calls EXCEPT ![h] = Append(@, listener.msg.num)]
           /\ listener' = [pc |-> "calling", msg |-> listener.msg, handler |-> h,
                           due |-> Rest(listener.due, i)]
  /\ UNCHANGED <<subs, caller, redis, published, bounds, missed>>

\* The handler returns or raises.
Return ==
  /\ listener.pc = "calling"
  /\ listener' = [pc |-> "dispatch", msg |-> listener.msg, due |-> listener.due]
  /\ UNCHANGED <<subs, caller, redis, published, bounds, history>>

AllCalled ==
  /\ listener.pc = "dispatch" /\ DOMAIN listener.due = {}
  /\ listener' = [pc |-> "poll"]
  /\ UNCHANGED <<subs, caller, redis, published, bounds, history>>

\* Commands on their way to the object are lost with it.
LosePubsub ==
  /\ listener' = [pc |-> "connect"]
  /\ pubsub' = FALSE
  /\ wired' = FALSE
  /\ heard' = {}
  /\ inbox' = <<>>
  /\ caller' = [h \in Handlers |->
       IF caller[h].pc \in {"subscribing", "unsubscribing"}
       THEN [caller[h] EXCEPT !.current = FALSE] ELSE caller[h]]

\* get_message() raises: an error of the connection, or there is none yet.
PollFails ==
  /\ listener.pc = "poll"
  /\ \/ ~wired /\ UNCHANGED errors
     \/ errors < MaxErrors /\ errors' = errors + 1
  /\ LosePubsub
  /\ UNCHANGED <<subs, published, failures, unsubscribes, history>>

PubsubAfterPing == pubsub

\* connect() makes a new pub/sub object.
PubsubAfterConnect == TRUE

\* connect(), then the lock.
Reconnect ==
  /\ listener.pc = "connect" /\ ~pubsub
  /\ pubsub' = PubsubAfterConnect
  /\ UNCHANGED <<subs, caller, wired, heard, inbox, listener, published, bounds,
                 history>>

NoResubscription == <<>>

Resubscription == subs

StartResubscribe ==
  /\ listener.pc = "connect" /\ pubsub
  /\ LockFree
  /\ listener' = [pc |-> "resubscribe", todo |-> Resubscription]
  /\ missed' = {}
  /\ UNCHANGED <<subs, caller, redis, published, bounds, calls>>

Resubscribe ==
  /\ listener.pc = "resubscribe"
  /\ IF listener.todo = <<>>
     THEN listener' = [pc |-> "poll"] /\ UNCHANGED <<heard, wired>>
     ELSE /\ heard' = heard \cup {ChannelOf[Head(listener.todo)]}
          /\ wired' = TRUE
          /\ listener' = [listener EXCEPT !.todo = Tail(@)]
  /\ UNCHANGED <<subs, caller, pubsub, inbox, published, bounds, history>>

ResubscribeFails ==
  /\ listener.pc = "resubscribe" /\ listener.todo # <<>>
  /\ errors < MaxErrors /\ errors' = errors + 1
  /\ LosePubsub
  /\ UNCHANGED <<subs, published, failures, unsubscribes, history>>

-----------------------------------------------------------------------------
Answer(h) == SubscribeDone(h) \/ SubscribeFails(h) \/ UnsubscribeDone(h)

Listen == \/ Receive
          \/ CallNext
          \/ Return
          \/ AllCalled
          \/ PollFails
          \/ Reconnect
          \/ StartResubscribe
          \/ Resubscribe
          \/ ResubscribeFails

BusNext ==
  \/ \E h \in Handlers : Subscribe(h) \/ Unsubscribe(h) \/ Answer(h)
  \/ \E c \in Channels : Publish(c)
  \/ Listen

BusSpec == BusInit /\ [][BusNext]_busVars

\* The listener catches every exception and goes on; a command is answered or
\* times out.
BusFairness ==
  WF_busVars(Listen) /\ \A h \in Handlers : WF_busVars(Answer(h))

-----------------------------------------------------------------------------
(***************************************************************************)
(* Properties                                                              *)
(***************************************************************************)

\* A handler is called with each message at most once, and in the order of
\* publication, through reconnections, failing handlers and changes of the
\* table while a message is being dispatched.
OrderedAtMostOnce ==
  \A h \in Handlers : \A i, j \in DOMAIN calls[h] :
    i < j => calls[h][i] < calls[h][j]

Before(g, h) ==
  \E i, j \in DOMAIN subs : i < j /\ subs[i] = g /\ subs[j] = h

\* A handler is called with a message only after all the handlers that were
\* subscribed to it before: the trade manager relies on the pre-check of the
\* risk service having marked the very event it gets.
CalledInOrderOfSubscription ==
  listener.pc = "calling" =>
    \A g \in Subscribed :
      ChannelOf[g] = listener.msg.channel /\ Before(g, listener.handler)
        => Contains(calls[g], listener.msg.num)

\* No handler ever sees the messages, or the handlers before it, out of order.
CalledInOrder == OrderedAtMostOnce /\ CalledInOrderOfSubscription

\* A listener that polls hears the channel of every subscribed handler, unless
\* a command for it is on the way, failed, or unsubscribed another handler:
\* no interleaving of subscriptions with a reconnection leaves a gap, and a
\* reconnection heals the ones there were.
SubscribersHeard ==
  pubsub /\ listener.pc \in {"poll", "dispatch", "calling"} =>
    \A h \in Subscribed :
      \/ ChannelOf[h] \in heard
      \/ caller[h].pc = "subscribing" /\ caller[h].current
      \/ ChannelOf[h] \in missed

\* A subscribed handler is heard sooner or later, after any reconnection, with
\* the same exceptions: a bus without a connection gets one again, and does not
\* lose a handler that subscribed while it had none.
Reconnected ==
  \A h \in Handlers :
    h \in Subscribed ~>
      h \notin Subscribed \/ ChannelOf[h] \in heard \cup missed

=============================================================================
