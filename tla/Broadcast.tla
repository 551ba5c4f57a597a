------------------------------ MODULE Broadcast -------------------------------
(***************************************************************************)
(* The lists of WebSockets of the dashboard server and of the two web      *)
(* applications.  The endpoint of a socket enters it into the list and     *)
(* takes it out when the client has gone; a broadcast sends to the sockets *)
(* of a copy of the list, one after the other, and takes out those it      *)
(* cannot send to.  All of them are tasks of one asyncio loop.             *)
(*                                                                         *)
(* list.remove raises when the socket is not in the list any more.  In a   *)
(* broadcast that ends the broadcast; in the poller of the dashboard, the  *)
(* only task among the casters, it ends the poller.                        *)
(***************************************************************************)
EXTENDS FiniteSets

CONSTANTS
  Sockets,           \* the connections there may be
  Casters,           \* those that broadcast
  Poller,            \* the one of them that is a task of its own
  CatchesAll         \* the endpoint of web/app.py, which survives any error

ASSUME CastAssumption ==
  /\ Poller \in Casters /\ CatchesAll \in BOOLEAN
  /\ Casters \cap {"nobody", "endpoint"} = {}

VARIABLES
  clients,           \* ws_clients, ws_connections; the order of the sends is left open
  socket,            \* each connection and its endpoint
  caster,            \* each broadcast
  taker              \* who has taken a socket out of the list: kept for the properties

castVars == <<clients, socket, caster, taker>>

-----------------------------------------------------------------------------
\* "gone": the client has left and the endpoint does not know yet.
\* "broken": the endpoint is about to end with another error.
SocketStates == {"new", "open", "gone", "broken", "ended"}

\* left: the rest of the copy of the list.  For the properties: the socket
\* that the last broadcast was given up at, and those that it passed over.
Caster == [pc : {"idle", "sending", "raised"}, left : SUBSET Sockets,
           at : SUBSET Sockets, missed : SUBSET Sockets]

IdleCaster == [pc |-> "idle", left |-> {}, at |-> {}, missed |-> {}]

CastTypeOK ==
  /\ clients \subseteq Sockets
  /\ socket \in [Sockets -> SocketStates]
  /\ caster \in [Casters -> Caster]
  /\ taker \in [Sockets -> Casters \cup {"nobody", "endpoint"}]
  /\ \A c \in Sockets : c \in clients => socket[c] # "new" /\ taker[c] = "nobody"
  /\ \A b \in Casters : (caster[b].pc = "sending") <=> (caster[b].left # {})

CastInit ==
  /\ clients = {}
  /\ socket = [c \in Sockets |-> "new"]
  /\ caster = [b \in Casters |-> IdleCaster]
  /\ taker = [c \in Sockets |-> "nobody"]

-----------------------------------------------------------------------------
(***************************************************************************)
(* websocket_endpoint                                                      *)
(***************************************************************************)
\* accept() and the entry into the list.
ClientConnects(c) ==
  /\ socket[c] = "new"
  /\ socket' = [socket EXCEPT ![c] = "open"]
  /\ clients' = clients \cup {c}
  /\ UNCHANGED <<caster, taker>>

\* The client leaves, or sends what receive_text cannot take.
ClientLeaves(c) ==
  /\ socket[c] = "open"
  /\ socket' \in {[socket EXCEPT ![c] = how] : how \in {"gone", "broken"}}
  /\ UNCHANGED <<clients, caster, taker>>

TakenOut(c, by) ==
  /\ clients' = clients \ {c}
  /\ taker' = [taker EXCEPT ![c] = by]

\* WebSocketDisconnect: the remove that raises ends nothing but the endpoint.
EndpointEnds(c) ==
  /\ socket[c] = "gone"
  /\ socket' = [socket EXCEPT ![c] = "ended"]
  /\ IF c \in clients THEN TakenOut(c, "endpoint") ELSE UNCHANGED <<clients, taker>>
  /\ UNCHANGED caster

EndpointFails(c) ==
  /\ socket[c] = "broken"
  /\ socket' = [socket EXCEPT ![c] = "ended"]
  /\ IF CatchesAll /\ c \in clients THEN TakenOut(c, "endpoint")
     ELSE UNCHANGED <<clients, taker>>
  /\ UNCHANGED caster

Endpoint(c) == ClientConnects(c) \/ EndpointEnds(c) \/ EndpointFails(c)

-----------------------------------------------------------------------------
(***************************************************************************)
(* broadcast, binance_poller, get_candidates                               *)
(***************************************************************************)
\* A broadcast without a client does nothing.  The poller sleeps in between.
BeginBroadcast(b) ==
  /\ caster[b].pc = "idle" \/ (caster[b].pc = "raised" /\ b # Poller)
  /\ clients # {}
  /\ caster' = [caster EXCEPT ![b] =
       [pc |-> "sending", left |-> clients, at |-> {}, missed |-> {}]]
  /\ UNCHANGED <<clients, socket, taker>>

\* A loop over the list itself passes over the one that follows.
SkipsOne(left, c) ==
  IF left = {c} THEN {} ELSE left \ {c, CHOOSE d \in left \ {c} : TRUE}

AfterRemoval(left, c) == left \ {c}

Onward(cast, rest) ==
  IF rest # {} THEN [cast EXCEPT !.left = rest]
  ELSE [cast EXCEPT !.pc = "idle", !.left = {}]

\* A send may succeed although the client has just gone.
SendSucceeds(b, c) ==
  /\ caster[b].pc = "sending" /\ c \in caster[b].left
  /\ socket[c] # "ended"
  /\ caster' = [caster EXCEPT ![b] = Onward(@, @.left \ {c})]
  /\ UNCHANGED <<clients, socket, taker>>

Forgets(b, c) == TakenOut(c, b)

SendFails(b, c) ==
  /\ caster[b].pc = "sending" /\ c \in caster[b].left
  /\ socket[c] # "open" /\ c \in clients
  /\ Forgets(b, c)
  /\ LET rest == AfterRemoval(caster[b].left, c)
         over == caster[b].left \ (rest \cup {c})
     IN  caster' = [caster EXCEPT ![b] =
           Onward([caster[b] EXCEPT !.missed = @ \cup over], rest)]
  /\ UNCHANGED socket

\* The socket is not in the list any more: remove raises.
SendRaises(b, c) ==
  /\ caster[b].pc = "sending" /\ c \in caster[b].left
  /\ socket[c] # "open" /\ c \notin clients
  /\ caster' = [caster EXCEPT ![b] =
       [pc |-> "raised", left |-> {}, at |-> {c}, missed |-> {}]]
  /\ UNCHANGED <<clients, socket, taker>>

Broadcasting(b) ==
  \/ BeginBroadcast(b)
  \/ \E c \in Sockets : SendSucceeds(b, c) \/ SendFails(b, c) \/ SendRaises(b, c)

CastNext ==
  \/ \E c \in Sockets : Endpoint(c) \/ ClientLeaves(c)
  \/ \E b \in Casters : Broadcasting(b)

CastSpec == CastInit /\ [][CastNext]_castVars

-----------------------------------------------------------------------------
(***************************************************************************)
(* Properties                                                              *)
(***************************************************************************)

\* A broadcast is given up, and the poller with it, only at a socket that its
\* endpoint or another broadcast has taken out of the list: several clients
\* that are gone do no harm to one that runs alone.
GivenUpByARace ==
  \A b \in Casters, c \in Sockets :
    c \in caster[b].at => taker[c] \notin {b, "nobody"}

\* A broadcast that is not given up comes to every client of its copy.
StayersHear == \A b \in Casters : caster[b].missed = {}

\* Clients that leave take a message from others only by such a race.
LeaversHarmNobodyElse == GivenUpByARace /\ StayersHear

=============================================================================
