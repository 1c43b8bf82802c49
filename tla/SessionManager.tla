--------------------------- MODULE SessionManager ---------------------------
(***************************************************************************)
(* The signaling server: session_manager.js and the handlers server.js     *)
(* attaches to each WebSocket.  Node runs one handler at a time, so every  *)
(* event handler is one action; what interleaves is the ORDER of events of *)
(* different connections, the frames still in flight towards a client, and *)
(* the window between a socket leaving OPEN and its 'close' event.         *)
(*                                                                         *)
(* Each element of Ws is one WebSocket object, used for one connection: a  *)
(* client that reconnects does so over another element, possibly with the  *)
(* id of a connection that is still there.                                 *)
(***************************************************************************)
EXTENDS Naturals, Sequences, FiniteSets, SequencesExt

CONSTANTS
  Ws,          \* WebSocket connections
  Id,          \* client ids a verified token can carry
  RelayTypes,  \* the relayed message types: "offer", "answer", "candidate"
  None,        \* JavaScript's null, undefined or ''
  Server,      \* the 'from' of the frames the server originates
  MaxInFlight  \* bound: unread frames, over all connections, when an event is handled

ASSUME ValuesDistinct == None \notin Ws \cup Id /\ Server \notin Id \cup {None}
ASSUME RelayedTypes   == RelayTypes \subseteq {"offer", "answer", "candidate"}
ASSUME InFlightBound  == MaxInFlight \in Nat \ {0}

VARIABLES
  readyState,        \* ws.readyState, "NEW" before the upgrade
  connectedClients,  \* the keys of the connectedClients Map
  clientId,          \* ClientInfo.id (also ws.id), None before addClient
  targetId,          \* ClientInfo.targetId
  sessions,          \* the sessions Map: id -> ws
  shutdown,          \* process: "no", "draining" after a signal, "exited"
  outbox,            \* frames ws.send accepted and the client has not read
  linked             \* the peer the remote end takes itself to be talking to

serverVars == <<connectedClients, clientId, targetId, sessions>>
vars == <<readyState, connectedClients, clientId, targetId, sessions,
          shutdown, outbox, linked>>

-----------------------------------------------------------------------------
(* Messages a client may send (after JSON.parse) and frames it receives.   *)

\* 'from' may be forged or missing; a field the type's case does not read is
\* None.  The target of a join is its data.targetVehicleId.
MessageOf(types, tos, targets) ==
  [type: types, from: Id \cup {None}, to: tos, target: targets, enveloped: BOOLEAN]

Message == MessageOf({"join"}, {None}, Id \cup {None})
      \cup MessageOf(RelayTypes, Id \cup {None}, {None})
      \cup MessageOf({"leave", "other", "malformed"}, {None}, {None})

FrameTypes == RelayTypes \cup {"connected", "join_request", "leave", "error"}

\* about: the id an error's text names.  via: the connection whose event made
\* the server send the frame; the frame itself does not carry it.
Frame == [type: FrameTypes, from: Id \cup {Server}, to: Id \cup {None},
          about: Id \cup {None}, via: Ws]

ErrorFrame(w, about) ==
  [type |-> "error", from |-> Server, to |-> clientId[w], about |-> about, via |-> w]

\* The envelope { type: 'signaling', payload } is opened and its missing
\* fields are filled in from what the server knows of the sender.
Normalized(w, m) ==
  IF ~m.enveloped THEN m
  ELSE [m EXCEPT !.from = IF @ = None THEN clientId[w] ELSE @,
                 !.to   = IF @ = None THEN targetId[w] ELSE @]

Online(i) == sessions[i] # None /\ sessions[i] \in connectedClients

-----------------------------------------------------------------------------
\* sendMessage: a frame for a socket that is not OPEN is dropped with a
\* warning; nobody is told.
sendMessage(w, f) ==
  outbox' = IF readyState[w] = "OPEN"
            THEN [outbox EXCEPT ![w] = Append(@, f)] ELSE outbox

addClient(w, i) ==
  /\ connectedClients' = connectedClients \cup {w}
  /\ clientId' = [clientId EXCEPT ![w] = i]
  /\ targetId' = [targetId EXCEPT ![w] = None]
  /\ sessions' = [sessions EXCEPT ![i] = w]

\* Mutant: a disconnected client stays in the session map.
removeClient_KeepsSession(w) ==
  /\ connectedClients' = connectedClients \ {w}
  /\ targetId' = [targetId EXCEPT ![w] = None]
  /\ UNCHANGED <<clientId, sessions, outbox>>

\* Mutant: whoever targets the disconnected client is not told.
removeClient_Silent(w) ==
  /\ connectedClients' = connectedClients \ {w}
  /\ sessions' = [i \in Id |-> IF sessions[i] = w THEN None ELSE sessions[i]]
  /\ targetId' = [targetId EXCEPT ![w] = None]
  /\ UNCHANGED <<clientId, outbox>>

\* The registered connection of an id takes the id with it and tells whoever
\* targets the id; a connection that a newer one replaced goes unnoticed.
removeClient(w) ==
  LET i == clientId[w]
      rest == connectedClients \ {w}
      told == {v \in rest : targetId[v] = i /\ readyState[v] = "OPEN"}
  IN  /\ connectedClients' = rest
      /\ IF sessions[i] = w
         THEN /\ sessions' = [sessions EXCEPT ![i] = None]
              /\ outbox' = [v \in Ws |->
                   IF v \in told
                   THEN Append(outbox[v], [type |-> "leave", from |-> i,
                          to |-> clientId[v], about |-> None, via |-> w])
                   ELSE outbox[v]]
         ELSE UNCHANGED <<sessions, outbox>>
      /\ targetId' = [targetId EXCEPT ![w] = None]
      /\ UNCHANGED clientId

-----------------------------------------------------------------------------
(* routeMessage: one operator per case of its switch; m is normalized and  *)
(* its 'from' is the sender's authenticated id.                            *)

\* Mutant: a join that reaches its target does not record it.
routeJoin_ForgetsTarget(w, m) ==
  /\ m.type = "join"
  /\ IF m.target = None THEN UNCHANGED <<targetId, outbox, linked>>
     ELSE /\ linked' = [linked EXCEPT ![w] = m.target]
          /\ targetId' = [targetId EXCEPT ![w] = None]
          /\ IF Online(m.target)
             THEN sendMessage(sessions[m.target],
                    [type |-> "join_request", from |-> clientId[w],
                     to |-> m.target, about |-> None, via |-> w])
             ELSE sendMessage(w, ErrorFrame(w, m.target))

\* Mutant: a join to somebody absent is dropped without an error.
routeJoin_NoError(w, m) ==
  /\ m.type = "join"
  /\ IF m.target = None THEN UNCHANGED <<targetId, outbox, linked>>
     ELSE /\ linked' = [linked EXCEPT ![w] = m.target]
          /\ targetId' = [targetId EXCEPT ![w] = IF Online(m.target) THEN m.target ELSE None]
          /\ IF Online(m.target)
             THEN sendMessage(sessions[m.target],
                    [type |-> "join_request", from |-> clientId[w],
                     to |-> m.target, about |-> None, via |-> w])
             ELSE UNCHANGED outbox

routeJoin(w, m) ==
  /\ m.type = "join"
  /\ IF m.target = None THEN UNCHANGED <<targetId, outbox, linked>>
     ELSE /\ linked' = [linked EXCEPT ![w] = m.target]
          /\ \/ /\ Online(m.target)
                /\ targetId' = [targetId EXCEPT ![w] = m.target]
                /\ sendMessage(sessions[m.target],
                     [type |-> "join_request", from |-> clientId[w],
                      to |-> m.target, about |-> None, via |-> w])
             \/ /\ ~Online(m.target)
                /\ targetId' = [targetId EXCEPT ![w] = None]
                /\ sendMessage(w, ErrorFrame(w, m.target))

routeLeave(w, m) ==
  /\ m.type = "leave"
  /\ LET t == targetId[w] IN
       IF t # None /\ Online(t)
       THEN sendMessage(sessions[t], [type |-> "leave", from |-> clientId[w],
                          to |-> t, about |-> None, via |-> w])
       ELSE UNCHANGED outbox
  /\ targetId' = [targetId EXCEPT ![w] = None]
  /\ linked' = [linked EXCEPT ![w] = None]

routeRelay(w, m) ==
  /\ m.type \in RelayTypes
  /\ \/ m.to = None /\ UNCHANGED outbox
     \/ /\ m.to # None /\ Online(m.to)
        /\ sendMessage(sessions[m.to], [type |-> m.type, from |-> m.from,
                          to |-> m.to, about |-> None, via |-> w])
     \/ /\ m.to # None /\ ~Online(m.to)
        /\ sendMessage(w, ErrorFrame(w, m.to))
  /\ UNCHANGED <<targetId, linked>>

routeOther(w, m) ==
  /\ m.type = "other"
  /\ sendMessage(w, ErrorFrame(w, None))
  /\ UNCHANGED <<targetId, linked>>

\* Mutant: the sender's id is believed.
routeMessage_TrustsFrom(w, m) ==
  /\ routeJoin(w, m) \/ routeLeave(w, m) \/ routeRelay(w, m) \/ routeOther(w, m)
  /\ UNCHANGED <<connectedClients, clientId, sessions>>

routeMessage(w, m) ==
  /\ IF m.from = clientId[w]
     THEN routeJoin(w, m) \/ routeLeave(w, m) \/ routeRelay(w, m) \/ routeOther(w, m)
     ELSE UNCHANGED <<targetId, outbox, linked>>
  /\ UNCHANGED <<connectedClients, clientId, sessions>>

-----------------------------------------------------------------------------
(* The events of server.js.  Room is the bound on the frames in flight.    *)

Room == Cardinality({p \in Ws \X (1..MaxInFlight) : p[2] <= Len(outbox[p[1]])})
          < MaxInFlight

\* A connection whose token verifies as id i.
OnConnection(w, i) ==
  /\ Room /\ shutdown = "no" /\ readyState[w] = "NEW"
  /\ readyState' = [readyState EXCEPT ![w] = "OPEN"]
  /\ addClient(w, i)
  /\ outbox' = [outbox EXCEPT ![w] = Append(@, [type |-> "connected",
                  from |-> Server, to |-> None, about |-> None, via |-> w])]
  /\ UNCHANGED <<shutdown, linked>>

\* A connection whose token does not verify: told so and terminated.
OnUnauthenticated(w) ==
  /\ shutdown = "no" /\ readyState[w] = "NEW"
  /\ readyState' = [readyState EXCEPT ![w] = "CLOSED"]
  /\ UNCHANGED <<connectedClients, clientId, targetId, sessions, shutdown, outbox, linked>>

\* The ws library still emits buffered messages of a CLOSING socket.
OnMessage(w, m) ==
  /\ shutdown # "exited" /\ w \in connectedClients
  /\ IF m.type = "malformed"
     THEN /\ sendMessage(w, [type |-> "error", from |-> Server, to |-> None,
                             about |-> None, via |-> w])
          /\ UNCHANGED <<serverVars, linked>>
     ELSE routeMessage(w, Normalized(w, m))
  /\ UNCHANGED <<readyState, shutdown>>

OnClose(w) ==
  /\ Room /\ shutdown # "exited" /\ readyState[w] = "CLOSING"
  /\ readyState' = [readyState EXCEPT ![w] = "CLOSED"]
  /\ removeClient(w)
  /\ UNCHANGED <<shutdown, linked>>

\* SIGINT or SIGTERM: wss.close takes no new connection and waits for the
\* connected ones; only then does its callback end the process.
OnSignal ==
  /\ shutdown = "no"
  /\ shutdown' = "draining"
  /\ UNCHANGED <<readyState, serverVars, outbox, linked>>

\* Mutant: the process ends without waiting for the connected clients.
Exit_AtOnce ==
  /\ shutdown = "draining"
  /\ shutdown' = "exited"
  /\ UNCHANGED <<readyState, serverVars, outbox, linked>>

Exit ==
  /\ shutdown = "draining"
  /\ \A w \in Ws : readyState[w] \notin {"OPEN", "CLOSING"}
  /\ shutdown' = "exited"
  /\ UNCHANGED <<readyState, serverVars, outbox, linked>>

-----------------------------------------------------------------------------
(* The other end of a connection.                                          *)

\* The remote end closes, or the network cuts the connection off: the frames
\* in flight are lost and the 'close' event is still to come.
ConnectionLost(w) ==
  /\ readyState[w] = "OPEN"
  /\ readyState' = [readyState EXCEPT ![w] = "CLOSING"]
  /\ outbox' = [outbox EXCEPT ![w] = <<>>]
  /\ linked' = [linked EXCEPT ![w] = None]
  /\ UNCHANGED <<serverVars, shutdown>>

Announces(f, i) == \/ f.type = "leave" /\ f.from = i
                   \/ f.type = "error" /\ f.about = i

ClientReads(w) ==
  /\ outbox[w] # <<>>
  /\ outbox' = [outbox EXCEPT ![w] = Tail(@)]
  /\ linked' = [linked EXCEPT ![w] =
                  IF @ # None /\ Announces(Head(outbox[w]), @) THEN None ELSE @]
  /\ UNCHANGED <<readyState, serverVars, shutdown>>

-----------------------------------------------------------------------------
Init ==
  /\ readyState = [w \in Ws |-> "NEW"]
  /\ connectedClients = {}
  /\ clientId = [w \in Ws |-> None]
  /\ targetId = [w \in Ws |-> None]
  /\ sessions = [i \in Id |-> None]
  /\ shutdown = "no"
  /\ outbox = [w \in Ws |-> <<>>]
  /\ linked = [w \in Ws |-> None]

Next ==
  \/ \E w \in Ws, i \in Id : OnConnection(w, i)
  \/ \E w \in Ws : OnUnauthenticated(w)
  \/ Room /\ \E w \in Ws, m \in Message : OnMessage(w, m)
  \/ \E w \in Ws : OnClose(w)
  \/ OnSignal
  \/ Exit
  \/ \E w \in Ws : ConnectionLost(w)
  \/ \E w \in Ws : ClientReads(w)

\* A connected client's event loop reads what arrives, and a socket that left
\* OPEN gets its 'close' event.  Nobody has to connect, speak or disconnect.
Fairness == \A w \in Ws : WF_vars(OnClose(w)) /\ WF_vars(ClientReads(w))

Spec == Init /\ [][Next]_vars

FairSpec == Spec /\ Fairness

-----------------------------------------------------------------------------
TypeOK ==
  /\ readyState \in [Ws -> {"NEW", "OPEN", "CLOSING", "CLOSED"}]
  /\ connectedClients \subseteq Ws
  /\ clientId \in [Ws -> Id \cup {None}]
  /\ targetId \in [Ws -> Id \cup {None}]
  /\ sessions \in [Id -> Ws \cup {None}]
  /\ shutdown \in {"no", "draining", "exited"}
  /\ outbox \in [Ws -> Seq(Frame)]
  /\ linked \in [Ws -> Id \cup {None}]

\* The two Maps agree: a registered connection is a connected one, under the
\* id its token carries (addClient overwrites, removeClient searches by value).
SessionsConsistent ==
  \A i \in Id : sessions[i] # None =>
    sessions[i] \in connectedClients /\ clientId[sessions[i]] = i

\* Whatever frame reaches a client claims as its sender the id that the
\* connection it came from was authenticated with, and names the receiving
\* client: no message, envelope or notification crosses identities, also
\* when ids are taken over by a newer connection (routeMessage's check of
\* 'from', lookups by id in sessions, the leave of removeClient).
RoutingIntegrity ==
  \A w \in Ws : \A f \in ToSet(outbox[w]) :
    /\ f.from \in Id => clientId[f.via] = f.from
    /\ f.to \in Id => clientId[w] = f.to

Announced(w, i) == \E f \in ToSet(outbox[w]) : Announces(f, i)

\* A client that takes itself to be talking to a peer that is no longer
\* reachable has the notice of it on its way: the leave of removeClient or
\* the error of a join to somebody absent.  No order of joins, leaves,
\* takeovers of an id and disconnections leaves it waiting for nobody.
PeerLossIsAnnounced ==
  \A w \in Ws : readyState[w] = "OPEN" /\ linked[w] # None /\ ~Online(linked[w])
                  => Announced(w, linked[w])

\* The two Maps hold exactly the sockets whose 'close' is still to come, and
\* the process does not exit while there is one (the wss.close callback).
NoExitWhileConnected ==
  /\ connectedClients = {w \in Ws : readyState[w] \in {"OPEN", "CLOSING"}}
  /\ shutdown = "exited" => connectedClients = {}

\* What makes the above inductive.  A connection has an id from addClient on
\* and for ever; a client that is linked to a peer is registered as targeting
\* it while the peer is online, so that removeClient will tell it, or the
\* notice is already on its way.
NewIsUnknown ==
  \A w \in Ws : /\ readyState[w] = "NEW" => clientId[w] = None /\ linked[w] = None
                /\ w \in connectedClients => clientId[w] \in Id

LinkedIsTargeted ==
  \A w \in Ws : readyState[w] = "OPEN" /\ linked[w] # None =>
     \/ targetId[w] = linked[w] /\ Online(linked[w])
     \/ Announced(w, linked[w])

ServerInv == /\ TypeOK /\ SessionsConsistent /\ RoutingIntegrity
             /\ NoExitWhileConnected /\ NewIsUnknown /\ LinkedIsTargeted

\* The notice is also read: nobody stays linked to an absent peer for ever.
PeerLossIsNoticed ==
  \A w \in Ws, i \in Id :
    (readyState[w] = "OPEN" /\ linked[w] = i /\ ~Online(i))
      ~> (readyState[w] # "OPEN" \/ linked[w] # i \/ Online(i))

-----------------------------------------------------------------------------
(* What a comment of session_manager.js says and the code does not do.     *)

\* "If this client was part of a session (had a target or was a target),
\* notify the other peer": a client that HAD a target disconnects, and the
\* target, online and open, gets a leave from it.
TargetIsNotified ==
  [][\A w \in Ws :
       LET t == targetId[w] IN
         (/\ w \in connectedClients \ connectedClients'
          /\ t \notin {None, clientId[w]} /\ Online(t)
          /\ readyState[sessions[t]] = "OPEN")
         => \E f \in ToSet(outbox'[sessions[t]]) :
              f.type = "leave" /\ f.from = clientId[w]]_vars
=============================================================================
