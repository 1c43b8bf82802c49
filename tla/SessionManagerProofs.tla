------------------------ MODULE SessionManagerProofs ------------------------
(***************************************************************************)
(* The safety theorems of the signaling server, for any sets of            *)
(* connections and ids.  ServerInv is the inductive invariant; the proof   *)
(* has one lemma per event handler.                                        *)
(***************************************************************************)
EXTENDS SessionManager, SequenceTheorems, TLAPS

-----------------------------------------------------------------------------
\* The frames of an outbox after ws.send, and after the client read one.
LEMMA FramesOfAppend ==
  ASSUME NEW S, NEW s \in Seq(S), NEW e \in S
  PROVE  ToSet(Append(s, e)) = ToSet(s) \cup {e}
<1>. DEFINE t == Append(s, e)
<1>1. /\ Len(t) = Len(s) + 1 /\ t \in Seq(S)
      /\ \A i \in 1..Len(s) : t[i] = s[i]
      /\ t[Len(s) + 1] = e
  BY AppendProperties
<1>2. DOMAIN t = 1..Len(s) + 1 /\ DOMAIN s = 1..Len(s) /\ Len(s) \in Nat
  BY <1>1, LenProperties
<1>3. DOMAIN t = DOMAIN s \cup {Len(s) + 1}
  BY <1>2
<1>. HIDE DEF t
<1>. QED BY <1>1, <1>2, <1>3 DEF ToSet, t

LEMMA FramesOfTail ==
  ASSUME NEW S, NEW s \in Seq(S), s # <<>>
  PROVE  ToSet(s) = ToSet(Tail(s)) \cup {Head(s)}
<1>. DEFINE t == Tail(s)
<1>1. /\ Len(t) = Len(s) - 1 /\ t \in Seq(S)
      /\ \A i \in 1..Len(t) : t[i] = s[i + 1]
  BY HeadTailProperties
<1>2. DOMAIN t = 1..Len(s) - 1 /\ DOMAIN s = 1..Len(s) /\ Len(s) \in Nat \ {0}
  BY <1>1, LenProperties, EmptySeq
<1>3. Head(s) = s[1]
  OBVIOUS
<1>. HIDE DEF t
<1>4. ASSUME NEW i \in DOMAIN s
      PROVE  s[i] \in ToSet(t) \cup {Head(s)}
  <2>1. CASE i = 1 BY <2>1, <1>3
  <2>2. CASE i # 1
    <3>1. i - 1 \in DOMAIN t /\ t[i - 1] = s[i]
      BY <2>2, <1>1, <1>2
    <3>. QED BY <3>1 DEF ToSet
  <2>. QED BY <2>1, <2>2
<1>5. ASSUME NEW i \in DOMAIN t PROVE t[i] \in ToSet(s)
  <2>1. i + 1 \in DOMAIN s /\ t[i] = s[i + 1] BY <1>1, <1>2
  <2>. QED BY <2>1 DEF ToSet
<1>6. Head(s) \in ToSet(s) BY <1>2, <1>3 DEF ToSet
<1>. QED BY <1>4, <1>5, <1>6 DEF ToSet, t

\* What ws.send adds is the frame it is given, for the connection it is given.
LEMMA SendAddsFrame ==
  ASSUME outbox \in [Ws -> Seq(Frame)], NEW w \in Ws, NEW f \in Frame,
         sendMessage(w, f)
  PROVE  /\ outbox' \in [Ws -> Seq(Frame)]
         /\ \A v \in Ws : ToSet(outbox[v]) \subseteq ToSet(outbox'[v])
         /\ \A v \in Ws : \A g \in ToSet(outbox'[v]) :
              g \in ToSet(outbox[v]) \/ (v = w /\ g = f)
         /\ readyState[w] = "OPEN" => f \in ToSet(outbox'[w])
<1>1. CASE readyState[w] # "OPEN"
  BY <1>1 DEF sendMessage
<1>2. CASE readyState[w] = "OPEN"
  <2>1. outbox' = [outbox EXCEPT ![w] = Append(outbox[w], f)]
    BY <1>2 DEF sendMessage
  <2>2. Append(outbox[w], f) \in Seq(Frame)
    BY AppendProperties
  <2>3. ToSet(outbox'[w]) = ToSet(outbox[w]) \cup {f}
    BY <2>1, FramesOfAppend
  <2>4. \A v \in Ws \ {w} : outbox'[v] = outbox[v]
    BY <2>1
  <2>. QED BY <2>1, <2>2, <2>3, <2>4
<1>. QED BY <1>1, <1>2

\* What is left to show of a handler that adds frames: their addressing.
LEMMA RoutingKept ==
  ASSUME RoutingIntegrity, outbox \in [Ws -> Seq(Frame)], clientId' = clientId,
         \A v \in Ws : \A g \in ToSet(outbox'[v]) :
           \/ g \in ToSet(outbox[v])
           \/ /\ g.from \in Id => clientId[g.via] = g.from
              /\ g.to \in Id => clientId[v] = g.to
  PROVE  RoutingIntegrity'
BY DEF RoutingIntegrity

-----------------------------------------------------------------------------
\* Opening an envelope keeps a message's type and target, and its 'to' an id.
LEMMA NormalizedFields ==
  ASSUME TypeOK, NEW w \in Ws, NEW m \in Message
  PROVE  LET n == Normalized(w, m) IN
         /\ n.type = m.type /\ n.target = m.target
         /\ m.type \in RelayTypes \cup {"join", "leave", "other", "malformed"}
         /\ n.to \in Id \cup {None} /\ n.target \in Id \cup {None}
BY DEF Normalized, Message, MessageOf, TypeOK

\* The error routeMessage sends is addressed to the client it goes to.
LEMMA ErrorFrameType ==
  ASSUME TypeOK, NEW w \in Ws, NEW i \in Id \cup {None}
  PROVE  /\ ErrorFrame(w, i) \in Frame
         /\ ErrorFrame(w, i).from = Server /\ ErrorFrame(w, i).to = clientId[w]
         /\ i \in Id => Announces(ErrorFrame(w, i), i)
BY DEF ErrorFrame, Frame, FrameTypes, TypeOK, Announces

-----------------------------------------------------------------------------
(* One lemma per case of routeMessage.  m stands for the normalized        *)
(* message: only its fields matter.                                        *)

\* What the cases of routeMessage preserve.
RouteGoal == /\ targetId' \in [Ws -> Id \cup {None}]
             /\ linked' \in [Ws -> Id \cup {None}]
             /\ outbox' \in [Ws -> Seq(Frame)]
             /\ RoutingIntegrity' /\ LinkedIsTargeted'

\* Nothing but a handler's own connection changes its target or its link,
\* and frames are only added.
LEMMA LinkedKept ==
  ASSUME TypeOK, LinkedIsTargeted, NEW w \in Ws,
         UNCHANGED <<readyState, connectedClients, clientId, sessions>>,
         \A v \in Ws : ToSet(outbox[v]) \subseteq ToSet(outbox'[v]),
         \A v \in Ws \ {w} : linked'[v] = linked[v] /\ targetId'[v] = targetId[v],
         \/ linked'[w] = linked[w] /\ targetId'[w] = targetId[w]
         \/ linked'[w] = None
         \/ targetId'[w] = linked'[w] /\ Online(linked'[w])
         \/ readyState[w] = "OPEN" => (\E f \in ToSet(outbox'[w]) : Announces(f, linked'[w]))
  PROVE  LinkedIsTargeted'
<1>1. \A i : Online(i)' <=> Online(i) BY DEF Online
<1>. SUFFICES ASSUME NEW v \in Ws, readyState[v] = "OPEN", linked'[v] # None
              PROVE  \/ targetId'[v] = linked'[v] /\ Online(linked'[v])
                     \/ \E f \in ToSet(outbox'[v]) : Announces(f, linked'[v])
  BY <1>1 DEF LinkedIsTargeted, Announced
<1>3. CASE linked'[v] = linked[v] /\ targetId'[v] = targetId[v]
  BY <1>3 DEF LinkedIsTargeted, Announced
<1>4. CASE v = w
  BY <1>3, <1>4
<1>5. CASE v # w
  BY <1>3, <1>5
<1>. QED BY <1>4, <1>5

\* routeMessage, case 'join'.
LEMMA RouteJoin ==
  ASSUME ServerInv, NEW w \in connectedClients, NEW m,
         m.target \in Id \cup {None}, routeJoin(w, m),
         UNCHANGED <<readyState, connectedClients, clientId, sessions>>
  PROVE  RouteGoal
<1>. USE DEF ServerInv
<1>0. w \in Ws /\ clientId[w] \in Id /\ clientId \in [Ws -> Id \cup {None}]
  BY DEF TypeOK, NewIsUnknown
<1>1. CASE m.target = None
  BY <1>1 DEF routeJoin, RouteGoal, TypeOK, RoutingIntegrity, LinkedIsTargeted,
              Announced, Announces, Online
<1>. DEFINE t == m.target
<1>2. ASSUME t # None, Online(t), targetId' = [targetId EXCEPT ![w] = t],
             linked' = [linked EXCEPT ![w] = t],
             sendMessage(sessions[t], [type |-> "join_request", from |-> clientId[w],
                           to |-> t, about |-> None, via |-> w])
      PROVE  RouteGoal
  <2>. DEFINE f == [type |-> "join_request", from |-> clientId[w],
                    to |-> t, about |-> None, via |-> w]
  <2>1. t \in Id /\ sessions[t] \in Ws /\ clientId[sessions[t]] = t
    BY <1>2 DEF Online, TypeOK, SessionsConsistent
  <2>2. f \in Frame BY <1>0, <2>1 DEF Frame, FrameTypes
  <2>3. f.from = clientId[w] /\ f.to = t /\ f.via = w OBVIOUS
  <2>. HIDE DEF f
  <2>4. /\ outbox' \in [Ws -> Seq(Frame)]
        /\ \A v \in Ws : ToSet(outbox[v]) \subseteq ToSet(outbox'[v])
        /\ \A v \in Ws : \A g \in ToSet(outbox'[v]) :
             g \in ToSet(outbox[v]) \/ (v = sessions[t] /\ g = f)
    BY <1>2, <2>1, <2>2, SendAddsFrame DEF TypeOK, f
  <2>5. RoutingIntegrity'
    BY <2>1, <2>3, <2>4, RoutingKept DEF TypeOK
  <2>6. LinkedIsTargeted'
    BY <1>0, <1>2, <2>1, <2>4, LinkedKept DEF TypeOK
  <2>. QED BY <1>0, <1>2, <2>1, <2>4, <2>5, <2>6 DEF RouteGoal, TypeOK
<1>3. ASSUME t # None, ~Online(t), targetId' = [targetId EXCEPT ![w] = None],
             linked' = [linked EXCEPT ![w] = t], sendMessage(w, ErrorFrame(w, t))
      PROVE  RouteGoal
  <2>1. t \in Id BY <1>3
  <2>2. /\ ErrorFrame(w, t) \in Frame /\ ErrorFrame(w, t).from = Server
        /\ ErrorFrame(w, t).to = clientId[w] /\ Announces(ErrorFrame(w, t), t)
    BY <1>0, <2>1, ErrorFrameType
  <2>3. /\ outbox' \in [Ws -> Seq(Frame)]
        /\ \A v \in Ws : ToSet(outbox[v]) \subseteq ToSet(outbox'[v])
        /\ \A v \in Ws : \A g \in ToSet(outbox'[v]) :
             g \in ToSet(outbox[v]) \/ (v = w /\ g = ErrorFrame(w, t))
        /\ readyState[w] = "OPEN" => ErrorFrame(w, t) \in ToSet(outbox'[w])
    BY <1>0, <1>3, <2>2, SendAddsFrame DEF TypeOK
  <2>4. RoutingIntegrity'
    BY <1>0, <2>2, <2>3, RoutingKept, ValuesDistinct DEF TypeOK
  <2>5. readyState[w] = "OPEN" => (\E f \in ToSet(outbox'[w]) : Announces(f, linked'[w]))
    BY <1>0, <1>3, <2>2, <2>3 DEF TypeOK
  <2>6. LinkedIsTargeted'
    BY <1>0, <1>3, <2>3, <2>5, LinkedKept DEF TypeOK
  <2>. QED BY <1>0, <1>3, <2>1, <2>3, <2>4, <2>6 DEF RouteGoal, TypeOK
<1>. QED BY <1>1, <1>2, <1>3 DEF routeJoin

\* routeMessage, case 'leave'.
LEMMA RouteLeave ==
  ASSUME ServerInv, NEW w \in connectedClients, NEW m, routeLeave(w, m),
         UNCHANGED <<readyState, connectedClients, clientId, sessions>>
  PROVE  RouteGoal
<1>. USE DEF ServerInv
<1>. DEFINE t == targetId[w]
            f == [type |-> "leave", from |-> clientId[w], to |-> t,
                  about |-> None, via |-> w]
<1>1. /\ w \in Ws /\ clientId[w] \in Id
      /\ targetId' = [targetId EXCEPT ![w] = None] /\ linked' = [linked EXCEPT ![w] = None]
  BY DEF TypeOK, NewIsUnknown, routeLeave
<1>2. /\ outbox' \in [Ws -> Seq(Frame)]
      /\ \A v \in Ws : ToSet(outbox[v]) \subseteq ToSet(outbox'[v])
      /\ \A v \in Ws : \A g \in ToSet(outbox'[v]) :
           \/ g \in ToSet(outbox[v])
           \/ /\ g.from \in Id => clientId[g.via] = g.from
              /\ g.to \in Id => clientId[v] = g.to
  <2>1. CASE t # None /\ Online(t)
    <3>1. t \in Id /\ sessions[t] \in Ws /\ clientId[sessions[t]] = t
      BY <1>1, <2>1 DEF Online, TypeOK, SessionsConsistent
    <3>2. f \in Frame BY <1>1, <3>1 DEF Frame, FrameTypes
    <3>3. sendMessage(sessions[t], f) BY <2>1 DEF routeLeave
    <3>4. f.from = clientId[w] /\ f.to = t /\ f.via = w OBVIOUS
    <3>. HIDE DEF f
    <3>. QED BY <3>1, <3>2, <3>3, <3>4, SendAddsFrame DEF TypeOK
  <2>2. CASE ~(t # None /\ Online(t))
    BY <2>2 DEF routeLeave, TypeOK
  <2>. QED BY <2>1, <2>2
<1>3. RoutingIntegrity'
  BY <1>2, RoutingKept DEF TypeOK
<1>4. LinkedIsTargeted'
  BY <1>1, <1>2, LinkedKept DEF TypeOK
<1>. QED BY <1>1, <1>2, <1>3, <1>4 DEF RouteGoal, TypeOK

\* routeMessage, cases 'offer', 'answer' and 'candidate'.
LEMMA RouteRelay ==
  ASSUME ServerInv, NEW w \in connectedClients, NEW m,
         m.to \in Id \cup {None}, m.from = clientId[w], routeRelay(w, m),
         UNCHANGED <<readyState, connectedClients, clientId, sessions>>
  PROVE  RouteGoal
<1>. USE DEF ServerInv
<1>. DEFINE t == m.to
            f == [type |-> m.type, from |-> m.from, to |-> t, about |-> None, via |-> w]
<1>1. w \in Ws /\ clientId[w] \in Id /\ UNCHANGED <<targetId, linked>>
  BY DEF TypeOK, NewIsUnknown, routeRelay
<1>2. /\ outbox' \in [Ws -> Seq(Frame)]
      /\ \A v \in Ws : ToSet(outbox[v]) \subseteq ToSet(outbox'[v])
      /\ \A v \in Ws : \A g \in ToSet(outbox'[v]) :
           \/ g \in ToSet(outbox[v])
           \/ /\ g.from \in Id => clientId[g.via] = g.from
              /\ g.to \in Id => clientId[v] = g.to
  <2>1. CASE t = None
    BY <2>1 DEF routeRelay, TypeOK
  <2>2. CASE t # None /\ Online(t)
    <3>1. t \in Id /\ sessions[t] \in Ws /\ clientId[sessions[t]] = t
      BY <2>2 DEF Online, TypeOK, SessionsConsistent
    <3>2. f \in Frame BY <1>1, <3>1 DEF Frame, FrameTypes, routeRelay
    <3>3. sendMessage(sessions[t], f) BY <2>2 DEF routeRelay
    <3>4. f.from = clientId[w] /\ f.to = t /\ f.via = w OBVIOUS
    <3>. HIDE DEF f
    <3>. QED BY <3>1, <3>2, <3>3, <3>4, SendAddsFrame DEF TypeOK
  <2>3. CASE t # None /\ ~Online(t)
    <3>1. /\ ErrorFrame(w, t) \in Frame /\ ErrorFrame(w, t).from = Server
          /\ ErrorFrame(w, t).to = clientId[w]
      BY <1>1, ErrorFrameType
    <3>2. sendMessage(w, ErrorFrame(w, t)) BY <2>3 DEF routeRelay
    <3>. QED BY <1>1, <3>1, <3>2, SendAddsFrame, ValuesDistinct DEF TypeOK
  <2>. QED BY <2>1, <2>2, <2>3
<1>3. RoutingIntegrity'
  BY <1>2, RoutingKept DEF TypeOK
<1>4. LinkedIsTargeted'
  BY <1>1, <1>2, LinkedKept DEF TypeOK
<1>. QED BY <1>1, <1>2, <1>3, <1>4 DEF RouteGoal, TypeOK

\* An error that names nobody: routeMessage's default case and the catch of
\* server.js's JSON.parse.
LEMMA ErrorSent ==
  ASSUME ServerInv, NEW w \in connectedClients, NEW f \in Frame,
         f.from = Server, f.to \in {None, clientId[w]}, sendMessage(w, f),
         UNCHANGED <<readyState, connectedClients, clientId, sessions, targetId, linked>>
  PROVE  RouteGoal
<1>. USE DEF ServerInv
<1>1. w \in Ws BY DEF TypeOK
<1>2. /\ outbox' \in [Ws -> Seq(Frame)]
      /\ \A v \in Ws : ToSet(outbox[v]) \subseteq ToSet(outbox'[v])
      /\ \A v \in Ws : \A g \in ToSet(outbox'[v]) :
           \/ g \in ToSet(outbox[v])
           \/ /\ g.from \in Id => clientId[g.via] = g.from
              /\ g.to \in Id => clientId[v] = g.to
  BY <1>1, SendAddsFrame, ValuesDistinct DEF TypeOK
<1>3. RoutingIntegrity'
  BY <1>2, RoutingKept DEF TypeOK
<1>4. LinkedIsTargeted'
  BY <1>1, <1>2, LinkedKept DEF TypeOK
<1>. QED BY <1>2, <1>3, <1>4 DEF RouteGoal, TypeOK

-----------------------------------------------------------------------------
(* One lemma per event of server.js.                                       *)

\* server.js, ws.on('message').
LEMMA MessageKeepsInv ==
  ASSUME ServerInv, NEW w \in Ws, NEW m \in Message, OnMessage(w, m)
  PROVE  ServerInv'
<1>. USE DEF ServerInv
<1>. DEFINE n == Normalized(w, m)
<1>1. /\ w \in connectedClients /\ readyState[w] # "NEW"
      /\ UNCHANGED <<readyState, connectedClients, clientId, sessions, shutdown>>
  BY DEF OnMessage, routeMessage, serverVars, NoExitWhileConnected
<1>2. n.to \in Id \cup {None} /\ n.target \in Id \cup {None}
  BY NormalizedFields
<1>. HIDE DEF n
<1>3. RouteGoal /\ \A v \in Ws \ {w} : linked'[v] = linked[v]
  <2>1. CASE m.type = "malformed"
    <3>. DEFINE f == [type |-> "error", from |-> Server, to |-> None,
                      about |-> None, via |-> w]
    <3>1. f \in Frame /\ f.from = Server /\ f.to = None BY DEF Frame, FrameTypes
    <3>2. sendMessage(w, f) /\ UNCHANGED <<targetId, linked>>
      BY <2>1 DEF OnMessage, serverVars
    <3>. HIDE DEF f
    <3>. QED BY <1>1, <3>1, <3>2, ErrorSent
  <2>2. CASE m.type # "malformed" /\ n.from # clientId[w]
    BY <1>1, <2>2 DEF OnMessage, routeMessage, n, RouteGoal, TypeOK, RoutingIntegrity,
                      LinkedIsTargeted, Announced, Announces, Online
  <2>3. CASE m.type # "malformed" /\ n.from = clientId[w]
    <3>0. routeJoin(w, n) \/ routeLeave(w, n) \/ routeRelay(w, n) \/ routeOther(w, n)
      BY <2>3 DEF OnMessage, routeMessage, n
    <3>1. CASE routeJoin(w, n)
      <4>1. \A v \in Ws \ {w} : linked'[v] = linked[v]
        BY <3>1 DEF routeJoin, TypeOK
      <4>. QED BY <1>1, <1>2, <3>1, <4>1, RouteJoin
    <3>2. CASE routeLeave(w, n)
      <4>1. \A v \in Ws \ {w} : linked'[v] = linked[v]
        BY <3>2 DEF routeLeave, TypeOK
      <4>. QED BY <1>1, <3>2, <4>1, RouteLeave
    <3>3. CASE routeRelay(w, n)
      <4>1. linked' = linked BY <3>3 DEF routeRelay
      <4>. QED BY <1>1, <1>2, <2>3, <3>3, <4>1, RouteRelay
    <3>4. CASE routeOther(w, n)
      <4>1. /\ sendMessage(w, ErrorFrame(w, None)) /\ UNCHANGED <<targetId, linked>>
            /\ ErrorFrame(w, None) \in Frame /\ ErrorFrame(w, None).from = Server
            /\ ErrorFrame(w, None).to = clientId[w]
        BY <3>4, ErrorFrameType DEF routeOther
      <4>. QED BY <1>1, <4>1, ErrorSent
    <3>. QED BY <3>0, <3>1, <3>2, <3>3, <3>4
  <2>. QED BY <2>1, <2>2, <2>3
<1>4. TypeOK' BY <1>1, <1>3 DEF TypeOK, RouteGoal
<1>5. SessionsConsistent' BY <1>1 DEF SessionsConsistent
<1>6. NoExitWhileConnected' BY <1>1 DEF NoExitWhileConnected
<1>7. NewIsUnknown' BY <1>1, <1>3 DEF NewIsUnknown
<1>. QED BY <1>3, <1>4, <1>5, <1>6, <1>7 DEF RouteGoal

\* server.js, wss.on('connection') with a valid token: addClient.
LEMMA ConnectionKeepsInv ==
  ASSUME ServerInv, NEW w \in Ws, NEW i \in Id, OnConnection(w, i)
  PROVE  ServerInv'
<1>. USE DEF ServerInv
<1>. DEFINE f == [type |-> "connected", from |-> Server, to |-> None,
                  about |-> None, via |-> w]
<1>1. /\ readyState[w] = "NEW" /\ readyState' = [readyState EXCEPT ![w] = "OPEN"]
      /\ shutdown = "no" /\ connectedClients' = connectedClients \cup {w}
      /\ clientId' = [clientId EXCEPT ![w] = i]
      /\ targetId' = [targetId EXCEPT ![w] = None]
      /\ sessions' = [sessions EXCEPT ![i] = w]
      /\ outbox' = [outbox EXCEPT ![w] = Append(outbox[w], f)]
      /\ UNCHANGED <<shutdown, linked>>
      /\ w \notin connectedClients /\ clientId[w] = None /\ linked[w] = None
  BY DEF OnConnection, addClient, NoExitWhileConnected, NewIsUnknown
<1>2. f \in Frame /\ f.from = Server /\ f.to = None /\ f.type = "connected"
  BY DEF Frame, FrameTypes
<1>. HIDE DEF f
<1>3. /\ Append(outbox[w], f) \in Seq(Frame)
      /\ ToSet(Append(outbox[w], f)) = ToSet(outbox[w]) \cup {f}
  BY <1>2, FramesOfAppend, AppendProperties DEF TypeOK
<1>4. TypeOK' BY <1>1, <1>3 DEF TypeOK
<1>5. SessionsConsistent'
  BY <1>1, ValuesDistinct DEF SessionsConsistent, TypeOK
<1>6. RoutingIntegrity'
  <2>1. SUFFICES ASSUME NEW v \in Ws, NEW g \in ToSet(outbox'[v])
                 PROVE  /\ g.from \in Id => clientId'[g.via] = g.from
                        /\ g.to \in Id => clientId'[v] = g.to
    BY DEF RoutingIntegrity
  <2>2. g \in ToSet(outbox[v]) \/ g = f
    BY <1>1, <1>3 DEF TypeOK
  <2>3. CASE g = f
    BY <1>2, <2>3, ValuesDistinct
  <2>4. CASE g \in ToSet(outbox[v])
    <3>1. (g.from \in Id => clientId[g.via] = g.from) /\ (g.to \in Id => clientId[v] = g.to)
      BY <2>4 DEF RoutingIntegrity
    <3>. QED BY <1>1, <3>1, ValuesDistinct DEF TypeOK
  <2>. QED BY <2>2, <2>3, <2>4
<1>7. NoExitWhileConnected' BY <1>1 DEF NoExitWhileConnected, TypeOK
<1>8. NewIsUnknown' BY <1>1 DEF NewIsUnknown, TypeOK
<1>9. LinkedIsTargeted'
  <2>1. SUFFICES ASSUME NEW v \in Ws, readyState'[v] = "OPEN", linked[v] # None
                 PROVE  \/ targetId'[v] = linked[v] /\ Online(linked[v])'
                        \/ \E g \in ToSet(outbox'[v]) : Announces(g, linked[v])
    BY <1>1 DEF LinkedIsTargeted, Announced
  <2>2. v # w /\ readyState[v] = "OPEN" /\ targetId'[v] = targetId[v]
        /\ outbox'[v] = outbox[v] /\ linked[v] \in Id
    BY <1>1, <2>1 DEF TypeOK
  <2>3. Online(linked[v]) => Online(linked[v])'
    BY <1>1, <2>2, ValuesDistinct DEF Online, TypeOK
  <2>. QED BY <2>1, <2>2, <2>3 DEF LinkedIsTargeted, Announced
<1>. QED BY <1>4, <1>5, <1>6, <1>7, <1>8, <1>9

\* server.js, ws.on('close'): removeClient.
LEMMA CloseKeepsInv ==
  ASSUME ServerInv, NEW w \in Ws, OnClose(w)
  PROVE  ServerInv'
<1>. USE DEF ServerInv
<1>. DEFINE i == clientId[w]
            told == {v \in connectedClients \ {w} : targetId[v] = i /\ readyState[v] = "OPEN"}
            f(v) == [type |-> "leave", from |-> i, to |-> clientId[v],
                     about |-> None, via |-> w]
<1>1. /\ readyState[w] = "CLOSING" /\ readyState' = [readyState EXCEPT ![w] = "CLOSED"]
      /\ connectedClients' = connectedClients \ {w}
      /\ targetId' = [targetId EXCEPT ![w] = None]
      /\ UNCHANGED <<clientId, shutdown, linked>>
  BY DEF OnClose, removeClient
<1>2. w \in connectedClients /\ i \in Id
  BY <1>1 DEF NoExitWhileConnected, NewIsUnknown
<1>3. \/ UNCHANGED <<sessions, outbox>> /\ sessions[i] # w
      \/ /\ sessions[i] = w /\ sessions' = [sessions EXCEPT ![i] = None]
         /\ outbox' = [v \in Ws |-> IF v \in told THEN Append(outbox[v], f(v)) ELSE outbox[v]]
  BY DEF OnClose, removeClient
<1>4. /\ outbox' \in [Ws -> Seq(Frame)]
      /\ \A v \in Ws : ToSet(outbox[v]) \subseteq ToSet(outbox'[v])
      /\ \A v \in Ws : \A g \in ToSet(outbox'[v]) : g \in ToSet(outbox[v]) \/ g = f(v)
      /\ sessions[i] = w => \A v \in told : f(v) \in ToSet(outbox'[v])
  <2>1. CASE UNCHANGED <<sessions, outbox>> /\ sessions[i] # w
    BY <2>1 DEF TypeOK
  <2>2. CASE outbox' = [v \in Ws |-> IF v \in told THEN Append(outbox[v], f(v)) ELSE outbox[v]]
    <3>1. ASSUME NEW v \in Ws PROVE f(v) \in Frame
      BY <1>2 DEF Frame, FrameTypes, TypeOK
    <3>2. ASSUME NEW v \in Ws
          PROVE  /\ Append(outbox[v], f(v)) \in Seq(Frame)
                 /\ ToSet(Append(outbox[v], f(v))) = ToSet(outbox[v]) \cup {f(v)}
      BY <3>1, FramesOfAppend, AppendProperties DEF TypeOK
    <3>3. told \subseteq Ws BY DEF TypeOK
    <3>. HIDE DEF f, told
    <3>. QED BY <2>2, <3>2, <3>3 DEF TypeOK
  <2>. QED BY <1>3, <2>1, <2>2
<1>5. \A v : f(v).from = i /\ f(v).to = clientId[v] /\ f(v).via = w /\ f(v).type = "leave"
  OBVIOUS
<1>. HIDE DEF f
<1>6. TypeOK' BY <1>1, <1>3, <1>4 DEF TypeOK
<1>7. SessionsConsistent'
  BY <1>1, <1>2, <1>3, ValuesDistinct DEF SessionsConsistent, TypeOK
<1>8. RoutingIntegrity'
  BY <1>1, <1>4, <1>5, RoutingKept DEF TypeOK
<1>9. NoExitWhileConnected' BY <1>1 DEF NoExitWhileConnected, TypeOK
<1>10. NewIsUnknown' BY <1>1 DEF NewIsUnknown, TypeOK
<1>11. LinkedIsTargeted'
  <2>1. SUFFICES ASSUME NEW v \in Ws, readyState'[v] = "OPEN", linked[v] # None
                 PROVE  \/ targetId'[v] = linked[v] /\ Online(linked[v])'
                        \/ \E g \in ToSet(outbox'[v]) : Announces(g, linked[v])
    BY <1>1 DEF LinkedIsTargeted, Announced
  <2>2. v # w /\ readyState[v] = "OPEN" /\ targetId'[v] = targetId[v] /\ linked[v] \in Id
    BY <1>1, <2>1 DEF TypeOK
  <2>3. CASE \E g \in ToSet(outbox[v]) : Announces(g, linked[v])
    BY <1>4, <2>3
  <2>4. CASE targetId[v] = linked[v] /\ Online(linked[v])
    <3>1. CASE linked[v] = i /\ sessions[i] = w
      <4>1. v \in told
        BY <2>2, <2>4, <3>1 DEF NoExitWhileConnected
      <4>. HIDE DEF told
      <4>. QED BY <1>4, <1>5, <3>1, <4>1 DEF Announces
    <3>2. CASE ~(linked[v] = i /\ sessions[i] = w)
      <4>1. sessions'[linked[v]] = sessions[linked[v]]
        BY <1>2, <1>3, <2>2, <3>2 DEF TypeOK
      <4>2. sessions[linked[v]] # w
        BY <2>2, <2>4, <3>2, ValuesDistinct DEF SessionsConsistent, Online
      <4>. QED BY <1>1, <2>2, <2>4, <4>1, <4>2 DEF Online
    <3>. QED BY <3>1, <3>2
  <2>. QED BY <2>1, <2>2, <2>3, <2>4 DEF LinkedIsTargeted, Announced
<1>. QED BY <1>6, <1>7, <1>8, <1>9, <1>10, <1>11

\* The other events touch neither Map: a refused connection, the shutdown,
\* a lost connection and a client that reads its next frame.
LEMMA UnauthenticatedKeepsInv ==
  ASSUME ServerInv, NEW w \in Ws, OnUnauthenticated(w)
  PROVE  ServerInv'
<1>1. /\ readyState[w] = "NEW" /\ readyState' = [readyState EXCEPT ![w] = "CLOSED"]
      /\ UNCHANGED <<connectedClients, clientId, targetId, sessions, shutdown, outbox, linked>>
  BY DEF OnUnauthenticated
<1>2. \A i : Online(i)' <=> Online(i) BY <1>1 DEF Online
<1>. QED BY <1>1, <1>2 DEF ServerInv, TypeOK, SessionsConsistent, RoutingIntegrity,
           NoExitWhileConnected, NewIsUnknown, LinkedIsTargeted, Announced

\* server.js, SIGINT and SIGTERM, and the callback of wss.close.
LEMMA ShutdownKeepsInv ==
  ASSUME ServerInv, OnSignal \/ Exit
  PROVE  ServerInv'
<1>1. /\ UNCHANGED <<readyState, connectedClients, clientId, targetId, sessions, outbox, linked>>
      /\ shutdown' \in {"draining", "exited"}
      /\ shutdown' = "exited" => \A w \in Ws : readyState[w] \notin {"OPEN", "CLOSING"}
  BY DEF OnSignal, Exit, serverVars
<1>2. \A i : Online(i)' <=> Online(i) BY <1>1 DEF Online
<1>. QED BY <1>1, <1>2 DEF ServerInv, TypeOK, SessionsConsistent, RoutingIntegrity,
           NoExitWhileConnected, NewIsUnknown, LinkedIsTargeted, Announced

\* A socket leaves OPEN; its frames in flight are lost.
LEMMA LostKeepsInv ==
  ASSUME ServerInv, NEW w \in Ws, ConnectionLost(w)
  PROVE  ServerInv'
<1>. USE DEF ServerInv
<1>1. /\ readyState[w] = "OPEN" /\ readyState' = [readyState EXCEPT ![w] = "CLOSING"]
      /\ outbox' = [outbox EXCEPT ![w] = <<>>] /\ linked' = [linked EXCEPT ![w] = None]
      /\ UNCHANGED <<connectedClients, clientId, targetId, sessions, shutdown>>
  BY DEF ConnectionLost, serverVars
<1>2. \A i : Online(i)' <=> Online(i) BY <1>1 DEF Online
<1>3. <<>> \in Seq(Frame) /\ ToSet(<<>>) = {}
  BY DEF ToSet
<1>4. TypeOK' BY <1>1, <1>3 DEF TypeOK
<1>5. RoutingIntegrity' BY <1>1, <1>3 DEF RoutingIntegrity, TypeOK
<1>6. SessionsConsistent' BY <1>1 DEF SessionsConsistent
<1>7. NoExitWhileConnected' BY <1>1 DEF NoExitWhileConnected, TypeOK
<1>8. NewIsUnknown' BY <1>1 DEF NewIsUnknown, TypeOK
<1>9. LinkedIsTargeted'
  <2>1. SUFFICES ASSUME NEW v \in Ws, v # w, readyState[v] = "OPEN", linked[v] # None
                 PROVE  \/ targetId[v] = linked[v] /\ Online(linked[v])
                        \/ \E g \in ToSet(outbox[v]) : Announces(g, linked[v])
    BY <1>1, <1>2 DEF LinkedIsTargeted, Announced, TypeOK
  <2>. QED BY <2>1 DEF LinkedIsTargeted, Announced
<1>. QED BY <1>4, <1>5, <1>6, <1>7, <1>8, <1>9

\* A client reads a frame: the notice of a lost peer ends the link to it.
LEMMA ReadKeepsInv ==
  ASSUME ServerInv, NEW w \in Ws, ClientReads(w)
  PROVE  ServerInv'
<1>. USE DEF ServerInv
<1>. DEFINE h == Head(outbox[w])
            t == Tail(outbox[w])
<1>1. /\ outbox[w] # <<>> /\ outbox' = [outbox EXCEPT ![w] = t]
      /\ linked' = [linked EXCEPT ![w] =
              IF linked[w] # None /\ Announces(h, linked[w]) THEN None ELSE linked[w]]
      /\ UNCHANGED <<readyState, connectedClients, clientId, targetId, sessions, shutdown>>
  BY DEF ClientReads, serverVars
<1>2. \A i : Online(i)' <=> Online(i) BY <1>1 DEF Online
<1>3. t \in Seq(Frame) /\ ToSet(outbox[w]) = ToSet(t) \cup {h}
  BY <1>1, FramesOfTail, HeadTailProperties DEF TypeOK
<1>. HIDE DEF h, t
<1>4. TypeOK' BY <1>1, <1>3 DEF TypeOK
<1>5. RoutingIntegrity' BY <1>1, <1>3 DEF RoutingIntegrity, TypeOK
<1>6. SessionsConsistent' BY <1>1 DEF SessionsConsistent
<1>7. NoExitWhileConnected' BY <1>1 DEF NoExitWhileConnected
<1>8. NewIsUnknown' BY <1>1 DEF NewIsUnknown, TypeOK
<1>9. LinkedIsTargeted'
  <2>1. SUFFICES ASSUME NEW v \in Ws, readyState[v] = "OPEN", linked'[v] # None
                 PROVE  \/ targetId[v] = linked'[v] /\ Online(linked'[v])
                        \/ \E g \in ToSet(outbox'[v]) : Announces(g, linked'[v])
    BY <1>1, <1>2 DEF LinkedIsTargeted, Announced
  <2>2. linked'[v] = linked[v] /\ (v = w => ~Announces(h, linked[v]))
    BY <1>1, <2>1 DEF TypeOK
  <2>3. v # w => outbox'[v] = outbox[v]
    BY <1>1 DEF TypeOK
  <2>4. v = w => outbox'[v] = t
    BY <1>1 DEF TypeOK
  <2>. QED BY <1>3, <2>1, <2>2, <2>3, <2>4 DEF LinkedIsTargeted, Announced
<1>. QED BY <1>4, <1>5, <1>6, <1>7, <1>8, <1>9

-----------------------------------------------------------------------------
\* The inductive invariant of the server: both Maps agree with the sockets
\* that are still to close, frames cross no identities, and a link is either
\* registered with the server or its end is announced.
THEOREM ServerIsSafe == Spec => []ServerInv
<1>1. Init => ServerInv
  <2>1. <<>> \in Seq(Frame) /\ ToSet(<<>>) = {} BY DEF ToSet
  <2>. QED BY <2>1 DEF Init, ServerInv, TypeOK, SessionsConsistent, RoutingIntegrity,
              NoExitWhileConnected, NewIsUnknown, LinkedIsTargeted
<1>2. ServerInv /\ [Next]_vars => ServerInv'
  <2>. SUFFICES ASSUME ServerInv, [Next]_vars PROVE ServerInv'
    OBVIOUS
  <2>1. ASSUME NEW w \in Ws, NEW i \in Id, OnConnection(w, i) PROVE ServerInv'
    BY <2>1, ConnectionKeepsInv
  <2>2. ASSUME NEW w \in Ws, OnUnauthenticated(w) PROVE ServerInv'
    BY <2>2, UnauthenticatedKeepsInv
  <2>3. ASSUME NEW w \in Ws, NEW m \in Message, OnMessage(w, m) PROVE ServerInv'
    BY <2>3, MessageKeepsInv
  <2>4. ASSUME NEW w \in Ws, OnClose(w) PROVE ServerInv'
    BY <2>4, CloseKeepsInv
  <2>5. CASE OnSignal \/ Exit BY <2>5, ShutdownKeepsInv
  <2>6. ASSUME NEW w \in Ws, ConnectionLost(w) PROVE ServerInv'
    BY <2>6, LostKeepsInv
  <2>7. ASSUME NEW w \in Ws, ClientReads(w) PROVE ServerInv'
    BY <2>7, ReadKeepsInv
  <2>8. CASE UNCHANGED vars
    <3>1. \A i : Online(i)' <=> Online(i) BY <2>8 DEF Online, vars
    <3>. QED BY <2>8, <3>1 DEF vars, ServerInv, TypeOK, SessionsConsistent, RoutingIntegrity,
           NoExitWhileConnected, NewIsUnknown, LinkedIsTargeted, Announced
  <2>. QED BY <2>1, <2>2, <2>3, <2>4, <2>5, <2>6, <2>7, <2>8 DEF Next
<1>. QED BY <1>1, <1>2, PTL DEF Spec

\* sessions and connectedClients never disagree, whatever the order of
\* connections, takeovers of an id and disconnections.
THEOREM SessionsStayConsistent == Spec => []SessionsConsistent
<1>1. ServerInv => SessionsConsistent BY DEF ServerInv
<1>. QED BY <1>1, ServerIsSafe, PTL

\* No frame reaches a client under an identity its sender was not
\* authenticated with, nor one that is addressed to another client.
THEOREM RoutingIsSound == Spec => []RoutingIntegrity
<1>1. ServerInv => RoutingIntegrity BY DEF ServerInv
<1>. QED BY <1>1, ServerIsSafe, PTL

\* A client linked to an unreachable peer has the notice of it on its way.
THEOREM PeerLossAlwaysAnnounced == Spec => []PeerLossIsAnnounced
<1>1. ServerInv => PeerLossIsAnnounced
  BY DEF ServerInv, LinkedIsTargeted, PeerLossIsAnnounced
<1>. QED BY <1>1, ServerIsSafe, PTL

\* The process ends only after every 'close' event was handled.
THEOREM ExitsDisconnected == Spec => []NoExitWhileConnected
<1>1. ServerInv => NoExitWhileConnected BY DEF ServerInv
<1>. QED BY <1>1, ServerIsSafe, PTL

=============================================================================
