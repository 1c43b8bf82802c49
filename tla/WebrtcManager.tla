---------------------------- MODULE WebrtcManager ----------------------------
(***************************************************************************)
(* webrtc/webrtc_manager.cc: WebrtcManagerImpl, between the application's  *)
(* threads, the thread of the signaling client and libwebrtc's signaling   *)
(* thread.  A section under mutex_ is one step, taken when the mutex is    *)
(* free; the compare-exchange on state_ that comes before it is another,   *)
(* and so is the application's handler that runs after it.                 *)
(*                                                                         *)
(* The tree leaves two dependencies unwired: init() resets the signaling   *)
(* client, createPeerConnection() returns no connection.  That is wired =  *)
(* FALSE.  With wired = TRUE they are what their interfaces describe:      *)
(* SignalingClient (module SignalingClient), its handlers the manager's,   *)
(* and IPeerConnection, whose callbacks are delivered in order, by one     *)
(* thread, some of them after the connection was closed or destroyed.      *)
(***************************************************************************)
EXTENDS Naturals, Sequences

CONSTANTS
  Peers,          \* ids of remote peers
  AppThreads,     \* threads of the application that call the manager
  MaxPcs,         \* bound: connections the factory creates
  MaxCandidates,  \* bound: remote candidates for a connection
  None

ASSUME Bounds == MaxPcs \in Nat /\ MaxCandidates \in Nat
ASSUME NoneIsNothing == None \notin [peer : Peers, about : {"connected", "disconnected", "event"}]

VARIABLES
  wired,
  state_,
  app,                      \* where each application thread is: "idle", past the
                            \* compare-exchange of "init", "start" or "stop", or
                            \* "joining": in stop(), with mutex_, inside disconnect()
  peerConnections_,         \* the connection of a peer, 0 for no entry
  remoteDescriptionSet_,    \* the peers whose entry is true
  pendingRemoteCandidates_, \* how many are buffered for a peer
  pcs,                      \* the connections ever created
  sigThread,                \* the signaling client's thread: "none", "run", or in a
                            \* handler, at "lock", waiting for mutex_, or "telling",
                            \* past it, in the application's handler
  relocking,                \* libwebrtc's thread holds mutex_ and waits for it
  telling,                  \* what libwebrtc's thread is about to tell the
                            \* application, and of which peer
  told                      \* peers the application was last told are connected

lifecycle == <<wired, state_, app>>
maps == <<peerConnections_, remoteDescriptionSet_, pendingRemoteCandidates_, pcs>>
vars == <<lifecycle, maps, sigThread, relocking, telling, told>>

\* Mutant: stop() calls disconnect() with mutex_ released.
Free_WhileJoining == ~relocking

\* mutex_ is free.
Free == ~relocking /\ \A t \in AppThreads : app[t] # "joining"

-----------------------------------------------------------------------------
(* A connection, as IPeerConnection describes it: its state, whether it has *)
(* a remote description and was asked for a local one, the candidates added *)
(* to it and, a history, those the peer sent; the state callbacks it owes.  *)

NewPc(p) == [peer |-> p, conn |-> "new", desc |-> FALSE, local |-> FALSE,
             added |-> 0, sent |-> 0, owed |-> <<>>]

\* A change of its state, and the callback it owes for it.
Turned(pc, conn) == [pc EXCEPT !.conn = conn, !.owed = Append(@, conn)]

\* "Safe to call multiple times."
Closed(pc) == IF pc.conn = "closed" THEN pc ELSE Turned(pc, "closed")

\* The network connects a described connection, and may lose it.
Network(c) ==
  /\ \/ pcs[c].conn = "new" /\ pcs[c].desc
        /\ pcs' = [pcs EXCEPT ![c] = Turned(@, "connected")]
     \/ pcs[c].conn \in {"new", "connected"}
        /\ pcs' = [pcs EXCEPT ![c] = Turned(@, "lost")]
  /\ UNCHANGED <<lifecycle, peerConnections_, remoteDescriptionSet_,
                 pendingRemoteCandidates_, sigThread, relocking, telling, told>>

-----------------------------------------------------------------------------
(* The maps, as one value, and what the helpers do to them.                *)

Maps == [map |-> peerConnections_, described |-> remoteDescriptionSet_,
         pending |-> pendingRemoteCandidates_, pcs |-> pcs]

Become(s) ==
  /\ peerConnections_' = s.map
  /\ remoteDescriptionSet_' = s.described
  /\ pendingRemoteCandidates_' = s.pending
  /\ pcs' = s.pcs

\* Both operator[] and find: the entry for p and its buffered candidates go.
Forget(s, p) == [s EXCEPT !.described = @ \ {p}, !.pending[p] = 0]

\* The outcomes of createPeerConnection, its result put into the map.
createPeerConnection(s, p) ==
  {s} \cup IF wired /\ Len(s.pcs) < MaxPcs
           THEN {[s EXCEPT !.pcs = Append(@, NewPc(p)), !.map[p] = Len(s.pcs) + 1]}
           ELSE {}

getOrCreatePeerConnection(s, p) ==
  IF s.map[p] # 0 THEN {s}
  ELSE {IF r.map[p] = 0 THEN r ELSE Forget(r, p) : r \in createPeerConnection(s, p)}

\* Mutant: the buffer and the flag outlive the connection.
destroyPeerConnection_KeepsBuffer(s, p) ==
  IF s.map[p] = 0 THEN s
  ELSE [s EXCEPT !.pcs[s.map[p]] = Closed(@), !.map[p] = 0]

destroyPeerConnection(s, p) ==
  IF s.map[p] = 0 THEN s
  ELSE [Forget(s, p) EXCEPT !.pcs[s.map[p]] = Closed(@), !.map[p] = 0]

\* A connection with its remote description and n candidates that waited for it.
WithDescription(pc, n) == [pc EXCEPT !.desc = TRUE, !.added = @ + n]

\* Mutant: the buffered candidates are dropped, not added.
Describe_DropsPending(s, p) ==
  [s EXCEPT !.described = @ \cup {p}, !.pending[p] = 0,
            !.pcs[s.map[p]] = WithDescription(@, 0)]

\* SetRemoteDescription succeeded: the candidates buffered for p are added.
Describe(s, p) ==
  [s EXCEPT !.described = @ \cup {p},
            !.pending[p] = 0,
            !.pcs[s.map[p]] = WithDescription(@, s.pending[p])]

-----------------------------------------------------------------------------
(* The application's threads.                                              *)

At(t, from, to) == app[t] = from /\ app' = [app EXCEPT ![t] = to]

init(t) ==
  \/ /\ At(t, "idle", "init")
     /\ state_ = "Uninitialized" /\ state_' = "Initializing"
     /\ UNCHANGED <<wired, maps, sigThread, relocking, telling, told>>
  \/ /\ At(t, "init", "idle") /\ Free
     /\ state_' = "Initialized"
     /\ UNCHANGED <<wired, maps, sigThread, relocking, telling, told>>

\* Without a signaling client the manager is stopped again.
start(t) ==
  \/ /\ At(t, "idle", "start")
     /\ state_ = "Initialized" /\ state_' = "Running"
     /\ UNCHANGED <<wired, maps, sigThread, relocking, telling, told>>
  \/ /\ At(t, "start", "idle") /\ Free
     /\ IF wired THEN sigThread' = "run" /\ UNCHANGED state_
                 ELSE state_' = "Stopped" /\ UNCHANGED sigThread
     /\ UNCHANGED <<wired, maps, relocking, telling, told>>

StopCall(t) ==
  /\ At(t, "idle", "stop")
  /\ state_ \in {"Running", "Initialized"} /\ state_' = "Stopping"
  /\ UNCHANGED <<wired, maps, sigThread, relocking, telling, told>>

\* Every connection in the map is closed and destroyed; the two other maps stay.
CloseAll ==
  /\ pcs' = [c \in DOMAIN pcs |-> IF \E p \in Peers : peerConnections_[p] = c
                                  THEN Closed(pcs[c]) ELSE pcs[c]]
  /\ peerConnections_' = [p \in Peers |-> 0]
  /\ UNCHANGED <<remoteDescriptionSet_, pendingRemoteCandidates_>>

StopSection(t) ==
  /\ app[t] = "stop" /\ Free
  /\ CloseAll
  /\ IF wired
     THEN app' = [app EXCEPT ![t] = "joining"] /\ UNCHANGED state_
     ELSE app' = [app EXCEPT ![t] = "idle"] /\ state_' = "Stopped"
  /\ UNCHANGED <<wired, sigThread, relocking, telling, told>>

\* disconnect() joins the client's thread, which must be out of its handlers and
\* the application's.
StopJoins(t) ==
  /\ At(t, "joining", "idle")
  /\ sigThread \notin {"lock", "telling"}
  /\ sigThread' = "none" /\ state_' = "Stopped"
  /\ UNCHANGED <<wired, maps, relocking, telling, told>>

\* A connection made here is asked for an offer; the two other maps stay.
connectToPeer(t, p) ==
  /\ app[t] = "idle" /\ Free
  /\ state_ = "Running" /\ peerConnections_[p] = 0
  /\ \E s \in createPeerConnection(Maps, p) :
        Become(IF s.map[p] = 0 THEN s ELSE [s EXCEPT !.pcs[s.map[p]].local = TRUE])
  /\ UNCHANGED <<lifecycle, sigThread, relocking, telling, told>>

disconnectFromPeer(t, p) ==
  /\ app[t] = "idle" /\ Free
  /\ peerConnections_[p] # 0
  /\ pcs' = [pcs EXCEPT ![peerConnections_[p]] = Closed(@)]
  /\ UNCHANGED <<lifecycle, peerConnections_, remoteDescriptionSet_,
                 pendingRemoteCandidates_, sigThread, relocking, telling, told>>

-----------------------------------------------------------------------------
(* The signaling client's thread.                                          *)

SignalArrives ==
  /\ sigThread = "run" /\ sigThread' = "lock"
  /\ UNCHANGED <<lifecycle, maps, relocking, telling, told>>

\* Past the section, the application's handler is called, if there is one.
TellOrReturn == sigThread' \in {"telling", "run"}

\* handleSignalingConnected, Disconnected and Error only read the handler to call.
handleSignalingEvent ==
  /\ sigThread = "lock" /\ Free
  /\ TellOrReturn
  /\ UNCHANGED <<lifecycle, maps, relocking, telling, told>>

\* The outcomes of the section of handleSignalingMessage when it takes a message.
Leave(s, p) ==
  {IF s.map[p] = 0 THEN s ELSE [Forget(s, p) EXCEPT !.pcs[s.map[p]] = Closed(@)]}

\* With a connection in the map, found or created.
Got(s, p) == {r \in getOrCreatePeerConnection(s, p) : r.map[p] # 0}

Offer(s, p) == {[Describe(r, p) EXCEPT !.pcs[r.map[p]].local = TRUE] : r \in Got(s, p)}

Answer(s, p) == {Describe(r, p) : r \in Got(s, p)}

\* A candidate waits for the remote description.
Buffered(r, p) ==
  IF p \in r.described
  THEN [r EXCEPT !.pcs[r.map[p]].added = @ + 1]
  ELSE [r EXCEPT !.pending[p] = @ + 1]

Candidate(s, p) ==
  {[Buffered(r, p) EXCEPT !.pcs[r.map[p]].sent = @ + 1] :
     r \in {r \in Got(s, p) : r.pcs[r.map[p]].sent < MaxCandidates}}

\* A JOIN is only logged.
handleSignalingMessage(p) ==
  /\ sigThread = "lock" /\ Free
  /\ \E s \in {Maps} \cup Leave(Maps, p) \cup Offer(Maps, p) \cup Answer(Maps, p)
                   \cup Candidate(Maps, p) :
        Become(s)
  /\ sigThread' = "run"
  /\ UNCHANGED <<lifecycle, relocking, telling, told>>

\* handleSignalingMessage refuses one: no connection could be created, a field is
\* missing, which is seen after the connection was created, the description is
\* no good, or the type is unknown.  The application is told of an error, of a
\* peer that may have no entry.
handleSignalingMessageRefused(p) ==
  /\ sigThread = "lock" /\ Free
  /\ \E s \in getOrCreatePeerConnection(Maps, p) : Become(s)
  /\ TellOrReturn
  /\ UNCHANGED <<lifecycle, relocking, telling, told>>

\* The application's handler returns.
SignalTold ==
  /\ sigThread = "telling" /\ sigThread' = "run"
  /\ UNCHANGED <<lifecycle, maps, relocking, telling, told>>

\* The client's thread ends with its connection.
SignalEnds ==
  /\ sigThread = "run" /\ sigThread' = "none"
  /\ UNCHANGED <<lifecycle, maps, relocking, telling, told>>

-----------------------------------------------------------------------------
(* libwebrtc's thread: one callback at a time.                             *)

OnPeerThread == telling = None /\ Free

About(p, about) == [peer |-> p, about |-> about]

\* A description or a candidate goes out with mutex_ held; when sendSignal
\* cannot send, it calls the error handler, and handleSignalingError locks
\* mutex_.
handlePeerLocalSdpOrCandidate(c) ==
  /\ OnPeerThread /\ pcs[c].local
  /\ peerConnections_[pcs[c].peer] # 0
  /\ relocking' \in BOOLEAN
  /\ UNCHANGED <<lifecycle, maps, sigThread, telling, told>>

\* Mutant: a connection that failed or was closed goes without a word.
handlePeerConnectionStateChange_Silent(c) ==
  LET p  == pcs[c].peer
      s  == [Maps EXCEPT !.pcs[c].owed = Tail(@)]
  IN /\ OnPeerThread /\ pcs[c].owed # <<>>
     /\ IF s.map[p] = 0 THEN Become(s) /\ UNCHANGED telling
        ELSE IF Head(pcs[c].owed) = "connected"
        THEN Become(s) /\ telling' = About(p, "connected")
        ELSE Become(destroyPeerConnection(s, p)) /\ UNCHANGED telling
     /\ UNCHANGED <<lifecycle, sigThread, relocking, told>>

\* The callback knows the peer, not the connection it comes from.
handlePeerConnectionStateChange(c) ==
  LET p  == pcs[c].peer
      s  == [Maps EXCEPT !.pcs[c].owed = Tail(@)]
  IN /\ OnPeerThread /\ pcs[c].owed # <<>>
     /\ IF s.map[p] = 0 THEN Become(s) /\ UNCHANGED telling
        ELSE IF Head(pcs[c].owed) = "connected"
        THEN Become(s) /\ telling' = About(p, "connected")
        ELSE Become(destroyPeerConnection(s, p)) /\ telling' = About(p, "disconnected")
     /\ UNCHANGED <<lifecycle, sigThread, relocking, told>>

\* Mutant: what comes of a peer that is gone is handed on.
handlePeerMessageOrError_Unchecked(c) ==
  /\ OnPeerThread
  /\ telling' = About(pcs[c].peer, "event")
  /\ UNCHANGED <<lifecycle, maps, sigThread, relocking, told>>

\* A message of a data channel the manager knows, or an error.
handlePeerMessageOrError(c) ==
  /\ OnPeerThread
  /\ peerConnections_[pcs[c].peer] # 0
  /\ telling' = About(pcs[c].peer, "event")
  /\ UNCHANGED <<lifecycle, maps, sigThread, relocking, told>>

\* The application's handler, with mutex_ released.
Notify ==
  /\ telling # None
  /\ told' = CASE telling.about = "connected"    -> told \cup {telling.peer}
               [] telling.about = "disconnected" -> told \ {telling.peer}
               [] OTHER -> told
  /\ telling' = None
  /\ UNCHANGED <<lifecycle, maps, sigThread, relocking>>

-----------------------------------------------------------------------------
Init ==
  /\ wired \in BOOLEAN
  /\ state_ = "Uninitialized" /\ app = [t \in AppThreads |-> "idle"]
  /\ peerConnections_ = [p \in Peers |-> 0]
  /\ remoteDescriptionSet_ = {}
  /\ pendingRemoteCandidates_ = [p \in Peers |-> 0]
  /\ pcs = <<>>
  /\ sigThread = "none" /\ relocking = FALSE
  /\ telling = None /\ told = {}

Next ==
  \/ \E t \in AppThreads : init(t) \/ start(t) \/ StopCall(t) \/ StopSection(t) \/ StopJoins(t)
  \/ \E t \in AppThreads, p \in Peers : connectToPeer(t, p) \/ disconnectFromPeer(t, p)
  \/ SignalArrives
  \/ handleSignalingEvent
  \/ \E p \in Peers : handleSignalingMessage(p) \/ handleSignalingMessageRefused(p)
  \/ SignalTold
  \/ SignalEnds
  \/ \E c \in DOMAIN pcs :
        \/ Network(c)
        \/ handlePeerLocalSdpOrCandidate(c)
        \/ handlePeerConnectionStateChange(c)
        \/ handlePeerMessageOrError(c)
  \/ Notify

\* Threads inside the manager go on when mutex_ is free for them, and the
\* application's handlers return.
Fairness ==
  /\ \A t \in AppThreads : SF_vars(StopSection(t)) /\ WF_vars(StopJoins(t))
  /\ SF_vars(sigThread = "lock" /\ handleSignalingEvent)
  /\ WF_vars(SignalTold) /\ WF_vars(Notify)

Spec == Init /\ [][Next]_vars /\ Fairness

-----------------------------------------------------------------------------
Pc == [peer : Peers, conn : {"new", "connected", "lost", "closed"}, desc : BOOLEAN,
       local : BOOLEAN, added : Nat, sent : Nat, owed : Seq({"connected", "lost", "closed"})]

TypeOK ==
  /\ wired \in BOOLEAN /\ relocking \in BOOLEAN
  /\ state_ \in {"Uninitialized", "Initializing", "Initialized", "Running", "Stopping", "Stopped"}
  /\ app \in [AppThreads -> {"idle", "init", "start", "stop", "joining"}]
  /\ peerConnections_ \in [Peers -> Nat] /\ pendingRemoteCandidates_ \in [Peers -> Nat]
  /\ remoteDescriptionSet_ \subseteq Peers /\ told \subseteq Peers
  /\ pcs \in Seq(Pc)
  /\ sigThread \in {"none", "run", "lock", "telling"}
  /\ telling = None
     \/ telling \in [peer : Peers, about : {"connected", "disconnected", "event"}]
  /\ wired \/ (pcs = <<>> /\ sigThread = "none" /\ ~relocking /\ telling = None)

\* A candidate of the peer is added to a connection that has its remote
\* description, never before: the flag and the buffer of handleSignalingMessage
\* are those of the connection in the map, whatever became of its predecessors
\* and although connectToPeer does not reset them.
CandidatesFollowDescription ==
  \A c \in DOMAIN pcs : pcs[c].added > 0 => pcs[c].desc

\* While a connection is in the map and not closed, each candidate the peer
\* sent for it is added to it or buffered, once, and none stays buffered when
\* the connection has its description (pendingRemoteCandidates_).
CandidatesAreKept ==
  \A p \in Peers :
     LET c == peerConnections_[p]
     IN c # 0 /\ pcs[c].conn # "closed" =>
          /\ pcs[c].added + pendingRemoteCandidates_[p] = pcs[c].sent
          /\ pcs[c].desc => pendingRemoteCandidates_[p] = 0

\* While the manager runs, a peer the application takes for connected has a
\* connection in the map, or the notice of its loss is about to be given:
\* destroyPeerConnection leaves it to its callers ("Callers should notify
\* disconnection after lock release", webrtc_manager.cc:700).
ApplicationKnowsOfLoss ==
  \A p \in told : \/ state_ # "Running" \/ peerConnections_[p] # 0
                  \/ telling = About(p, "disconnected")

\* While the manager runs, what a callback of libwebrtc makes it tell the
\* application with mutex_ released, and is no loss, is still of a peer in the map:
\* the entry that the handler found under mutex_ (handlePeerConnectionStateChange,
\* handlePeerDataChannelMessage, handlePeerError) does not go before the application
\* is told.  The errors of handleSignalingMessage, which looks for no entry, are
\* told by the client's thread and may be of any peer.
ToldOfPeersInTheMap ==
  telling # None /\ state_ = "Running" =>
    telling.about = "disconnected" \/ peerConnections_[telling.peer] # 0

\* What stands behind these: an entry is a connection of its peer; a flag or
\* candidates without an entry are left only by stop(), after which the manager
\* never runs again.
EntriesAreSound ==
  \A p \in Peers : LET c == peerConnections_[p] IN
     IF c = 0
     THEN state_ \notin {"Stopping", "Stopped"} =>
            p \notin remoteDescriptionSet_ /\ pendingRemoteCandidates_[p] = 0
     ELSE /\ c \in DOMAIN pcs /\ pcs[c].peer = p
          /\ p \in remoteDescriptionSet_ => pcs[c].desc
          /\ pcs[c].desc => p \in remoteDescriptionSet_ \/ pcs[c].conn = "closed"

\* The compare-exchanges: the state of the manager while a call is inside it, and
\* before start() there is nothing.
CallsAgreeWithState ==
  /\ \A t \in AppThreads :
        /\ app[t] = "init" => state_ = "Initializing" /\ \A u \in AppThreads \ {t} : app[u] # "init"
        /\ app[t] = "start" => state_ \in {"Running", "Stopping", "Stopped"}
        /\ app[t] \in {"stop", "joining"} => state_ \in {"Stopping", "Stopped"}
  /\ state_ \in {"Uninitialized", "Initializing", "Initialized"} =>
        told = {} /\ telling = None /\ pcs = <<>> /\ sigThread = "none"

\* A connection that is not closed is the one its peer has in the map: none that
\* works is ever forgotten.
OpenIsMapped ==
  \A c \in DOMAIN pcs : pcs[c].conn # "closed" => peerConnections_[pcs[c].peer] = c

\* What every step preserves, for any number of threads of the application.
ManagerInv == TypeOK /\ CandidatesFollowDescription /\ CandidatesAreKept
              /\ ApplicationKnowsOfLoss /\ ToldOfPeersInTheMap
              /\ EntriesAreSound /\ OpenIsMapped /\ CallsAgreeWithState

\* "Stops all network activity, disconnects from signaling, closes all
\* PeerConnections" (i_webrtc_manager.h:107): when the manager is stopped the
\* client's thread is gone, the map empty and every connection closed.
StoppedIsSilent ==
  state_ = "Stopped" =>
    /\ sigThread = "none"
    /\ \A p \in Peers : peerConnections_[p] = 0
    /\ \A c \in DOMAIN pcs : pcs[c].conn = "closed"

\* What stands behind it, when one thread alone makes the calls: a call of start()
\* ends in the state it has set, and from the section of stop() on there is no entry.
CallsAreSequential ==
  /\ \A t \in AppThreads :
        /\ app[t] = "start" => state_ = "Running"
        /\ app[t] = "joining" => \A p \in Peers : peerConnections_[p] = 0
  /\ state_ = "Stopped" =>
        /\ sigThread = "none"
        /\ \A p \in Peers : peerConnections_[p] = 0
        /\ \A t \in AppThreads : app[t] = "idle"

-----------------------------------------------------------------------------
(* What a comment of the code says and the code does not do.               *)

\* "Should block until all related threads/tasks are shut down": a call of
\* stop() that got past its compare-exchange returns.
StopReturns == \A t \in AppThreads : app[t] \in {"stop", "joining"} ~> app[t] = "idle"
=============================================================================
