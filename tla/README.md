# Verification of whl-air (remote driving over WebRTC)

TLA+ models of whl-air, checked with TLC on small instances, and theorems about
them proved with TLAPS for every value of the constants. The reference is the
source; each definition that models code is listed with its file and lines under
`map` in PROJECT.json.

## 1. The system

A **cockpit** drives a **vehicle** remotely. Both connect to a **signaling
server** over WebSockets, find each other by id and negotiate a WebRTC
connection whose data channels carry commands and telemetry.

| Component | State | Operations | Hard behaviour |
| --- | --- | --- | --- |
| Signaling server (`signaling_server/src`) | two Maps: connected clients (id, target) and sessions (id to socket) | `addClient`, `removeClient`, `routeMessage`, `sendMessage`; WebSocket and signal handlers | order of events of different connections, ids used twice, sockets that are closing, frames in flight, shutdown |
| Vehicle domain (`vehicle_client/domain`) | mode, emergency, speed, gear, peer flag, counters, mode timeline | seven event handlers, `ApplyCommand`, `PushMode` | any order of peer, network and error events and commands |
| Cockpit domain (`cockpit_client/domain`) | session state, believed vehicle mode, emergency, expected speed, link flag, web clients, counters, timeline | eight event handlers, `ApplyCommand`, `PushState` | the same, with commands allowed or not by link and session |
| Vehicle application (`vehicle_client_app.cc`) | stop flag, threads, counters | camera, telemetry and heartbeat loops, self-test, `main`, signal handler | threads against the script of the self-test, stop flag read and acted on later, termination |
| Cockpit application (`cockpit_client_app.cc`) | stop flag, threads, counters | session, heartbeat and telemetry loops, web and input commands, self-test, `main` | the same, and the hand-over from the session thread to the self-test |
| Signaling client (`signaling/signaling_client.cc`) | `isRunning_`, connection handle, asio thread | `connect`, `disconnect`, `sendSignal`, WebSocket handlers, destructor | the caller's thread against the asio thread, stop and join, callbacks delivered twice or never |
| Signaling messages (`signaling/signaling_message.cc`) | none | `SerializeSignalMessage`, `DeserializeSignalMessage` | one text, three parsers: text search in C++, JSON in the server and the page; two spellings, two shapes |
| WebRTC manager (`webrtc/webrtc_manager.cc`) | `state_`, peer connections, remote-description flags, pending candidates | `init`, `start`, `stop`, `connectToPeer`, `disconnectFromPeer`, signaling and peer callbacks, heartbeat | signaling, WebRTC and caller threads around one mutex; callbacks of a connection that is gone; candidates before descriptions |
| Peer connection (`webrtc/peer_connection.cc`) | native connection, callbacks, the local description that waits to be set | offers, answers, candidates, send, close; observers | one observer for the results of all operations, which libwebrtc delivers later and in its own order |
| Display (`cockpit_client/display/src`) | WebSocket, peer connection, queued candidates, control channel | connect, offer, answer, candidates, leave, close, commands | messages handled while earlier handlers are suspended in an await; timers; offers that cross; a channel that outlives its connection |
| Sensors, control, drivers, transport | device handles | interfaces and skeletons | none without hardware |

How they interact: the applications call the domain operations under
`RuntimeState::mutex`; the WebRTC manager owns a signaling client and one peer
connection for each remote id, which call it back from their own threads; the
signaling server relays frames between signaling clients by id. No transport in
the repository connects the two applications: their only event source is the
built-in self-test.

What makes each component correct, in words:

- Server: the two Maps agree; no frame claims an identity its sender does not
  have; whoever waits for a peer that is gone is told; the process outlives its
  clients.
- Domains: the vehicle moves only under remote control, in gear, outside an
  emergency; an emergency latches until a recovery command, through every
  disconnection and reconnection; the timeline and the counters the self-test judges by
  are a true history.
- Applications: threads touch the state only through the domain layer; a
  self-test fails only for a cause; a stop ends the process with all threads
  joined.
- Signaling client: `disconnect()` returns if handlers do, and nothing is called after
  it; each loss is reported.
- Display: candidates follow the description and none is lost, whatever is awaited;
  an offer is answered; commands stop with the signaling connection.
- Peer connection: a local description is handed over once and in order; no result is
  taken for that of another operation. That it is set before does not hold (section 4).
- Messages and negotiation: what the page sends reaches the vehicle's connection
  once, in order and unchanged. The vehicle's descriptions do not reach the page
  (section 4).
- WebRTC manager: candidates follow the description, none is lost, the
  application hears of each loss, a stopped manager is silent.

## 2. Modules

```
SafetyInterlock  <-- implements --  VehicleRuntime  <-- implements --  VehicleApp
                 <-- implements --  CockpitRuntime  <-- implements --  CockpitApp
SessionManager                (the server)
SignalingClient               (the client's side of the socket)
Display                       (the browser's page: socket, peer connection)
WebrtcManager                 (uses a signaling client and peer connections)
PeerConnection <-- drives -- Negotiation -- reads and writes --> SignalMessages
                              (page, server and vehicle, end to end)
```

`MC<Module>` gives a module its constants for TLC. `MCVehicle` and `MCCockpit` check a
client in one run with two kinds of initial states: the process, whose self-test is the
only caller of the domain in the tree, and the domain's operations called in any order,
with a bound on its counters; `<Module>Proofs` holds its theorems (`VehicleProofs` and `CockpitProofs` those
of the runtime and of the application around it). Operations keep the names of the source. An operator whose comment
begins with "Mutant:" is a faulty version of the definition below it; it is part
of no specification and serves to show that a property can fail.

**SessionManager** (`session_manager.js`, `server.js`). Variables
`connectedClients`, `clientId`, `targetId` (the values of the first Map) and
`sessions` are the program's; `readyState` and `outbox` are the sockets; `linked`
is the peer that the client at the other end takes itself to be talking to
(`app.js`). JavaScript runs one event handler at a time, so a handler is a step:
`OnConnection`, `OnMessage`, `OnClose`, `OnSignal`, `Exit`. The steps of
`OnMessage` are the branches of `routeMessage`. A token is its outcome, an id or
none. A socket that breaks is `CLOSING`, still in both Maps, until its close event;
frames in flight are lost with it.

**VehicleRuntime, CockpitRuntime** (`runtime_state.cc`). One variable for each
field of `RuntimeState`, one action for each operation: the callers hold
`RuntimeState::mutex` throughout. Only the counters that properties read are kept.
Speed and gear are the values `ApplyCommand` can assign.

**SafetyInterlock** is the promise of both domains: three driving states, whether a
speed is set, and how many commands were obeyed. Anything may stop the vehicle; its
recovery, a takeover and a speed are each the work of a command, so that no event
restores them. Each runtime maps its fields to it (`Interlock == INSTANCE
SafetyInterlock WITH ...`), the commands to the counter of acknowledgements.
`EmergencyLatches` says more closely, of a runtime's own fields, which command it is:
`RECOVER_AUTO`.

**VehicleApp, CockpitApp** extend the runtimes with the threads of the process: a
step is a critical section or a reading of `g_stop_requested`. `Script` is what
`run_self_test` does, line by line; a signal may come between any two steps.

**SignalingClient** (`signaling_client.cc`). The owner's thread (`owner`) and the
Asio thread (`asioThread_`) share `isRunning_` and the io_context. `disconnect()`
is four steps, since the other thread runs between them: the flag, the close
frame, `stop()`, `join()`. A callback of websocketpp is two steps: it does its own work
and enters the application's handler (`handling`), and the handler returns
(`HandlerReturns`); the owner's thread runs in between. websocketpp is external: the
session state of the connection, and `run()`, which returns when the io_context
was stopped or no connection is left. Destroying or assigning to a joinable thread
is `owner = "aborted"`.

**WebrtcManager** (`webrtc_manager.cc`). A critical section of `mutex_` is one
step; the compare-exchange on `state_` before it and the application's handler
after it are steps of their own: `telling` is what libwebrtc's thread is about to tell,
of which peer, and `sigThread = "telling"` the signaling client's thread in such a
handler, where it goes also with a message that is refused
(`handleSignalingMessageRefused`). In the tree as it stands `init()` leaves the
signaling client null and `createPeerConnection()` returns null, so most of the
file cannot run: that is `wired = FALSE`. With `wired = TRUE` both are what their
interfaces describe (`signaling_client.h`, `peer_connection.h`). Each run covers
both. What is found of the wired manager is about the code that is written and
not yet reached.

**Display** (`app.js`, `video_player.js`). JavaScript runs a handler up to its next
`await`, so that piece is a step. What a suspended handler has left to do is in
`chain`, the operations the peer connection has been asked for, first in, first out,
as WebRTC prescribes. Candidates are numbered as they come; the element of a flush has
those that are `left`, of which the next to be added is the least, and whether an
`answer` follows. `signalingState` and which operation it admits are
external (`Accepted`, `After`). `players` counts the VideoPlayers, so that
`controlDataChannel` can refer to the channel of an earlier one.

**PeerConnection** (`peer_connection.cc`). Every method holds `mutex_` from its first
line to its last, so it is one step; the callback `onLocalSdpGenerated` runs after
the mutex was released and is a step of its own. libwebrtc is external: `chain` holds
the operations that were asked for, which complete in order on one thread, each one
well or with an error. The calls of libwebrtc are comments in the tree and `init()`
always fails; that is `wired = FALSE`, as in WebrtcManager. `created`, `set_` and
`emitted` are histories.

**SignalMessages** (`signaling_message.cc`, `server.js`, `session_manager.js`,
`app.js`). Pure operators on texts. A text is the sequence of its key/value pairs, each
with the object it stands in: the C++ reader searches for a key at any depth and
refuses nothing, the server and the page see objects. A description always has several
lines, and knows whether their breaks are escaped, since the C++ writer escapes nothing.
Candidates come in the two shapes the repository produces: direct with the page's
spelling `sdpMLineIndex`, and in an envelope with `sdpMlineIndex`.

**Negotiation** composes the page's messages, the server's treatment of them, the
signaling cases of the manager for one peer, the peer connection and the way of its
descriptions back. It refines `PeerConnection`: each step is one of it or leaves the
connection alone.

## 3. Runs

| Run | Shows | Bounds, and why they are enough |
| --- | --- | --- |
| `signaling_server` | `SessionsConsistent`, `RoutingIntegrity`, `PeerLossIsAnnounced`, `NoExitWhileConnected` | three connections for two ids, so that an id is always used twice; two frames in flight for each socket, so that a notice is behind another frame; one relayed type stands for the six that take the same branch |
| `signaling_server_live` | `ServerInv` (the inductive invariant of the proofs), `PeerLossIsNoticed` | two connections |
| `target_is_notified` | violation, section 4 | two connections |
| `vehicle` | `VehicleInv` (the proofs' invariant, with the counters), `MovesOnlyUnderControl`, `EmergencyIsSafeStop`, `TimelineIsHistory`, `EmergencyLatches`, refinement of `SafetyInterlock`; of the process: refinement of the runtime, cause of failure, termination | seven counted operations (`MaxCounted`, which bounds only the part of the run in which operations come in any order): longer than the shortest way through every mode and back. The counters of the loops saturate above what the self-test asks for; the domain's counters need no bound there, the script ends |
| `cockpit` | `CockpitInv` (the proofs' invariant, with the acks), `SessionMatchesLink`, `EmergencyIsHistory`, `TimelineIsHistory`, `EmergencyLatches`, refinement; of the process as for the vehicle | eight counted operations, two web clients; the loops as above |
| `signaling_client` | `QuietWhenStopped`, `DisconnectReturns`, `FailureIsReported` | three connections of one client, so that it is reconnected after each way to end; three calls of a handler, each of which may be in progress when the owner disconnects |
| `display` | `DisplayInv` (the proofs' invariant), `NoCandidateTooEarly`, `NoCandidateLost`, `CommandsNeedSignaling`, `OffersAreAnswered` | two connections of the page, so that the second meets what the first left; three operations under way, enough for two descriptions and a candidate between them; three candidates, so that a flush of two is interrupted by another |
| `webrtc_manager` | `ManagerInv` (the proofs' invariant), `CandidatesFollowDescription`, `CandidatesAreKept`, `ApplicationKnowsOfLoss`, `StoppedIsSilent` | two peers and two connections, so that a connection has a successor for its peer or a neighbour; two candidates, one before and one after the description |
| `negotiation` | `FlagIsNotStale`, `HandedOverInOrder`, `CandidatesArriveIntact` | three messages of the page, so that candidates stand on both sides of an offer, or a leave between two; five operations of the connection: the vehicle's own offer and two of the page's overlap in every way. A message that would ask for a sixth waits, and what is behind it |
| `stop_returns` | violation | no connection is needed to show it |
| `sdp_follows_set_local`, `descriptions_reach_the_page` | violations | two messages of the page |

Deadlock checking is off where the system ends (a process exits, an object is
destroyed, a manager is stopped).

Fairness. *Server*: a socket that left OPEN gets its close event and a client
reads; nobody has to connect, speak or disconnect. *Applications*: every thread is
scheduled; nobody has to send a signal. *Signaling client*: `disconnect()` goes on,
the Asio thread is scheduled, a server answers a close frame, a handshake ends one
way or the other (websocketpp has timers for both), and the application's handlers
return; nobody has to connect or disconnect. That last part is an assumption about the
application, and the one application in the tree, the manager, breaks it: its handlers
wait for `mutex_`, which `stop()` holds (`stop_returns`). *WebRTC manager*: a thread that
waits for `mutex_` gets it when it is free again and again, and the application's
handlers return. *Display*: the peer connection settles the operations it was
asked for, and refuses one only for its state or a description for its content;
nobody has to send anything. *Negotiation*: the vehicle's
signaling thread, libwebrtc's and the server handle what arrives, and an operation
completes, well or not; nobody has to send.

## 4. Where comments and code disagree

Each is a run that states the comment and finds the behaviour that breaks it; the
`findings` of PROJECT.json quote the lines.

- Server: a target is not told that the client that joined it has disconnected.
- WebRTC manager, once wired: `stop()` joins a thread that waits for the mutex
  `stop()` holds.
- Peer connection, once wired: a local description is handed over while its setting is
  still under way, when an offer comes in while the vehicle creates its own. The comment
  at `peer_connection.cc:198` has no such exception.
- Negotiation, once wired: no description of the vehicle's reaches the page. The
  serializer, which calls itself a skeleton, leaves the line breaks of an SDP as they are,
  and the server answers with an error frame, which the vehicle takes for an unknown
  message.

The models also contain behaviour that a reader may not expect and that no comment
rules out clearly enough to be a finding (the hazards note them): the destructor of
the signaling client, or a second `connect()`, ends the process when the Asio thread had
ended by itself; the manager signs its messages `client_dummy_id`, which the server
drops without a word unless the vehicle's token carries that id; the vehicle goes from
`REMOTE_CONTROL` to `AUTO` with the gear engaged when a peer or the network comes back
(its speed is 0); after a leave the closed connection keeps its entry and gets the next
offer; after an id was
taken over and its newer connection closed, the older one is connected and cannot be
looked up; a loss that the server causes is reported to the signaling client's owner
twice; after a leave the page has no peer connection until its socket is reopened, and
drops every offer; a handshake that completes during `disconnect()` leaves a connection open;
a failed send under `mutex_` locks it twice; a late Closed callback destroys the next
connection of the same peer; with two application threads a `start()` overtaken by a
`stop()` connects after it.

## 5. Proofs

| Module | Theorems |
| --- | --- |
| `SessionManagerProofs` | `ServerIsSafe`, and from it `SessionsStayConsistent`, `RoutingIsSound`, `PeerLossAlwaysAnnounced`, `ExitsDisconnected` |
| `VehicleProofs` | `VehicleIsSafe`, `VehicleMovesOnlyUnderControl`, `VehicleEmergencyIsSafeStop`, `VehicleTimelineIsHistory`, `VehicleStopsAreCounted`, `VehicleEmergencyLatches`, `VehicleImplementsInterlock`; of the application `VehicleAppImplementsRuntime`, `VehicleFailsOnlyForCause` |
| `CockpitProofs` | `CockpitIsSafe`, `CockpitSessionMatchesLink`, `CockpitEmergencyIsHistory`, `CockpitTimelineIsHistory`, `CockpitEmergencyLatches`, `CockpitImplementsInterlock`; of the application `ConnectingComesFirst`, `CockpitAppImplementsRuntime`, `CockpitFailsOnlyForCause` |
| `SignalingClientProofs` | `ClientIsSafe`, `ClientQuietWhenStopped` |
| `PeerConnectionProofs` | `PeerIsSafe`, `PeerFlagIsNotStale`, `PeerHandsOverInOrder` |
| `NegotiationProofs` | `NegotiationImplementsPeer`, and through it the two properties for the composition; `NegotiationIsSafe`, `CandidatesArrive` |
| `DisplayProofs` | `DisplayIsSafe`, `CandidatesComeInTime`, `CandidatesAreNotLost`, `CommandsWithSignaling` |
| `WebrtcManagerProofs` | `ManagerIsSafe`, `CandidatesFollow`, `CandidatesKept`, `LossIsKnown`, `StoppedManagerIsSilent` |

They hold for any number of connections, ids, frames, operations, threads and web
clients,
under the assumptions that stand, named, in the modules: the bounds are naturals
and the special values (`None`, `Server`) are no ids.

*Server.* `PeerLossIsAnnounced` is not inductive: from "the peer is online or the
notice is on its way" nothing follows about what `removeClient` will send.
`ServerInv` adds `LinkedIsTargeted`, that a client linked to an online peer is
registered as targeting it, and that both Maps hold exactly the sockets whose close
event is due (`NoExitWhileConnected`), so that a departing peer's notice goes to
every client linked to it. Lemmas say what a frame sent or read does to the set of
frames in flight; each branch of `routeMessage` has a lemma of its own.

*Domains.* The invariants are the conjunctions `VehicleInv` and `CockpitInv` of the
properties that the runs check: the timeline's last entry is the mode, and an
emergency is `SAFE_STOP` or what the timeline says. The refinement needs the
invariant: a command in an emergency maps to no step only because the mode agrees
with the flag. That an emergency latches is an action property, proved operation by
operation from the same invariant.

*Applications.* What the threads do to the shared state is a step of the runtime
because of the guards the code has, with one exception: `Connecting` is guarded in the
runtime by the timeline that `main` left, which `connection_loop` does not look at, and
`ConnectingComesFirst` proves that it is so. That
a self-test fails for a cause only is an invariant about its script: `AppInv` says, for
each number n of lines that have run, which operations have been counted and which mode
or session state they left (`CountsHold`; `ModesHold`, `StatesHold`), what the session thread had done
by then in the cockpit, and that no check has failed. Its step is one lemma for each line
of the script, and one for the loops, which change neither counter nor mode of those the
script depends on.

*Signaling client.* `ClientInv` adds to `QuietWhenStopped` that the flag is set only
while the Asio thread is before its end, and is cleared before `disconnect()` waits;
that a handler is in progress only before the thread's end is part of `TypeOK`.

*Peer connection.* `PeerInv` adds `PendingIsNewest`: a pending description is newer than
every one handed over, which gives the order however operations overlap.
`NegotiationImplementsPeer` then carries all of it over to
the composition: `Spec => PeerSpec`.

*Negotiation.* `CandidatesArriveIntact` says of the texts on their way, of the buffer and
of what was added that together they are what the page sent. `NegotiationInv` makes it
inductive: it says so from the start of a vehicle that is able to make a connection, not
only while there is one, and adds that each text in the queue which the vehicle would take for a
candidate carries the number, mid and index of one the page sent. The
step of the page rests on what the three programs make of a text: the first pair in the
message that carries a key is what the vehicle finds (`FindFirst` and the lemmas on
texts in a row), the server's reading keeps the pairs of an envelope's payload and their
order (`OpenedEnvelope`, `PickInterval`) and adds at most a spelling that was missing
(`IndexAdded`), so that the vehicle finds what the page wrote (`PageTextIsRead`,
`CandidateIsRead`), and takes nothing else for a candidate (`OtherIsNoCandidate`,
`ErrorIsNoCandidate`). The step of the vehicle rests on the order of the queue: what is
read first has the smallest number of those on their way (`FirstRead`). The assumption
`NoValue` says that the marks for nothing and for JSON's null are no type, number or
candidate.

*Display.* A candidate is given to the connection directly, when the flag is set, or by
the flush of a description. `DisplayInv` adds `FlagMeansDescribed`, which ties the first
way to the second, and `SocketOutlivesConnection`, that the connection lives while the
socket is open and its channel while the connection does: hence no command without
signaling. `NoCandidateLost` is inductive as it stands; its lemmas follow a candidate
from place to place (`Taken` from the queue into an operation, `GivenBack` when the first
operation settles, `Queued` when it comes in), for a chain of any length.

*WebRTC manager.* None of the properties is inductive. `ManagerInv` adds
`EntriesAreSound`, that an entry is a connection of its peer and agrees with the flag
kept for it, while a peer without an entry has no flag and no candidates as long as the
manager may run: so a connection that `connectToPeer` makes, which resets neither,
starts clean. `CallsAgreeWithState` says what the compare-exchanges on `state_` leave
possible, and `ToldOfPeersInTheMap` that an entry does not go between the lock and the
handler on libwebrtc's thread. (Of what the signaling thread tells this is not true: a
message that is refused is reported for its sender, entry or not.) The helpers are
functions of one value, the maps, so each has a lemma on what
it makes of a sound value (`Follows`); every action then is such a value and what it
tells the application. The proof is for any number of threads that call the manager.
`OpenIsMapped`, that a connection which is not closed is the entry of its peer, is what
makes `stop()` close them all. `StoppedIsSilent` needs more: that calls come one after the
other (`CallsAreSequential`), which holds when one thread makes them. The theorem
`StoppedManagerIsSilent` has that assumption, `OneCaller`; with two threads TLC finds a
`start()` that connects after a `stop()` has returned.

Only model-checked: liveness (`PeerLossIsNoticed`, `StopTerminates`,
`DisconnectReturns`, `FailureIsReported`, `OffersAreAnswered`), which is beyond the
prover.

## 6. Not modelled

- The text of messages, logs, metrics output, arguments and configuration files.
- TLS, JWT verification beyond its outcome, the HTTP server of the display.
- In `webrtc_manager.cc`: the handlers that only log (data channels opened and closed,
  ICE and signaling state), `sendDataChannelMessage` and its
  variant (they read the map and change nothing of the manager), the setters of
  handlers (called before `start()`), the heartbeat and reconnection code, which
  nothing calls in this tree, and the destructor's race with late callbacks.
- Data races on `connectionHdl_` in the signaling client, and handlers that call the
  client back. The error handler that `sendSignal()` or a refused `connect()` calls on
  the owner's own thread is part of that call's step: `QuietWhenStopped` is about the
  Asio thread.
- How long a sleep of an application lasts (`--run-seconds`): it ends, but when is not
  said.
- In `peer_connection.cc`: `SendData`, which always fails, the getters, and the
  observer's callbacks that only log. Local candidates: `OnIceCandidate` only logs.
- Sensors, control, drivers, transport: skeletons outside any
  build target.
- In a message: its `reason`, which nobody reads, and identifiers or candidates with
  quotes in them, which the repository does not produce. A candidate counts as added when
  it was passed to `AddRemoteCandidate`; what libwebrtc does with it is its own.
- The display's status panel, and the text of its commands and of the page.

## 7. Plan

Written first, in this order: the server, where all actors meet; the two domains
and their interlock; the applications around them; the signaling client; the WebRTC
manager; the display; messages, peer connection and negotiation. Next:

1. `BrowserSession`: `Display` composed with `SessionManager` in place of `linked`, so
   that what the page takes itself to be linked to comes from the page.
2. `ManagedSignaling`: `WebrtcManager` with the signaling client of
   `SignalingClient` in place of its abstraction `sigThread`, as a refinement.
3. `TeleoperationSession`: a cockpit and a vehicle runtime joined by a lossy channel,
   against one `SafetyInterlock`; external until the tree has a transport.
