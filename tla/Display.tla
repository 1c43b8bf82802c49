------------------------------- MODULE Display -------------------------------
(***************************************************************************)
(* cockpit_client/display/src: app.js and video_player.js, the page that   *)
(* drives from a browser.  The page runs one piece of JavaScript at a time *)
(* up to its next await, and other events come in between: a step is such  *)
(* a piece.  Handlers of different messages are not waited for, so several *)
(* may be suspended at once.                                               *)
(*                                                                         *)
(* RTCPeerConnection is external: it takes its operations in the order of  *)
(* the calls (chain), settles the first, and settles none after close().   *)
(* Every VideoPlayer has one connection, and app.js creates the next one   *)
(* only when that is closed, so the variables are those of the latest.     *)
(***************************************************************************)
EXTENDS Naturals, Sequences

CONSTANTS
  MaxPlayers,    \* bound: VideoPlayers the page creates
  MaxChain,      \* bound: operations of the connection under way
  MaxCandidates  \* bound: remote candidates for one connection

ASSUME Bounds == MaxPlayers \in Nat /\ MaxChain \in Nat /\ MaxCandidates \in Nat

VARIABLES
  websocket,               \* "none" before the page is loaded, "connecting",
                           \* "open", or "closed" with the reconnect timer set
  offerTimer,              \* the timeout of onopen is set
  players,                 \* VideoPlayers so far; the latest is videoPlayer
  peerConnection,          \* it is not null
  isRemoteDescriptionSet,
  pendingRemoteCandidates, \* the candidates queued, numbered as they came
  controlDataChannel,      \* the player its channel belongs to, 0 for null
  signalingState, described, chain, channel, \* of the connection
  sent, added              \* histories: how many candidates the peer sent,
                           \* and those the connection was given

player == <<peerConnection, isRemoteDescriptionSet, pendingRemoteCandidates,
            signalingState, described, chain, channel, sent, added>>
vars == <<websocket, offerTimer, players, controlDataChannel, player>>

-----------------------------------------------------------------------------
(* VideoPlayer.                                                            *)

Op(name) == [op |-> name, left |-> {}, answer |-> FALSE]
Flush(left, answer) == [op |-> "candidate", left |-> left, answer |-> answer]
Calls(op) == chain' = Append(chain, op)

\* Constructor, init() and createDataChannel; the connection, or its control
\* channel, may be refused.
newVideoPlayer ==
  /\ players' = players + 1
  /\ peerConnection' \in BOOLEAN
  /\ channel' \in IF peerConnection' THEN {"none", "connecting"} ELSE {"none"}
  /\ isRemoteDescriptionSet' = FALSE /\ pendingRemoteCandidates' = {}
  /\ signalingState' = "stable" /\ described' = FALSE /\ chain' = <<>>
  /\ sent' = 0 /\ added' = {}

\* Mutant: the flag of the last connection stays.
close_KeepsFlag ==
  /\ IF peerConnection
     THEN /\ peerConnection' = FALSE
          /\ pendingRemoteCandidates' = {}
          /\ chain' = <<>> /\ sent' = 0 /\ added' = {}
          /\ channel' = IF channel = "none" THEN "none" ELSE "closed"
          /\ UNCHANGED <<isRemoteDescriptionSet, signalingState, described>>
     ELSE UNCHANGED player
  /\ UNCHANGED <<players, controlDataChannel>>

\* Closing a connection closes its channels without their close event, so
\* controlDataChannel stays.
close ==
  /\ IF peerConnection
     THEN /\ peerConnection' = FALSE
          /\ isRemoteDescriptionSet' = FALSE /\ pendingRemoteCandidates' = {}
          /\ chain' = <<>> /\ sent' = 0 /\ added' = {}
          /\ channel' = IF channel = "none" THEN "none" ELSE "closed"
          /\ UNCHANGED <<signalingState, described>>
     ELSE UNCHANGED player
  /\ UNCHANGED <<players, controlDataChannel>>

\* Mutant: a candidate is given to the connection at once.
addIceCandidate_AtOnce ==
  /\ sent' = sent + 1
  /\ Calls(Flush({sent + 1}, FALSE))
  /\ UNCHANGED <<pendingRemoteCandidates, peerConnection, isRemoteDescriptionSet,
                 signalingState, described, channel, added>>

addIceCandidate ==
  /\ sent' = sent + 1
  /\ IF isRemoteDescriptionSet
     THEN Calls(Flush({sent + 1}, FALSE)) /\ UNCHANGED pendingRemoteCandidates
     ELSE pendingRemoteCandidates' = pendingRemoteCandidates \cup {sent + 1} /\ UNCHANGED chain
  /\ UNCHANGED <<peerConnection, isRemoteDescriptionSet, signalingState, described, channel, added>>

\* Mutant: the queue is not emptied before its candidates are added.
Flushing_KeepsQueue(answer) ==
  /\ isRemoteDescriptionSet' = TRUE
  /\ UNCHANGED pendingRemoteCandidates
  /\ chain' = IF pendingRemoteCandidates # {}
              THEN Append(Tail(chain), Flush(pendingRemoteCandidates, answer))
              ELSE IF answer THEN Append(Tail(chain), Op("createAnswer"))
              ELSE Tail(chain)

\* setRemoteDescription after its await: the queue is taken and its candidates
\* are added one by one, each awaited; an offer is answered after them.
Flushing(answer) ==
  /\ isRemoteDescriptionSet' = TRUE
  /\ pendingRemoteCandidates' = {}
  /\ chain' = IF pendingRemoteCandidates # {}
              THEN Append(Tail(chain), Flush(pendingRemoteCandidates, answer))
              ELSE IF answer THEN Append(Tail(chain), Op("createAnswer"))
              ELSE Tail(chain)

\* The states in which the connection accepts an operation, and the one it is
\* in afterwards.  A remote offer rolls a local one back.
Accepted == [createOffer    |-> {"stable", "have-local-offer"},
             setLocalOffer  |-> {"stable", "have-local-offer"},
             setRemoteOffer |-> {"stable", "have-local-offer", "have-remote-offer"},
             setRemoteAnswer |-> {"have-local-offer"},
             createAnswer   |-> {"have-remote-offer"},
             setLocalAnswer |-> {"have-remote-offer"}]

After(op) == CASE op = "setLocalOffer"  -> "have-local-offer"
               [] op = "setRemoteOffer" -> "have-remote-offer"
               [] op \in {"setRemoteAnswer", "setLocalAnswer"} -> "stable"
               [] OTHER -> signalingState

\* The first operation is refused: for the state, or a description for its
\* content.  The exception is caught and logged, and the handler ends.
Rejects ==
  /\ chain # <<>> /\ Head(chain).op # "candidate"
  /\ \/ signalingState \notin Accepted[Head(chain).op]
     \/ Head(chain).op \in {"setRemoteOffer", "setRemoteAnswer"}
  /\ chain' = Tail(chain)
  /\ UNCHANGED <<websocket, offerTimer, players, controlDataChannel, peerConnection,
                 isRemoteDescriptionSet, pendingRemoteCandidates, signalingState,
                 described, channel, sent, added>>

\* createOffer and createAnswer go on to setLocalDescription; that sends.
Resolves ==
  /\ chain # <<>> /\ Head(chain).op # "candidate"
  /\ LET op == Head(chain).op IN
       /\ signalingState \in Accepted[op]
       /\ signalingState' = After(op)
       /\ IF op \in {"setRemoteOffer", "setRemoteAnswer"}
          THEN described' = TRUE /\ Flushing(op = "setRemoteOffer")
          ELSE /\ chain' = CASE op = "createOffer"  -> Append(Tail(chain), Op("setLocalOffer"))
                             [] op = "createAnswer" -> Append(Tail(chain), Op("setLocalAnswer"))
                             [] OTHER -> Tail(chain)
               /\ UNCHANGED <<described, isRemoteDescriptionSet, pendingRemoteCandidates>>
  /\ UNCHANGED <<websocket, offerTimer, players, controlDataChannel, peerConnection,
                 channel, sent, added>>

\* Mutant: the offer is not answered when candidates were queued.
Adds_NoAnswer ==
  /\ chain # <<>> /\ Head(chain).op = "candidate"
  /\ \E c \in Head(chain).left :
       LET rest == Head(chain).left \ {c} IN
         /\ \A d \in rest : c < d
         /\ added' = added \cup {c}
         /\ chain' = IF rest # {} THEN Append(Tail(chain), Flush(rest, Head(chain).answer))
                     ELSE Tail(chain)
  /\ UNCHANGED <<websocket, offerTimer, players, controlDataChannel, peerConnection,
                 isRemoteDescriptionSet, pendingRemoteCandidates, signalingState,
                 described, channel, sent>>

\* The next candidate is added, or refused and logged; the loop goes on either
\* way.
Adds ==
  /\ chain # <<>> /\ Head(chain).op = "candidate"
  /\ \E c \in Head(chain).left :
       LET rest == Head(chain).left \ {c} IN
         /\ \A d \in rest : c < d
         /\ added' = added \cup {c}
         /\ chain' = IF rest # {} THEN Append(Tail(chain), Flush(rest, Head(chain).answer))
                     ELSE IF Head(chain).answer THEN Append(Tail(chain), Op("createAnswer"))
                     ELSE Tail(chain)
  /\ UNCHANGED <<websocket, offerTimer, players, controlDataChannel, peerConnection,
                 isRemoteDescriptionSet, pendingRemoteCandidates, signalingState,
                 described, channel, sent>>

\* ICE is disconnected, failed or closed: the player cleans up.
oniceconnectionstatechange ==
  /\ peerConnection
  /\ close
  /\ UNCHANGED <<websocket, offerTimer>>

-----------------------------------------------------------------------------
(* app.js.                                                                 *)

\* The page is loaded, or the reconnect timer fires: five seconds after the
\* connection was lost, when the timeout of 200 ms that onopen set is over.
connectWebSocket ==
  /\ websocket = "none" \/ (websocket = "closed" /\ ~offerTimer)
  /\ websocket' = "connecting"
  /\ UNCHANGED <<offerTimer, players, controlDataChannel, player>>

\* Nothing while there is a connection.
initWebRTC == IF peerConnection THEN UNCHANGED <<players, player>> ELSE newVideoPlayer

onopen ==
  /\ websocket = "connecting" /\ players < MaxPlayers
  /\ websocket' = "open" /\ offerTimer' = TRUE
  /\ initWebRTC
  /\ UNCHANGED controlDataChannel

onOfferTimer ==
  /\ offerTimer /\ Len(chain) < MaxChain
  /\ offerTimer' = FALSE
  /\ IF peerConnection THEN Calls(Op("createOffer")) ELSE UNCHANGED chain
  /\ UNCHANGED <<websocket, players, controlDataChannel, peerConnection, isRemoteDescriptionSet,
                 pendingRemoteCandidates, signalingState, described, channel, sent, added>>

\* Mutant: the page keeps its connection to the vehicle.
onclose_KeepsConnection ==
  /\ websocket \in {"connecting", "open"}
  /\ websocket' = "closed"
  /\ UNCHANGED <<offerTimer, players, controlDataChannel, player>>

\* The socket did not open, or was closed.
onclose ==
  /\ websocket \in {"connecting", "open"}
  /\ websocket' = "closed"
  /\ close
  /\ UNCHANGED offerTimer

\* Descriptions and candidates from the vehicle, direct or in an envelope.
\* Without a connection they are dropped.
handleSignalingMessage ==
  /\ websocket = "open" /\ peerConnection /\ Len(chain) < MaxChain
  /\ \/ /\ Calls(Op("setRemoteOffer")) \/ Calls(Op("setRemoteAnswer"))
        /\ UNCHANGED <<peerConnection, isRemoteDescriptionSet, pendingRemoteCandidates,
                       signalingState, described, channel, sent, added>>
     \/ sent < MaxCandidates /\ addIceCandidate
  /\ UNCHANGED <<websocket, offerTimer, players, controlDataChannel>>

\* Whoever it is from.
onLeave ==
  /\ websocket = "open" /\ peerConnection
  /\ close
  /\ UNCHANGED <<websocket, offerTimer>>

\* The events of the control channel.  It does not open before the vehicle's
\* description is known.
controlChannel_onopen ==
  /\ peerConnection /\ channel = "connecting" /\ described
  /\ channel' = "open" /\ controlDataChannel' = players
  /\ UNCHANGED <<websocket, offerTimer, players, peerConnection, isRemoteDescriptionSet,
                 pendingRemoteCandidates, signalingState, described, chain, sent, added>>

controlChannel_onclose ==
  /\ peerConnection /\ channel = "open"
  /\ channel' = "closed" /\ controlDataChannel' = 0
  /\ UNCHANGED <<websocket, offerTimer, players, peerConnection, isRemoteDescriptionSet,
                 pendingRemoteCandidates, signalingState, described, chain, sent, added>>

\* sendControlCommand and sendEmergencyCommand send: controlDataChannel is not
\* null, and open.  The channels of earlier players are closed.
CanSend == controlDataChannel # 0 /\ controlDataChannel = players /\ channel = "open"

-----------------------------------------------------------------------------
Init ==
  /\ websocket = "none" /\ offerTimer = FALSE /\ players = 0 /\ controlDataChannel = 0
  /\ peerConnection = FALSE /\ isRemoteDescriptionSet = FALSE /\ pendingRemoteCandidates = {}
  /\ signalingState = "stable" /\ described = FALSE /\ chain = <<>> /\ channel = "none"
  /\ sent = 0 /\ added = {}

Next ==
  \/ connectWebSocket
  \/ onopen
  \/ onOfferTimer
  \/ onclose
  \/ handleSignalingMessage
  \/ onLeave
  \/ controlChannel_onopen
  \/ controlChannel_onclose
  \/ Rejects
  \/ Resolves
  \/ Adds
  \/ oniceconnectionstatechange

\* The connection settles what it was asked, and accepts what it can: only a
\* state or the content of a description makes it refuse.
Fairness == WF_vars(Resolves \/ Adds \/ Rejects)

Spec == Init /\ [][Next]_vars /\ Fairness

-----------------------------------------------------------------------------
\* An operation of the connection; a candidate stands for those left of a flush.
Operation == [op : DOMAIN Accepted, left : {{}}, answer : {FALSE}]
             \cup [op : {"candidate"}, left : (SUBSET Nat) \ {{}}, answer : BOOLEAN]

\* Types; and a player without a connection remembers nothing of the last one,
\* which close() and the constructor must see to together.
TypeOK ==
  /\ websocket \in {"none", "connecting", "open", "closed"}
  /\ offerTimer \in BOOLEAN /\ peerConnection \in BOOLEAN
  /\ isRemoteDescriptionSet \in BOOLEAN /\ described \in BOOLEAN
  /\ players \in Nat /\ controlDataChannel \in 0..players
  /\ signalingState \in {"stable", "have-local-offer", "have-remote-offer"}
  /\ channel \in {"none", "connecting", "open", "closed"}
  /\ sent \in Nat /\ added \subseteq 1..sent /\ pendingRemoteCandidates \subseteq 1..sent
  /\ chain \in Seq(Operation)
  /\ ~peerConnection => /\ ~isRemoteDescriptionSet /\ pendingRemoteCandidates = {}
                        /\ chain = <<>>

\* A connection is given no candidate before it has a remote description, which
\* would be an error that loses it: in whatever order descriptions and
\* candidates come in, and resume after their awaits.
NoCandidateTooEarly ==
  (added # {} \/ \E i \in 1..Len(chain) : chain[i].op = "candidate") => described

\* What stands behind it: the connection has the description that the player
\* says it has, until it is closed.
FlagMeansDescribed == isRemoteDescriptionSet => described

\* No candidate is lost or given twice while a description is being set and the
\* queue is flushed, one await per candidate: each is in one place, added, queued
\* or under way with one operation; and with a remote description, none is left in
\* the queue.
NoCandidateLost ==
  /\ 1..sent = added \cup pendingRemoteCandidates \cup UNION {chain[i].left : i \in 1..Len(chain)}
  /\ added \cap pendingRemoteCandidates = {}
  /\ \A i \in 1..Len(chain) :
        /\ chain[i].left \cap (added \cup pendingRemoteCandidates) = {}
        /\ \A j \in 1..Len(chain) : i # j => chain[i].left \cap chain[j].left = {}
  /\ isRemoteDescriptionSet => pendingRemoteCandidates = {}

\* The page sends no command when the signaling connection is lost, or the peer
\* left, though its control channel is reached by another path: whoever loses
\* sight of the vehicle lets go of it.
CommandsNeedSignaling == CanSend => peerConnection /\ websocket = "open"

\* What stands behind it: the connection lives while the socket is open, and its
\* channel while the connection does.
SocketOutlivesConnection ==
  /\ peerConnection => websocket = "open"
  /\ channel \in {"connecting", "open"} => peerConnection

\* What every step of the page preserves, in whatever order messages, events and
\* resumed handlers come.
DisplayInv == TypeOK /\ NoCandidateTooEarly /\ FlagMeansDescribed /\ NoCandidateLost
              /\ CommandsNeedSignaling /\ SocketOutlivesConnection

\* An offer of the vehicle that was accepted is answered, if the connection
\* lasts: also when it crossed the page's own offer, when candidates were
\* queued before it, or when another offer comes before the answer.
OffersAreAnswered ==
  (peerConnection /\ signalingState = "have-remote-offer")
    ~> (~peerConnection \/ signalingState # "have-remote-offer")
=============================================================================
