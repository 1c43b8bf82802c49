----------------------------- MODULE Negotiation -----------------------------
(***************************************************************************)
(* A negotiation between the page of a cockpit and a vehicle, end to end:  *)
(* the page's messages, the server's relay, the vehicle's signaling thread *)
(* in WebrtcManagerImpl::handleSignalingMessage, its connection (module    *)
(* PeerConnection) and the way of its descriptions back.  The texts are    *)
(* those of module SignalMessages.                                         *)
(*                                                                         *)
(* The vehicle's end holds one entry, for the page's id.  What module      *)
(* WebrtcManager describes of the manager's life cycle, and module         *)
(* SignalingClient of a connection that breaks, is left to them: here the  *)
(* manager runs and the sockets are up, so each direction is a FIFO.  A    *)
(* page that goes away is the subject of module SessionManager.             *)
(***************************************************************************)
EXTENDS PeerConnection, SequencesExt

CONSTANTS
  Null,      \* JSON's null
  Page,      \* the page's id
  DummyId,   \* "client_dummy_id"
  OtherId,   \* any other id a vehicle's token may carry
  MaxSends   \* bound: messages of the page

ASSUME SendsBound == MaxSends \in Nat

INSTANCE SignalMessages

Candidate == [candidate : Nat, sdpMid : Nat \cup {Null}, sdpMlineIndex : Nat]

ASSUME NoValue ==
  /\ None \notin Types \cup {"join_request", "signaling"} \cup Candidate \cup {Null}
  /\ Null \notin Types \cup {"join_request"} \cup Nat

VARIABLES
  vehicleId,    \* the id the vehicle's token carries
  described,    \* remoteDescriptionSet_ of the page
  buffered,     \* pendingRemoteCandidates_ of the page
  toVehicle,    \* texts the server sent to the vehicle, not yet read
  toServer,     \* texts the vehicle sent, not yet handled by the server
  sends,        \* how many messages the page sent
  candidates,   \* histories: the complete candidates the page sent,
  added,        \*   those passed to AddRemoteCandidate,
  received      \*   and the texts of the vehicle that reached the page

managerVars == <<described, buffered, added>>
pageVars == <<sends, candidates>>
vars == <<peerVars, vehicleId, managerVars, pageVars, toVehicle, toServer, received>>

-----------------------------------------------------------------------------
(* The page.  What it sends is handled by the server before anything else  *)
(* of the page's, so the two are one step.                                 *)

Relay(text) == toVehicle' = Append(toVehicle, Normalized(text, Page))

Sends ==
  /\ sends < MaxSends
  /\ sends' = sends + 1
  /\ UNCHANGED <<peerVars, vehicleId, managerVars, toServer, received>>

\* A direct message is the page's own form, an envelope that of other senders
\* the server supports.
PageSendsSdp(type, enveloped) ==
  /\ Sends
  /\ Relay(PageText(type, Page, vehicleId, Description(0), None, None, enveloped))
  /\ UNCHANGED candidates

\* The browser may leave sdpMid null.  The other senders spell the index as
\* the C++ side does.
PageSendsCandidate(sdpMid, enveloped) ==
  LET n == Len(candidates) + 1
      c == [candidate |-> n, sdpMid |-> IF sdpMid = Null THEN Null ELSE n, sdpMlineIndex |-> n]
  IN /\ Sends
     /\ Relay(PageText("candidate", Page, vehicleId, None, c,
                       IF enveloped THEN "sdpMlineIndex" ELSE "sdpMLineIndex", enveloped))
     /\ candidates' = IF sdpMid = Null THEN candidates ELSE Append(candidates, c)

\* The server makes a join_request of a join and a leave of a leave.
PageSendsOther(type) ==
  /\ Sends
  /\ Relay(PageText(type, Page, vehicleId, None, None, None, FALSE))
  /\ UNCHANGED candidates

-----------------------------------------------------------------------------
(* The vehicle.                                                            *)

\* connectToPeer: only for a peer without an entry.
connectToPeer ==
  /\ rtc_peer_connection_ = "null"
  /\ CreateOffer
  /\ UNCHANGED <<vehicleId, managerVars, pageVars, toVehicle, toServer, received>>

\* The cases of handleSignalingMessage.  In each one without a connection, or
\* with a message that lacks a field, an error handler is called instead.
Describes ==
  /\ added' = added \o buffered
  /\ buffered' = <<>>
  /\ described' = TRUE

Refused == UNCHANGED <<peerVars, managerVars>>

OnOffer(m) ==
  /\ m.type = "offer" /\ m.sdp # None
  /\ \/ SetRemoteAndCreateAnswer /\ Describes
     \/ ~wired /\ Refused

OnAnswer(m) ==
  /\ m.type = "answer" /\ m.sdp # None
  /\ \/ SetRemoteDescription /\ Describes
     \/ ~wired /\ Refused

OnCandidate(m) ==
  LET c == [candidate |-> m.candidate, sdpMid |-> m.sdpMid, sdpMlineIndex |-> m.sdpMlineIndex]
  IN /\ m.type = "candidate"
     /\ \/ /\ AddRemoteCandidate
           /\ IF None \in {m.candidate, m.sdpMid, m.sdpMlineIndex}
              THEN UNCHANGED managerVars
              ELSE IF described
              THEN added' = Append(added, c) /\ UNCHANGED <<described, buffered>>
              ELSE buffered' = Append(buffered, c) /\ UNCHANGED <<described, added>>
        \/ ~wired /\ Refused

OnLeave(m) ==
  /\ m.type = "leave"
  /\ IF rtc_peer_connection_ = "null" THEN Refused
     ELSE /\ IF rtc_peer_connection_ = "open" THEN Close ELSE UNCHANGED peerVars
          /\ described' = FALSE /\ buffered' = <<>>
          /\ UNCHANGED added

OnOther(m) == m.type \in {"join", "unknown"} /\ Refused

VehicleReads ==
  /\ toVehicle # <<>>
  /\ toVehicle' = Tail(toVehicle)
  /\ \E m \in {DeserializeSignalMessage(Head(toVehicle))} :
        OnOffer(m) \/ OnAnswer(m) \/ OnCandidate(m) \/ OnLeave(m) \/ OnOther(m)
  /\ UNCHANGED <<vehicleId, pageVars, toServer, received>>

\* The signaling thread of libwebrtc.  handlePeerLocalSdpGenerated fills in
\* the sender itself; OnIceCandidate and OnConnectionChange tell nobody.
handlePeerLocalSdpGenerated ==
  /\ LocalSdpGenerated
  /\ toServer' = Append(toServer, SerializeSignalMessage(
                   [type |-> IF created[local_sdp_cb] = "offer" THEN "offer" ELSE "answer",
                    from |-> DummyId, to |-> Page,
                    sdp |-> Description(local_sdp_cb),
                    candidate |-> None, sdpMid |-> None, sdpMlineIndex |-> None]))
  /\ UNCHANGED <<vehicleId, managerVars, pageVars, toVehicle, received>>

PeerThread ==
  \/ /\ OnSuccess \/ OnFailure \/ OnSetFailed \/ OnSetSucceeded
     /\ UNCHANGED <<vehicleId, managerVars, pageVars, toVehicle, toServer, received>>
  \/ handlePeerLocalSdpGenerated

-----------------------------------------------------------------------------
(* The server, with a text of the vehicle's.                               *)

Answers(error) == toVehicle' = Append(toVehicle, error) /\ UNCHANGED received

Forwards(text) == received' = Append(received, text) /\ UNCHANGED toVehicle

\* A text that is no JSON is refused with an error; a message under another id
\* than the sender's is dropped without one.
ServerReads ==
  /\ toServer # <<>> /\ toServer' = Tail(toServer)
  /\ LET text == Head(toServer)
         honest == Field(text, "top", "from") = vehicleId
     IN IF ~IsJson(text) THEN Answers(ErrorText)
        ELSE IF honest THEN Forwards(text) ELSE UNCHANGED <<toVehicle, received>>
  /\ UNCHANGED <<peerVars, vehicleId, managerVars, pageVars>>

-----------------------------------------------------------------------------
Init ==
  /\ PeerInit
  /\ vehicleId \in {DummyId, OtherId}
  /\ described = FALSE /\ buffered = <<>> /\ added = <<>>
  /\ toVehicle = <<>> /\ toServer = <<>>
  /\ sends = 0 /\ candidates = <<>> /\ received = <<>>

Next ==
  \/ \E type \in {"offer", "answer"}, enveloped \in BOOLEAN : PageSendsSdp(type, enveloped)
  \/ \E sdpMid \in {None, Null}, enveloped \in BOOLEAN : PageSendsCandidate(sdpMid, enveloped)
  \/ \E type \in {"join_request", "leave"} : PageSendsOther(type)
  \/ connectToPeer
  \/ VehicleReads
  \/ PeerThread
  \/ ServerReads

\* Three threads that handle what arrives.  Nobody has to send, and nothing
\* has to succeed.
Fairness == WF_vars(VehicleReads) /\ WF_vars(PeerThread) /\ WF_vars(ServerReads)

Spec == Init /\ [][Next]_vars /\ Fairness

-----------------------------------------------------------------------------
TypeOK ==
  /\ vehicleId \in {DummyId, OtherId}
  /\ described \in BOOLEAN /\ sends \in 0..MaxSends
  /\ toVehicle \in Seq(Range(toVehicle))
  /\ candidates \in Seq(Candidate) /\ added \in Seq(Candidate) /\ buffered \in Seq(Candidate)

\* The texts that are complete candidates to the vehicle, and their numbers.
IsCandidate(text) ==
  LET m == DeserializeSignalMessage(text) IN m.type = "candidate" /\ m.sdpMid # None

NumberOf(text) == DeserializeSignalMessage(text).candidate

Numbers(texts) == {NumberOf(texts[k]) : k \in {i \in DOMAIN texts : IsCandidate(texts[i])}}

InOrder(texts) ==
  \A i, j \in DOMAIN texts :
     i < j /\ IsCandidate(texts[i]) /\ IsCandidate(texts[j]) => NumberOf(texts[i]) < NumberOf(texts[j])

\* The complete candidates the page sent are those that were added or wait for
\* the remote description, and then those on their way.
AddedOrInFlight ==
  \E h \in 0..Len(candidates) :
     added \o buffered = SubSeq(candidates, 1, h) /\ Numbers(toVehicle) = (h + 1)..Len(candidates)

\* Until the connection is closed no candidate is lost on its way, each one is
\* added once, in order, with its own mid and index, whichever shape and
\* spelling its sender chose (three programs read the text, and the buffer is
\* emptied by the next description).
CandidatesArriveIntact ==
  rtc_peer_connection_ = "open" =>
    AddedOrInFlight /\ InOrder(toVehicle) /\ (described => buffered = <<>>)

\* What makes it inductive: before there is a connection, too, nothing is lost
\* that one will be made for, and each text that is a candidate names one the
\* page sent, with that one's mid and index.
NamesOneOf(n, text) ==
  LET m == DeserializeSignalMessage(text)
  IN /\ m.candidate \in 1..n
     /\ m.sdpMid = m.candidate /\ m.sdpMlineIndex = m.candidate

NegotiationInv ==
  /\ TypeOK
  /\ \A k \in DOMAIN candidates :
        candidates[k] = [candidate |-> k, sdpMid |-> k, sdpMlineIndex |-> k]
  /\ \A k \in DOMAIN toVehicle :
        IsCandidate(toVehicle[k]) => NamesOneOf(Len(candidates), toVehicle[k])
  /\ InOrder(toVehicle)
  /\ described => buffered = <<>>
  /\ rtc_peer_connection_ \in {"null", "closed"} \/ (rtc_peer_connection_ = "open" /\ wired)
  /\ wired /\ rtc_peer_connection_ # "closed" => AddedOrInFlight

-----------------------------------------------------------------------------
(* What the repository says of signaling and its code does not do.         *)

\* "... and exchange initial WebRTC signaling messages (SDP offers/answers, ICE
\* candidates)" (README.md:28): sooner or later the page of a live connection
\* has every description the vehicle's connection handed over, each once, in
\* order.  The line breaks of an SDP go out as they are, and the server refuses
\* the text.
DescriptionsReachThePage ==
  []<>([k \in DOMAIN received |-> Field(received[k], "top", "sdp").d] = emitted)
=============================================================================
