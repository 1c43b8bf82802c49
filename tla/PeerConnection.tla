---------------------------- MODULE PeerConnection ----------------------------
(***************************************************************************)
(* webrtc/peer_connection.cc: LibwebrtcPeerConnectionImpl, one object of   *)
(* it, between the threads of the manager, which call it, and libwebrtc's  *)
(* signaling thread, which calls it back as the observer of every          *)
(* operation.  Each method holds mutex_ from its first line to its last    *)
(* and is one step; only the callback onLocalSdpGenerated runs after       *)
(* mutex_ was released, a step of its own.                                 *)
(*                                                                         *)
(* libwebrtc is external: the operations asked of a connection form a      *)
(* chain and complete in order, on one thread, well or with an error, and  *)
(* with an error once the connection is closed.  In the tree init()        *)
(* creates no connection ("Simulate creation failure for now") and the     *)
(* calls of lines 329, 360 and 401 are comments: that is wired = FALSE.    *)
(* With wired = TRUE they are made.                                        *)
(***************************************************************************)
EXTENDS Naturals, Sequences

CONSTANTS
  MaxOperations,  \* bound: operations asked of the connection
  None

ASSUME OperationsBound == MaxOperations \in Nat /\ None \notin Nat

VARIABLES
  wired,
  rtc_peer_connection_,            \* "null", "open" or "closed"
  awaiting_local_set_description_,
  pending_local_sdp_,              \* the number of the description, None for ""
  local_sdp_cb,                    \* the description the signaling thread is
                                   \* about to pass to the callback, or None
  chain,                           \* operations asked for and not completed
  asked,                           \* how many operations were asked for
  created,                         \* histories: the types of those created;
  set_,                            \*   those set locally, in order;
  emitted                          \*   those the callback got, in order

observer == <<awaiting_local_set_description_, pending_local_sdp_, local_sdp_cb>>
history == <<created, set_, emitted>>
peerVars == <<wired, rtc_peer_connection_, observer, chain, asked, history>>

-----------------------------------------------------------------------------
(* The calls of the manager.  Each one returns whether there is a           *)
(* connection, before the operation it starts has begun.                    *)

\* SetCallbacks and init, on first use: the manager keeps its own mutex until
\* it has asked the new object for what it made it for.
init ==
  IF rtc_peer_connection_ = "null"
  THEN wired /\ rtc_peer_connection_' = "open"
  ELSE UNCHANGED rtc_peer_connection_

Starts(ops) ==
  /\ init
  /\ asked + Len(ops) <= MaxOperations
  /\ asked' = asked + Len(ops)
  /\ chain' = chain \o ops
  /\ UNCHANGED <<wired, observer, history>>

CreateOffer == Starts(<<[kind |-> "create", type |-> "offer"]>>)

SetRemoteDescription == Starts(<<[kind |-> "setRemote"]>>)

\* A candidate joins no chain that is visible here.
AddRemoteCandidate == Starts(<<>>)

\* What the manager does with an offer, without releasing its own mutex: the
\* remote description is still to be set when the answer is asked for.
SetRemoteAndCreateAnswer ==
  Starts(<<[kind |-> "setRemote"], [kind |-> "create", type |-> "answer"]>>)

\* The reference is kept: the operations of a closed connection fail.
Close ==
  /\ rtc_peer_connection_ = "open"
  /\ rtc_peer_connection_' = "closed"
  /\ UNCHANGED <<wired, observer, chain, asked, history>>

-----------------------------------------------------------------------------
(* libwebrtc's signaling thread.                                           *)

\* The operation at the head of the chain is the one to complete.
Completes(kinds) ==
  /\ local_sdp_cb = None
  /\ chain # <<>> /\ Head(chain).kind \in kinds

\* A description was created: it is to be set locally before it goes out.
OnSuccess ==
  /\ Completes({"create"}) /\ rtc_peer_connection_ = "open"
  /\ created' = Append(created, Head(chain).type)
  /\ pending_local_sdp_' = Len(created')
  /\ awaiting_local_set_description_' = TRUE
  /\ chain' = Append(Tail(chain), [kind |-> "setLocal", d |-> Len(created')])
  /\ UNCHANGED <<wired, rtc_peer_connection_, local_sdp_cb, asked, set_, emitted>>

\* OnFailure, or OnSuccess without a description: only a line in the log.
OnFailure ==
  /\ Completes({"create"})
  /\ chain' = Tail(chain)
  /\ UNCHANGED <<wired, rtc_peer_connection_, observer, asked, history>>

\* The flag is cleared whichever description the completed operation was for.
NoLongerAwaiting ==
  awaiting_local_set_description_' = FALSE /\ pending_local_sdp_' = None

\* Mutant: a failure leaves the flag as it is.
OnSetFailed_KeepsFlag ==
  /\ Completes({"setLocal", "setRemote"})
  /\ chain' = Tail(chain)
  /\ UNCHANGED <<wired, rtc_peer_connection_, observer, asked, history>>

\* OnSetSessionDescriptionComplete with an error.
OnSetFailed ==
  /\ Completes({"setLocal", "setRemote"})
  /\ chain' = Tail(chain)
  /\ NoLongerAwaiting
  /\ UNCHANGED <<wired, rtc_peer_connection_, local_sdp_cb, asked, history>>

\* Mutant: the description is handed over, and remembered for the next
\* completion.
OnSetSucceeded_Remembers ==
  /\ Completes({"setLocal", "setRemote"}) /\ rtc_peer_connection_ = "open"
  /\ chain' = Tail(chain)
  /\ set_' = IF Head(chain).kind = "setLocal" THEN Append(set_, Head(chain).d) ELSE set_
  /\ local_sdp_cb' = IF awaiting_local_set_description_ THEN pending_local_sdp_ ELSE None
  /\ UNCHANGED <<wired, rtc_peer_connection_, awaiting_local_set_description_,
                 pending_local_sdp_, asked, created, emitted>>

\* OnSetSessionDescriptionComplete without one: local and remote descriptions
\* have the same observer, and the flag is all it looks at.
OnSetSucceeded ==
  /\ Completes({"setLocal", "setRemote"}) /\ rtc_peer_connection_ = "open"
  /\ chain' = Tail(chain)
  /\ set_' = IF Head(chain).kind = "setLocal" THEN Append(set_, Head(chain).d) ELSE set_
  /\ local_sdp_cb' = IF awaiting_local_set_description_ THEN pending_local_sdp_ ELSE None
  /\ NoLongerAwaiting
  /\ UNCHANGED <<wired, rtc_peer_connection_, asked, created, emitted>>

\* callbacks_.onLocalSdpGenerated has run, mutex_ released.
LocalSdpGenerated ==
  /\ local_sdp_cb # None
  /\ emitted' = Append(emitted, local_sdp_cb)
  /\ local_sdp_cb' = None
  /\ UNCHANGED <<wired, rtc_peer_connection_, awaiting_local_set_description_,
                 pending_local_sdp_, chain, asked, created, set_>>

-----------------------------------------------------------------------------
PeerInit ==
  /\ wired \in BOOLEAN /\ rtc_peer_connection_ = "null"
  /\ awaiting_local_set_description_ = FALSE /\ pending_local_sdp_ = None
  /\ local_sdp_cb = None /\ chain = <<>> /\ asked = 0
  /\ created = <<>> /\ set_ = <<>> /\ emitted = <<>>

Complete == OnSuccess \/ OnFailure \/ OnSetFailed \/ OnSetSucceeded \/ LocalSdpGenerated

PeerNext ==
  \/ CreateOffer \/ SetRemoteDescription \/ SetRemoteAndCreateAnswer \/ AddRemoteCandidate
  \/ Close
  \/ Complete

PeerSpec == PeerInit /\ [][PeerNext]_peerVars

-----------------------------------------------------------------------------
SdpType == {"offer", "answer"}

Operation == [kind : {"create"}, type : SdpType] \cup [kind : {"setRemote"}]
                \cup [kind : {"setLocal"}, d : Nat]

PeerTypeOK ==
  /\ wired \in BOOLEAN /\ rtc_peer_connection_ \in {"null", "open", "closed"}
  /\ awaiting_local_set_description_ \in BOOLEAN
  /\ pending_local_sdp_ \in Nat \cup {None} /\ local_sdp_cb \in Nat \cup {None}
  /\ chain \in Seq(Operation)
  /\ asked \in Nat /\ created \in Seq(SdpType)
  /\ set_ \in Seq(Nat) /\ emitted \in Seq(Nat)

HandedOver == IF local_sdp_cb = None THEN emitted ELSE Append(emitted, local_sdp_cb)

\* The flag and the description it stands for belong together, and while they
\* are set the operation they wait for is still to complete: no error path
\* and no operation that came in between leaves a flag behind that a later
\* completion would take for its own.
FlagIsNotStale ==
  IF awaiting_local_set_description_
  THEN \E k \in DOMAIN chain : chain[k].kind = "setLocal" /\ chain[k].d = pending_local_sdp_
  ELSE pending_local_sdp_ = None

\* However operations overlap, no description is handed over twice, and an
\* older one never after a newer.
HandedOverInOrder ==
  \A i, j \in DOMAIN HandedOver : i < j => HandedOver[i] < HandedOver[j]

\* What makes them inductive: a pending description is newer than those that were
\* handed over.
PendingIsNewest ==
  /\ \A i \in DOMAIN HandedOver : HandedOver[i] <= Len(created)
  /\ awaiting_local_set_description_ =>
        /\ pending_local_sdp_ \in 1..Len(created)
        /\ \A i \in DOMAIN HandedOver : HandedOver[i] < pending_local_sdp_

PeerInv == PeerTypeOK /\ FlagIsNotStale /\ HandedOverInOrder /\ PendingIsNewest

-----------------------------------------------------------------------------
(* What a comment of the code says and the code does not do.               *)

\* "Local SDP is only emitted after SetLocalDescription succeeds"
\* (peer_connection.cc:198): a description that is handed over was set.  The
\* observer is shared by all operations and looks at its flag alone, and the
\* manager asks for the answer to an offer while its own offer is being created.
SdpFollowsSetLocal == \A i \in DOMAIN HandedOver : \E k \in DOMAIN set_ : set_[k] = HandedOver[i]
=============================================================================
