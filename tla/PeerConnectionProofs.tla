------------------------- MODULE PeerConnectionProofs -------------------------
(***************************************************************************)
(* Proofs about module PeerConnection, for any number of operations.       *)
(* PeerInv is inductive: the properties alone are not, since what is       *)
(* handed over next is the pending description, whichever operation of     *)
(* those that share the observer completes first.                          *)
(***************************************************************************)
EXTENDS PeerConnection, SequenceTheorems, TLAPS

\* No description stands for itself: None is none of their numbers.
LEMMA NoneIsNoNumber == None \notin Nat
BY OperationsBound

\* The calls of the manager extend the chain at its end and leave the
\* observer as it is.
LEMMA CallKeepsInv ==
  ASSUME PeerInv, NEW ops \in Seq(Operation), Starts(ops)
  PROVE  PeerInv'
<1>1. /\ asked \in Nat /\ chain \in Seq(Operation)
  BY DEF PeerInv, PeerTypeOK
<1>2. /\ chain' = chain \o ops /\ UNCHANGED <<wired, observer, history>>
      /\ rtc_peer_connection_' \in {"open", rtc_peer_connection_}
  BY DEF Starts, init
<1>3. /\ chain' \in Seq(Operation) /\ Len(chain') = Len(chain) + Len(ops)
      /\ \A k \in 1..Len(chain) : chain'[k] = chain[k]
      /\ \A k \in 1..Len(ops) : chain'[Len(chain) + k] = ops[k]
  BY <1>1, <1>2
<1>4. Len(chain) \in Nat /\ Len(ops) \in Nat
  BY <1>1
<1>5. HandedOver' = HandedOver
  BY <1>2 DEF observer, history, HandedOver
<1>6. PeerTypeOK'
  BY <1>2, <1>3, <1>4 DEF PeerInv, PeerTypeOK, Starts, observer, history
<1>7. FlagIsNotStale'
  <2>1. CASE awaiting_local_set_description_
    <3>1. PICK k \in 1..Len(chain) : chain[k].kind = "setLocal" /\ chain[k].d = pending_local_sdp_
      BY <2>1, <1>1 DEF PeerInv, FlagIsNotStale
    <3>2. k \in DOMAIN chain' /\ chain'[k] = chain[k]
      BY <1>3, <1>4
    <3> QED BY <2>1, <3>1, <3>2, <1>2 DEF FlagIsNotStale, observer
  <2>2. CASE ~awaiting_local_set_description_
    BY <2>2, <1>2 DEF PeerInv, FlagIsNotStale, observer
  <2> QED BY <2>1, <2>2
<1>8. HandedOverInOrder' /\ PendingIsNewest'
  BY <1>2, <1>5 DEF PeerInv, HandedOverInOrder, PendingIsNewest, observer, history
<1> QED BY <1>6, <1>7, <1>8 DEF PeerInv

\* What is handed over does not change while the observer and the history of
\* the callback do not.
LEMMA SameHandedOver ==
  ASSUME UNCHANGED <<local_sdp_cb, emitted>>
  PROVE  HandedOver' = HandedOver
BY DEF HandedOver

\* The rest of a chain whose head completed.
LEMMA RestOfChain ==
  PeerInv /\ chain # <<>> =>
    /\ Head(chain) \in Operation /\ Head(chain) = chain[1]
    /\ Tail(chain) \in Seq(Operation) /\ Len(Tail(chain)) = Len(chain) - 1
    /\ Len(chain) \in Nat \ {0}
    /\ \A k \in 1..Len(Tail(chain)) : Tail(chain)[k] = chain[k + 1]
BY DEF PeerInv, PeerTypeOK

\* A description that was created waits at the end of the chain.
LEMMA SuccessKeepsInv == PeerInv /\ OnSuccess => PeerInv'
<1> SUFFICES ASSUME PeerInv, OnSuccess PROVE PeerInv'
  OBVIOUS
<1> DEFINE rest == Tail(chain)
           n == Len(created) + 1
           setLocal == [kind |-> "setLocal", d |-> n]
<1>1. /\ Head(chain) \in Operation /\ Head(chain) = chain[1] /\ chain[1].kind = "create"
      /\ rest \in Seq(Operation) /\ Len(rest) = Len(chain) - 1 /\ Len(chain) \in Nat \ {0}
      /\ \A k \in 1..Len(rest) : rest[k] = chain[k + 1]
  <2>1. chain # <<>> /\ Head(chain).kind \in {"create"}
    BY DEF OnSuccess, Completes
  <2> QED BY <2>1, RestOfChain
<1>2. created \in Seq(SdpType) /\ Head(chain).type \in SdpType
  BY <1>1 DEF PeerInv, PeerTypeOK, Operation
<1>3. /\ created' \in Seq(SdpType) /\ Len(created') = n /\ n \in Nat \ {0}
      /\ Len(created) \in Nat
  BY <1>2 DEF OnSuccess
<1>4. setLocal \in Operation
  BY <1>3 DEF Operation
<1>5. /\ chain' = Append(rest, setLocal) /\ pending_local_sdp_' = n
      /\ awaiting_local_set_description_' = TRUE
  BY <1>3 DEF OnSuccess
<1> HIDE DEF rest, setLocal, n
<1>6. /\ chain' \in Seq(Operation) /\ Len(chain') = Len(chain)
      /\ chain'[Len(chain)] = setLocal
      /\ \A k \in 1..Len(rest) : chain'[k] = rest[k]
  BY <1>1, <1>4, <1>5
<1>7. setLocal.kind = "setLocal" /\ setLocal.d = n
  BY DEF setLocal
<1>8. UNCHANGED <<wired, rtc_peer_connection_, local_sdp_cb, asked, set_, emitted>>
  BY DEF OnSuccess
<1>9. HandedOver' = HandedOver
  BY <1>8, SameHandedOver
<1>10. PeerTypeOK'
  BY <1>3, <1>5, <1>6, <1>8 DEF PeerInv, PeerTypeOK
<1>11. FlagIsNotStale'
  BY <1>1, <1>5, <1>6, <1>7 DEF FlagIsNotStale
<1>12. HandedOverInOrder'
  BY <1>8, <1>9 DEF PeerInv, HandedOverInOrder
<1>13. HandedOver \in Seq(Nat)
  BY DEF PeerInv, PeerTypeOK, HandedOver
<1>14. PendingIsNewest'
  <2>1. \A i \in DOMAIN HandedOver : HandedOver[i] <= Len(created) /\ HandedOver[i] \in Nat
    BY <1>13 DEF PeerInv, PendingIsNewest
  <2>2. n = Len(created) + 1
    BY DEF n
  <2> QED BY <2>1, <2>2, <1>3, <1>5, <1>9 DEF PendingIsNewest
<1> QED BY <1>10, <1>11, <1>12, <1>14 DEF PeerInv

\* A creation that failed leaves the flag and the description it is for.
LEMMA FailureKeepsInv == PeerInv /\ OnFailure => PeerInv'
<1> SUFFICES ASSUME PeerInv, OnFailure PROVE PeerInv'
  OBVIOUS
<1>1. /\ chain # <<>> /\ Head(chain).kind = "create" /\ chain' = Tail(chain)
      /\ UNCHANGED <<wired, rtc_peer_connection_, observer, asked, history>>
  BY DEF OnFailure, Completes
<1>2. /\ chain[1].kind = "create" /\ chain' \in Seq(Operation) /\ Len(chain') = Len(chain) - 1
      /\ Len(chain) \in Nat \ {0} /\ \A k \in 1..Len(chain') : chain'[k] = chain[k + 1]
  BY <1>1, RestOfChain
<1>3. HandedOver' = HandedOver
  BY <1>1, SameHandedOver DEF observer, history
<1>4. PeerTypeOK'
  BY <1>1, <1>2 DEF PeerInv, PeerTypeOK, observer, history
<1>5. FlagIsNotStale'
  <2>1. CASE awaiting_local_set_description_
    <3>1. PICK k \in DOMAIN chain : chain[k].kind = "setLocal" /\ chain[k].d = pending_local_sdp_
      BY <2>1 DEF PeerInv, FlagIsNotStale
    <3>2. k \in 1..Len(chain) /\ k # 1
      BY <1>2, <3>1 DEF PeerInv, PeerTypeOK
    <3>3. k - 1 \in 1..Len(chain') /\ (k - 1) + 1 = k
      BY <1>2, <3>2
    <3>4. k - 1 \in DOMAIN chain' /\ chain'[k - 1] = chain[k]
      BY <1>2, <3>3
    <3> QED BY <1>1, <2>1, <3>1, <3>4 DEF FlagIsNotStale, observer
  <2>2. CASE ~awaiting_local_set_description_
    BY <1>1, <2>2 DEF PeerInv, FlagIsNotStale, observer
  <2> QED BY <2>1, <2>2
<1>6. HandedOverInOrder' /\ PendingIsNewest'
  BY <1>1, <1>3 DEF PeerInv, HandedOverInOrder, PendingIsNewest, observer, history
<1> QED BY <1>4, <1>5, <1>6 DEF PeerInv

\* After an error the pending description is given up.
LEMMA SetFailedKeepsInv == PeerInv /\ OnSetFailed => PeerInv'
<1> SUFFICES ASSUME PeerInv, OnSetFailed PROVE PeerInv'
  OBVIOUS
<1>1. /\ awaiting_local_set_description_' = FALSE /\ pending_local_sdp_' = None
      /\ UNCHANGED <<wired, rtc_peer_connection_, local_sdp_cb, asked, history>>
  BY DEF OnSetFailed, NoLongerAwaiting
<1>2. chain' \in Seq(Operation)
  BY RestOfChain DEF OnSetFailed, Completes
<1>3. HandedOver' = HandedOver
  BY <1>1, SameHandedOver DEF history
<1>4. PeerTypeOK'
  BY <1>1, <1>2 DEF PeerInv, PeerTypeOK, history
<1>5. FlagIsNotStale' /\ PendingIsNewest' /\ HandedOverInOrder'
  BY <1>1, <1>3 DEF PeerInv, FlagIsNotStale, PendingIsNewest, HandedOverInOrder, history
<1> QED BY <1>4, <1>5 DEF PeerInv

\* Otherwise it is handed over.
LEMMA SetSucceededKeepsInv == PeerInv /\ OnSetSucceeded => PeerInv'
<1> SUFFICES ASSUME PeerInv, OnSetSucceeded PROVE PeerInv'
  OBVIOUS
<1> DEFINE own == Head(chain).kind = "setLocal"
<1>1. /\ awaiting_local_set_description_' = FALSE /\ pending_local_sdp_' = None
      /\ UNCHANGED <<wired, rtc_peer_connection_, asked, created, emitted>>
      /\ set_' = IF own THEN Append(set_, Head(chain).d) ELSE set_
      /\ local_sdp_cb' = IF awaiting_local_set_description_ THEN pending_local_sdp_ ELSE None
  BY DEF OnSetSucceeded, NoLongerAwaiting
<1>2. chain' \in Seq(Operation)
  BY RestOfChain DEF OnSetSucceeded, Completes
<1>3. local_sdp_cb = None /\ HandedOver = emitted /\ emitted \in Seq(Nat) /\ Len(emitted) \in Nat
  BY DEF OnSetSucceeded, Completes, HandedOver, PeerInv, PeerTypeOK
<1>4. Len(created) \in Nat /\ created \in Seq(SdpType)
  BY DEF PeerInv, PeerTypeOK
<1>5. awaiting_local_set_description_ =>
        /\ pending_local_sdp_ \in 1..Len(created) /\ pending_local_sdp_ \in Nat
        /\ pending_local_sdp_ # None
        /\ \A k \in DOMAIN emitted : emitted[k] < pending_local_sdp_
  <2>1. awaiting_local_set_description_ =>
          /\ pending_local_sdp_ \in 1..Len(created)
          /\ \A k \in DOMAIN HandedOver : HandedOver[k] < pending_local_sdp_
    BY DEF PeerInv, PendingIsNewest
  <2> QED BY <1>3, <1>4, <2>1, NoneIsNoNumber
<1>6. HandedOver' = IF awaiting_local_set_description_ THEN Append(emitted, pending_local_sdp_)
                    ELSE emitted
  BY <1>1, <1>5 DEF HandedOver
<1>7. own => Head(chain).d \in Nat
  <2>1. Head(chain) \in Operation
    BY RestOfChain DEF OnSetSucceeded, Completes
  <2> QED BY <2>1 DEF Operation
<1>8. PeerTypeOK'
  <2>1. local_sdp_cb' \in Nat \cup {None}
    BY <1>1, <1>5
  <2>2. set_' \in Seq(Nat)
    BY <1>1, <1>7 DEF PeerInv, PeerTypeOK
  <2> QED BY <1>1, <1>2, <2>1, <2>2 DEF PeerInv, PeerTypeOK
<1>9. \A k \in DOMAIN emitted : emitted[k] \in Nat /\ emitted[k] <= Len(created)
  BY <1>3 DEF PeerInv, PendingIsNewest
<1>10. \A i, j \in DOMAIN emitted : i < j => emitted[i] < emitted[j]
  BY <1>3 DEF PeerInv, HandedOverInOrder
<1>11. FlagIsNotStale'
  BY <1>1 DEF FlagIsNotStale
<1>12. HandedOverInOrder' /\ PendingIsNewest'
  <2>1. CASE awaiting_local_set_description_
    <3>1. /\ HandedOver' = Append(emitted, pending_local_sdp_)
          /\ DOMAIN HandedOver' = 1..(Len(emitted) + 1)
          /\ \A k \in 1..Len(emitted) : HandedOver'[k] = emitted[k]
          /\ HandedOver'[Len(emitted) + 1] = pending_local_sdp_
      BY <2>1, <1>3, <1>5, <1>6
    <3>2. HandedOverInOrder'
      <4> SUFFICES ASSUME NEW i \in DOMAIN HandedOver', NEW j \in DOMAIN HandedOver', i < j
                   PROVE  HandedOver'[i] < HandedOver'[j]
        BY DEF HandedOverInOrder
      <4>1. i \in 1..Len(emitted) /\ i \in DOMAIN emitted /\ HandedOver'[i] = emitted[i]
        BY <1>3, <3>1
      <4>2. CASE j \in 1..Len(emitted)
        BY <4>1, <4>2, <1>3, <1>10, <3>1
      <4>3. CASE j = Len(emitted) + 1
        BY <4>1, <4>3, <2>1, <1>5, <3>1
      <4> QED BY <4>2, <4>3, <3>1, <1>3
    <3>3. \A k \in DOMAIN HandedOver' : HandedOver'[k] <= Len(created)
      BY <2>1, <3>1, <1>3, <1>4, <1>5, <1>9
    <3> QED BY <3>2, <3>3, <1>1 DEF PendingIsNewest
  <2>2. CASE ~awaiting_local_set_description_
    BY <2>2, <1>1, <1>6, <1>9, <1>10 DEF HandedOverInOrder, PendingIsNewest
  <2> QED BY <2>1, <2>2
<1> QED BY <1>8, <1>11, <1>12 DEF PeerInv

\* What was handed over was on its way already.
LEMMA GeneratedKeepsInv == PeerInv /\ LocalSdpGenerated => PeerInv'
<1> SUFFICES ASSUME PeerInv, LocalSdpGenerated PROVE PeerInv'
  OBVIOUS
<1>1. /\ local_sdp_cb # None /\ emitted' = Append(emitted, local_sdp_cb) /\ local_sdp_cb' = None
      /\ UNCHANGED <<wired, rtc_peer_connection_, awaiting_local_set_description_,
                     pending_local_sdp_, chain, asked, created, set_>>
  BY DEF LocalSdpGenerated
<1>2. HandedOver' = HandedOver
  BY <1>1 DEF HandedOver
<1>3. PeerTypeOK'
  BY <1>1 DEF PeerInv, PeerTypeOK
<1>4. FlagIsNotStale'
  BY <1>1 DEF PeerInv, FlagIsNotStale
<1>5. HandedOverInOrder' /\ PendingIsNewest'
  BY <1>1, <1>2 DEF PeerInv, HandedOverInOrder, PendingIsNewest
<1> QED BY <1>3, <1>4, <1>5 DEF PeerInv

\* A step that leaves chain, observer and histories alone.
LEMMA OtherKeepsInv ==
  ASSUME PeerInv, UNCHANGED <<wired, observer, chain, asked, history>>,
         rtc_peer_connection_' \in {"null", "open", "closed"}
  PROVE  PeerInv'
<1>1. HandedOver' = HandedOver
  BY SameHandedOver DEF observer, history
<1>2. PeerTypeOK' /\ FlagIsNotStale'
  BY DEF PeerInv, PeerTypeOK, FlagIsNotStale, observer, history
<1>3. HandedOverInOrder' /\ PendingIsNewest'
  BY <1>1 DEF PeerInv, HandedOverInOrder, PendingIsNewest, observer, history
<1> QED BY <1>2, <1>3 DEF PeerInv

\* Each step of a connection keeps the invariant.
LEMMA NextKeepsPeerInv == PeerInv /\ [PeerNext]_peerVars => PeerInv'
<1> SUFFICES ASSUME PeerInv, [PeerNext]_peerVars PROVE PeerInv'
  OBVIOUS
<1>1. CASE CreateOffer
  <2> DEFINE op == [kind |-> "create", type |-> "offer"]
  <2>1. op \in Operation /\ op.kind = "create"
    BY DEF Operation, SdpType
  <2> HIDE DEF op
  <2>2. <<op>> \in Seq(Operation) /\ DOMAIN <<op>> = {1} /\ Len(<<op>>) = 1 /\ <<op>>[1] = op
    BY <2>1
  <2>3. Starts(<<op>>)
    BY <1>1 DEF CreateOffer, op
  <2> QED BY <2>1, <2>2, <2>3, CallKeepsInv
<1>2. CASE SetRemoteDescription
  <2> DEFINE op == [kind |-> "setRemote"]
  <2>1. op \in Operation /\ op.kind = "setRemote"
    BY DEF Operation
  <2> HIDE DEF op
  <2>2. <<op>> \in Seq(Operation) /\ DOMAIN <<op>> = {1} /\ Len(<<op>>) = 1 /\ <<op>>[1] = op
    BY <2>1
  <2>3. Starts(<<op>>)
    BY <1>2 DEF SetRemoteDescription, op
  <2> QED BY <2>1, <2>2, <2>3, CallKeepsInv
<1>3. CASE SetRemoteAndCreateAnswer
  <2> DEFINE remote == [kind |-> "setRemote"]
             answer == [kind |-> "create", type |-> "answer"]
             ops == <<remote, answer>>
  <2>1. /\ remote \in Operation /\ remote.kind = "setRemote"
        /\ answer \in Operation /\ answer.kind = "create"
    BY DEF Operation, SdpType
  <2>2. Starts(ops)
    BY <1>3 DEF SetRemoteAndCreateAnswer
  <2> HIDE DEF remote, answer
  <2>3. ops \in Seq(Operation) /\ DOMAIN ops = 1..2 /\ Len(ops) = 2
        /\ ops[1] = remote /\ ops[2] = answer
    BY <2>1
  <2> HIDE DEF ops
  <2> QED BY <2>2, <2>3, CallKeepsInv
<1>4. CASE AddRemoteCandidate
  <2>1. Starts(<<>>) /\ <<>> \in Seq(Operation) /\ DOMAIN <<>> = {}
    BY <1>4 DEF AddRemoteCandidate
  <2> QED BY <2>1, CallKeepsInv
<1>5. CASE Close
  BY <1>5, OtherKeepsInv DEF Close
<1>6. CASE Complete
  BY <1>6, SuccessKeepsInv, FailureKeepsInv, SetFailedKeepsInv, SetSucceededKeepsInv,
     GeneratedKeepsInv DEF Complete
<1>7. CASE UNCHANGED peerVars
  <2>1. rtc_peer_connection_ \in {"null", "open", "closed"}
    BY DEF PeerInv, PeerTypeOK
  <2> QED BY <1>7, <2>1, OtherKeepsInv DEF peerVars
<1> QED BY <1>1, <1>2, <1>3, <1>4, <1>5, <1>6, <1>7 DEF PeerNext

LEMMA InitHasPeerInv == PeerInit => PeerInv
<1> SUFFICES ASSUME PeerInit PROVE PeerInv
  OBVIOUS
<1>1. HandedOver = <<>>
  BY DEF PeerInit, HandedOver
<1>2. PeerTypeOK /\ FlagIsNotStale
  <2>1. <<>> \in Seq(Operation) /\ <<>> \in Seq(SdpType) /\ <<>> \in Seq(Nat)
    OBVIOUS
  <2>2. PeerTypeOK
    BY <2>1 DEF PeerInit, PeerTypeOK
  <2>3. FlagIsNotStale
    BY DEF PeerInit, FlagIsNotStale
  <2> QED BY <2>2, <2>3
<1>3. HandedOverInOrder /\ PendingIsNewest
  BY <1>1 DEF PeerInit, HandedOverInOrder, PendingIsNewest
<1> QED BY <1>2, <1>3 DEF PeerInv

-----------------------------------------------------------------------------
\* The inductive invariant of a connection, whatever number of operations is
\* asked of it.
THEOREM PeerIsSafe == PeerSpec => []PeerInv
BY InitHasPeerInv, NextKeepsPeerInv, PTL DEF PeerSpec

\* The flag of the observer is never left behind by an operation that is over.
THEOREM PeerFlagIsNotStale == PeerSpec => []FlagIsNotStale
<1>1. PeerInv => FlagIsNotStale
  BY DEF PeerInv
<1> QED BY <1>1, PeerIsSafe, PTL

\* No local description is handed over twice or after a newer one.
THEOREM PeerHandsOverInOrder == PeerSpec => []HandedOverInOrder
<1>1. PeerInv => HandedOverInOrder
  BY DEF PeerInv
<1> QED BY <1>1, PeerIsSafe, PTL
=============================================================================
