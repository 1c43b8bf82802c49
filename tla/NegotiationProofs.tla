--------------------------- MODULE NegotiationProofs ---------------------------
(***************************************************************************)
(* What a negotiation does, whatever the page sends and however often.     *)
(*                                                                         *)
(* It drives the vehicle's connection by its own operations only: every    *)
(* step is a step of module PeerConnection or leaves the connection alone, *)
(* so what is proved there holds of every negotiation.                     *)
(*                                                                         *)
(* Every complete candidate arrives intact.  The first half is about the   *)
(* three programs that read a text: what the vehicle finds under a key of  *)
(* a message of the page's, once the server has opened its envelope, is    *)
(* what the page wrote under it.  The second half is about the texts on    *)
(* their way and the buffer: module Negotiation's NegotiationInv.          *)
(***************************************************************************)
EXTENDS Negotiation, PeerConnectionProofs, FiniteSetTheorems, WellFoundedInduction

-----------------------------------------------------------------------------
(* The steps of the connection.                                            *)

\* A message is read by calls of the connection, if it reaches it at all.
LEMMA ReadingCallsTheConnection == VehicleReads => [PeerNext]_peerVars
<1> SUFFICES ASSUME NEW m, OnOffer(m) \/ OnAnswer(m) \/ OnCandidate(m) \/ OnLeave(m) \/ OnOther(m)
             PROVE  [PeerNext]_peerVars
  BY Zenon DEF VehicleReads
<1>1. CASE OnOffer(m)
  BY <1>1, Zenon DEF OnOffer, Refused, PeerNext
<1>2. CASE OnAnswer(m)
  BY <1>2, Zenon DEF OnAnswer, Refused, PeerNext
<1>3. CASE OnCandidate(m)
  BY <1>3, Zenon DEF OnCandidate, Refused, PeerNext
<1>4. CASE OnLeave(m)
  BY <1>4 DEF OnLeave, Refused, PeerNext
<1>5. CASE OnOther(m)
  BY <1>5 DEF OnOther, Refused
<1> QED BY <1>1, <1>2, <1>3, <1>4, <1>5

\* Every step of a negotiation is a step of its connection, or none of it.
LEMMA StepsOfTheConnection == [Next]_vars => [PeerNext]_peerVars
<1> SUFFICES ASSUME [Next]_vars PROVE [PeerNext]_peerVars
  OBVIOUS
<1>1. CASE \E type \in {"offer", "answer"}, enveloped \in BOOLEAN : PageSendsSdp(type, enveloped)
  BY <1>1 DEF PageSendsSdp, Sends
<1>2. CASE \E sdpMid \in {None, Null}, enveloped \in BOOLEAN : PageSendsCandidate(sdpMid, enveloped)
  BY <1>2 DEF PageSendsCandidate, Sends
<1>3. CASE \E type \in {"join_request", "leave"} : PageSendsOther(type)
  BY <1>3 DEF PageSendsOther, Sends
<1>4. CASE connectToPeer
  BY <1>4 DEF connectToPeer, PeerNext
<1>5. CASE VehicleReads
  BY <1>5, ReadingCallsTheConnection
<1>6. CASE PeerThread
  BY <1>6 DEF PeerThread, handlePeerLocalSdpGenerated, PeerNext, Complete
<1>7. CASE ServerReads
  BY <1>7 DEF ServerReads
<1>8. CASE UNCHANGED vars
  BY <1>8 DEF vars
<1> QED BY <1>1, <1>2, <1>3, <1>4, <1>5, <1>6, <1>7, <1>8 DEF Next

-----------------------------------------------------------------------------
\* The composed specification implements the connection's own.
THEOREM NegotiationImplementsPeer == Spec => PeerSpec
<1>1. Init => PeerInit
  BY DEF Init
<1> QED BY <1>1, StepsOfTheConnection, PTL DEF Spec, PeerSpec

\* In every negotiation the observer's flag belongs to an operation that is
\* still to complete.
THEOREM NegotiationFlagIsNotStale == Spec => []FlagIsNotStale
BY NegotiationImplementsPeer, PeerFlagIsNotStale, PTL

\* The vehicle's descriptions are handed over once each, in order.
THEOREM NegotiationHandsOverInOrder == Spec => []HandedOverInOrder
BY NegotiationImplementsPeer, PeerHandsOverInOrder, PTL

-----------------------------------------------------------------------------
(* Texts.                                                                  *)

\* A text is a sequence of pairs, whatever their values.
Places == {"top", "payload", "candidate"}
Keys == {"type", "from", "to", "sdp", "candidate", "sdpMid", "sdpMlineIndex", "sdpMLineIndex"}
PairOf(V) == [at : Places, key : Keys, val : V]
IsText(t) == \E V : t \in Seq(PairOf(V))

\* A sequence over a set is one over any larger set.
LEMMA Widen ==
  ASSUME NEW S, NEW T, S \subseteq T, NEW s \in Seq(S)
  PROVE  s \in Seq(T)
<1>1. Len(s) \in Nat /\ \A i \in 1..Len(s) : s[i] \in T OBVIOUS
<1>2. s = [i \in 1..Len(s) |-> s[i]] OBVIOUS
<1>3. s \in [1..Len(s) -> T] BY <1>1, <1>2
<1> QED BY <1>1, <1>3

\* The places of a text, and what stands there.
LEMMA TextFacts ==
  ASSUME NEW t, IsText(t)
  PROVE  /\ Len(t) \in Nat /\ DOMAIN t = 1..Len(t)
         /\ \A i \in 1..Len(t) :
               t[i] \in [at : Places, key : Keys, val : {t[j].val : j \in 1..Len(t)}]
<1>1. PICK V : t \in Seq(PairOf(V)) BY DEF IsText
<1>2. Len(t) \in Nat /\ DOMAIN t = 1..Len(t) /\ \A i \in 1..Len(t) : t[i] \in PairOf(V) BY <1>1
<1>3. ASSUME NEW i \in 1..Len(t)
      PROVE  t[i] \in [at : Places, key : Keys, val : {t[j].val : j \in 1..Len(t)}]
  BY <1>2 DEF PairOf
<1> QED BY <1>2, <1>3

\* A sequence of pairs is a text.
LEMMA TextIf ==
  ASSUME NEW t, NEW n \in Nat, NEW V, t \in [1..n -> PairOf(V)]
  PROVE  IsText(t) /\ Len(t) = n
<1>1. t \in Seq(PairOf(V)) /\ Len(t) = n OBVIOUS
<1> QED BY <1>1 DEF IsText

\* Two texts in a row are a text, with the places of both.
LEMMA TextConcat ==
  ASSUME NEW a, NEW b, IsText(a), IsText(b)
  PROVE  /\ IsText(a \o b) /\ Len(a \o b) = Len(a) + Len(b)
         /\ \A i \in 1..Len(a) : (a \o b)[i] = a[i]
         /\ \A i \in 1..Len(b) : (a \o b)[Len(a) + i] = b[i]
         /\ \A i \in 1..Len(a \o b) : i \in 1..Len(a) \/ i - Len(a) \in 1..Len(b)
<1>1. PICK V : a \in Seq(PairOf(V)) BY DEF IsText
<1>2. PICK W : b \in Seq(PairOf(W)) BY DEF IsText
<1>3. a \in Seq(PairOf(V \cup W)) /\ b \in Seq(PairOf(V \cup W))
  <2>1. PairOf(V) \subseteq PairOf(V \cup W) /\ PairOf(W) \subseteq PairOf(V \cup W) BY DEF PairOf
  <2> QED BY <1>1, <1>2, <2>1, Widen
<1>4. /\ a \o b \in Seq(PairOf(V \cup W)) /\ Len(a \o b) = Len(a) + Len(b)
      /\ \A i \in 1..Len(a) + Len(b) : (a \o b)[i] = IF i <= Len(a) THEN a[i] ELSE b[i - Len(a)]
      /\ Len(a) \in Nat /\ Len(b) \in Nat
  BY <1>3, ConcatProperties
<1>5. ASSUME NEW i \in 1..Len(b) PROVE (a \o b)[Len(a) + i] = b[i]
  <2>1. Len(a) + i \in 1..Len(a) + Len(b) /\ ~(Len(a) + i <= Len(a)) /\ Len(a) + i - Len(a) = i
    BY <1>4
  <2> QED BY <1>4, <2>1
<1>6. \A i \in 1..Len(a \o b) : i \in 1..Len(a) \/ i - Len(a) \in 1..Len(b) BY <1>4
<1>7. \A i \in 1..Len(a) : (a \o b)[i] = a[i] BY <1>4
<1>8. IsText(a \o b) BY <1>4 DEF IsText
<1> QED BY <1>4, <1>5, <1>6, <1>7, <1>8

\* A pair is a text of one place, or of none for a missing value.
LEMMA PairText ==
  ASSUME NEW at \in Places, NEW key \in Keys, NEW val
  PROVE  /\ IsText(Pair(at, key, val)) /\ Len(Pair(at, key, val)) \in {0, 1}
         /\ \A i \in 1..Len(Pair(at, key, val)) :
               i = 1 /\ Pair(at, key, val)[i] = [at |-> at, key |-> key, val |-> val]
         /\ val # None => Len(Pair(at, key, val)) = 1
<1>1. CASE val = None
  <2>1. Pair(at, key, val) = <<>> /\ Len(<<>>) = 0 BY <1>1 DEF Pair
  <2>2. <<>> \in Seq(PairOf({})) BY EmptySeq
  <2> QED BY <1>1, <2>1, <2>2 DEF IsText
<1>2. CASE val # None
  <2> DEFINE p == [at |-> at, key |-> key, val |-> val]
  <2>1. Pair(at, key, val) = <<p>> BY <1>2 DEF Pair
  <2> HIDE DEF p
  <2>3. p \in PairOf({val}) BY DEF p, PairOf
  <2>2. <<p>> \in Seq(PairOf({val})) /\ Len(<<p>>) = 1 /\ <<p>>[1] = p BY <2>3
  <2>4. IsText(<<p>>) BY <2>2 DEF IsText
  <2> QED BY <2>1, <2>2, <2>4 DEF p
<1> QED BY <1>1, <1>2

-----------------------------------------------------------------------------
(* What a search finds.                                                    *)

\* The text has a pair with the key and a value that a search accepts.
Has(t, key) == \E i \in 1..Len(t) : t[i].key = key /\ t[i].val # Null

\* The first place with the key and a value other than null is the one found.
LEMMA FindFirst ==
  ASSUME NEW t, IsText(t), NEW key, NEW k \in 1..Len(t), t[k].key = key, t[k].val # Null,
         \A j \in 1..(k - 1) : ~(t[j].key = key /\ t[j].val # Null)
  PROVE  findValue(t, key) = t[k].val
<1> DEFINE I == {i \in 1..Len(t) : t[i].key = key /\ t[i].val # Null}
<1>1. Len(t) \in Nat BY TextFacts
<1>2. k \in I /\ \A i \in I : k <= i BY <1>1
<1>3. I \subseteq Nat BY <1>1
<1>4. Min(I) = k BY <1>2, <1>3 DEF Min
<1>5. SelectInSeq(t, LAMBDA p : p.key = key /\ p.val # Null) = k
  BY <1>2, <1>4 DEF SelectInSeq
<1>6. k # 0 BY <1>1
<1> QED BY <1>5, <1>6 DEF findValue

\* Without such a place nothing is found.
LEMMA FindNone ==
  ASSUME NEW t, NEW key, ~Has(t, key)
  PROVE  findValue(t, key) = None
<1>1. {i \in 1..Len(t) : t[i].key = key /\ t[i].val # Null} = {} BY DEF Has
<1>2. SelectInSeq(t, LAMBDA p : p.key = key /\ p.val # Null) = 0
  BY <1>1 DEF SelectInSeq
<1> QED BY <1>2 DEF findValue

\* There is a first place where it is found.
LEMMA HasFirst ==
  ASSUME NEW t, IsText(t), NEW key, Has(t, key)
  PROVE  \E k \in 1..Len(t) : /\ t[k].key = key /\ t[k].val # Null
                              /\ \A j \in 1..(k - 1) : ~(t[j].key = key /\ t[j].val # Null)
<1> DEFINE I == {i \in 1..Len(t) : t[i].key = key /\ t[i].val # Null}
<1>1. I # {} /\ I \subseteq Nat /\ Len(t) \in Nat BY TextFacts DEF Has
<1> HIDE DEF I
<1>2. PICK k \in I : \A j \in I : ~(<<j, k>> \in OpToRel(<, Nat))
  BY <1>1, NatLessThanWellFounded, WFMin
<1>3. \A j \in I : ~(j < k) BY <1>1, <1>2 DEF OpToRel
<1> QED BY <1>1, <1>3 DEF I

\* The first part of a text in which a key is found gives its value.
LEMMA FindLeft ==
  ASSUME NEW a, NEW b, IsText(a), IsText(b), NEW key, Has(a, key)
  PROVE  Has(a \o b, key) /\ findValue(a \o b, key) = findValue(a, key)
<1>1. PICK k \in 1..Len(a) : /\ a[k].key = key /\ a[k].val # Null
                             /\ \A j \in 1..(k - 1) : ~(a[j].key = key /\ a[j].val # Null)
  BY HasFirst
<1>2. /\ IsText(a \o b) /\ Len(a \o b) = Len(a) + Len(b)
      /\ \A i \in 1..Len(a) : (a \o b)[i] = a[i]
      /\ Len(a) \in Nat /\ Len(b) \in Nat
  BY TextConcat, TextFacts
<1>3. k \in 1..Len(a \o b) /\ \A j \in 1..(k - 1) : j \in 1..Len(a) BY <1>2
<1>4. (a \o b)[k] = a[k] BY <1>2
<1>5. \A j \in 1..(k - 1) : ~((a \o b)[j].key = key /\ (a \o b)[j].val # Null)
  BY <1>1, <1>2, <1>3
<1>6. findValue(a \o b, key) = (a \o b)[k].val BY <1>1, <1>2, <1>3, <1>4, <1>5, FindFirst
<1>7. findValue(a, key) = a[k].val BY <1>1, FindFirst
<1>8. Has(a \o b, key) BY <1>1, <1>3, <1>4 DEF Has
<1> QED BY <1>4, <1>6, <1>7, <1>8

\* A part in which the key is not found does not matter for what follows it.
LEMMA FindRight ==
  ASSUME NEW a, NEW b, IsText(a), IsText(b), NEW key, ~Has(a, key)
  PROVE  (Has(a \o b, key) <=> Has(b, key)) /\ findValue(a \o b, key) = findValue(b, key)
<1>1. /\ IsText(a \o b) /\ Len(a \o b) = Len(a) + Len(b)
      /\ \A i \in 1..Len(a) : (a \o b)[i] = a[i]
      /\ \A i \in 1..Len(b) : (a \o b)[Len(a) + i] = b[i]
      /\ \A i \in 1..Len(a \o b) : i \in 1..Len(a) \/ i - Len(a) \in 1..Len(b)
      /\ Len(a) \in Nat /\ Len(b) \in Nat
  BY TextConcat, TextFacts
<1>2. \A i \in 1..Len(a) : ~((a \o b)[i].key = key /\ (a \o b)[i].val # Null)
  BY <1>1 DEF Has
<1>3. ASSUME Has(b, key)
      PROVE  Has(a \o b, key) /\ findValue(a \o b, key) = findValue(b, key)
  <2>1. PICK k \in 1..Len(b) : /\ b[k].key = key /\ b[k].val # Null
                               /\ \A j \in 1..(k - 1) : ~(b[j].key = key /\ b[j].val # Null)
    BY <1>3, HasFirst
  <2>2. Len(a) + k \in 1..Len(a \o b) /\ (a \o b)[Len(a) + k] = b[k] BY <1>1
  <2>3. ASSUME NEW j \in 1..(Len(a) + k - 1)
        PROVE  ~((a \o b)[j].key = key /\ (a \o b)[j].val # Null)
    <3>1. CASE j \in 1..Len(a) BY <1>2, <3>1
    <3>2. CASE j \notin 1..Len(a)
      <4>1. j - Len(a) \in 1..Len(b) /\ j - Len(a) \in 1..(k - 1) /\ Len(a) + (j - Len(a)) = j
        BY <1>1, <3>2
      <4>2. (a \o b)[j] = b[j - Len(a)] BY <1>1, <4>1
      <4> QED BY <2>1, <4>1, <4>2
    <3> QED BY <3>1, <3>2
  <2>4. findValue(a \o b, key) = (a \o b)[Len(a) + k].val
    <3> DEFINE u == a \o b
               m == Len(a) + k
    <3>1. /\ IsText(u) /\ m \in 1..Len(u) /\ u[m].key = key /\ u[m].val # Null
          /\ \A j \in 1..(m - 1) : ~(u[j].key = key /\ u[j].val # Null)
      BY <1>1, <2>1, <2>2, <2>3
    <3> HIDE DEF u, m
    <3>2. findValue(u, key) = u[m].val BY <3>1, FindFirst
    <3> QED BY <3>2 DEF u, m
  <2>5. findValue(b, key) = b[k].val BY <2>1, FindFirst
  <2>6. Has(a \o b, key) BY <2>1, <2>2 DEF Has
  <2> QED BY <2>2, <2>4, <2>5, <2>6
<1>4. ASSUME ~Has(b, key)
      PROVE  ~Has(a \o b, key)
  <2>1. ASSUME NEW i \in 1..Len(a \o b), (a \o b)[i].key = key, (a \o b)[i].val # Null
        PROVE  FALSE
    <3>1. i - Len(a) \in 1..Len(b) BY <1>1, <1>2, <2>1
    <3>2. Len(a) + (i - Len(a)) = i BY <1>1
    <3>3. (a \o b)[i] = b[i - Len(a)] BY <1>1, <3>1, <3>2
    <3> QED BY <1>4, <2>1, <3>1, <3>3 DEF Has
  <2> QED BY <2>1 DEF Has
<1>5. ~Has(b, key) => findValue(a \o b, key) = findValue(b, key)
  BY <1>4, FindNone
<1> QED BY <1>3, <1>4, <1>5

\* What is found in a pair alone.
LEMMA FindPair ==
  ASSUME NEW at \in Places, NEW key \in Keys, NEW val
  PROVE  /\ val \notin {None, Null} =>
              Has(Pair(at, key, val), key) /\ findValue(Pair(at, key, val), key) = val
         /\ \A k : k # key \/ val = Null => ~Has(Pair(at, key, val), k)
<1> DEFINE t == Pair(at, key, val)
<1>1. /\ IsText(t) /\ \A i \in 1..Len(t) : i = 1 /\ t[i] = [at |-> at, key |-> key, val |-> val]
      /\ val # None => Len(t) = 1
  BY PairText
<1> HIDE DEF t
<1>2. ASSUME val \notin {None, Null} PROVE Has(t, key) /\ findValue(t, key) = val
  <2>1. 1 \in 1..Len(t) /\ t[1].key = key /\ t[1].val = val BY <1>1, <1>2
  <2>2. Has(t, key) BY <1>2, <2>1 DEF Has
  <2>3. \A j \in 1..(1 - 1) : ~(t[j].key = key /\ t[j].val # Null) OBVIOUS
  <2>4. findValue(t, key) = t[1].val BY <1>1, <1>2, <2>1, <2>3, FindFirst
  <2> QED BY <2>1, <2>2, <2>4
<1>3. ASSUME NEW k, k # key \/ val = Null PROVE ~Has(t, k)
  BY <1>1, <1>3 DEF Has
<1> QED BY <1>2, <1>3 DEF t

\* What follows does not matter when the key is not in it.
LEMMA FindBefore ==
  ASSUME NEW a, NEW b, IsText(a), IsText(b), NEW key, ~Has(b, key)
  PROVE  (Has(a \o b, key) <=> Has(a, key)) /\ findValue(a \o b, key) = findValue(a, key)
<1>1. CASE Has(a, key) BY <1>1, FindLeft
<1>2. CASE ~Has(a, key)
  <2>1. findValue(a, key) = None /\ findValue(b, key) = None BY <1>2, FindNone
  <2>2. ~Has(a \o b, key) /\ findValue(a \o b, key) = None BY <1>2, <2>1, FindRight
  <2> QED BY <1>2, <2>1, <2>2
<1> QED BY <1>1, <1>2

\* A search looks at keys and values only.
LEMMA FindSame ==
  ASSUME NEW a, NEW b, IsText(a), IsText(b), Len(a) = Len(b),
         \A i \in 1..Len(a) : a[i].key = b[i].key /\ a[i].val = b[i].val, NEW key
  PROVE  (Has(a, key) <=> Has(b, key)) /\ findValue(a, key) = findValue(b, key)
<1>1. Has(a, key) <=> Has(b, key) BY DEF Has
<1>2. CASE Has(a, key)
  <2>1. PICK k \in 1..Len(a) : /\ a[k].key = key /\ a[k].val # Null
                               /\ \A j \in 1..(k - 1) : ~(a[j].key = key /\ a[j].val # Null)
    BY <1>2, HasFirst
  <2>2. \A j \in 1..(k - 1) : j \in 1..Len(a) BY TextFacts
  <2>3. \A j \in 1..(k - 1) : ~(b[j].key = key /\ b[j].val # Null) BY <2>1, <2>2
  <2>4. k \in 1..Len(b) /\ b[k].key = key /\ b[k].val # Null BY <2>1
  <2>5. findValue(a, key) = a[k].val BY <2>1, FindFirst
  <2>6. findValue(b, key) = b[k].val BY <2>3, <2>4, FindFirst
  <2> QED BY <1>1, <2>5, <2>6
<1>3. CASE ~Has(a, key) BY <1>1, <1>3, FindNone
<1> QED BY <1>1, <1>2, <1>3

-----------------------------------------------------------------------------
(* The server's reading.                                                   *)

\* The pairs at consecutive places.
LEMMA PickInterval ==
  ASSUME NEW t, NEW a \in Nat, NEW u, IsText(u),
         \A n \in 1..Len(u) : u[n] = t[a + n]
  PROVE  Pick(t, (a + 1)..(a + Len(u))) = u
<1> DEFINE b == a + Len(u)
           Place(n) == CHOOSE k \in (a + 1)..b : Cardinality({j \in (a + 1)..b : j <= k}) = n
<1>1. Len(u) \in Nat /\ b \in Nat BY TextFacts
<1>2. Cardinality((a + 1)..b) = Len(u)
  <2>1. a + 1 \in Int /\ b \in Int BY <1>1
  <2>2. Cardinality((a + 1)..b) = IF a + 1 > b THEN 0 ELSE b - (a + 1) + 1
    BY <2>1, FS_Interval
  <2> QED BY <1>1, <2>2
<1>3. ASSUME NEW n \in 1..Len(u) PROVE Place(n) = a + n
  <2>1. ASSUME NEW k \in (a + 1)..b PROVE Cardinality({j \in (a + 1)..b : j <= k}) = k - a
    <3>1. k \in Nat /\ a + 1 <= k /\ k <= b BY <1>1
    <3>2. {j \in (a + 1)..b : j <= k} = (a + 1)..k BY <1>1, <3>1
    <3>3. Cardinality((a + 1)..k) = k - a
      <4>1. a + 1 \in Int /\ k \in Int BY <3>1
      <4>2. Cardinality((a + 1)..k) = IF a + 1 > k THEN 0 ELSE k - (a + 1) + 1
        BY <4>1, FS_Interval
      <4> QED BY <3>1, <4>2
    <3> QED BY <3>2, <3>3
  <2>2. a + n \in (a + 1)..b /\ (a + n) - a = n BY <1>1
  <2> HIDE DEF b
  <2>3. \A k \in (a + 1)..b : Cardinality({j \in (a + 1)..b : j <= k}) = n <=> k = a + n
    BY <1>1, <2>1, <2>2
  <2> QED BY <2>2, <2>3
<1>4. Pick(t, (a + 1)..b) = [n \in 1..Cardinality((a + 1)..b) |-> t[Place(n)]] BY DEF Pick
<1> HIDE DEF Place, b
<1>5. PICK V : u \in Seq(PairOf(V)) BY DEF IsText
<1>6. u = [n \in 1..Len(u) |-> u[n]] BY <1>5
<1>7. \A n \in 1..Len(u) : t[Place(n)] = u[n] BY <1>3
<1>8. Pick(t, (a + 1)..b) = u BY <1>2, <1>4, <1>6, <1>7
<1> QED BY <1>8 DEF b

\* All places are the text itself.
LEMMA PickAll ==
  ASSUME NEW t, IsText(t)
  PROVE  Pick(t, 1..Len(t)) = t
<1>1. \A n \in 1..Len(t) : t[n] = t[0 + n] BY TextFacts
<1>2. Pick(t, (0 + 1)..(0 + Len(t))) = t BY <1>1, PickInterval
<1>3. 0 + 1 = 1 /\ 0 + Len(t) = Len(t) BY TextFacts
<1> QED BY <1>2, <1>3

\* The first pair of a text is found by the field it stands for.
LEMMA FieldFirst ==
  ASSUME NEW t, IsText(t), 1 \in 1..Len(t)
  PROVE  Field(t, t[1].at, t[1].key) = t[1].val
<1> DEFINE I == {i \in 1..Len(t) : t[i].at = t[1].at /\ t[i].key = t[1].key}
<1>1. 1 \in I /\ \A i \in I : 1 <= i BY TextFacts
<1>2. I \subseteq Nat BY TextFacts
<1>3. Min(I) = 1 BY <1>1, <1>2 DEF Min
<1>4. SelectInSeq(t, LAMBDA p : p.at = t[1].at /\ p.key = t[1].key) = 1
  BY <1>1, <1>3 DEF SelectInSeq
<1> QED BY <1>4 DEF Field

\* A message that is no envelope is not changed.
LEMMA OpenedDirect ==
  ASSUME NEW t, IsText(t), 1 \in 1..Len(t), t[1].at = "top", t[1].key = "type",
         t[1].val # "signaling", NEW id
  PROVE  Opened(t, id) = t
<1>1. Field(t, "top", "type") # "signaling" BY FieldFirst
<1> QED BY <1>1 DEF Opened

\* The pairs of an envelope's payload come to the top.
AtTop(body) == [k \in DOMAIN body |-> [body[k] EXCEPT !.at = "top"]]

\* Bringing pairs to the top changes neither keys nor values.
LEMMA AtTopIsText ==
  ASSUME NEW body, IsText(body)
  PROVE  /\ IsText(AtTop(body)) /\ Len(AtTop(body)) = Len(body)
         /\ \A i \in 1..Len(body) : /\ AtTop(body)[i].key = body[i].key
                                    /\ AtTop(body)[i].val = body[i].val
<1> DEFINE V == {body[j].val : j \in 1..Len(body)}
<1>1. /\ Len(body) \in Nat /\ DOMAIN body = 1..Len(body)
      /\ \A i \in 1..Len(body) : body[i] \in [at : Places, key : Keys, val : V]
  BY TextFacts
<1> HIDE DEF V
<1>2. ASSUME NEW i \in 1..Len(body)
      PROVE  /\ AtTop(body)[i] \in PairOf(V)
             /\ AtTop(body)[i].key = body[i].key /\ AtTop(body)[i].val = body[i].val
  <2>1. body[i] \in [at : Places, key : Keys, val : V] BY <1>1
  <2>2. AtTop(body)[i] = [body[i] EXCEPT !.at = "top"] BY <1>1 DEF AtTop
  <2>3. "top" \in Places BY DEF Places
  <2> QED BY <2>1, <2>2, <2>3 DEF PairOf
<1>3. AtTop(body) \in [1..Len(body) -> PairOf(V)] BY <1>1, <1>2 DEF AtTop
<1>4. IsText(AtTop(body)) /\ Len(AtTop(body)) = Len(body) BY <1>1, <1>3, TextIf
<1> QED BY <1>2, <1>4

\* An envelope is its payload with the identities of the envelope.
LEMMA OpenedEnvelope ==
  ASSUME NEW body, IsText(body), NEW ids, IsText(ids), NEW id,
         \A i \in 1..Len(body) : body[i].at = "payload" /\ body[i].key \notin {"from", "to"},
         \A i \in 1..Len(ids) : ids[i].at = "top", "signaling" # None,
         NEW key, key \notin {"from", "to"}
  PROVE  LET t == Opened(Pair("top", "type", "signaling") \o body \o ids, id)
         IN /\ IsText(t)
            /\ Has(t, key) <=> Has(body, key)
            /\ findValue(t, key) = findValue(body, key)
<1> DEFINE head == Pair("top", "type", "signaling")
           most == head \o body
           text == most \o ids
<1>1. IsText(head) /\ Len(head) = 1 /\ head[1] = [at |-> "top", key |-> "type", val |-> "signaling"]
  <2>1. "top" \in Places /\ "type" \in Keys BY DEF Places, Keys
  <2>2. /\ IsText(head) /\ (Len(head) = 1)
        /\ \A i \in 1..Len(head) :
              i = 1 /\ head[i] = [at |-> "top", key |-> "type", val |-> "signaling"]
    BY <2>1, PairText
  <2>3. 1 \in 1..Len(head) BY <2>2
  <2> QED BY <2>2, <2>3
<1>2. Len(body) \in Nat /\ Len(ids) \in Nat BY TextFacts
<1> HIDE DEF head
<1>3. /\ IsText(most) /\ Len(most) = 1 + Len(body) /\ most[1] = head[1]
      /\ \A i \in 1..Len(body) : most[1 + i] = body[i]
  <2>1. /\ IsText(most) /\ Len(most) = Len(head) + Len(body)
        /\ \A i \in 1..Len(head) : most[i] = head[i]
        /\ \A i \in 1..Len(body) : most[Len(head) + i] = body[i]
    <3>1. IsText(head) /\ IsText(body) BY <1>1
    <3> QED BY ONLY <3>1, TextConcat DEF most
  <2> QED BY <1>1, <2>1
<1> HIDE DEF most
<1>4. /\ IsText(text) /\ Len(text) = 1 + Len(body) + Len(ids)
      /\ \A i \in 1..(1 + Len(body)) : text[i] = most[i]
      /\ \A i \in 1..Len(ids) : text[1 + Len(body) + i] = ids[i]
  <2>1. /\ IsText(text) /\ Len(text) = Len(most) + Len(ids)
        /\ \A i \in 1..Len(most) : text[i] = most[i]
        /\ \A i \in 1..Len(ids) : text[Len(most) + i] = ids[i]
    BY <1>3, TextConcat
  <2> QED BY <1>3, <2>1
<1> HIDE DEF text
<1>5. 1 \in 1..Len(text) /\ text[1] = head[1] BY <1>2, <1>3, <1>4
<1>6. Field(text, "top", "type") = "signaling" BY <1>1, <1>4, <1>5, FieldFirst
<1>7. {k \in DOMAIN text : text[k].at = "payload"} = 2..(1 + Len(body))
  <2>1. DOMAIN text = 1..Len(text) BY <1>4, TextFacts
  <2>2. ASSUME NEW k \in 1..Len(text) PROVE text[k].at = "payload" <=> k \in 2..(1 + Len(body))
    <3>1. CASE k = 1 BY <1>1, <1>5, <3>1
    <3>2. CASE k \in 2..(1 + Len(body))
      <4>1. k - 1 \in 1..Len(body) /\ 1 + (k - 1) = k /\ k \in 1..(1 + Len(body)) BY <1>2, <3>2
      <4>2. text[k] = body[k - 1] BY <1>3, <1>4, <4>1
      <4> QED BY <3>2, <4>1, <4>2
    <3>3. CASE k > 1 + Len(body)
      <4>1. k - (1 + Len(body)) \in 1..Len(ids) /\ 1 + Len(body) + (k - (1 + Len(body))) = k
        BY <1>2, <1>4, <3>3
      <4>2. text[k] = ids[k - (1 + Len(body))] BY <1>4, <4>1
      <4> QED BY <1>2, <3>3, <4>1, <4>2
    <3> QED BY <1>2, <1>4, <3>1, <3>2, <3>3
  <2>3. \A k \in 2..(1 + Len(body)) : k \in 1..Len(text) BY <1>2, <1>4
  <2> QED BY <2>1, <2>2, <2>3
<1>8. Pick(text, 2..(1 + Len(body))) = body
  <2>1. ASSUME NEW n \in 1..Len(body) PROVE body[n] = text[1 + n]
    <3>1. 1 + n \in 1..(1 + Len(body)) BY <1>2
    <3> QED BY <1>3, <1>4, <3>1
  <2>2. Pick(text, (1 + 1)..(1 + Len(body))) = body BY <2>1, PickInterval
  <2>3. 1 + 1 = 2 OBVIOUS
  <2> QED BY <2>2, <2>3
<1> DEFINE payload == AtTop(body)
<1>9. /\ IsText(payload) /\ Len(payload) = Len(body)
      /\ \A i \in 1..Len(body) : payload[i].key = body[i].key /\ payload[i].val = body[i].val
  BY AtTopIsText
<1>10. (Has(payload, key) <=> Has(body, key)) /\ findValue(payload, key) = findValue(body, key)
  BY <1>9, FindSame
<1>11. Without(payload, {"from", "to"}) = payload
  <2> HIDE DEF payload
  <2>1. DOMAIN payload = 1..Len(payload) BY <1>9, TextFacts
  <2>2. {k \in DOMAIN payload : payload[k].key \notin {"from", "to"}} = 1..Len(payload)
    BY <1>9, <2>1
  <2> QED BY <1>9, <2>2, PickAll DEF Without
<1> DEFINE from == Field(text, "top", "from")
           sender == IF from = None THEN id ELSE from
           p1 == Pair("top", "from", sender)
           p2 == Pair("top", "to", Field(text, "top", "to"))
<1>12. Opened(text, id) = payload \o p1 \o p2
  BY <1>6, <1>7, <1>8, <1>11 DEF Opened, AtTop
<1>13. IsText(p1) /\ ~Has(p1, key) /\ IsText(p2) /\ ~Has(p2, key)
  <2>1. "top" \in Places /\ "from" \in Keys /\ "to" \in Keys BY DEF Places, Keys
  <2> QED BY <2>1, PairText, FindPair
<1> HIDE DEF payload, p1, p2
<1>14. /\ IsText(payload \o p1)
       /\ Has(payload \o p1, key) <=> Has(payload, key)
       /\ findValue(payload \o p1, key) = findValue(payload, key)
  BY <1>9, <1>13, TextConcat, FindBefore
<1>15. /\ IsText(payload \o p1 \o p2)
       /\ Has(payload \o p1 \o p2, key) <=> Has(payload, key)
       /\ findValue(payload \o p1 \o p2, key) = findValue(payload, key)
  BY <1>13, <1>14, TextConcat, FindBefore
<1>16. /\ IsText(Opened(text, id)) /\ (Has(Opened(text, id), key) <=> Has(body, key))
       /\ findValue(Opened(text, id), key) = findValue(body, key)
  BY <1>10, <1>12, <1>15
<1> QED BY <1>16 DEF text, most, head

\* The server only ever adds the page's spelling of the index.
LEMMA IndexAdded ==
  ASSUME NEW t, IsText(t), NEW key, key # "sdpMLineIndex" \/ Has(t, key)
  PROVE  /\ Has(WithIndex(t), key) <=> Has(t, key)
         /\ findValue(WithIndex(t), key) = findValue(t, key)
<1> DEFINE p == Pair("top", "sdpMLineIndex", Field(t, "top", "sdpMlineIndex"))
<1>1. WithIndex(t) = t \/ WithIndex(t) = t \o p BY DEF WithIndex
<1>2. IsText(p) /\ (key # "sdpMLineIndex" => ~Has(p, key))
  <2>1. "top" \in Places /\ "sdpMLineIndex" \in Keys BY DEF Places, Keys
  <2> QED BY <2>1, PairText, FindPair
<1> HIDE DEF p
<1>3. CASE key # "sdpMLineIndex" BY <1>1, <1>2, <1>3, FindBefore
<1>4. CASE Has(t, key) BY <1>1, <1>2, <1>4, FindLeft
<1> QED BY <1>3, <1>4

-----------------------------------------------------------------------------
(* The page's messages.                                                    *)

\* The part of a message of the page that an envelope carries.
Body(at, type, sdp, c, index) ==
  Pair(at, "type", type)
    \o (IF sdp = None THEN <<>> ELSE Pair(at, "sdp", Escape(sdp)))
    \o (IF c = None THEN <<>>
        ELSE Pair(at, "candidate", c.candidate) \o Pair(at, "sdpMid", c.sdpMid)
             \o Pair(at, index, c.sdpMlineIndex))

\* All pairs of a text stand in the same object, and its keys are not the envelope's.
Within(t, at) == \A i \in 1..Len(t) : t[i].at = at /\ t[i].key \notin {"from", "to"}

\* Two texts of the same object are one of that object.
LEMMA WithinConcat ==
  ASSUME NEW a, NEW b, IsText(a), IsText(b), NEW at, Within(a, at), Within(b, at)
  PROVE  Within(a \o b, at)
<1>1. /\ \A i \in 1..Len(a) : (a \o b)[i] = a[i]
      /\ \A i \in 1..Len(b) : (a \o b)[Len(a) + i] = b[i]
      /\ \A i \in 1..Len(a \o b) : i \in 1..Len(a) \/ i - Len(a) \in 1..Len(b)
      /\ Len(a) \in Nat /\ Len(a \o b) \in Nat
  BY TextConcat, TextFacts
<1>2. ASSUME NEW i \in 1..Len(a \o b)
      PROVE  (a \o b)[i].at = at /\ (a \o b)[i].key \notin {"from", "to"}
  <2>1. CASE i \in 1..Len(a) BY <1>1, <2>1 DEF Within
  <2>2. CASE i - Len(a) \in 1..Len(b)
    <3>1. Len(a) + (i - Len(a)) = i BY <1>1
    <3>2. (a \o b)[i] = b[i - Len(a)] BY <1>1, <2>2, <3>1
    <3> QED BY <2>2, <3>2 DEF Within
  <2> QED BY <1>1, <2>1, <2>2
<1> QED BY <1>2 DEF Within

\* The empty text has no key.
LEMMA NothingIsText == IsText(<<>>) /\ Len(<<>>) = 0 /\ \A key : ~Has(<<>>, key)
<1>1. <<>> \in Seq(PairOf({})) /\ Len(<<>>) = 0 BY EmptySeq
<1> QED BY <1>1 DEF IsText, Has

\* A pair stands in its own object.
LEMMA PairWithin ==
  ASSUME NEW at \in Places, NEW key \in Keys \ {"from", "to"}, NEW val
  PROVE  IsText(Pair(at, key, val)) /\ Within(Pair(at, key, val), at)
<1> DEFINE t == Pair(at, key, val)
<1>1. IsText(t) /\ \A i \in 1..Len(t) : t[i] = [at |-> at, key |-> key, val |-> val] BY PairText
<1> HIDE DEF t
<1>2. Within(t, at) BY <1>1 DEF Within
<1> QED BY <1>1, <1>2 DEF t

\* A candidate's part: each of its values is found under its own key.
LEMMA CandidatePart ==
  ASSUME NEW at \in Places, NEW n, NEW mid, NEW m, NEW index \in {"sdpMlineIndex", "sdpMLineIndex"},
         n \notin {None, Null}, m \notin {None, Null}, mid # None
  PROVE  LET t == Pair(at, "candidate", n) \o Pair(at, "sdpMid", mid) \o Pair(at, index, m)
         IN /\ IsText(t) /\ Within(t, at)
            /\ findValue(t, "candidate") = n
            /\ findValue(t, "sdpMid") = IF mid = Null THEN None ELSE mid
            /\ Has(t, index) /\ findValue(t, index) = m
            /\ \A key \in Keys \ {"candidate", "sdpMid", index} : ~Has(t, key)
<1> DEFINE a == Pair(at, "candidate", n)
           b == Pair(at, "sdpMid", mid)
           c == Pair(at, index, m)
<1>1. "candidate" \in Keys \ {"from", "to"} /\ "sdpMid" \in Keys \ {"from", "to"}
      /\ index \in Keys \ {"from", "to"}
  BY DEF Keys
<1>2. /\ IsText(a) /\ Within(a, at) /\ Has(a, "candidate") /\ findValue(a, "candidate") = n
      /\ \A key : key # "candidate" => ~Has(a, key)
  BY <1>1, PairWithin, FindPair
<1>3. /\ IsText(b) /\ Within(b, at)
      /\ mid # Null => Has(b, "sdpMid") /\ findValue(b, "sdpMid") = mid
      /\ mid = Null => ~Has(b, "sdpMid")
      /\ \A key : key # "sdpMid" => ~Has(b, key)
  BY <1>1, PairWithin, FindPair
<1>4. /\ IsText(c) /\ Within(c, at) /\ Has(c, index) /\ findValue(c, index) = m
      /\ \A key : key # index => ~Has(c, key)
  BY <1>1, PairWithin, FindPair
<1> HIDE DEF a, b, c
<1> DEFINE ab == a \o b
           abc == ab \o c
<1>5. /\ IsText(ab) /\ Within(ab, at)
      /\ Has(ab, "candidate") /\ findValue(ab, "candidate") = n
      /\ mid # Null => Has(ab, "sdpMid") /\ findValue(ab, "sdpMid") = mid
      /\ mid = Null => ~Has(ab, "sdpMid")
      /\ \A key : key \notin {"candidate", "sdpMid"} => ~Has(ab, key)
  <2>1. IsText(ab) /\ Within(ab, at) BY <1>2, <1>3, TextConcat, WithinConcat
  <2>2. Has(ab, "candidate") /\ findValue(ab, "candidate") = n BY <1>2, <1>3, FindLeft
  <2>3. (Has(ab, "sdpMid") <=> Has(b, "sdpMid")) /\ findValue(ab, "sdpMid") = findValue(b, "sdpMid")
    BY <1>2, <1>3, FindRight
  <2>4. \A key : key \notin {"candidate", "sdpMid"} => ~Has(ab, key) BY <1>2, <1>3, FindRight
  <2> QED BY <1>3, <2>1, <2>2, <2>3, <2>4
<1> HIDE DEF ab
<1>6. /\ IsText(abc) /\ Within(abc, at)
      /\ findValue(abc, "candidate") = n
      /\ Has(abc, index) /\ findValue(abc, index) = m
  <2>1. IsText(abc) /\ Within(abc, at) BY <1>4, <1>5, TextConcat, WithinConcat
  <2>2. findValue(abc, "candidate") = n BY <1>4, <1>5, FindLeft
  <2>3. ~Has(ab, index) BY <1>5
  <2>4. (Has(abc, index) <=> Has(c, index)) /\ findValue(abc, index) = findValue(c, index)
    BY <1>4, <1>5, <2>3, FindRight
  <2> QED BY <1>4, <2>1, <2>2, <2>4
<1>7. findValue(abc, "sdpMid") = IF mid = Null THEN None ELSE mid
  <2>1. ~Has(c, "sdpMid") BY <1>4
  <2>2. findValue(abc, "sdpMid") = findValue(ab, "sdpMid") BY <1>4, <1>5, <2>1, FindBefore
  <2> QED BY <1>5, <2>2, FindNone
<1>8. \A key \in Keys \ {"candidate", "sdpMid", index} : ~Has(abc, key)
  BY <1>4, <1>5, FindRight
<1> QED BY <1>6, <1>7, <1>8 DEF abc, ab, a, b, c

\* What a candidate of the page's carries, or nothing.
Carries(c, index) ==
  c = None \/ /\ index \in {"sdpMlineIndex", "sdpMLineIndex"} /\ c.sdpMid # None
              /\ c.candidate \notin {None, Null} /\ c.sdpMlineIndex \notin {None, Null}

\* A text whose first pair is its type, and one that holds a candidate besides.
IsTyped(t, at, type) ==
  /\ IsText(t) /\ Within(t, at)
  /\ 1 \in 1..Len(t) /\ t[1] = [at |-> at, key |-> "type", val |-> type]
  /\ findValue(t, "type") = type

Holds(t, c, index) ==
  /\ findValue(t, "candidate") = c.candidate
  /\ findValue(t, "sdpMid") = IF c.sdpMid = Null THEN None ELSE c.sdpMid
  /\ Has(t, index) /\ findValue(t, index) = c.sdpMlineIndex
  /\ \A key \in {"sdpMlineIndex", "sdpMLineIndex"} \ {index} : ~Has(t, key)

\* The part of a message that an envelope carries, as it is searched.
LEMMA BodyIsRead ==
  ASSUME NEW at \in Places, NEW type, type \notin {None, Null}, NEW sdp, NEW c, NEW index,
         Carries(c, index)
  PROVE  /\ IsTyped(Body(at, type, sdp, c, index), at, type)
         /\ c # None => Holds(Body(at, type, sdp, c, index), c, index)
<1> DEFINE a == Pair(at, "type", type)
           b == IF sdp = None THEN <<>> ELSE Pair(at, "sdp", Escape(sdp))
           d == IF c = None THEN <<>>
                ELSE Pair(at, "candidate", c.candidate) \o Pair(at, "sdpMid", c.sdpMid)
                     \o Pair(at, index, c.sdpMlineIndex)
<1>1. "type" \in Keys \ {"from", "to"} /\ "sdp" \in Keys \ {"from", "to"} BY DEF Keys
<1>2. /\ IsText(a) /\ Within(a, at) /\ Has(a, "type") /\ findValue(a, "type") = type
      /\ \A key : key # "type" => ~Has(a, key)
  BY <1>1, PairWithin, FindPair
<1>3. 1 \in 1..Len(a) /\ a[1] = [at |-> at, key |-> "type", val |-> type]
  <2>1. Len(a) = 1 /\ \A i \in 1..Len(a) : a[i] = [at |-> at, key |-> "type", val |-> type]
    BY <1>1, PairText
  <2>2. 1 \in 1..Len(a) BY <2>1
  <2> QED BY <2>1, <2>2
<1>4. IsText(b) /\ Within(b, at) /\ \A key : key # "sdp" => ~Has(b, key)
  <2>1. CASE sdp = None
    <3>1. b = <<>> BY <2>1
    <3>2. Within(b, at) BY <3>1, NothingIsText DEF Within
    <3> QED BY <3>1, <3>2, NothingIsText
  <2>2. CASE sdp # None
    <3>1. b = Pair(at, "sdp", Escape(sdp)) BY <2>2
    <3> QED BY <1>1, <3>1, PairWithin, FindPair
  <2> QED BY <2>1, <2>2
<1>5. /\ IsText(d) /\ Within(d, at)
      /\ c # None =>
           /\ findValue(d, "candidate") = c.candidate
           /\ findValue(d, "sdpMid") = IF c.sdpMid = Null THEN None ELSE c.sdpMid
           /\ Has(d, index) /\ findValue(d, index) = c.sdpMlineIndex
           /\ \A key \in {"sdpMlineIndex", "sdpMLineIndex"} \ {index} : ~Has(d, key)
  <2>1. CASE c = None
    <3>1. d = <<>> BY <2>1
    <3>2. Within(d, at) BY <3>1, NothingIsText DEF Within
    <3> QED BY <2>1, <3>1, <3>2, NothingIsText
  <2>2. CASE c # None
    <3>1. /\ c.candidate \notin {None, Null} /\ c.sdpMid # None /\ c.sdpMlineIndex \notin {None, Null}
          /\ index \in {"sdpMlineIndex", "sdpMLineIndex"}
      BY <2>2 DEF Carries
    <3>2. d = Pair(at, "candidate", c.candidate) \o Pair(at, "sdpMid", c.sdpMid)
              \o Pair(at, index, c.sdpMlineIndex)
      BY <2>2
    <3> HIDE DEF d
    <3>3. /\ IsText(d) /\ Within(d, at)
          /\ findValue(d, "candidate") = c.candidate
          /\ findValue(d, "sdpMid") = IF c.sdpMid = Null THEN None ELSE c.sdpMid
          /\ Has(d, index) /\ findValue(d, index) = c.sdpMlineIndex
          /\ \A key \in Keys \ {"candidate", "sdpMid", index} : ~Has(d, key)
      BY <3>1, <3>2, CandidatePart
    <3>4. {"sdpMlineIndex", "sdpMLineIndex"} \ {index} \subseteq Keys \ {"candidate", "sdpMid", index}
      BY DEF Keys
    <3> QED BY <3>3, <3>4
  <2> QED BY <2>1, <2>2
<1> HIDE DEF a, b, d
<1> DEFINE ab == a \o b
           abd == ab \o d
<1>6. /\ IsText(ab) /\ Within(ab, at) /\ 1 \in 1..Len(ab) /\ ab[1] = a[1]
      /\ Has(ab, "type") /\ findValue(ab, "type") = type
      /\ \A key : key \notin {"type", "sdp"} => ~Has(ab, key)
  <2>1. /\ IsText(ab) /\ Len(ab) = Len(a) + Len(b) /\ \A i \in 1..Len(a) : ab[i] = a[i]
        /\ Len(b) \in Nat /\ Len(a) \in Nat
    BY <1>2, <1>4, TextConcat, TextFacts
  <2>2. Within(ab, at) BY <1>2, <1>4, WithinConcat
  <2>3. Has(ab, "type") /\ findValue(ab, "type") = type BY <1>2, <1>4, FindLeft
  <2>4. \A key : key \notin {"type", "sdp"} => ~Has(ab, key) BY <1>2, <1>4, FindRight
  <2>5. 1 \in 1..Len(ab) BY <1>3, <2>1
  <2> QED BY <1>3, <2>1, <2>2, <2>3, <2>4, <2>5
<1> HIDE DEF ab
<1>7. /\ IsText(abd) /\ Within(abd, at) /\ 1 \in 1..Len(abd) /\ abd[1] = ab[1]
      /\ findValue(abd, "type") = type
  <2>1. /\ IsText(abd) /\ Len(abd) = Len(ab) + Len(d) /\ \A i \in 1..Len(ab) : abd[i] = ab[i]
        /\ Len(d) \in Nat /\ Len(ab) \in Nat
    BY <1>5, <1>6, TextConcat, TextFacts
  <2>2. Within(abd, at) BY <1>5, <1>6, WithinConcat
  <2>3. findValue(abd, "type") = type BY <1>5, <1>6, FindLeft
  <2>4. 1 \in 1..Len(abd) BY <1>6, <2>1
  <2> QED BY <1>6, <2>1, <2>2, <2>3, <2>4
<1>8. ASSUME c # None
      PROVE  /\ findValue(abd, "candidate") = c.candidate
             /\ findValue(abd, "sdpMid") = IF c.sdpMid = Null THEN None ELSE c.sdpMid
             /\ Has(abd, index) /\ findValue(abd, index) = c.sdpMlineIndex
             /\ \A key \in {"sdpMlineIndex", "sdpMLineIndex"} \ {index} : ~Has(abd, key)
  <2>1. index \in {"sdpMlineIndex", "sdpMLineIndex"} BY <1>8 DEF Carries
  <2>2. ASSUME NEW key, key \notin {"type", "sdp"}
        PROVE  (Has(abd, key) <=> Has(d, key)) /\ findValue(abd, key) = findValue(d, key)
    BY <1>5, <1>6, <2>2, FindRight
  <2> QED BY <1>5, <1>8, <2>1, <2>2
<1>9. Body(at, type, sdp, c, index) = abd BY DEF Body, abd, ab, a, b, d
<1> HIDE DEF abd
<1>10. IsTyped(abd, at, type) BY <1>3, <1>6, <1>7 DEF IsTyped
<1>11. c # None => Holds(abd, c, index) BY <1>8 DEF Holds
<1> QED BY <1>9, <1>10, <1>11

\* Whatever its shape, a message of the page's is read as what it carries.
LEMMA PageTextIsRead ==
  ASSUME NEW type, type \notin {None, Null, "signaling"}, "signaling" # None, NEW from, NEW to,
         NEW sdp, NEW c, NEW index, Carries(c, index), NEW enveloped \in BOOLEAN, NEW id,
         NEW key, key \notin {"from", "to"}
  PROVE  LET body == Body(IF enveloped THEN "payload" ELSE "top", type, sdp, c, index)
             text == Normalized(PageText(type, from, to, sdp, c, index, enveloped), id)
         IN key # "sdpMLineIndex" \/ Has(body, key) => findValue(text, key) = findValue(body, key)
<1> DEFINE at == IF enveloped THEN "payload" ELSE "top"
           body == Body(at, type, sdp, c, index)
           p1 == Pair("top", "from", from)
           p2 == Pair("top", "to", to)
           ids == p1 \o p2
           page == PageText(type, from, to, sdp, c, index, enveloped)
<1>1. at \in Places /\ "top" \in Places /\ "from" \in Keys /\ "to" \in Keys BY DEF Places, Keys
<1>2. /\ IsText(body) /\ Within(body, at)
      /\ 1 \in 1..Len(body) /\ body[1] = [at |-> at, key |-> "type", val |-> type]
  <2> HIDE DEF at
  <2>1. Carries(c, index) /\ type \notin {None, Null} OBVIOUS
  <2>2. IsTyped(body, at, type) BY <1>1, <2>1, BodyIsRead
  <2> HIDE DEF body
  <2> QED BY <2>2 DEF IsTyped
<1>3. IsText(ids) /\ ~Has(ids, key) /\ \A i \in 1..Len(ids) : ids[i].at = "top"
  <2>1. /\ IsText(p1) /\ ~Has(p1, key) /\ \A i \in 1..Len(p1) : p1[i].at = "top"
        /\ IsText(p2) /\ ~Has(p2, key) /\ \A i \in 1..Len(p2) : p2[i].at = "top"
    <3>1. /\ IsText(p1) /\ \A i \in 1..Len(p1) : p1[i] = [at |-> "top", key |-> "from", val |-> from]
          /\ IsText(p2) /\ \A i \in 1..Len(p2) : p2[i] = [at |-> "top", key |-> "to", val |-> to]
      BY <1>1, PairText
    <3>2. ~Has(p1, key) /\ ~Has(p2, key) BY <1>1, FindPair
    <3> HIDE DEF p1, p2
    <3> QED BY <3>1, <3>2
  <2> HIDE DEF p1, p2
  <2>2. IsText(ids) /\ ~Has(ids, key) BY <2>1, TextConcat, FindRight
  <2>3. /\ \A i \in 1..Len(p1) : ids[i] = p1[i]
        /\ \A i \in 1..Len(p2) : ids[Len(p1) + i] = p2[i]
        /\ \A i \in 1..Len(ids) : i \in 1..Len(p1) \/ i - Len(p1) \in 1..Len(p2)
        /\ Len(p1) \in Nat /\ Len(ids) \in Nat
    BY <2>1, <2>2, TextConcat, TextFacts
  <2>4. ASSUME NEW i \in 1..Len(ids) PROVE ids[i].at = "top"
    <3>1. CASE i \in 1..Len(p1) BY <2>1, <2>3, <3>1
    <3>2. CASE i - Len(p1) \in 1..Len(p2)
      <4>1. Len(p1) + (i - Len(p1)) = i BY <2>3
      <4>2. ids[i] = p2[i - Len(p1)] BY <2>3, <3>2, <4>1
      <4> QED BY <2>1, <3>2, <4>2
    <3> QED BY <2>3, <3>1, <3>2
  <2> QED BY <2>2, <2>4
<1>4. page = IF enveloped THEN Pair("top", "type", "signaling") \o body \o ids ELSE body \o ids
  BY DEF PageText, Body
<1> HIDE DEF ids, body, page
<1>5. /\ IsText(Opened(page, id))
      /\ Has(Opened(page, id), key) <=> Has(body, key)
      /\ findValue(Opened(page, id), key) = findValue(body, key)
  <2>1. CASE enveloped
    <3>1. page = Pair("top", "type", "signaling") \o body \o ids BY <1>4, <2>1
    <3>2. \A i \in 1..Len(body) : body[i].at = "payload" /\ body[i].key \notin {"from", "to"}
      BY <1>2, <2>1 DEF Within
    <3> QED BY <1>2, <1>3, <3>1, <3>2, OpenedEnvelope
  <2>2. CASE ~enveloped
    <3>1. page = body \o ids BY <1>4, <2>2
    <3>2. /\ IsText(page) /\ Len(page) = Len(body) + Len(ids)
          /\ \A i \in 1..Len(body) : page[i] = body[i] /\ Len(body) \in Nat /\ Len(ids) \in Nat
      BY <1>2, <1>3, <3>1, TextConcat, TextFacts
    <3>3. 1 \in 1..Len(page) /\ page[1] = [at |-> "top", key |-> "type", val |-> type]
      BY <1>2, <2>2, <3>2
    <3>4. Opened(page, id) = page BY <3>2, <3>3, OpenedDirect
    <3>5. (Has(page, key) <=> Has(body, key)) /\ findValue(page, key) = findValue(body, key)
      BY <1>2, <1>3, <3>1, FindBefore
    <3> QED BY <3>2, <3>4, <3>5
  <2> QED BY <2>1, <2>2
<1>6. key # "sdpMLineIndex" \/ Has(body, key)
        => findValue(WithIndex(Opened(page, id)), key) = findValue(body, key)
  BY <1>5, IndexAdded
<1> QED BY <1>6 DEF Normalized, body, page

\* No other message of the page's is a candidate to the vehicle.
LEMMA OtherIsNoCandidate ==
  ASSUME NEW type \in {"offer", "answer", "join_request", "leave"}, NEW from, NEW to, NEW sdp,
         NEW enveloped \in BOOLEAN, NEW id
  PROVE  ~IsCandidate(Normalized(PageText(type, from, to, sdp, None, None, enveloped), id))
<1> DEFINE body == Body(IF enveloped THEN "payload" ELSE "top", type, sdp, None, None)
           text == Normalized(PageText(type, from, to, sdp, None, None, enveloped), id)
<1>1. type \notin {None, Null, "signaling"} /\ "signaling" # None
  BY NoValue DEF Types
<1>2. Carries(None, None) BY DEF Carries
<1>3. findValue(body, "type") = type
  <2> DEFINE at == IF enveloped THEN "payload" ELSE "top"
  <2>1. at \in Places BY DEF Places
  <2> HIDE DEF at
  <2>2. type \notin {None, Null} BY <1>1
  <2>3. IsTyped(Body(at, type, sdp, None, None), at, type) BY <1>2, <2>1, <2>2, BodyIsRead
  <2> QED BY <2>3 DEF at, IsTyped
<1>4. findValue(text, "type") = findValue(body, "type")
  <2>1. "type" \notin {"from", "to"} /\ "type" # "sdpMLineIndex" OBVIOUS
  <2> QED BY <1>1, <1>2, <2>1, PageTextIsRead
<1> HIDE DEF body, text
<1>5. DeserializeSignalMessage(text).type # "candidate"
  BY <1>3, <1>4 DEF DeserializeSignalMessage, StringToType
<1>6. ~IsCandidate(text) BY <1>5 DEF IsCandidate
<1> QED BY <1>6 DEF text

\* Nor is what the server answers to a text that is no JSON.
LEMMA ErrorIsNoCandidate == ~IsCandidate(ErrorText)
<1>1. "top" \in Places /\ "type" \in Keys BY DEF Places, Keys
<1>2. findValue(ErrorText, "type") \in {"error", None}
  <2>1. CASE "error" \notin {None, Null} BY <1>1, <2>1, FindPair DEF ErrorText
  <2>2. CASE "error" = Null
    <3>1. ~Has(ErrorText, "type") BY <1>1, <2>2, FindPair DEF ErrorText
    <3> QED BY <3>1, FindNone
  <2>3. CASE "error" = None
    <3>1. Len(<<>>) = 0 /\ ErrorText = <<>> BY <2>3 DEF ErrorText, Pair
    <3>2. ~Has(ErrorText, "type") BY <3>1 DEF Has
    <3> QED BY <3>2, FindNone
  <2> QED BY <2>1, <2>2, <2>3
<1>3. None # "candidate" BY NoValue DEF Types
<1> QED BY <1>2, <1>3 DEF IsCandidate, DeserializeSignalMessage, StringToType

\* The vehicle reads the page's n-th candidate in the text.
ReadsAs(text, n, mid) ==
  LET m == DeserializeSignalMessage(text)
  IN /\ m.type = "candidate" /\ m.candidate = n /\ m.sdpMlineIndex = n
     /\ m.sdpMid = IF mid = Null THEN None ELSE mid

\* A candidate, whatever its shape and spelling, is read with each of its fields.
LEMMA CandidateIsRead ==
  ASSUME NEW n \in Nat, NEW mid \in {n, Null}, NEW enveloped \in BOOLEAN, NEW from, NEW to, NEW id
  PROVE  ReadsAs(Normalized(PageText("candidate", from, to, None,
                                     [candidate |-> n, sdpMid |-> mid, sdpMlineIndex |-> n],
                                     IF enveloped THEN "sdpMlineIndex" ELSE "sdpMLineIndex",
                                     enveloped), id), n, mid)
<1> DEFINE c == [candidate |-> n, sdpMid |-> mid, sdpMlineIndex |-> n]
           index == IF enveloped THEN "sdpMlineIndex" ELSE "sdpMLineIndex"
           at == IF enveloped THEN "payload" ELSE "top"
           body == Body(at, "candidate", None, c, index)
           text == Normalized(PageText("candidate", from, to, None, c, index, enveloped), id)
<1>1. "candidate" \notin {None, Null, "signaling"} /\ "signaling" # None /\ None \notin {n, mid}
      /\ Null # n
  BY NoValue, OperationsBound DEF Types
<1>2. c # None
  <2>1. c \in Candidate BY DEF Candidate
  <2> HIDE DEF c
  <2> QED BY <2>1, NoValue
<1>3. at \in Places BY DEF Places
<1>4. index \in {"sdpMlineIndex", "sdpMLineIndex"} /\ (index = "sdpMlineIndex" <=> enveloped) OBVIOUS
<1>5. c.candidate = n /\ c.sdpMid = mid /\ c.sdpMlineIndex = n OBVIOUS
<1> HIDE DEF c, index
<1>6. Carries(c, index) BY <1>1, <1>4, <1>5 DEF Carries
<1>7. /\ findValue(body, "type") = "candidate" /\ findValue(body, "candidate") = n
      /\ findValue(body, "sdpMid") = IF mid = Null THEN None ELSE mid
      /\ Has(body, index) /\ findValue(body, index) = n
      /\ \A key \in {"sdpMlineIndex", "sdpMLineIndex"} \ {index} : ~Has(body, key)
  <2> DEFINE t == Body(at, "candidate", None, c, index)
  <2> HIDE DEF at
  <2>1. "candidate" \notin {None, Null} BY <1>1
  <2>2. IsTyped(t, at, "candidate") /\ Holds(t, c, index) BY <1>2, <1>3, <1>6, <2>1, BodyIsRead
  <2>3. t = body OBVIOUS
  <2> HIDE DEF t, body
  <2> QED BY <1>5, <2>2, <2>3 DEF IsTyped, Holds
<1>8. ASSUME NEW key, key \notin {"from", "to"}, key # "sdpMLineIndex" \/ Has(body, key)
      PROVE  findValue(text, key) = findValue(body, key)
  BY <1>1, <1>6, <1>8, PageTextIsRead
<1> HIDE DEF body, text
<1>9. /\ findValue(text, "type") = "candidate" /\ findValue(text, "candidate") = n
      /\ findValue(text, "sdpMid") = IF mid = Null THEN None ELSE mid
  BY <1>7, <1>8
<1>10. IF findValue(text, "sdpMlineIndex") # None
       THEN findValue(text, "sdpMlineIndex") = n ELSE findValue(text, "sdpMLineIndex") = n
  <2>1. findValue(text, "sdpMlineIndex") = findValue(body, "sdpMlineIndex") BY <1>8
  <2>2. CASE enveloped BY <1>1, <1>4, <1>7, <2>1, <2>2
  <2>3. CASE ~enveloped
    <3>1. index = "sdpMLineIndex" BY <1>4, <2>3
    <3>2. findValue(body, "sdpMlineIndex") = None BY <1>7, <3>1, FindNone
    <3>3. findValue(text, "sdpMLineIndex") = n BY <1>7, <1>8, <3>1
    <3> QED BY <2>1, <3>2, <3>3
  <2> QED BY <2>2, <2>3
<1>11. ReadsAs(text, n, mid)
  BY <1>9, <1>10 DEF ReadsAs, DeserializeSignalMessage, StringToType, Types
<1> QED BY <1>11 DEF text, c, index

-----------------------------------------------------------------------------
(* Sequences.                                                              *)

\* A sequence is one of its own elements.
LEMMA OfItsOwn ==
  ASSUME NEW S, NEW s \in Seq(S)
  PROVE  s \in Seq(Range(s))
<1>1. Len(s) \in Nat /\ DOMAIN s = 1..Len(s) OBVIOUS
<1>2. \A i \in 1..Len(s) : s[i] \in Range(s) BY <1>1 DEF Range
<1>3. s = [i \in 1..Len(s) |-> s[i]] OBVIOUS
<1>4. s \in [1..Len(s) -> Range(s)] BY <1>2, <1>3
<1> QED BY <1>1, <1>4

\* A queue of texts with one more at its end.
LEMMA QueueAppend ==
  ASSUME NEW q, q \in Seq(Range(q)), NEW x
  PROVE  /\ Append(q, x) \in Seq(Range(Append(q, x)))
         /\ Len(q) \in Nat /\ DOMAIN q = 1..Len(q) /\ DOMAIN Append(q, x) = 1..(Len(q) + 1)
         /\ \A i \in 1..Len(q) : Append(q, x)[i] = q[i]
         /\ Append(q, x)[Len(q) + 1] = x
<1> DEFINE S == Range(q) \cup {x}
<1>1. q \in Seq(S)
  <2>1. Range(q) \subseteq S OBVIOUS
  <2> HIDE DEF S
  <2> QED BY <2>1, Widen
<1>2. x \in S OBVIOUS
<1> HIDE DEF S
<1>3. /\ Append(q, x) \in Seq(S) /\ Len(Append(q, x)) = Len(q) + 1 /\ Len(q) \in Nat
      /\ \A i \in 1..Len(q) : Append(q, x)[i] = q[i]
      /\ Append(q, x)[Len(q) + 1] = x
      /\ DOMAIN q = 1..Len(q)
  BY <1>1, <1>2, AppendProperties
<1>4. DOMAIN Append(q, x) = 1..(Len(q) + 1) BY <1>3
<1> QED BY <1>3, <1>4, OfItsOwn

\* A queue of texts without its first.
LEMMA QueueTail ==
  ASSUME NEW q, q \in Seq(Range(q)), q # <<>>
  PROVE  /\ Tail(q) \in Seq(Range(Tail(q)))
         /\ Len(q) \in Nat \ {0} /\ DOMAIN q = 1..Len(q) /\ DOMAIN Tail(q) = 1..(Len(q) - 1)
         /\ \A i \in 1..(Len(q) - 1) : Tail(q)[i] = q[i + 1]
         /\ Head(q) = q[1]
<1>1. /\ Tail(q) \in Seq(Range(q)) /\ Len(Tail(q)) = Len(q) - 1
      /\ Len(q) \in Nat \ {0} /\ DOMAIN q = 1..Len(q)
      /\ Head(q) = q[1]
  BY HeadTailProperties, EmptySeq
<1>2. \A i \in 1..(Len(q) - 1) : Tail(q)[i] = q[i + 1] BY <1>1
<1>3. Tail(q) \in Seq(Range(Tail(q))) BY <1>1, OfItsOwn
<1>4. DOMAIN Tail(q) = 1..(Len(q) - 1) BY <1>1
<1> QED BY <1>1, <1>2, <1>3, <1>4

-----------------------------------------------------------------------------
(* The numbers on their way.                                               *)

\* Another text changes none of them.
LEMMA OtherSent ==
  ASSUME NEW q, q \in Seq(Range(q)), InOrder(q), NEW x, ~IsCandidate(x)
  PROVE  InOrder(Append(q, x)) /\ Numbers(Append(q, x)) = Numbers(q)
<1> DEFINE r == Append(q, x)
<1>1. /\ Len(q) \in Nat /\ DOMAIN q = 1..Len(q) /\ DOMAIN r = 1..(Len(q) + 1)
      /\ \A i \in 1..Len(q) : r[i] = q[i]
      /\ r[Len(q) + 1] = x
  BY QueueAppend
<1> HIDE DEF r
<1>2. \A i \in DOMAIN r : IsCandidate(r[i]) => i \in DOMAIN q /\ r[i] = q[i] BY <1>1
<1>3. InOrder(r) BY <1>2 DEF InOrder
<1>4. ASSUME NEW n PROVE n \in Numbers(r) <=> n \in Numbers(q)
  <2>1. ASSUME n \in Numbers(r) PROVE n \in Numbers(q)
    <3>1. PICK k \in DOMAIN r : IsCandidate(r[k]) /\ n = NumberOf(r[k]) BY <2>1 DEF Numbers
    <3>2. k \in DOMAIN q /\ r[k] = q[k] BY <1>2, <3>1
    <3> QED BY <3>1, <3>2 DEF Numbers
  <2>2. ASSUME n \in Numbers(q) PROVE n \in Numbers(r)
    <3>1. PICK k \in DOMAIN q : IsCandidate(q[k]) /\ n = NumberOf(q[k]) BY <2>2 DEF Numbers
    <3>2. k \in DOMAIN r /\ r[k] = q[k] BY <1>1
    <3> QED BY <3>1, <3>2 DEF Numbers
  <2> QED BY <2>1, <2>2
<1>5. Numbers(r) = Numbers(q) BY <1>4
<1> QED BY <1>3, <1>5 DEF r

\* A new candidate comes after those of smaller numbers.
LEMMA CandidateSent ==
  ASSUME NEW q, q \in Seq(Range(q)), InOrder(q), NEW x, IsCandidate(x),
         \A n \in Numbers(q) : n < NumberOf(x)
  PROVE  InOrder(Append(q, x)) /\ Numbers(Append(q, x)) = Numbers(q) \cup {NumberOf(x)}
<1> DEFINE r == Append(q, x)
<1>1. /\ Len(q) \in Nat /\ DOMAIN q = 1..Len(q) /\ DOMAIN r = 1..(Len(q) + 1)
      /\ \A i \in 1..Len(q) : r[i] = q[i]
      /\ r[Len(q) + 1] = x
  BY QueueAppend
<1> HIDE DEF r
<1>2. \A i \in DOMAIN r : \/ i \in DOMAIN q /\ r[i] = q[i]
                          \/ i = Len(q) + 1 /\ r[i] = x
  BY <1>1
<1>3. InOrder(r)
  <2>1. SUFFICES ASSUME NEW i \in DOMAIN r, NEW j \in DOMAIN r, i < j,
                        IsCandidate(r[i]), IsCandidate(r[j])
                 PROVE  NumberOf(r[i]) < NumberOf(r[j])
    BY DEF InOrder
  <2>2. i \in DOMAIN q /\ r[i] = q[i] BY <1>1, <2>1
  <2>3. CASE j \in DOMAIN q
    <3>1. r[j] = q[j] BY <1>1, <2>3
    <3> QED BY <2>1, <2>2, <2>3, <3>1 DEF InOrder
  <2>4. CASE j \notin DOMAIN q
    <3>1. r[j] = x BY <1>2, <2>4
    <3>2. NumberOf(r[i]) \in Numbers(q) BY <2>1, <2>2 DEF Numbers
    <3> QED BY <3>1, <3>2
  <2> QED BY <2>3, <2>4
<1>4. ASSUME NEW n PROVE n \in Numbers(r) <=> n \in Numbers(q) \cup {NumberOf(x)}
  <2>1. ASSUME n \in Numbers(r) PROVE n \in Numbers(q) \cup {NumberOf(x)}
    <3>1. PICK k \in DOMAIN r : IsCandidate(r[k]) /\ n = NumberOf(r[k]) BY <2>1 DEF Numbers
    <3>2. CASE k \in DOMAIN q /\ r[k] = q[k] BY <3>1, <3>2 DEF Numbers
    <3>3. CASE r[k] = x BY <3>1, <3>3
    <3> QED BY <1>2, <3>2, <3>3
  <2>2. ASSUME n \in Numbers(q) PROVE n \in Numbers(r)
    <3>1. PICK k \in DOMAIN q : IsCandidate(q[k]) /\ n = NumberOf(q[k]) BY <2>2 DEF Numbers
    <3>2. k \in DOMAIN r /\ r[k] = q[k] BY <1>1
    <3> QED BY <3>1, <3>2 DEF Numbers
  <2>3. NumberOf(x) \in Numbers(r)
    <3>1. Len(q) + 1 \in DOMAIN r /\ IsCandidate(r[Len(q) + 1]) /\ r[Len(q) + 1] = x BY <1>1
    <3> QED BY <3>1 DEF Numbers
  <2> QED BY <2>1, <2>2, <2>3
<1>5. Numbers(r) = Numbers(q) \cup {NumberOf(x)} BY <1>4
<1> QED BY <1>3, <1>5 DEF r

\* What is read first has the smallest number, and the others keep theirs.
LEMMA FirstRead ==
  ASSUME NEW q, q \in Seq(Range(q)), q # <<>>, InOrder(q), Numbers(q) \subseteq Nat
  PROVE  /\ InOrder(Tail(q))
         /\ ~IsCandidate(Head(q)) => Numbers(Tail(q)) = Numbers(q)
         /\ IsCandidate(Head(q)) => /\ NumberOf(Head(q)) \in Numbers(q)
                                    /\ \A n \in Numbers(q) : NumberOf(Head(q)) <= n
                                    /\ Numbers(Tail(q)) = Numbers(q) \ {NumberOf(Head(q))}
<1> DEFINE r == Tail(q)
           x == Head(q)
<1>1. /\ Len(q) \in Nat \ {0} /\ DOMAIN q = 1..Len(q) /\ DOMAIN r = 1..(Len(q) - 1)
      /\ \A i \in 1..(Len(q) - 1) : r[i] = q[i + 1]
      /\ x = q[1]
  BY QueueTail
<1> HIDE DEF r, x
<1>2. \A i \in DOMAIN r : i + 1 \in DOMAIN q /\ r[i] = q[i + 1] BY <1>1
<1>3. InOrder(r)
  <2>1. SUFFICES ASSUME NEW i \in DOMAIN r, NEW j \in DOMAIN r, i < j,
                        IsCandidate(r[i]), IsCandidate(r[j])
                 PROVE  NumberOf(r[i]) < NumberOf(r[j])
    BY DEF InOrder
  <2>2. i + 1 < j + 1 BY <1>1, <2>1
  <2> QED BY <1>2, <2>1, <2>2 DEF InOrder
<1>4. ASSUME NEW n \in Numbers(q) PROVE n \in Numbers(r) \/ (IsCandidate(x) /\ n = NumberOf(x))
  <2>1. PICK k \in DOMAIN q : IsCandidate(q[k]) /\ n = NumberOf(q[k]) BY <1>4 DEF Numbers
  <2>2. CASE k = 1
    <3>1. q[k] = x BY <1>1, <2>2
    <3> QED BY <2>1, <3>1
  <2>3. CASE k # 1
    <3>1. k - 1 \in DOMAIN r /\ r[k - 1] = q[k] BY <1>1, <2>3
    <3> QED BY <2>1, <3>1 DEF Numbers
  <2> QED BY <2>2, <2>3
<1>5. ASSUME NEW n \in Numbers(r)
      PROVE  n \in Numbers(q) /\ (IsCandidate(x) => NumberOf(x) < n)
  <2>1. PICK k \in DOMAIN r : IsCandidate(r[k]) /\ n = NumberOf(r[k]) BY <1>5 DEF Numbers
  <2>2. k + 1 \in DOMAIN q /\ r[k] = q[k + 1] /\ 1 \in DOMAIN q /\ 1 < k + 1 BY <1>1, <1>2
  <2>3. n \in Numbers(q) BY <2>1, <2>2 DEF Numbers
  <2>4. ASSUME IsCandidate(x) PROVE NumberOf(x) < n
    <3>1. IsCandidate(q[1]) /\ IsCandidate(q[k + 1]) /\ n = NumberOf(q[k + 1])
      BY <1>1, <2>1, <2>2, <2>4
    <3>2. NumberOf(q[1]) < NumberOf(q[k + 1]) BY <2>2, <3>1 DEF InOrder
    <3> QED BY <1>1, <3>1, <3>2
  <2> QED BY <2>3, <2>4
<1>6. ASSUME IsCandidate(x)
      PROVE  /\ NumberOf(x) \in Numbers(q)
             /\ \A n \in Numbers(q) : NumberOf(x) <= n
             /\ Numbers(r) = Numbers(q) \ {NumberOf(x)}
  <2>1. 1 \in DOMAIN q BY <1>1
  <2>2. NumberOf(x) \in Numbers(q) BY <1>1, <1>6, <2>1 DEF Numbers
  <2> QED BY <1>4, <1>5, <1>6, <2>2
<1>7. ~IsCandidate(x) => Numbers(r) = Numbers(q) BY <1>4, <1>5
<1> QED BY <1>3, <1>6, <1>7 DEF r, x

\* One more element leaves the prefixes as they were.
LEMMA SamePrefix ==
  ASSUME NEW S, NEW s \in Seq(S), NEW x \in S, NEW h \in 0..Len(s)
  PROVE  SubSeq(Append(s, x), 1, h) = SubSeq(s, 1, h)
<1>1. CASE h = 0
  <2>1. 1 \in Int /\ h \in Int /\ h < 1 BY <1>1
  <2> QED BY <2>1, SubSeqEmpty
<1>2. CASE h # 0
  <2>1. Append(s, x) = s \o <<x>> /\ <<x>> \in Seq(S) BY AppendIsConcat
  <2>2. 1 \in 1..Len(s) /\ h \in 1..Len(s) BY <1>2
  <2> QED BY <2>1, <2>2, SubSeqOfConcat1
<1> QED BY <1>1, <1>2

\* The next longer prefix has the next element.
LEMMA NextPrefix ==
  ASSUME NEW S, NEW s \in Seq(S), NEW h \in Nat, h + 1 \in 1..Len(s)
  PROVE  SubSeq(s, 1, h + 1) = Append(SubSeq(s, 1, h), s[h + 1])
<1>1. 1 \in 1..Len(s) /\ h + 1 \in 1..Len(s) /\ (h + 1) - 1 = h OBVIOUS
<1>2. SubSeq(s, 1, h + 1) = SubSeq(s, 1, (h + 1) - 1) \o <<s[h + 1]>>
  BY <1>1, SubSeqRecursiveSecond
<1>3. SubSeq(s, 1, h) \in Seq(S)
  <2>1. 1 \in Int /\ h \in Int /\ \A i \in 1..h : s[i] \in S BY <1>1
  <2> QED BY <2>1, SubSeqProperties
<1>4. s[h + 1] \in S BY <1>1
<1> QED BY <1>1, <1>2, <1>3, <1>4, AppendIsConcat

\* What is appended to the second of two sequences, or to the first when the
\* second is empty, is appended to both.
LEMMA JoinedAppend ==
  ASSUME NEW S, NEW a \in Seq(S), NEW b \in Seq(S), NEW x \in S
  PROVE  /\ a \o Append(b, x) = Append(a \o b, x)
         /\ b = <<>> => Append(a, x) \o b = Append(a \o b, x)
<1>1. a \o b \in Seq(S) /\ <<x>> \in Seq(S) /\ Append(a, x) \in Seq(S) BY ConcatProperties
<1>2. Append(b, x) = b \o <<x>> /\ Append(a \o b, x) = (a \o b) \o <<x>> BY <1>1, AppendIsConcat
<1>3. (a \o b) \o <<x>> = a \o (b \o <<x>>) BY <1>1, ConcatAssociative
<1>4. ASSUME b = <<>> PROVE Append(a, x) \o b = Append(a \o b, x)
  <2>1. Append(a, x) \o b = Append(a, x) /\ a \o b = a BY <1>1, <1>4, ConcatEmptySeq
  <2> QED BY <2>1
<1> QED BY <1>2, <1>3, <1>4

-----------------------------------------------------------------------------
(* What a step leaves of the invariant.                                    *)

\* The numbers on their way are those of candidates the page sent.
LEMMA NumbersAreSent ==
  ASSUME NegotiationInv
  PROVE  \A n \in Numbers(toVehicle) : n \in 1..Len(candidates)
<1> SUFFICES ASSUME NEW n \in Numbers(toVehicle) PROVE n \in 1..Len(candidates)
  OBVIOUS
<1>1. PICK k \in DOMAIN toVehicle : IsCandidate(toVehicle[k]) /\ n = NumberOf(toVehicle[k])
  BY DEF Numbers
<1>2. NamesOneOf(Len(candidates), toVehicle[k]) BY <1>1 DEF NegotiationInv
<1> QED BY <1>1, <1>2 DEF NamesOneOf, NumberOf

\* A text that is no candidate is sent to the vehicle.
LEMMA OtherSentKeepsInv ==
  ASSUME NegotiationInv, NEW x, ~IsCandidate(x), toVehicle' = Append(toVehicle, x),
         UNCHANGED <<peerVars, vehicleId, managerVars, candidates>>,
         sends' \in 0..MaxSends
  PROVE  NegotiationInv'
<1>1. toVehicle \in Seq(Range(toVehicle)) /\ InOrder(toVehicle)
  BY DEF NegotiationInv, TypeOK
<1>2. /\ toVehicle' \in Seq(Range(toVehicle'))
      /\ \A k \in DOMAIN toVehicle' : \/ k \in DOMAIN toVehicle /\ toVehicle'[k] = toVehicle[k]
                                      \/ toVehicle'[k] = x
  BY <1>1, QueueAppend
<1>3. InOrder(toVehicle') /\ Numbers(toVehicle') = Numbers(toVehicle) BY <1>1, OtherSent
<1>4. TypeOK' BY <1>2 DEF NegotiationInv, TypeOK, managerVars
<1>5. \A k \in DOMAIN toVehicle' : 
         IsCandidate(toVehicle'[k]) => NamesOneOf(Len(candidates'), toVehicle'[k])
  BY <1>2 DEF NegotiationInv, NamesOneOf
<1>6. AddedOrInFlight => AddedOrInFlight' BY <1>3 DEF AddedOrInFlight, managerVars
<1> QED BY <1>3, <1>4, <1>5, <1>6 DEF NegotiationInv, managerVars, peerVars

\* A candidate is sent, the next one of the page's.
LEMMA CandidateSentKeepsInv ==
  ASSUME NegotiationInv, NEW x, NEW c, c = [candidate |-> Len(candidates) + 1,
                                             sdpMid |-> Len(candidates) + 1,
                                             sdpMlineIndex |-> Len(candidates) + 1],
         IsCandidate(x), candidates' = Append(candidates, c), NamesOneOf(Len(candidates) + 1, x),
         NumberOf(x) = Len(candidates) + 1, toVehicle' = Append(toVehicle, x),
         UNCHANGED <<peerVars, vehicleId, managerVars>>, sends' \in 0..MaxSends
  PROVE  NegotiationInv'
<1> DEFINE L == Len(candidates)
<1>1. /\ toVehicle \in Seq(Range(toVehicle)) /\ InOrder(toVehicle) /\ candidates \in Seq(Candidate)
      /\ L \in Nat
  BY DEF NegotiationInv, TypeOK
<1>2. /\ toVehicle' \in Seq(Range(toVehicle'))
      /\ \A k \in DOMAIN toVehicle' : \/ k \in DOMAIN toVehicle /\ toVehicle'[k] = toVehicle[k]
                                      \/ toVehicle'[k] = x
  BY <1>1, QueueAppend
<1>3. \A n \in Numbers(toVehicle) : n < NumberOf(x) BY <1>1, NumbersAreSent
<1>4. InOrder(toVehicle') /\ Numbers(toVehicle') = Numbers(toVehicle) \cup {L + 1}
  BY <1>1, <1>3, CandidateSent
<1>5. c \in Candidate BY <1>1 DEF Candidate
<1>6. /\ candidates' \in Seq(Candidate) /\ Len(candidates') = L + 1
      /\ \A k \in 1..L : candidates'[k] = candidates[k]
      /\ candidates'[L + 1] = c
      /\ DOMAIN candidates' = 1..(L + 1) /\ DOMAIN candidates = 1..L
  BY <1>1, <1>5, AppendProperties
<1>7. TypeOK' BY <1>2, <1>6 DEF NegotiationInv, TypeOK, managerVars
<1>8. \A k \in DOMAIN candidates' :
         candidates'[k] = [candidate |-> k, sdpMid |-> k, sdpMlineIndex |-> k]
  BY <1>1, <1>6 DEF NegotiationInv
<1>9. \A k \in DOMAIN toVehicle' : 
         IsCandidate(toVehicle'[k]) => NamesOneOf(Len(candidates'), toVehicle'[k])
  <2>1. ASSUME NEW t, NamesOneOf(L, t) PROVE NamesOneOf(L + 1, t)
    BY <1>1, <1>6, <2>1 DEF NamesOneOf
  <2> QED BY <1>2, <1>6, <2>1 DEF NegotiationInv
<1>10. ASSUME AddedOrInFlight PROVE AddedOrInFlight'
  <2>1. PICK h \in 0..L : /\ added \o buffered = SubSeq(candidates, 1, h)
                          /\ Numbers(toVehicle) = (h + 1)..L
    BY <1>10 DEF AddedOrInFlight
  <2>2. SubSeq(candidates', 1, h) = SubSeq(candidates, 1, h) BY <1>1, <1>5, SamePrefix
  <2>3. Numbers(toVehicle') = (h + 1)..(L + 1) BY <1>1, <1>4, <2>1
  <2>4. h \in 0..Len(candidates') BY <1>1, <1>6
  <2>5. added' \o buffered' = SubSeq(candidates', 1, h) BY <2>1, <2>2 DEF managerVars
  <2>6. Numbers(toVehicle') = (h + 1)..Len(candidates') BY <1>6, <2>3
  <2> QED BY <2>4, <2>5, <2>6 DEF AddedOrInFlight
<1> QED BY <1>4, <1>7, <1>8, <1>9, <1>10 DEF NegotiationInv, managerVars, peerVars

\* The vehicle reads a text: what it reads of a candidate joins what it has, and
\* anything else leaves that as it is, unless there is no connection to come.
LEMMA ReadKeepsInv ==
  ASSUME NegotiationInv, toVehicle # <<>>, toVehicle' = Tail(toVehicle),
         UNCHANGED <<wired, vehicleId, sends, candidates>>,
         rtc_peer_connection_' \in {"null", "closed"} \/ (rtc_peer_connection_' = "open" /\ wired),
         rtc_peer_connection_' # "closed" => rtc_peer_connection_ # "closed",
         described' \in BOOLEAN, added' \in Seq(Candidate), buffered' \in Seq(Candidate),
         described' => buffered' = <<>>,
         wired /\ rtc_peer_connection_' # "closed" =>
           added' \o buffered' = IF IsCandidate(Head(toVehicle))
                                 THEN Append(added \o buffered,
                                             [candidate |-> NumberOf(Head(toVehicle)),
                                              sdpMid |-> NumberOf(Head(toVehicle)),
                                              sdpMlineIndex |-> NumberOf(Head(toVehicle))])
                                 ELSE added \o buffered
  PROVE  NegotiationInv'
<1> DEFINE L == Len(candidates)
           x == Head(toVehicle)
<1>1. /\ toVehicle \in Seq(Range(toVehicle)) /\ InOrder(toVehicle) /\ candidates \in Seq(Candidate)
      /\ L \in Nat
  BY DEF NegotiationInv, TypeOK
<1>2. /\ toVehicle' \in Seq(Range(toVehicle'))
      /\ \A k \in DOMAIN toVehicle' : k + 1 \in DOMAIN toVehicle /\ toVehicle'[k] = toVehicle[k + 1]
  BY <1>1, QueueTail
<1>3. /\ InOrder(toVehicle')
      /\ ~IsCandidate(x) => Numbers(toVehicle') = Numbers(toVehicle)
      /\ IsCandidate(x) => /\ NumberOf(x) \in Numbers(toVehicle)
                           /\ \A n \in Numbers(toVehicle) : NumberOf(x) <= n
                           /\ Numbers(toVehicle') = Numbers(toVehicle) \ {NumberOf(x)}
  <2>1. Numbers(toVehicle) \subseteq Nat BY <1>1, NumbersAreSent
  <2> QED BY <1>1, <2>1, FirstRead
<1>4. TypeOK' BY <1>2 DEF NegotiationInv, TypeOK
<1>5. \A k \in DOMAIN toVehicle' :
         IsCandidate(toVehicle'[k]) => NamesOneOf(Len(candidates'), toVehicle'[k])
  BY <1>2 DEF NegotiationInv
<1> HIDE DEF x
<1>6. ASSUME wired, rtc_peer_connection_' # "closed" PROVE AddedOrInFlight'
  <2>1. PICK h \in 0..L : /\ added \o buffered = SubSeq(candidates, 1, h)
                          /\ Numbers(toVehicle) = (h + 1)..L
    BY <1>6 DEF NegotiationInv, AddedOrInFlight
  <2>2. CASE ~IsCandidate(x)
    <3>1. added' \o buffered' = SubSeq(candidates', 1, h) BY <1>6, <2>1, <2>2 DEF x
    <3>2. Numbers(toVehicle') = (h + 1)..Len(candidates') BY <1>3, <2>1, <2>2
    <3>3. h \in 0..Len(candidates') OBVIOUS
    <3> QED BY <3>1, <3>2, <3>3 DEF AddedOrInFlight
  <2>3. CASE IsCandidate(x)
    <3>1. NumberOf(x) = h + 1 /\ h + 1 \in 1..L
      <4>1. NumberOf(x) \in (h + 1)..L BY <1>3, <2>1, <2>3
      <4>2. h + 1 \in (h + 1)..L BY <1>1, <4>1
      <4>3. NumberOf(x) <= h + 1 BY <1>3, <2>1, <2>3, <4>2
      <4> QED BY <1>1, <4>1, <4>3
    <3>2. candidates[h + 1] = [candidate |-> h + 1, sdpMid |-> h + 1, sdpMlineIndex |-> h + 1]
      BY <1>1, <3>1 DEF NegotiationInv
    <3>3. SubSeq(candidates, 1, h + 1) = Append(SubSeq(candidates, 1, h), candidates[h + 1])
      BY <1>1, <3>1, NextPrefix
    <3>4. added' \o buffered' = SubSeq(candidates', 1, h + 1)
      BY <1>6, <2>1, <2>3, <3>1, <3>2, <3>3 DEF x
    <3>5. Numbers(toVehicle') = ((h + 1) + 1)..Len(candidates')
      <4>1. Numbers(toVehicle') = ((h + 1)..L) \ {h + 1} BY <1>3, <2>1, <2>3, <3>1
      <4>2. ((h + 1)..L) \ {h + 1} = ((h + 1) + 1)..L BY <1>1
      <4> QED BY <4>1, <4>2
    <3>6. h + 1 \in 0..Len(candidates') BY <1>1, <3>1
    <3> QED BY <3>4, <3>5, <3>6 DEF AddedOrInFlight
  <2> QED BY <2>2, <2>3
<1> QED BY <1>3, <1>4, <1>5, <1>6 DEF NegotiationInv

\* What the first use of the connection does to it.
LEMMA FirstUse ==
  ASSUME NEW ops, Starts(ops),
         rtc_peer_connection_ \in {"null", "closed"} \/ (rtc_peer_connection_ = "open" /\ wired)
  PROVE  /\ wired' = wired
         /\ rtc_peer_connection_' \in {"null", "closed"} \/ (rtc_peer_connection_' = "open" /\ wired)
         /\ rtc_peer_connection_' # "closed" => rtc_peer_connection_ # "closed"
BY DEF Starts, init

\* Every case of handleSignalingMessage.
LEMMA VehicleReadsKeepsInv == NegotiationInv /\ VehicleReads => NegotiationInv'
<1> SUFFICES ASSUME NegotiationInv, VehicleReads PROVE NegotiationInv'
  OBVIOUS
<1> DEFINE x == Head(toVehicle)
           m == DeserializeSignalMessage(x)
<1>1. /\ toVehicle # <<>> /\ toVehicle' = Tail(toVehicle)
      /\ UNCHANGED <<vehicleId, sends, candidates>>
      /\ OnOffer(m) \/ OnAnswer(m) \/ OnCandidate(m) \/ OnLeave(m) \/ OnOther(m)
  BY DEF VehicleReads, pageVars
<1>2. /\ rtc_peer_connection_ \in {"null", "closed"} \/ (rtc_peer_connection_ = "open" /\ wired)
      /\ described \in BOOLEAN /\ added \in Seq(Candidate) /\ buffered \in Seq(Candidate)
      /\ described => buffered = <<>>
  BY DEF NegotiationInv, TypeOK
<1>3. IsCandidate(x) <=> m.type = "candidate" /\ m.sdpMid # None BY DEF IsCandidate
<1>4. NumberOf(x) = m.candidate BY DEF NumberOf
<1>5. IsCandidate(x) => /\ m.candidate \in Nat
                        /\ m.sdpMid = m.candidate /\ m.sdpMlineIndex = m.candidate
  <2>1. 1 \in DOMAIN toVehicle /\ x = toVehicle[1]
    BY <1>1, QueueTail DEF NegotiationInv, TypeOK
  <2>2. IsCandidate(x) => NamesOneOf(Len(candidates), x) BY <2>1 DEF NegotiationInv
  <2> QED BY <2>2 DEF NamesOneOf
<1> HIDE DEF m, x
<1>6. CASE Refused /\ (~wired \/ ~IsCandidate(x))
  <2>1. UNCHANGED <<peerVars, described, buffered, added>> BY <1>6 DEF Refused, managerVars
  <2> QED BY <1>1, <1>2, <1>6, <2>1, ReadKeepsInv DEF peerVars, x
<1>7. ASSUME NEW ops, Starts(ops), Describes, ~IsCandidate(x) PROVE NegotiationInv'
  <2>1. /\ wired' = wired
        /\ rtc_peer_connection_' \in {"null", "closed"} \/ (rtc_peer_connection_' = "open" /\ wired)
        /\ rtc_peer_connection_' # "closed" => rtc_peer_connection_ # "closed"
    BY <1>2, <1>7, FirstUse
  <2>2. /\ described' = TRUE /\ buffered' = <<>> /\ added' = added \o buffered
        /\ added' \in Seq(Candidate) /\ buffered' \in Seq(Candidate)
    BY <1>2, <1>7, ConcatProperties DEF Describes
  <2>3. added' \o buffered' = added \o buffered BY <2>2, ConcatEmptySeq
  <2> QED BY <1>1, <1>7, <2>1, <2>2, <2>3, ReadKeepsInv DEF x
<1>8. CASE OnOffer(m) \/ OnAnswer(m)
  <2>1. ~IsCandidate(x) BY <1>3, <1>8 DEF OnOffer, OnAnswer
  <2> QED BY <1>6, <1>7, <1>8, <2>1
        DEF OnOffer, OnAnswer, SetRemoteAndCreateAnswer, SetRemoteDescription
<1>9. CASE OnCandidate(m)
  <2> DEFINE c == [candidate |-> m.candidate, sdpMid |-> m.sdpMid, sdpMlineIndex |-> m.sdpMlineIndex]
  <2>1. CASE ~wired /\ Refused BY <1>6, <2>1
  <2>2. CASE /\ AddRemoteCandidate
             /\ IF None \in {m.candidate, m.sdpMid, m.sdpMlineIndex}
                THEN UNCHANGED managerVars
                ELSE IF described
                THEN added' = Append(added, c) /\ UNCHANGED <<described, buffered>>
                ELSE buffered' = Append(buffered, c) /\ UNCHANGED <<described, added>>
    <3>1. /\ wired' = wired
          /\ rtc_peer_connection_' \in {"null", "closed"} \/ (rtc_peer_connection_' = "open" /\ wired)
          /\ rtc_peer_connection_' # "closed" => rtc_peer_connection_ # "closed"
      BY <1>2, <2>2, FirstUse DEF AddRemoteCandidate
    <3>2. CASE IsCandidate(x)
      <4>1. c \in Candidate /\ c = [candidate |-> NumberOf(x), sdpMid |-> NumberOf(x),
                                    sdpMlineIndex |-> NumberOf(x)]
        BY <1>4, <1>5, <3>2 DEF Candidate
      <4>2. None \notin {m.candidate, m.sdpMid, m.sdpMlineIndex}
        BY <1>5, <3>2, OperationsBound
      <4>3. IF described
            THEN added' = Append(added, c) /\ UNCHANGED <<described, buffered>>
            ELSE buffered' = Append(buffered, c) /\ UNCHANGED <<described, added>>
        BY <2>2, <4>2
      <4> HIDE DEF c
      <4>4. /\ described' \in BOOLEAN /\ added' \in Seq(Candidate) /\ buffered' \in Seq(Candidate)
            /\ described' => buffered' = <<>>
            /\ added' \o buffered' = Append(added \o buffered, c)
        <5>1. CASE described
          <6>1. added' = Append(added, c) /\ described' = described /\ buffered' = buffered
            BY <4>3, <5>1
          <6> QED BY <1>2, <4>1, <5>1, <6>1, AppendProperties, JoinedAppend
        <5>2. CASE ~described
          <6>1. buffered' = Append(buffered, c) /\ described' = described /\ added' = added
            BY <4>3, <5>2
          <6> QED BY <1>2, <4>1, <5>2, <6>1, AppendProperties, JoinedAppend
        <5> QED BY <5>1, <5>2
      <4> QED BY <1>1, <3>1, <3>2, <4>1, <4>4, ReadKeepsInv DEF x
    <3>3. CASE ~IsCandidate(x)
      <4>1. m.sdpMid = None BY <1>3, <1>9, <3>3 DEF OnCandidate
      <4>2. UNCHANGED <<described, buffered, added>> BY <2>2, <4>1 DEF managerVars
      <4> QED BY <1>1, <1>2, <3>1, <3>3, <4>2, ReadKeepsInv DEF x
    <3> QED BY <3>2, <3>3
  <2> QED BY <1>9, <2>1, <2>2 DEF OnCandidate
<1>10. CASE OnLeave(m)
  <2>1. ~IsCandidate(x) BY <1>3, <1>10 DEF OnLeave
  <2>2. CASE rtc_peer_connection_ = "null"
    <3>1. Refused BY <1>10, <2>2 DEF OnLeave
    <3> QED BY <1>6, <2>1, <3>1
  <2>3. CASE rtc_peer_connection_ # "null"
    <3>1. /\ IF rtc_peer_connection_ = "open" THEN Close ELSE UNCHANGED peerVars
          /\ described' = FALSE /\ buffered' = <<>> /\ added' = added
      BY <1>10, <2>3 DEF OnLeave
    <3>2. wired' = wired /\ rtc_peer_connection_' = "closed"
      BY <1>2, <2>3, <3>1 DEF Close, peerVars
    <3>3. described' \in BOOLEAN /\ added' \in Seq(Candidate) /\ buffered' \in Seq(Candidate)
      BY <1>2, <3>1, EmptySeq
    <3> QED BY <1>1, <3>1, <3>2, <3>3, ReadKeepsInv DEF x
  <2> QED BY <2>2, <2>3
<1>11. CASE OnOther(m)
  <2>1. ~IsCandidate(x) /\ Refused BY <1>3, <1>11 DEF OnOther
  <2> QED BY <1>6, <2>1
<1> QED BY <1>1, <1>8, <1>9, <1>10, <1>11

\* The connection changes, and no text is read.
LEMMA NothingReadKeepsInv ==
  ASSUME NegotiationInv,
         UNCHANGED <<vehicleId, managerVars, pageVars, toVehicle, wired>>,
         rtc_peer_connection_' \in {"null", "closed"} \/ (rtc_peer_connection_' = "open" /\ wired),
         rtc_peer_connection_' # "closed" => rtc_peer_connection_ # "closed"
  PROVE  NegotiationInv'
<1>1. TypeOK' BY DEF NegotiationInv, TypeOK, managerVars, pageVars
<1>2. AddedOrInFlight => AddedOrInFlight' BY DEF AddedOrInFlight, managerVars, pageVars
<1> QED BY <1>1, <1>2 DEF NegotiationInv, managerVars, pageVars

\* The page sends a candidate: a complete one or, with a null mid, one that the
\* vehicle does not take.
LEMMA PageCandidateKeepsInv ==
  ASSUME NegotiationInv, NEW sdpMid \in {None, Null}, NEW enveloped \in BOOLEAN,
         PageSendsCandidate(sdpMid, enveloped)
  PROVE  NegotiationInv'
<1> DEFINE n == Len(candidates) + 1
           mid == IF sdpMid = Null THEN Null ELSE n
           c == [candidate |-> n, sdpMid |-> mid, sdpMlineIndex |-> n]
           x == Normalized(PageText("candidate", Page, vehicleId, None, c,
                             IF enveloped THEN "sdpMlineIndex" ELSE "sdpMLineIndex", enveloped), Page)
           m == DeserializeSignalMessage(x)
<1>1. /\ candidates \in Seq(Candidate) /\ n \in Nat /\ mid \in {n, Null} BY DEF NegotiationInv, TypeOK
<1>2. /\ toVehicle' = Append(toVehicle, x)
      /\ candidates' = IF sdpMid = Null THEN candidates ELSE Append(candidates, c)
  BY DEF PageSendsCandidate, Relay
<1>3. UNCHANGED <<peerVars, vehicleId, managerVars>> /\ sends' \in 0..MaxSends
  BY SendsBound DEF PageSendsCandidate, Sends, NegotiationInv, TypeOK
<1>4. /\ m.type = "candidate" /\ m.candidate = n /\ m.sdpMlineIndex = n
      /\ m.sdpMid = IF mid = Null THEN None ELSE mid
  <2> HIDE DEF n, mid
  <2>1. ReadsAs(x, n, mid) BY <1>1, CandidateIsRead
  <2> HIDE DEF x
  <2> QED BY <2>1 DEF ReadsAs
<1>5. Null # n /\ None # n /\ None # Null BY <1>1, NoValue, OperationsBound
<1>6. CASE sdpMid = Null
  <2>1. ~IsCandidate(x) BY <1>4, <1>6 DEF IsCandidate
  <2>2. candidates' = candidates BY <1>2, <1>6
  <2> HIDE DEF x
  <2> QED BY <1>2, <1>3, <2>1, <2>2, OtherSentKeepsInv
<1>7. CASE sdpMid # Null
  <2>1. mid = n /\ c = [candidate |-> n, sdpMid |-> n, sdpMlineIndex |-> n] BY <1>7
  <2> HIDE DEF mid, x, c, m
  <2>2. m.sdpMid = n BY <1>4, <1>5, <2>1
  <2>3. IsCandidate(x) /\ NumberOf(x) = n BY <1>4, <1>5, <2>2 DEF IsCandidate, NumberOf, m
  <2>4. NamesOneOf(n, x)
    <3>1. n \in 1..n BY <1>1
    <3> QED BY <1>4, <2>2, <3>1 DEF NamesOneOf, m
  <2>5. candidates' = Append(candidates, c) BY <1>2, <1>7
  <2> QED BY <1>2, <1>3, <2>1, <2>3, <2>4, <2>5, CandidateSentKeepsInv
<1> QED BY <1>6, <1>7

\* Every step keeps the invariant, ...
LEMMA NextKeepsNegotiationInv == NegotiationInv /\ [Next]_vars => NegotiationInv'
<1> SUFFICES ASSUME NegotiationInv, [Next]_vars PROVE NegotiationInv'
  OBVIOUS
<1>0. /\ rtc_peer_connection_ \in {"null", "closed"} \/ (rtc_peer_connection_ = "open" /\ wired)
      /\ sends \in 0..MaxSends
  BY DEF NegotiationInv, TypeOK
<1>1. ASSUME NEW type \in {"offer", "answer"}, NEW enveloped \in BOOLEAN, PageSendsSdp(type, enveloped)
      PROVE  NegotiationInv'
  <2> DEFINE x == Normalized(PageText(type, Page, vehicleId, Description(0), None, None,
                                      enveloped), Page)
  <2>1. ~IsCandidate(x) BY OtherIsNoCandidate
  <2>2. toVehicle' = Append(toVehicle, x) BY <1>1 DEF PageSendsSdp, Relay
  <2>3. UNCHANGED <<peerVars, vehicleId, managerVars, candidates>> /\ sends' \in 0..MaxSends
    BY <1>0, <1>1, SendsBound DEF PageSendsSdp, Sends
  <2> HIDE DEF x
  <2> QED BY <2>1, <2>2, <2>3, OtherSentKeepsInv
<1>2. ASSUME NEW sdpMid \in {None, Null}, NEW enveloped \in BOOLEAN, PageSendsCandidate(sdpMid, enveloped)
      PROVE  NegotiationInv'
  BY <1>2, PageCandidateKeepsInv
<1>3. ASSUME NEW type \in {"join_request", "leave"}, PageSendsOther(type)
      PROVE  NegotiationInv'
  <2> DEFINE x == Normalized(PageText(type, Page, vehicleId, None, None, None, FALSE), Page)
  <2>1. ~IsCandidate(x) BY OtherIsNoCandidate
  <2>2. toVehicle' = Append(toVehicle, x) BY <1>3 DEF PageSendsOther, Relay
  <2>3. UNCHANGED <<peerVars, vehicleId, managerVars, candidates>> /\ sends' \in 0..MaxSends
    BY <1>0, <1>3, SendsBound DEF PageSendsOther, Sends
  <2> HIDE DEF x
  <2> QED BY <2>1, <2>2, <2>3, OtherSentKeepsInv
<1>4. CASE connectToPeer
  BY <1>0, <1>4, FirstUse, NothingReadKeepsInv DEF connectToPeer, CreateOffer
<1>5. CASE VehicleReads
  BY <1>5, VehicleReadsKeepsInv
<1>6. CASE PeerThread
  <2>1. UNCHANGED <<vehicleId, managerVars, pageVars, toVehicle, wired,
                    rtc_peer_connection_>>
    BY <1>6 DEF PeerThread, handlePeerLocalSdpGenerated, OnSuccess, OnFailure, OnSetFailed,
                OnSetSucceeded, LocalSdpGenerated
  <2> QED BY <1>0, <2>1, NothingReadKeepsInv
<1>7. CASE ServerReads
  <2>1. UNCHANGED <<peerVars, vehicleId, managerVars, pageVars>>
    BY <1>7 DEF ServerReads
  <2>2. CASE toVehicle' = Append(toVehicle, ErrorText)
    BY <1>0, <2>1, <2>2, ErrorIsNoCandidate, OtherSentKeepsInv DEF pageVars
  <2>3. CASE UNCHANGED toVehicle
    BY <1>0, <2>1, <2>3, NothingReadKeepsInv DEF peerVars
  <2> QED BY <1>7, <2>2, <2>3 DEF ServerReads, Answers, Forwards
<1>8. CASE UNCHANGED vars
  BY <1>0, <1>8, NothingReadKeepsInv DEF vars, peerVars
<1> QED BY <1>1, <1>2, <1>3, <1>4, <1>5, <1>6, <1>7, <1>8 DEF Next

\* ... which holds at first.
LEMMA InitHasNegotiationInv == Init => NegotiationInv
<1> SUFFICES ASSUME Init PROVE NegotiationInv
  OBVIOUS
<1>1. /\ toVehicle = <<>> /\ candidates = <<>> /\ added = <<>> /\ buffered = <<>> /\ sends = 0
      /\ described = FALSE /\ rtc_peer_connection_ = "null"
      /\ vehicleId \in {DummyId, OtherId}
  BY DEF Init, PeerInit
<1>2. TypeOK
  <2>1. \A S : <<>> \in Seq(S) BY EmptySeq
  <2>2. 0 \in 0..MaxSends BY SendsBound
  <2> QED BY <1>1, <2>1, <2>2 DEF TypeOK
<1>3. DOMAIN toVehicle = {} /\ DOMAIN candidates = {} /\ Len(candidates) = 0 BY <1>1
<1>4. InOrder(toVehicle) /\ Numbers(toVehicle) = {} BY <1>3 DEF InOrder, Numbers
<1>5. AddedOrInFlight
  <2>1. 0 \in 0..Len(candidates) /\ (0 + 1)..Len(candidates) = {} BY <1>3
  <2>2. added \o buffered = <<>>
    <3>1. added \in Seq(Candidate) BY <1>2 DEF TypeOK
    <3>2. added \o <<>> = added BY <3>1, ConcatEmptySeq
    <3> QED BY <1>1, <3>2
  <2>3. SubSeq(candidates, 1, 0) = <<>> BY SubSeqEmpty
  <2> QED BY <1>4, <2>1, <2>2, <2>3 DEF AddedOrInFlight
<1> QED BY <1>1, <1>2, <1>3, <1>4, <1>5 DEF NegotiationInv

\* The inductive invariant of every negotiation.
THEOREM NegotiationIsSafe == Spec => []NegotiationInv
BY InitHasNegotiationInv, NextKeepsNegotiationInv, PTL DEF Spec

\* Until the connection is closed no complete candidate of the page's is lost,
\* added twice or out of order, or added with another's mid or index
\* (handleSignalingMessage and its buffer pendingRemoteCandidates_, the texts of
\* signaling_message.cc, server.js and app.js).
THEOREM CandidatesArrive == Spec => []CandidatesArriveIntact
<1>1. NegotiationInv => CandidatesArriveIntact
  BY DEF NegotiationInv, CandidatesArriveIntact
<1> QED BY <1>1, NegotiationIsSafe, PTL
=============================================================================
