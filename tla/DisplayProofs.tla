---------------------------- MODULE DisplayProofs ----------------------------
(***************************************************************************)
(* Proofs about module Display, for any number of players, operations and  *)
(* candidates.  DisplayInv is inductive.  A candidate may be given to the  *)
(* connection by two paths, directly when the flag is set and by the flush *)
(* of a description; FlagMeansDescribed ties the first to the second.  The *)
(* lemmas on Placed follow a candidate from place to place.                *)
(***************************************************************************)
EXTENDS Display, SequenceTheorems, TLAPS

\* A candidate is on its way to the connection.
HasCandidate(ops) == \E i \in 1..Len(ops) : ops[i].op = "candidate"

\* An operation is added to those under way.
LEMMA Appended ==
  ASSUME NEW ops \in Seq(Operation), NEW o \in Operation
  PROVE  /\ Append(ops, o) \in Seq(Operation)
         /\ HasCandidate(Append(ops, o)) => HasCandidate(ops) \/ o.op = "candidate"
<1>1. /\ Append(ops, o) \in Seq(Operation) /\ Len(Append(ops, o)) = Len(ops) + 1
      /\ \A i \in 1..Len(ops) : Append(ops, o)[i] = ops[i]
      /\ Append(ops, o)[Len(ops) + 1] = o /\ Len(ops) \in Nat
  BY AppendProperties
<1>2. ASSUME NEW i \in 1..Len(Append(ops, o)), Append(ops, o)[i].op = "candidate",
             o.op # "candidate"
      PROVE  HasCandidate(ops)
  <2>1. i \in 1..Len(ops) BY <1>1, <1>2
  <2> QED BY <1>1, <1>2, <2>1 DEF HasCandidate
<1> QED BY <1>1, <1>2 DEF HasCandidate

\* The first of those under way is settled.
LEMMA Settled ==
  ASSUME NEW ops \in Seq(Operation), ops # <<>>
  PROVE  /\ Head(ops) \in Operation /\ Tail(ops) \in Seq(Operation)
         /\ HasCandidate(Tail(ops)) => HasCandidate(ops)
         /\ Head(ops).op = "candidate" => HasCandidate(ops)
<1>1. /\ Len(ops) \in Nat \ {0} /\ Head(ops) = ops[1] /\ ops[1] \in Operation
      /\ Tail(ops) \in Seq(Operation) /\ Len(Tail(ops)) = Len(ops) - 1
      /\ \A i \in 1..Len(Tail(ops)) : Tail(ops)[i] = ops[i + 1]
  BY HeadTailProperties, EmptySeq
<1>2. ASSUME NEW i \in 1..Len(Tail(ops)), Tail(ops)[i].op = "candidate"
      PROVE  HasCandidate(ops)
  <2>1. i + 1 \in 1..Len(ops) BY <1>1
  <2> QED BY <1>1, <1>2, <2>1 DEF HasCandidate
<1>3. Head(ops).op = "candidate" => HasCandidate(ops)
  <2>1. 1 \in 1..Len(ops) BY <1>1
  <2> QED BY <1>1, <2>1 DEF HasCandidate
<1>4. HasCandidate(Tail(ops)) => HasCandidate(ops) BY <1>2 DEF HasCandidate
<1> QED BY <1>1, <1>3, <1>4

\* The operations the page asks for.
LEMMA OpIsOperation ==
  ASSUME NEW name \in DOMAIN Accepted
  PROVE  Op(name) \in Operation /\ Op(name).op # "candidate" /\ Op(name).left = {}
BY DEF Accepted, Op, Operation

LEMMA FlushIsOperation ==
  ASSUME NEW left \in SUBSET Nat, left # {}, NEW answer \in BOOLEAN
  PROVE  /\ Flush(left, answer) \in Operation /\ Flush(left, answer).op = "candidate"
         /\ Flush(left, answer).left = left
<1>1. Flush(left, answer) \in [op : {"candidate"}, left : (SUBSET Nat) \ {{}}, answer : BOOLEAN]
  BY DEF Flush
<1> QED BY <1>1 DEF Flush, Operation

\* Only a flush has candidates left.
LEMMA OperationFields ==
  ASSUME NEW o \in Operation
  PROVE  /\ o.op # "candidate" => o.left = {}
         /\ o.left \in SUBSET Nat /\ o.answer \in BOOLEAN
<1>1. CASE o \in [op : DOMAIN Accepted, left : {{}}, answer : {FALSE}]
  BY <1>1
<1>2. CASE o \in [op : {"candidate"}, left : (SUBSET Nat) \ {{}}, answer : BOOLEAN]
  BY <1>2
<1> QED BY <1>1, <1>2 DEF Operation

-----------------------------------------------------------------------------
(* Where the candidates 1..n are: with an operation of ops, or in one of   *)
(* the sets `in' (added) and `queue'; each in one place only.              *)

InChain(ops) == UNION {ops[i].left : i \in 1..Len(ops)}

Placed(ops, in, queue, n) ==
  /\ 1..n = in \cup queue \cup InChain(ops)
  /\ in \cap queue = {}
  /\ \A i \in 1..Len(ops) :
        /\ ops[i].left \cap (in \cup queue) = {}
        /\ \A j \in 1..Len(ops) : i # j => ops[i].left \cap ops[j].left = {}

\* An operation takes candidates from the queue, or none.
LEMMA Taken ==
  ASSUME NEW ops \in Seq(Operation), NEW in, NEW queue, NEW n, Placed(ops, in, queue, n),
         NEW o \in Operation, o.left \subseteq queue
  PROVE  Placed(Append(ops, o), in, queue \ o.left, n)
<1> DEFINE more == Append(ops, o)
<1>1. /\ Len(more) = Len(ops) + 1 /\ Len(ops) \in Nat
      /\ \A i \in 1..Len(ops) : more[i] = ops[i]
      /\ more[Len(ops) + 1] = o
  BY AppendProperties
<1>2. \A i \in 1..Len(more) : i \in 1..Len(ops) \/ i = Len(ops) + 1
  BY <1>1
<1>3. 1..Len(ops) \subseteq 1..Len(more) /\ Len(ops) + 1 \in 1..Len(more)
  BY <1>1
<1> HIDE DEF more
<1>4. InChain(more) = InChain(ops) \cup o.left
  BY <1>1, <1>2, <1>3 DEF InChain
<1>5. 1..n = in \cup (queue \ o.left) \cup InChain(more)
  BY <1>4 DEF Placed
<1>6. ASSUME NEW i \in 1..Len(more)
      PROVE  /\ more[i].left \cap (in \cup (queue \ o.left)) = {}
             /\ \A j \in 1..Len(more) : i # j => more[i].left \cap more[j].left = {}
  BY <1>1, <1>2 DEF Placed
<1>7. Placed(more, in, queue \ o.left, n) BY <1>5, <1>6 DEF Placed
<1> QED BY <1>7 DEF more

\* The first operation is settled, and its candidates come to be elsewhere.
LEMMA GivenBack ==
  ASSUME NEW ops \in Seq(Operation), ops # <<>>, NEW in, NEW queue, NEW n,
         Placed(ops, in, queue, n), NEW in2, NEW queue2, in2 \cap queue2 = {},
         in2 \cup queue2 = in \cup queue \cup Head(ops).left
  PROVE  Placed(Tail(ops), in2, queue2, n)
<1> DEFINE less == Tail(ops)
<1>1. /\ Len(ops) \in Nat \ {0} /\ Head(ops) = ops[1] /\ Len(less) = Len(ops) - 1
      /\ \A i \in 1..Len(less) : less[i] = ops[i + 1]
  BY HeadTailProperties, EmptySeq
<1>2. \A i \in 1..Len(less) : i + 1 \in 1..Len(ops) /\ i + 1 # 1
  BY <1>1
<1>3. \A i \in 1..Len(ops) : i = 1 \/ (i - 1 \in 1..Len(less) /\ ops[i] = less[i - 1])
  BY <1>1
<1>4. 1 \in 1..Len(ops) BY <1>1
<1> HIDE DEF less
<1>5. InChain(ops) = InChain(less) \cup ops[1].left
  <2>1. ASSUME NEW c \in InChain(ops) PROVE c \in InChain(less) \cup ops[1].left
    <3>1. PICK i \in 1..Len(ops) : c \in ops[i].left BY DEF InChain
    <3>2. CASE i = 1 BY <3>1, <3>2
    <3>3. CASE i # 1
      <4>1. i - 1 \in 1..Len(less) /\ c \in less[i - 1].left BY <1>3, <3>1, <3>3
      <4> QED BY <4>1 DEF InChain
    <3> QED BY <3>2, <3>3
  <2>2. ASSUME NEW c \in InChain(less) PROVE c \in InChain(ops)
    <3>1. PICK i \in 1..Len(less) : c \in less[i].left BY DEF InChain
    <3>2. i + 1 \in 1..Len(ops) /\ c \in ops[i + 1].left BY <1>1, <1>2, <3>1
    <3> QED BY <3>2 DEF InChain
  <2>3. ops[1].left \subseteq InChain(ops) BY <1>4 DEF InChain
  <2> QED BY <2>1, <2>2, <2>3
<1>6. 1..n = in2 \cup queue2 \cup InChain(less)
  BY <1>1, <1>5 DEF Placed
<1>7. ASSUME NEW i \in 1..Len(less)
      PROVE  /\ less[i].left \cap (in2 \cup queue2) = {}
             /\ \A j \in 1..Len(less) : i # j => less[i].left \cap less[j].left = {}
  <2>1. less[i].left \cap (in \cup queue \cup ops[1].left) = {}
    BY <1>1, <1>2, <1>4 DEF Placed
  <2>2. ASSUME NEW j \in 1..Len(less), i # j PROVE less[i].left \cap less[j].left = {}
    <3>1. i + 1 # j + 1 BY <2>2
    <3> QED BY <1>1, <1>2, <3>1 DEF Placed
  <2> QED BY <1>1, <2>1, <2>2
<1>8. Placed(less, in2, queue2, n) BY <1>6, <1>7 DEF Placed
<1> QED BY <1>8 DEF less

\* The next candidate comes in, and is queued.
LEMMA Queued ==
  ASSUME NEW ops, NEW in, NEW queue, NEW n \in Nat, Placed(ops, in, queue, n)
  PROVE  Placed(ops, in, queue \cup {n + 1}, n + 1)
<1>1. 1..(n + 1) = 1..n \cup {n + 1} /\ n + 1 \notin 1..n OBVIOUS
<1>2. n + 1 \notin in \cup queue /\ n + 1 \notin InChain(ops) BY <1>1 DEF Placed
<1>3. \A i \in 1..Len(ops) : n + 1 \notin ops[i].left BY <1>2 DEF InChain
<1>4. 1..(n + 1) = in \cup (queue \cup {n + 1}) \cup InChain(ops) BY <1>1 DEF Placed
<1>5. in \cap (queue \cup {n + 1}) = {} BY <1>2 DEF Placed
<1>6. ASSUME NEW i \in 1..Len(ops)
      PROVE  ops[i].left \cap (in \cup (queue \cup {n + 1})) = {}
  BY <1>3 DEF Placed
<1> QED BY <1>4, <1>5, <1>6 DEF Placed

\* The page asks for an operation without candidates, or for one with some of the
\* queue.
LEMMA DescriptionAsked ==
  ASSUME NEW ops \in Seq(Operation), NEW in, NEW queue, NEW n, Placed(ops, in, queue, n),
         NEW name \in DOMAIN Accepted
  PROVE  /\ Append(ops, Op(name)) \in Seq(Operation)
         /\ HasCandidate(Append(ops, Op(name))) => HasCandidate(ops)
         /\ Placed(Append(ops, Op(name)), in, queue, n)
<1> DEFINE o == Op(name)
<1>1. o \in Operation /\ o.op # "candidate" /\ o.left = {} BY OpIsOperation
<1>2. o.left \subseteq queue /\ queue \ o.left = queue BY <1>1
<1> HIDE DEF o
<1>3. Placed(Append(ops, o), in, queue \ o.left, n) BY <1>1, <1>2, Taken
<1>4. Append(ops, o) \in Seq(Operation) /\ (HasCandidate(Append(ops, o)) => HasCandidate(ops))
  BY <1>1, Appended
<1> QED BY <1>2, <1>3, <1>4 DEF o

LEMMA FlushAsked ==
  ASSUME NEW ops \in Seq(Operation), NEW in, NEW queue, NEW n, Placed(ops, in, queue, n),
         NEW left \in SUBSET Nat, left # {}, left \subseteq queue, NEW answer \in BOOLEAN
  PROVE  /\ Append(ops, Flush(left, answer)) \in Seq(Operation)
         /\ Placed(Append(ops, Flush(left, answer)), in, queue \ left, n)
<1> DEFINE o == Flush(left, answer)
<1>1. o \in Operation /\ o.left = left BY FlushIsOperation
<1> HIDE DEF o
<1>2. Placed(Append(ops, o), in, queue \ o.left, n) BY <1>1, Taken
<1>3. Append(ops, o) \in Seq(Operation) BY <1>1, Appended
<1> QED BY <1>1, <1>2, <1>3 DEF o

\* What the property says of the page's variables.
LEMMA PlacedNow ==
  /\ NoCandidateLost <=> /\ Placed(chain, added, pendingRemoteCandidates, sent)
                         /\ isRemoteDescriptionSet => pendingRemoteCandidates = {}
  /\ NoCandidateLost' <=> /\ Placed(chain', added', pendingRemoteCandidates', sent')
                          /\ isRemoteDescriptionSet' => pendingRemoteCandidates' = {}
BY DEF NoCandidateLost, Placed, InChain

-----------------------------------------------------------------------------
\* The player closes its connection: what it remembered goes with it.
LEMMA ClosePreserves ==
  ASSUME DisplayInv, close, websocket' \in {"open", "closed"}, offerTimer' \in BOOLEAN,
         websocket' = websocket \/ websocket' = "closed" 
  PROVE  DisplayInv'
<1>1. TypeOK /\ UNCHANGED <<players, controlDataChannel, signalingState, described>>
  BY DEF DisplayInv, close, player
<1>2. /\ peerConnection' = FALSE /\ isRemoteDescriptionSet' = FALSE
      /\ pendingRemoteCandidates' = {} /\ chain' = <<>>
      /\ channel' \in {"none", "closed"} /\ sent' \in Nat /\ added' = 1..sent'
      /\ added' # {} => described'
  <2>1. CASE peerConnection
    BY <2>1, <1>1 DEF TypeOK, close
  <2>2. CASE ~peerConnection
    <3>1. added = 1..sent
      <4>1. /\ Placed(chain, added, pendingRemoteCandidates, sent)
            /\ pendingRemoteCandidates = {} /\ Len(chain) = 0
        BY <1>1, <2>2, PlacedNow DEF DisplayInv, TypeOK
      <4>2. InChain(chain) = {} BY <4>1 DEF InChain
      <4> QED BY <4>1, <4>2 DEF Placed
    <3> QED BY <2>2, <1>1, <3>1 DEF TypeOK, close, player, DisplayInv, NoCandidateTooEarly,
                                    SocketOutlivesConnection
  <2> QED BY <2>1, <2>2
<1>3. chain' \in Seq(Operation) /\ Len(chain') = 0 BY <1>2
<1>4. TypeOK' BY <1>1, <1>2, <1>3 DEF TypeOK
<1>5. NoCandidateTooEarly' BY <1>2, <1>3 DEF NoCandidateTooEarly
<1>6. (FlagMeansDescribed /\ CommandsNeedSignaling /\ SocketOutlivesConnection)'
  BY <1>2 DEF FlagMeansDescribed, CommandsNeedSignaling, SocketOutlivesConnection, CanSend
<1>7. NoCandidateLost' BY <1>2, <1>3 DEF NoCandidateLost
<1> QED BY <1>4, <1>5, <1>6, <1>7 DEF DisplayInv

\* The connection settles an operation, or is asked for one, and the player, its
\* channel and the socket stay: the chain holds candidates only of a connection
\* that is described.
LEMMA ChainPreserves ==
  ASSUME DisplayInv, peerConnection,
         UNCHANGED <<websocket, players, controlDataChannel, peerConnection, channel>>,
         offerTimer' \in BOOLEAN,
         signalingState' \in {"stable", "have-local-offer", "have-remote-offer"},
         isRemoteDescriptionSet' \in BOOLEAN, described' \in BOOLEAN,
         sent' \in Nat, chain' \in Seq(Operation),
         Placed(chain', added', pendingRemoteCandidates', sent'),
         HasCandidate(chain') => described',
         added' # {} => described',
         isRemoteDescriptionSet' => described' /\ pendingRemoteCandidates' = {}
  PROVE  DisplayInv'
<1>1. TypeOK' BY DEF DisplayInv, TypeOK, Placed
<1>2. NoCandidateTooEarly' BY DEF NoCandidateTooEarly, HasCandidate
<1>3. FlagMeansDescribed' BY DEF FlagMeansDescribed
<1>4. (CommandsNeedSignaling /\ SocketOutlivesConnection)'
  BY DEF DisplayInv, CommandsNeedSignaling, SocketOutlivesConnection, CanSend
<1>5. NoCandidateLost' BY PlacedNow
<1> QED BY <1>1, <1>2, <1>3, <1>4, <1>5 DEF DisplayInv

\* The connection is asked for one more operation.
LEMMA CallPreserves ==
  ASSUME DisplayInv, peerConnection, NEW o \in Operation, Calls(o),
         o.op = "candidate" => described,
         UNCHANGED <<websocket, players, controlDataChannel, peerConnection, channel,
                     signalingState, isRemoteDescriptionSet, described, added>>,
         offerTimer' \in BOOLEAN, sent' \in Nat,
         NEW queue, Placed(chain, added, queue, sent'), o.left \subseteq queue,
         pendingRemoteCandidates' = queue \ o.left,
         isRemoteDescriptionSet => queue \subseteq o.left
  PROVE  DisplayInv'
<1>1. TypeOK /\ chain \in Seq(Operation) /\ chain' = Append(chain, o)
  BY DEF DisplayInv, TypeOK, Calls
<1>2. HasCandidate(chain) => described
  BY DEF DisplayInv, NoCandidateTooEarly, HasCandidate
<1>3. chain' \in Seq(Operation) /\ (HasCandidate(chain') => described')
  BY <1>1, <1>2, Appended
<1>4. /\ added' # {} => described'
      /\ isRemoteDescriptionSet' => described' /\ pendingRemoteCandidates' = {}
  BY DEF DisplayInv, NoCandidateTooEarly, FlagMeansDescribed
<1>5. Placed(chain', added', pendingRemoteCandidates', sent')
  BY <1>1, Taken
<1> QED BY <1>1, <1>3, <1>4, <1>5, ChainPreserves DEF TypeOK

\* The connection is asked for an operation without a candidate.
LEMMA DescriptionPreserves ==
  ASSUME DisplayInv, peerConnection, NEW name \in DOMAIN Accepted, Calls(Op(name)),
         UNCHANGED <<websocket, players, controlDataChannel, peerConnection, channel,
                     signalingState, isRemoteDescriptionSet, pendingRemoteCandidates,
                     described, sent, added>>,
         offerTimer' \in BOOLEAN
  PROVE  DisplayInv'
<1> DEFINE o == Op(name)
<1>1. o \in Operation /\ o.op # "candidate" /\ o.left = {} BY OpIsOperation
<1>2. /\ Placed(chain, added, pendingRemoteCandidates, sent')
      /\ isRemoteDescriptionSet => pendingRemoteCandidates = {}
      /\ sent' \in Nat
  BY PlacedNow DEF DisplayInv, TypeOK
<1>3. /\ o.left \subseteq pendingRemoteCandidates
      /\ pendingRemoteCandidates' = pendingRemoteCandidates \ o.left
      /\ isRemoteDescriptionSet => pendingRemoteCandidates \subseteq o.left
  BY <1>1, <1>2
<1>4. Calls(o) OBVIOUS
<1> HIDE DEF o
<1> QED BY <1>1, <1>2, <1>3, <1>4, CallPreserves

\* What holds while an operation of the connection is under way.
LEMMA UnderWay ==
  ASSUME DisplayInv, chain # <<>>
  PROVE  /\ TypeOK /\ peerConnection /\ chain \in Seq(Operation)
         /\ Head(chain) \in Operation /\ Tail(chain) \in Seq(Operation)
         /\ HasCandidate(Tail(chain)) => described
         /\ Head(chain).op = "candidate" => described
         /\ added # {} => described
         /\ isRemoteDescriptionSet => described /\ pendingRemoteCandidates = {}
         /\ Placed(chain, added, pendingRemoteCandidates, sent)
<1>1. TypeOK /\ peerConnection /\ chain \in Seq(Operation)
  BY DEF DisplayInv, TypeOK
<1>2. HasCandidate(chain) => described
  BY DEF DisplayInv, NoCandidateTooEarly, HasCandidate
<1>3. (added # {} => described) /\ (isRemoteDescriptionSet => described)
  BY DEF DisplayInv, NoCandidateTooEarly, FlagMeansDescribed
<1>4. /\ Placed(chain, added, pendingRemoteCandidates, sent)
      /\ isRemoteDescriptionSet => pendingRemoteCandidates = {}
  BY PlacedNow DEF DisplayInv
<1> QED BY <1>1, <1>2, <1>3, <1>4, Settled

\* An operation without a candidate is settled.
LEMMA OthersStay ==
  ASSUME DisplayInv, chain # <<>>, Head(chain).op # "candidate"
  PROVE  Placed(Tail(chain), added, pendingRemoteCandidates, sent)
<1>1. /\ Head(chain) \in Operation /\ chain \in Seq(Operation)
      /\ Placed(chain, added, pendingRemoteCandidates, sent)
  BY UnderWay
<1>2. Head(chain).left = {} BY <1>1, OperationFields
<1>3. /\ added \cap pendingRemoteCandidates = {}
      /\ added \cup pendingRemoteCandidates
           = added \cup pendingRemoteCandidates \cup Head(chain).left
  BY <1>1, <1>2 DEF Placed
<1> QED BY <1>1, <1>3, GivenBack

LEMMA RejectsPreserves ==
  ASSUME DisplayInv, Rejects
  PROVE  DisplayInv'
BY UnderWay, OthersStay, ChainPreserves DEF Rejects, TypeOK

\* A candidate is given to the connection by one path or the other, and then it
\* is described already.
LEMMA AddsPreserves ==
  ASSUME DisplayInv, Adds
  PROVE  DisplayInv'
<1>1. /\ TypeOK /\ peerConnection /\ Head(chain) \in Operation /\ described
      /\ Tail(chain) \in Seq(Operation) /\ chain \in Seq(Operation) /\ chain # <<>>
      /\ Placed(chain, added, pendingRemoteCandidates, sent)
      /\ isRemoteDescriptionSet => pendingRemoteCandidates = {}
      /\ Head(chain).op = "candidate"
  BY UnderWay DEF Adds
<1>2. PICK c \in Head(chain).left : added' = added \cup {c} /\
        LET rest == Head(chain).left \ {c} IN
          chain' = IF rest # {} THEN Append(Tail(chain), Flush(rest, Head(chain).answer))
                   ELSE IF Head(chain).answer THEN Append(Tail(chain), Op("createAnswer"))
                   ELSE Tail(chain)
  BY DEF Adds
<1> DEFINE rest == Head(chain).left \ {c}
<1>3. /\ rest \in SUBSET Nat /\ Head(chain).answer \in BOOLEAN
      /\ Head(chain).left \cap (added \cup pendingRemoteCandidates) = {}
      /\ added \cap pendingRemoteCandidates = {}
  <2>1. Head(chain) = chain[1] /\ 1 \in 1..Len(chain)
    BY <1>1, HeadTailProperties, EmptySeq
  <2>2. Head(chain).left \in SUBSET Nat /\ Head(chain).answer \in BOOLEAN
    BY <1>1, OperationFields
  <2> QED BY <1>1, <2>1, <2>2 DEF Placed
<1>4. /\ UNCHANGED <<websocket, offerTimer, players, controlDataChannel, peerConnection,
                     isRemoteDescriptionSet, pendingRemoteCandidates, signalingState,
                     described, channel, sent>>
      /\ added' = added \cup {c}
      /\ rest # {} => chain' = Append(Tail(chain), Flush(rest, Head(chain).answer))
      /\ rest = {} => chain' \in {Append(Tail(chain), Op("createAnswer")), Tail(chain)}
  BY <1>2 DEF Adds
<1>5. Placed(Tail(chain), added', pendingRemoteCandidates \cup rest, sent)
  <2>1. /\ added' \cap (pendingRemoteCandidates \cup rest) = {}
        /\ added' \cup (pendingRemoteCandidates \cup rest)
             = added \cup pendingRemoteCandidates \cup Head(chain).left
    BY <1>2, <1>3, <1>4
  <2> HIDE DEF rest
  <2> QED BY <1>1, <2>1, GivenBack
<1>6. (pendingRemoteCandidates \cup rest) \ rest = pendingRemoteCandidates
  BY <1>3
<1> HIDE DEF rest
<1>7. chain' \in Seq(Operation) /\ Placed(chain', added', pendingRemoteCandidates, sent)
  <2>1. CASE rest # {}
    <3>1. chain' = Append(Tail(chain), Flush(rest, Head(chain).answer)) BY <1>4, <2>1
    <3>2. rest \subseteq pendingRemoteCandidates \cup rest OBVIOUS
    <3>3. /\ Append(Tail(chain), Flush(rest, Head(chain).answer)) \in Seq(Operation)
          /\ Placed(Append(Tail(chain), Flush(rest, Head(chain).answer)), added',
                    (pendingRemoteCandidates \cup rest) \ rest, sent)
      BY <1>1, <1>3, <1>5, <2>1, <3>2, FlushAsked
    <3> QED BY <1>6, <3>1, <3>3
  <2>2. CASE rest = {} /\ chain' = Append(Tail(chain), Op("createAnswer"))
    <3>1. "createAnswer" \in DOMAIN Accepted BY DEF Accepted
    <3>2. pendingRemoteCandidates \cup rest = pendingRemoteCandidates BY <2>2
    <3> QED BY <1>1, <1>5, <2>2, <3>1, <3>2, DescriptionAsked
  <2>3. CASE rest = {} /\ chain' = Tail(chain)
    BY <1>1, <1>5, <2>3
  <2> QED BY <1>4, <2>1, <2>2, <2>3
<1> QED BY <1>1, <1>4, <1>7, ChainPreserves DEF TypeOK, DisplayInv, FlagMeansDescribed

\* Either the connection gets its description, and all it is given after that
\* is in time, or no candidate is asked for.
LEMMA ResolvesPreserves ==
  ASSUME DisplayInv, Resolves
  PROVE  DisplayInv'
<1> DEFINE op == Head(chain).op
<1>1. /\ TypeOK /\ peerConnection /\ Tail(chain) \in Seq(Operation)
      /\ HasCandidate(Tail(chain)) => described
      /\ added # {} => described
      /\ isRemoteDescriptionSet => described /\ pendingRemoteCandidates = {}
      /\ Placed(Tail(chain), added, pendingRemoteCandidates, sent)
  BY UnderWay, OthersStay DEF Resolves
<1>2. UNCHANGED <<websocket, offerTimer, players, controlDataChannel, peerConnection,
                  channel, sent, added>>
  BY DEF Resolves
<1>3. signalingState' \in {"stable", "have-local-offer", "have-remote-offer"}
  BY <1>1 DEF Resolves, After, TypeOK
<1>4. CASE op \in {"setRemoteOffer", "setRemoteAnswer"}
  <2>1. described' = TRUE /\ Flushing(op = "setRemoteOffer")
    BY <1>4 DEF Resolves
  <2>2. chain' \in Seq(Operation) /\ Placed(chain', added, {}, sent)
    <3>1. CASE pendingRemoteCandidates # {}
      <4>1. PICK answer \in BOOLEAN :
              chain' = Append(Tail(chain), Flush(pendingRemoteCandidates, answer))
        <5>1. chain' = Append(Tail(chain), Flush(pendingRemoteCandidates, op = "setRemoteOffer"))
          BY <2>1, <3>1 DEF Flushing
        <5>2. (op = "setRemoteOffer") \in BOOLEAN OBVIOUS
        <5> QED BY <5>1, <5>2, Zenon
      <4>2. pendingRemoteCandidates \in SUBSET Nat BY <1>1 DEF TypeOK
      <4>3. pendingRemoteCandidates \subseteq pendingRemoteCandidates
            /\ pendingRemoteCandidates \ pendingRemoteCandidates = {}
        OBVIOUS
      <4>4. /\ Append(Tail(chain), Flush(pendingRemoteCandidates, answer)) \in Seq(Operation)
            /\ Placed(Append(Tail(chain), Flush(pendingRemoteCandidates, answer)), added,
                      pendingRemoteCandidates \ pendingRemoteCandidates, sent)
        BY <1>1, <3>1, <4>2, <4>3, FlushAsked
      <4> QED BY <4>1, <4>3, <4>4
    <3>2. CASE pendingRemoteCandidates = {}
      <4>1. chain' \in {Append(Tail(chain), Op("createAnswer")), Tail(chain)}
        BY <2>1, <3>2 DEF Flushing
      <4>2. "createAnswer" \in DOMAIN Accepted BY DEF Accepted
      <4> QED BY <1>1, <3>2, <4>1, <4>2, DescriptionAsked
    <3> QED BY <3>1, <3>2
  <2>3. isRemoteDescriptionSet' = TRUE /\ pendingRemoteCandidates' = {}
    BY <2>1 DEF Flushing
  <2> HIDE DEF op
  <2> QED BY <1>1, <1>2, <1>3, <2>1, <2>2, <2>3, ChainPreserves DEF TypeOK
<1>5. CASE op \notin {"setRemoteOffer", "setRemoteAnswer"}
  <2>1. /\ UNCHANGED <<described, isRemoteDescriptionSet, pendingRemoteCandidates>>
        /\ chain' = CASE op = "createOffer"  -> Append(Tail(chain), Op("setLocalOffer"))
                      [] op = "createAnswer" -> Append(Tail(chain), Op("setLocalAnswer"))
                      [] OTHER -> Tail(chain)
    BY <1>5 DEF Resolves
  <2>2. "setLocalOffer" \in DOMAIN Accepted /\ "setLocalAnswer" \in DOMAIN Accepted
    BY DEF Accepted
  <2>3. chain' \in {Append(Tail(chain), Op("setLocalOffer")),
                    Append(Tail(chain), Op("setLocalAnswer")), Tail(chain)}
    BY <2>1
  <2>4. /\ chain' \in Seq(Operation) /\ (HasCandidate(chain') => described)
        /\ Placed(chain', added, pendingRemoteCandidates, sent)
    BY <1>1, <2>2, <2>3, DescriptionAsked
  <2> HIDE DEF op
  <2> QED BY <1>1, <1>2, <1>3, <2>1, <2>4, ChainPreserves DEF TypeOK
<1> QED BY <1>4, <1>5

\* A candidate comes in: directly to a connection that is described, or to the
\* queue.
LEMMA CandidatePreserves ==
  ASSUME DisplayInv, peerConnection, addIceCandidate,
         UNCHANGED <<websocket, offerTimer, players, controlDataChannel>>
  PROVE  DisplayInv'
<1>1. /\ TypeOK /\ sent \in Nat /\ sent' = sent + 1
      /\ UNCHANGED <<peerConnection, isRemoteDescriptionSet, signalingState, described,
                     channel, added>>
  BY DEF DisplayInv, TypeOK, addIceCandidate
<1> DEFINE queue == pendingRemoteCandidates \cup {sent + 1}
<1>2. /\ Placed(chain, added, queue, sent')
      /\ isRemoteDescriptionSet => pendingRemoteCandidates = {}
  <2>1. /\ Placed(chain, added, pendingRemoteCandidates, sent)
        /\ isRemoteDescriptionSet => pendingRemoteCandidates = {}
    BY PlacedNow DEF DisplayInv
  <2> QED BY <1>1, <2>1, Queued
<1>3. CASE isRemoteDescriptionSet
  <2> DEFINE o == Flush({sent + 1}, FALSE)
  <2>1. o \in Operation /\ o.left = {sent + 1}
    <3>1. {sent + 1} \in SUBSET Nat /\ {sent + 1} # {} BY <1>1
    <3> QED BY <3>1, FlushIsOperation
  <2>2. described BY <1>3 DEF DisplayInv, FlagMeansDescribed
  <2>3. Calls(o) /\ UNCHANGED pendingRemoteCandidates BY <1>3 DEF addIceCandidate
  <2>4. /\ o.left \subseteq queue /\ queue \subseteq o.left
        /\ pendingRemoteCandidates' = queue \ o.left
    BY <1>2, <1>3, <2>1, <2>3
  <2>5. offerTimer' \in BOOLEAN /\ sent' \in Nat BY <1>1 DEF TypeOK
  <2> HIDE DEF o, queue
  <2>6. /\ UNCHANGED <<websocket, players, controlDataChannel, peerConnection, channel,
                       signalingState, isRemoteDescriptionSet, described, added>>
        /\ isRemoteDescriptionSet => queue \subseteq o.left
    BY <1>1, <2>4
  <2> QED BY <1>2, <2>1, <2>2, <2>3, <2>4, <2>5, <2>6, CallPreserves
<1>4. CASE ~isRemoteDescriptionSet
  <2>1. pendingRemoteCandidates' = queue /\ UNCHANGED chain
    BY <1>4 DEF addIceCandidate
  <2>2. /\ HasCandidate(chain) => described
        /\ added # {} => described
    BY DEF DisplayInv, NoCandidateTooEarly, HasCandidate
  <2> HIDE DEF queue
  <2> QED BY <1>1, <1>2, <1>4, <2>1, <2>2, ChainPreserves DEF TypeOK
<1> QED BY <1>3, <1>4

\* A player is made while the socket opens, with nothing of the last one.
LEMMA OnopenPreserves ==
  ASSUME DisplayInv, onopen
  PROVE  DisplayInv'
<1>1. /\ TypeOK /\ websocket' = "open" /\ offerTimer' = TRUE /\ UNCHANGED controlDataChannel
      /\ websocket = "connecting" /\ ~peerConnection
  BY DEF onopen, DisplayInv, SocketOutlivesConnection
<1>2. newVideoPlayer BY <1>1 DEF onopen, initWebRTC
<1>3. /\ players' = players + 1 /\ peerConnection' \in BOOLEAN
      /\ isRemoteDescriptionSet' = FALSE /\ pendingRemoteCandidates' = {}
      /\ signalingState' = "stable" /\ described' = FALSE /\ chain' = <<>>
      /\ sent' = 0 /\ added' = {}
      /\ channel' \in {"none", "connecting"}
      /\ channel' = "connecting" => peerConnection'
  BY <1>2 DEF newVideoPlayer
<1>4. chain' \in Seq(Operation) /\ Len(chain') = 0 BY <1>3
<1>5. controlDataChannel' \in 0..players' BY <1>1, <1>3 DEF TypeOK
<1>6. TypeOK'
  <2>1. /\ players' \in Nat /\ sent' \in Nat /\ added' \subseteq 1..sent'
        /\ pendingRemoteCandidates' \subseteq 1..sent'
    BY <1>1, <1>3 DEF TypeOK
  <2>2. chain' \in Seq(Operation) BY <1>4
  <2> QED BY <1>1, <1>3, <1>5, <2>1, <2>2, Zenon DEF TypeOK
<1>7. NoCandidateTooEarly' BY <1>3, <1>4 DEF NoCandidateTooEarly
<1>8. (FlagMeansDescribed /\ CommandsNeedSignaling /\ SocketOutlivesConnection)'
  BY <1>1, <1>3 DEF FlagMeansDescribed, CommandsNeedSignaling, SocketOutlivesConnection, CanSend
<1>9. NoCandidateLost' BY <1>3, <1>4 DEF NoCandidateLost
<1> QED BY <1>6, <1>7, <1>8, <1>9 DEF DisplayInv

\* The control channel opens or is closed by the other side.
LEMMA ChannelPreserves ==
  ASSUME DisplayInv, controlChannel_onopen \/ controlChannel_onclose
  PROVE  DisplayInv'
<1>1. /\ TypeOK /\ peerConnection /\ channel' \in {"open", "closed"}
      /\ controlDataChannel' \in {0, players}
      /\ UNCHANGED <<websocket, offerTimer, players, peerConnection, isRemoteDescriptionSet,
                     pendingRemoteCandidates, signalingState, described, chain, sent, added>>
  BY DEF controlChannel_onopen, controlChannel_onclose, DisplayInv
<1>2. controlDataChannel' \in 0..players' BY <1>1 DEF TypeOK
<1>3. TypeOK' BY <1>1, <1>2 DEF TypeOK
<1>4. (NoCandidateTooEarly /\ FlagMeansDescribed)'
  BY <1>1 DEF DisplayInv, NoCandidateTooEarly, FlagMeansDescribed
<1>5. (CommandsNeedSignaling /\ SocketOutlivesConnection)'
  BY <1>1 DEF DisplayInv, CommandsNeedSignaling, SocketOutlivesConnection, CanSend
<1>6. NoCandidateLost' BY <1>1 DEF DisplayInv, NoCandidateLost
<1> QED BY <1>3, <1>4, <1>5, <1>6 DEF DisplayInv

\* The page asks for an offer when the timeout is over, if it still can.
LEMMA OfferTimerPreserves ==
  ASSUME DisplayInv, onOfferTimer
  PROVE  DisplayInv'
<1>1. /\ TypeOK /\ offerTimer' = FALSE
      /\ UNCHANGED <<websocket, players, controlDataChannel, peerConnection,
                     isRemoteDescriptionSet, pendingRemoteCandidates, signalingState,
                     described, channel, sent, added>>
  BY DEF onOfferTimer, DisplayInv
<1>2. CASE peerConnection
  <2>1. "createOffer" \in DOMAIN Accepted BY DEF Accepted
  <2>2. Calls(Op("createOffer")) BY <1>2 DEF onOfferTimer
  <2> QED BY <1>1, <1>2, <2>1, <2>2, DescriptionPreserves DEF TypeOK
<1>3. CASE ~peerConnection
  <2>1. UNCHANGED chain BY <1>3 DEF onOfferTimer
  <2>2. (TypeOK /\ NoCandidateTooEarly /\ FlagMeansDescribed)'
    BY <1>1, <2>1 DEF DisplayInv, TypeOK, NoCandidateTooEarly, FlagMeansDescribed
  <2>3. NoCandidateLost' BY <1>1, <2>1 DEF DisplayInv, NoCandidateLost
  <2>4. (CommandsNeedSignaling /\ SocketOutlivesConnection)'
    BY <1>1, <2>1 DEF DisplayInv, CommandsNeedSignaling, SocketOutlivesConnection, CanSend
  <2> QED BY <2>2, <2>3, <2>4 DEF DisplayInv
<1> QED BY <1>2, <1>3

\* A description or a candidate of the vehicle.
LEMMA MessagePreserves ==
  ASSUME DisplayInv, handleSignalingMessage
  PROVE  DisplayInv'
<1>1. /\ TypeOK /\ peerConnection
      /\ UNCHANGED <<websocket, offerTimer, players, controlDataChannel>>
  BY DEF handleSignalingMessage, DisplayInv
<1>2. CASE addIceCandidate
  BY <1>1, <1>2, CandidatePreserves
<1>3. ASSUME NEW name \in {"setRemoteOffer", "setRemoteAnswer"}, Calls(Op(name)),
             UNCHANGED <<peerConnection, isRemoteDescriptionSet, pendingRemoteCandidates,
                         signalingState, described, channel, sent, added>>
      PROVE  DisplayInv'
  <2>1. name \in DOMAIN Accepted BY DEF Accepted
  <2> QED BY <1>1, <1>3, <2>1, DescriptionPreserves DEF TypeOK
<1> QED BY <1>2, <1>3 DEF handleSignalingMessage

-----------------------------------------------------------------------------
LEMMA DisplayInit == Init => DisplayInv
<1> SUFFICES ASSUME Init PROVE DisplayInv OBVIOUS
<1>1. chain \in Seq(Operation) /\ Len(chain) = 0 BY DEF Init
<1>2. TypeOK
  <2>1. /\ players \in Nat /\ sent \in Nat /\ added \subseteq 1..sent
        /\ pendingRemoteCandidates \subseteq 1..sent /\ controlDataChannel \in 0..players
    BY DEF Init
  <2>2. chain \in Seq(Operation) BY <1>1
  <2> QED BY <2>1, <2>2, Zenon DEF Init, TypeOK
<1>3. NoCandidateLost BY <1>1 DEF Init, NoCandidateLost
<1> QED BY <1>1, <1>2, <1>3 DEF Init, DisplayInv, NoCandidateTooEarly, FlagMeansDescribed,
                                CommandsNeedSignaling, SocketOutlivesConnection, CanSend

LEMMA DisplayNext == DisplayInv /\ [Next]_vars => DisplayInv'
<1> SUFFICES ASSUME DisplayInv, [Next]_vars PROVE DisplayInv' OBVIOUS
<1>1. CASE connectWebSocket
  BY <1>1 DEF connectWebSocket, player, DisplayInv, TypeOK, NoCandidateTooEarly,
              FlagMeansDescribed, NoCandidateLost, CommandsNeedSignaling, SocketOutlivesConnection, CanSend
<1>2. CASE onopen BY <1>2, OnopenPreserves
<1>3. CASE onOfferTimer BY <1>3, OfferTimerPreserves
<1>4. CASE onclose
  <2>1. /\ close /\ websocket' = "closed" /\ offerTimer' \in BOOLEAN
    BY <1>4 DEF onclose, DisplayInv, TypeOK
  <2> QED BY <2>1, ClosePreserves
<1>5. CASE handleSignalingMessage BY <1>5, MessagePreserves
<1>6. CASE onLeave
  <2>1. close /\ websocket' = "open" /\ websocket' = websocket /\ offerTimer' \in BOOLEAN
    BY <1>6 DEF onLeave, DisplayInv, TypeOK
  <2> QED BY <2>1, ClosePreserves
<1>7. CASE controlChannel_onopen \/ controlChannel_onclose BY <1>7, ChannelPreserves
<1>8. CASE Rejects BY <1>8, RejectsPreserves
<1>9. CASE Resolves BY <1>9, ResolvesPreserves
<1>10. CASE Adds BY <1>10, AddsPreserves
<1>11. CASE oniceconnectionstatechange
  <2>1. close /\ websocket' = "open" /\ websocket' = websocket /\ offerTimer' \in BOOLEAN
    BY <1>11 DEF oniceconnectionstatechange, DisplayInv, TypeOK, SocketOutlivesConnection
  <2> QED BY <2>1, ClosePreserves
<1>12. CASE UNCHANGED vars
  BY <1>12 DEF vars, player, DisplayInv, TypeOK, NoCandidateTooEarly,
               FlagMeansDescribed, NoCandidateLost, CommandsNeedSignaling, SocketOutlivesConnection, CanSend
<1> QED BY <1>1, <1>2, <1>3, <1>4, <1>5, <1>6, <1>7, <1>8, <1>9, <1>10, <1>11, <1>12 DEF Next

\* The page preserves its invariant (app.js, video_player.js), for any number of
\* players, operations under way and candidates.
THEOREM DisplayIsSafe == Spec => []DisplayInv
<1>1. Init => DisplayInv BY DisplayInit
<1>2. DisplayInv /\ [Next]_vars => DisplayInv' BY DisplayNext
<1> QED BY <1>1, <1>2, PTL DEF Spec

\* No candidate is given to a connection without a remote description
\* (video_player.js, addIceCandidate and setRemoteDescription).
THEOREM CandidatesComeInTime == Spec => []NoCandidateTooEarly
<1>1. DisplayInv => NoCandidateTooEarly BY DEF DisplayInv
<1> QED BY <1>1, DisplayIsSafe, PTL

\* No candidate is lost or given twice, however the queue is flushed and whatever
\* comes in between two of its awaits (video_player.js, flushPendingRemoteCandidates).
THEOREM CandidatesAreNotLost == Spec => []NoCandidateLost
<1>1. DisplayInv => NoCandidateLost BY DEF DisplayInv
<1> QED BY <1>1, DisplayIsSafe, PTL

\* No command is sent without the signaling connection and a player's connection
\* (app.js, onclose and sendControlCommand).
THEOREM CommandsWithSignaling == Spec => []CommandsNeedSignaling
<1>1. DisplayInv => CommandsNeedSignaling BY DEF DisplayInv
<1> QED BY <1>1, DisplayIsSafe, PTL
=============================================================================
