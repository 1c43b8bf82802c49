------------------------- MODULE WebrtcManagerProofs -------------------------
(***************************************************************************)
(* Proofs about module WebrtcManager, for any number of peers, threads,    *)
(* connections and candidates, wired or not.  The operations on the maps   *)
(* are functions of one value, so they are proved about as such (Sound,    *)
(* Follows); ManagerInv adds who may change them when.                     *)
(***************************************************************************)
EXTENDS WebrtcManager, SequenceTheorems, TLAPS

\* What the maps are: the value of Maps.
MapsValue == [map : [Peers -> Nat], described : SUBSET Peers, pending : [Peers -> Nat],
              pcs : Seq(Pc)]

\* A connection in the map and what the other maps say of its peer: whether it
\* is described, and how many candidates wait.
Agrees(pc, s, p) ==
  /\ p \in s.described => pc.desc
  /\ pc.desc => p \in s.described \/ pc.conn = "closed"
  /\ pc.conn # "closed" => pc.added + s.pending[p] = pc.sent /\ (pc.desc => s.pending[p] = 0)

Sound(s) ==
  /\ s \in MapsValue
  /\ \A p \in Peers : s.map[p] # 0 =>
        /\ s.map[p] \in 1..Len(s.pcs) /\ s.pcs[s.map[p]].peer = p
        /\ Agrees(s.pcs[s.map[p]], s, p)
  /\ \A c \in 1..Len(s.pcs) : s.pcs[c].added > 0 => s.pcs[c].desc

\* A peer without a connection left nothing behind.
Clean(s) == \A p \in Peers : s.map[p] = 0 => p \notin s.described /\ s.pending[p] = 0

\* An open connection is that of its peer in the map.
Mapped(s) ==
  \A c \in 1..Len(s.pcs) : s.pcs[c].conn # "closed" => s.map[s.pcs[c].peer] = c

\* From s the maps become r.
Follows(s, r) ==
  /\ Sound(r)
  /\ Mapped(s) => Mapped(r)
  /\ Clean(s) => Clean(r)
  /\ wired \/ (s.pcs = <<>> => r.pcs = <<>>)

\* No entry goes.
Keeps(s, r) == \A p \in Peers : s.map[p] # 0 => r.map[p] # 0

-----------------------------------------------------------------------------
(* Three ways in which the maps change.                                    *)

\* A connection changes in a way that no entry depends on.
LEMMA ChangedConnection ==
  ASSUME NEW s, Sound(s), NEW c \in 1..Len(s.pcs), NEW pc \in Pc,
         pc.peer = s.pcs[c].peer, pc.desc = s.pcs[c].desc,
         pc.added = s.pcs[c].added, pc.sent = s.pcs[c].sent,
         s.pcs[c].conn = "closed" => pc.conn = "closed",
         NEW r \in MapsValue, r.map = s.map, r.described = s.described,
         r.pending = s.pending, r.pcs = [s.pcs EXCEPT ![c] = pc]
  PROVE  Follows(s, r) /\ Keeps(s, r)
<1>1. /\ s.pcs \in Seq(Pc) /\ Len(r.pcs) = Len(s.pcs) /\ s.pcs # <<>>
      /\ \A i \in 1..Len(s.pcs) : r.pcs[i] = IF i = c THEN pc ELSE s.pcs[i]
  BY DEF Sound, MapsValue
<1>2. ASSUME NEW p \in Peers, r.map[p] # 0
      PROVE  /\ r.map[p] \in 1..Len(r.pcs) /\ r.pcs[r.map[p]].peer = p
             /\ Agrees(r.pcs[r.map[p]], r, p)
  <2>1. /\ s.map[p] \in 1..Len(s.pcs) /\ s.pcs[s.map[p]].peer = p
        /\ Agrees(s.pcs[s.map[p]], s, p)
    BY <1>2 DEF Sound
  <2>2. CASE r.map[p] = c
    BY <1>1, <2>1, <2>2 DEF Agrees
  <2>3. CASE r.map[p] # c
    BY <1>1, <2>1, <2>3 DEF Agrees
  <2> QED BY <2>2, <2>3
<1>3. \A i \in 1..Len(r.pcs) : r.pcs[i].added > 0 => r.pcs[i].desc
  BY <1>1 DEF Sound
<1>4. Sound(r) BY <1>2, <1>3 DEF Sound
<1>5. Clean(s) => Clean(r) BY DEF Clean
<1>6. Keeps(s, r) BY DEF Keeps
<1>7. Mapped(s) => Mapped(r) BY <1>1 DEF Mapped
<1> QED BY <1>1, <1>4, <1>5, <1>6, <1>7 DEF Follows

\* The entry of a peer changes, or goes with all that belongs to it.
LEMMA ChangedEntry ==
  ASSUME NEW s, Sound(s), NEW p \in Peers, s.map[p] # 0, NEW pc \in Pc,
         pc.peer = p, pc.added > 0 => pc.desc,
         NEW r \in MapsValue, r.pcs = [s.pcs EXCEPT ![s.map[p]] = pc],
         \A q \in Peers \ {p} : /\ r.map[q] = s.map[q] /\ r.pending[q] = s.pending[q]
                                /\ q \in r.described <=> q \in s.described,
         \/ r.map[p] = s.map[p] /\ Agrees(pc, r, p)
         \/ r.map[p] = 0 /\ p \notin r.described /\ r.pending[p] = 0 /\ pc.conn = "closed"
  PROVE  Follows(s, r)
<1>1. /\ s.pcs \in Seq(Pc) /\ s.map[p] \in 1..Len(s.pcs) /\ Len(r.pcs) = Len(s.pcs)
      /\ s.pcs # <<>>
      /\ \A i \in 1..Len(s.pcs) : r.pcs[i] = IF i = s.map[p] THEN pc ELSE s.pcs[i]
  BY DEF Sound, MapsValue
<1>2. ASSUME NEW q \in Peers, r.map[q] # 0
      PROVE  /\ r.map[q] \in 1..Len(r.pcs) /\ r.pcs[r.map[q]].peer = q
             /\ Agrees(r.pcs[r.map[q]], r, q)
  <2>1. CASE q = p
    BY <1>1, <1>2, <2>1
  <2>2. CASE q # p
    <3>1. /\ s.map[q] \in 1..Len(s.pcs) /\ s.pcs[s.map[q]].peer = q
          /\ Agrees(s.pcs[s.map[q]], s, q)
      BY <1>2, <2>2 DEF Sound
    <3>2. s.pcs[s.map[p]].peer = p BY DEF Sound
    <3>3. s.map[q] # s.map[p] BY <2>2, <3>1, <3>2
    <3>4. r.map[q] = s.map[q] /\ r.pcs[r.map[q]] = s.pcs[s.map[q]]
      BY <1>1, <2>2, <3>1, <3>3
    <3>5. Agrees(s.pcs[s.map[q]], r, q)
      BY <2>2, <3>1 DEF Agrees
    <3> QED BY <1>1, <3>1, <3>4, <3>5
  <2> QED BY <2>1, <2>2
<1>3. \A i \in 1..Len(r.pcs) : r.pcs[i].added > 0 => r.pcs[i].desc
  BY <1>1 DEF Sound
<1>4. Sound(r) BY <1>2, <1>3 DEF Sound
<1>5. ASSUME Clean(s) PROVE Clean(r)
  <2> SUFFICES ASSUME NEW q \in Peers, r.map[q] = 0
               PROVE  q \notin r.described /\ r.pending[q] = 0
    BY DEF Clean
  <2>1. CASE q = p BY <2>1
  <2>2. CASE q # p BY <1>5, <2>2 DEF Clean
  <2> QED BY <2>1, <2>2
<1>6. ASSUME Mapped(s) PROVE Mapped(r)
  <2> SUFFICES ASSUME NEW c \in 1..Len(r.pcs), r.pcs[c].conn # "closed"
               PROVE  r.map[r.pcs[c].peer] = c
    BY DEF Mapped
  <2>1. CASE c = s.map[p] BY <1>1, <2>1
  <2>2. CASE c # s.map[p]
    <3>1. c \in 1..Len(s.pcs) /\ r.pcs[c] = s.pcs[c] BY <1>1, <2>2
    <3>2. s.map[s.pcs[c].peer] = c BY <1>6, <3>1 DEF Mapped
    <3>3. s.pcs[c].peer \in Peers
      <4>1. s.pcs[c] \in Pc BY <1>1, <3>1
      <4> QED BY <4>1 DEF Pc
    <3> QED BY <2>2, <3>1, <3>2, <3>3
  <2> QED BY <2>1, <2>2
<1> QED BY <1>1, <1>4, <1>5, <1>6 DEF Follows

\* A connection is created for a peer of whom nothing is left.
LEMMA CreatedEntry ==
  ASSUME NEW s, Sound(s), NEW p \in Peers, wired, s.map[p] = 0,
         NEW r \in MapsValue, r.pcs = Append(s.pcs, NewPc(p)),
         r.map = [s.map EXCEPT ![p] = Len(s.pcs) + 1],
         p \notin r.described, r.pending[p] = 0,
         \A q \in Peers \ {p} : /\ r.pending[q] = s.pending[q]
                                /\ q \in r.described <=> q \in s.described
  PROVE  Follows(s, r) /\ Keeps(s, r) /\ r.map[p] # 0
<1>1. /\ s.pcs \in Seq(Pc) /\ Len(s.pcs) \in Nat /\ Len(r.pcs) = Len(s.pcs) + 1
      /\ \A i \in 1..Len(s.pcs) : r.pcs[i] = s.pcs[i]
      /\ r.pcs[Len(s.pcs) + 1] = NewPc(p)
      /\ s.map \in [Peers -> Nat]
  BY AppendProperties DEF Sound, MapsValue
<1>2. /\ r.map[p] = Len(s.pcs) + 1
      /\ \A q \in Peers \ {p} : r.map[q] = s.map[q]
  BY <1>1
<1>3. /\ NewPc(p).peer = p /\ NewPc(p).added = 0 /\ NewPc(p).sent = 0 /\ NewPc(p).desc = FALSE
      /\ NewPc(p).conn = "new"
  BY DEF NewPc
<1>4. ASSUME NEW q \in Peers, r.map[q] # 0
      PROVE  /\ r.map[q] \in 1..Len(r.pcs) /\ r.pcs[r.map[q]].peer = q
             /\ Agrees(r.pcs[r.map[q]], r, q)
  <2>1. CASE q = p
    <3>1. Agrees(NewPc(p), r, p)
      BY <1>3 DEF Agrees
    <3>2. r.map[q] \in 1..Len(r.pcs) /\ r.pcs[r.map[q]] = NewPc(p)
      BY <1>1, <1>2, <2>1
    <3> QED BY <1>3, <2>1, <3>1, <3>2
  <2>2. CASE q # p
    <3>1. /\ s.map[q] \in 1..Len(s.pcs) /\ s.pcs[s.map[q]].peer = q
          /\ Agrees(s.pcs[s.map[q]], s, q)
      BY <1>2, <1>4, <2>2 DEF Sound
    <3>2. Agrees(s.pcs[s.map[q]], r, q)
      BY <2>2, <3>1 DEF Agrees
    <3> QED BY <1>1, <1>2, <2>2, <3>1, <3>2
  <2> QED BY <2>1, <2>2
<1>5. \A i \in 1..Len(r.pcs) : r.pcs[i].added > 0 => r.pcs[i].desc
  <2> SUFFICES ASSUME NEW i \in 1..Len(r.pcs), r.pcs[i].added > 0 PROVE r.pcs[i].desc
    OBVIOUS
  <2>1. i # Len(s.pcs) + 1 BY <1>1, <1>3
  <2>2. i \in 1..Len(s.pcs) BY <1>1, <2>1
  <2> QED BY <1>1, <2>2 DEF Sound
<1>6. Sound(r) BY <1>4, <1>5 DEF Sound
<1>7. Clean(s) => Clean(r) BY <1>1, <1>2 DEF Clean
<1>8. Keeps(s, r) BY <1>1, <1>2 DEF Keeps
<1>9. ASSUME Mapped(s) PROVE Mapped(r)
  <2> SUFFICES ASSUME NEW c \in 1..Len(r.pcs), r.pcs[c].conn # "closed"
               PROVE  r.map[r.pcs[c].peer] = c
    BY DEF Mapped
  <2>1. CASE c = Len(s.pcs) + 1 BY <1>1, <1>2, <1>3, <2>1
  <2>2. CASE c # Len(s.pcs) + 1
    <3>1. c \in 1..Len(s.pcs) /\ r.pcs[c] = s.pcs[c] BY <1>1, <2>2
    <3>2. s.map[s.pcs[c].peer] = c BY <1>9, <3>1 DEF Mapped
    <3>3. s.pcs[c].peer \in Peers
      <4>1. s.pcs[c] \in Pc BY <1>1, <3>1
      <4> QED BY <4>1 DEF Pc
    <3> QED BY <1>2, <3>1, <3>2, <3>3
  <2> QED BY <2>1, <2>2
<1> QED BY <1>1, <1>2, <1>6, <1>7, <1>8, <1>9 DEF Follows

-----------------------------------------------------------------------------
(* The helpers.                                                            *)

\* A connection after a change of its state, and a closed one, is one.
LEMMA TurnedPc ==
  ASSUME NEW pc \in Pc, NEW conn \in {"connected", "lost", "closed"}
  PROVE  LET o == Turned(pc, conn)
         IN /\ o \in Pc /\ o.conn = conn /\ o.peer = pc.peer /\ o.desc = pc.desc
            /\ o.added = pc.added /\ o.sent = pc.sent
<1>1. Append(pc.owed, conn) \in Seq({"connected", "lost", "closed"})
  BY AppendProperties DEF Pc
<1> QED BY <1>1 DEF Turned, Pc

LEMMA ClosedPc ==
  ASSUME NEW pc \in Pc
  PROVE  /\ Closed(pc) \in Pc /\ Closed(pc).conn = "closed"
         /\ Closed(pc).peer = pc.peer /\ Closed(pc).desc = pc.desc
         /\ Closed(pc).added = pc.added /\ Closed(pc).sent = pc.sent
<1>1. CASE pc.conn = "closed" BY <1>1 DEF Closed
<1>2. CASE pc.conn # "closed" BY <1>2, TurnedPc DEF Closed
<1> QED BY <1>1, <1>2

\* The connection of an entry.
LEMMA EntryPc ==
  ASSUME NEW s, Sound(s), NEW p \in Peers, s.map[p] # 0
  PROVE  /\ s \in MapsValue /\ s.map[p] \in 1..Len(s.pcs) /\ s.pcs[s.map[p]] \in Pc
         /\ s.pcs[s.map[p]].peer = p
         /\ s.pcs[s.map[p]].added > 0 => s.pcs[s.map[p]].desc
         /\ Agrees(s.pcs[s.map[p]], s, p)
<1>1. /\ s \in MapsValue /\ s.map[p] \in 1..Len(s.pcs) /\ s.pcs[s.map[p]].peer = p
      /\ Agrees(s.pcs[s.map[p]], s, p)
      /\ s.pcs[s.map[p]].added > 0 => s.pcs[s.map[p]].desc
  BY DEF Sound
<1>2. s.pcs \in Seq(Pc) BY <1>1 DEF MapsValue
<1> QED BY <1>1, <1>2

\* From a value to itself, and from one to the next.
LEMMA FollowsItself ==
  ASSUME NEW s, Sound(s) PROVE Follows(s, s) /\ Keeps(s, s)
BY DEF Follows, Keeps

LEMMA FollowsOn ==
  ASSUME NEW s, NEW r, NEW u, Follows(s, r), Keeps(s, r), Follows(r, u)
  PROVE  Follows(s, u) /\ (Keeps(r, u) => Keeps(s, u))
BY DEF Follows, Keeps

LEMMA DestroyFollows ==
  ASSUME NEW s, Sound(s), NEW p \in Peers
  PROVE  /\ Follows(s, destroyPeerConnection(s, p))
         /\ \A q \in Peers \ {p} : destroyPeerConnection(s, p).map[q] = s.map[q]
<1>1. CASE s.map[p] = 0
  BY <1>1, FollowsItself DEF destroyPeerConnection
<1>2. CASE s.map[p] # 0
  <2> DEFINE r == destroyPeerConnection(s, p)
             pc == Closed(s.pcs[s.map[p]])
  <2>1. /\ s \in MapsValue /\ s.pcs[s.map[p]] \in Pc /\ s.map[p] \in 1..Len(s.pcs)
        /\ s.pcs[s.map[p]].added > 0 => s.pcs[s.map[p]].desc
        /\ s.pcs[s.map[p]].peer = p
    BY <1>2, EntryPc
  <2>2. pc \in Pc /\ pc.peer = p /\ pc.conn = "closed" /\ (pc.added > 0 => pc.desc)
    BY <2>1, ClosedPc
  <2>3. r = [Forget(s, p) EXCEPT !.pcs[s.map[p]] = Closed(@), !.map[p] = 0]
    BY <1>2 DEF destroyPeerConnection
  <2>4. r.map = [s.map EXCEPT ![p] = 0] BY <2>1, <2>3 DEF Forget, MapsValue
  <2>5. r.described = s.described \ {p} BY <2>1, <2>3 DEF Forget, MapsValue
  <2>6. r.pending = [s.pending EXCEPT ![p] = 0] BY <2>1, <2>3 DEF Forget, MapsValue
  <2>7. r.pcs = [s.pcs EXCEPT ![s.map[p]] = pc] BY <2>1, <2>3 DEF Forget, MapsValue
  <2>8. r = [map |-> r.map, described |-> r.described, pending |-> r.pending, pcs |-> r.pcs]
    BY <2>1, <2>3 DEF Forget, MapsValue
  <2> HIDE DEF r, pc
  <2>9. r \in MapsValue
    <3>1. r.map \in [Peers -> Nat] BY <2>1, <2>4 DEF MapsValue
    <3>2. r.described \in SUBSET Peers BY <2>1, <2>5 DEF MapsValue
    <3>3. r.pending \in [Peers -> Nat] BY <2>1, <2>6 DEF MapsValue
    <3>4. r.pcs \in Seq(Pc) BY <2>1, <2>2, <2>7 DEF MapsValue
    <3> QED BY <2>8, <3>1, <3>2, <3>3, <3>4 DEF MapsValue
  <2>10. r.map[p] = 0 BY <2>1, <2>4 DEF MapsValue
  <2>11. p \notin r.described BY <2>5
  <2>12. r.pending[p] = 0 BY <2>1, <2>6 DEF MapsValue
  <2>13. \A q \in Peers \ {p} : /\ r.map[q] = s.map[q] /\ r.pending[q] = s.pending[q]
                                /\ q \in r.described <=> q \in s.described
    BY <2>1, <2>4, <2>5, <2>6 DEF MapsValue
  <2>14. Follows(s, r)
    BY <1>2, <2>2, <2>7, <2>9, <2>10, <2>11, <2>12, <2>13, ChangedEntry
  <2>15. r = destroyPeerConnection(s, p) BY DEF r
  <2> QED BY <2>13, <2>14, <2>15
<1> QED BY <1>1, <1>2

\* One field of the value of the maps is assigned.
LEMMA AssignMap ==
  ASSUME NEW s \in MapsValue, NEW m \in [Peers -> Nat]
  PROVE  LET r == [s EXCEPT !.map = m]
         IN /\ r \in MapsValue /\ r.map = m /\ r.described = s.described
            /\ r.pending = s.pending /\ r.pcs = s.pcs
BY DEF MapsValue

LEMMA AssignDescribed ==
  ASSUME NEW s \in MapsValue, NEW d \in SUBSET Peers
  PROVE  LET r == [s EXCEPT !.described = d]
         IN /\ r \in MapsValue /\ r.map = s.map /\ r.described = d
            /\ r.pending = s.pending /\ r.pcs = s.pcs
BY DEF MapsValue

LEMMA AssignPending ==
  ASSUME NEW s \in MapsValue, NEW n \in [Peers -> Nat]
  PROVE  LET r == [s EXCEPT !.pending = n]
         IN /\ r \in MapsValue /\ r.map = s.map /\ r.described = s.described
            /\ r.pending = n /\ r.pcs = s.pcs
BY DEF MapsValue

LEMMA AssignPcs ==
  ASSUME NEW s \in MapsValue, NEW q \in Seq(Pc)
  PROVE  LET r == [s EXCEPT !.pcs = q]
         IN /\ r \in MapsValue /\ r.map = s.map /\ r.described = s.described
            /\ r.pending = s.pending /\ r.pcs = q
BY DEF MapsValue

\* One connection is assigned.
LEMMA AssignPc ==
  ASSUME NEW s \in MapsValue, NEW c \in 1..Len(s.pcs), NEW o \in Pc
  PROVE  LET r == [s EXCEPT !.pcs[c] = o]
         IN /\ r \in MapsValue /\ r.map = s.map /\ r.described = s.described
            /\ r.pending = s.pending /\ r.pcs = [s.pcs EXCEPT ![c] = o]
<1>1. [s.pcs EXCEPT ![c] = o] \in Seq(Pc) BY DEF MapsValue
<1>2. [s EXCEPT !.pcs[c] = o] = [s EXCEPT !.pcs = [s.pcs EXCEPT ![c] = o]] BY Zenon
<1> QED BY <1>1, <1>2, AssignPcs

\* What is known of a peer is forgotten.
LEMMA ForgetFields ==
  ASSUME NEW s \in MapsValue, NEW p \in Peers
  PROVE  LET r == Forget(s, p)
         IN /\ r \in MapsValue /\ r.map = s.map /\ r.described = s.described \ {p}
            /\ r.pending = [s.pending EXCEPT ![p] = 0] /\ r.pcs = s.pcs
<1> DEFINE a == [s EXCEPT !.described = s.described \ {p}]
           n == [s.pending EXCEPT ![p] = 0]
           b == [a EXCEPT !.pending = n]
<1>1. s.described \ {p} \in SUBSET Peers /\ n \in [Peers -> Nat] BY DEF MapsValue
<1>2. /\ a \in MapsValue /\ a.map = s.map /\ a.described = s.described \ {p}
      /\ a.pending = s.pending /\ a.pcs = s.pcs
  BY <1>1, AssignDescribed
<1>3. Forget(s, p) = b BY <1>2, Zenon DEF Forget
<1>4. /\ b \in MapsValue /\ b.map = s.map /\ b.described = s.described \ {p}
      /\ b.pending = n /\ b.pcs = s.pcs
  <2> HIDE DEF a, n
  <2> QED BY <1>1, <1>2, AssignPending
<1> QED BY <1>3, <1>4, Zenon

\* The entry of a peer gets other contents and stays.
LEMMA EntryBecomes ==
  ASSUME NEW s, Sound(s), NEW p \in Peers, s.map[p] # 0,
         NEW pc \in Pc, pc.peer = p, pc.added > 0 => pc.desc,
         NEW r \in MapsValue, r.map = s.map,
         \A q \in Peers \ {p} : q \in r.described <=> q \in s.described,
         NEW n \in Nat, r.pending = [s.pending EXCEPT ![p] = n],
         r.pcs = [s.pcs EXCEPT ![s.map[p]] = pc],
         Agrees(pc, r, p)
  PROVE  Follows(s, r) /\ Keeps(s, r)
<1>1. s.pending \in [Peers -> Nat]
  BY DEF Sound, MapsValue
<1>2. r.pending[p] = n /\ \A q \in Peers \ {p} : r.pending[q] = s.pending[q]
  BY <1>1
<1>3. \A q \in Peers \ {p} : /\ r.map[q] = s.map[q] /\ r.pending[q] = s.pending[q]
                             /\ q \in r.described <=> q \in s.described
  BY <1>2
<1>4. \/ r.map[p] = s.map[p] /\ Agrees(pc, r, p)
      \/ r.map[p] = 0 /\ p \notin r.described /\ r.pending[p] = 0 /\ pc.conn = "closed"
  BY <1>2
<1>5. Follows(s, r)
  <2>1. /\ Sound(s) /\ p \in Peers /\ s.map[p] # 0 /\ pc \in Pc /\ pc.peer = p
        /\ pc.added > 0 => pc.desc
        /\ r \in MapsValue /\ r.pcs = [s.pcs EXCEPT ![s.map[p]] = pc]
    OBVIOUS
  <2> QED BY ONLY <2>1, <1>3, <1>4, ChangedEntry
<1> QED BY <1>5 DEF Keeps

\* A connection with its description.
LEMMA DescribedPc ==
  ASSUME NEW pc \in Pc, NEW n \in Nat
  PROVE  LET o == WithDescription(pc, n)
         IN /\ o \in Pc /\ o.peer = pc.peer /\ o.desc /\ o.conn = pc.conn
            /\ o.sent = pc.sent /\ o.added = pc.added + n
<1> DEFINE one == [pc EXCEPT !.desc = TRUE]
           o   == [one EXCEPT !.added = pc.added + n]
<1>1. /\ one \in Pc /\ one.peer = pc.peer /\ one.desc /\ one.conn = pc.conn
      /\ one.sent = pc.sent
  BY DEF Pc
<1>2. WithDescription(pc, n) = o BY DEF WithDescription
<1> HIDE DEF one
<1>3. o \in Pc
  <2>1. pc.added + n \in Nat BY DEF Pc
  <2> QED BY <1>1, <2>1 DEF Pc
<1>4. o.peer = pc.peer /\ o.desc /\ o.conn = pc.conn /\ o.sent = pc.sent
  BY <1>1 DEF Pc
<1>5. o.added = pc.added + n BY <1>1 DEF Pc
<1> QED BY <1>2, <1>3, <1>4, <1>5

\* A connection that was asked for a description.
LEMMA AskedFollows ==
  ASSUME NEW s, Sound(s), NEW c \in 1..Len(s.pcs)
  PROVE  LET r == [s EXCEPT !.pcs[c].local = TRUE] IN Follows(s, r) /\ Keeps(s, r)
<1> DEFINE o == [s.pcs[c] EXCEPT !.local = TRUE]
           r == [s EXCEPT !.pcs[c] = o]
<1>1. s \in MapsValue /\ s.pcs[c] \in Pc BY DEF Sound, MapsValue
<1>2. /\ o \in Pc /\ o.peer = s.pcs[c].peer /\ o.desc = s.pcs[c].desc
      /\ o.conn = s.pcs[c].conn /\ o.sent = s.pcs[c].sent /\ o.added = s.pcs[c].added
  BY <1>1 DEF Pc
<1>3. [s EXCEPT !.pcs[c].local = TRUE] = r BY Zenon
<1> HIDE DEF o
<1>4. /\ r \in MapsValue /\ r.map = s.map /\ r.described = s.described
      /\ r.pending = s.pending /\ r.pcs = [s.pcs EXCEPT ![c] = o]
  BY <1>1, <1>2, AssignPc
<1> HIDE DEF r
<1>5. Follows(s, r) /\ Keeps(s, r)
  BY <1>2, <1>4, ChangedConnection
<1> QED BY <1>3, <1>5

\* A description was set: what waited is added.
LEMMA DescribeFollows ==
  ASSUME NEW s, Sound(s), NEW p \in Peers, s.map[p] # 0
  PROVE  LET r == Describe(s, p)
         IN Follows(s, r) /\ Keeps(s, r) /\ r.map = s.map /\ Len(r.pcs) = Len(s.pcs)
<1> DEFINE pc == s.pcs[s.map[p]]
           o == WithDescription(pc, s.pending[p])
           d == s.described \cup {p}
           n == [s.pending EXCEPT ![p] = 0]
           a == [s EXCEPT !.described = d]
           b == [a EXCEPT !.pending = n]
           r == [b EXCEPT !.pcs[s.map[p]] = o]
<1>1. /\ s \in MapsValue /\ s.map[p] \in 1..Len(s.pcs) /\ pc \in Pc /\ pc.peer = p
      /\ Agrees(pc, s, p)
  BY EntryPc
<1>2. /\ s.pending[p] \in Nat /\ s.pcs \in Seq(Pc) /\ d \in SUBSET Peers
      /\ n \in [Peers -> Nat]
  BY <1>1 DEF MapsValue
<1>3. /\ o \in Pc /\ o.peer = p /\ o.desc /\ o.conn = pc.conn
      /\ o.sent = pc.sent /\ o.added = pc.added + s.pending[p]
  BY <1>1, <1>2, DescribedPc
<1>4. /\ a \in MapsValue /\ a.map = s.map /\ a.described = d
      /\ a.pending = s.pending /\ a.pcs = s.pcs
  BY <1>1, <1>2, AssignDescribed
<1>5. /\ b \in MapsValue /\ b.map = s.map /\ b.described = d
      /\ b.pending = n /\ b.pcs = s.pcs
  <2> HIDE DEF a, n
  <2> QED BY <1>2, <1>4, AssignPending
<1>6. Describe(s, p) = r BY <1>4, <1>5, Zenon DEF Describe
<1> HIDE DEF b, o
<1>7. /\ r \in MapsValue /\ r.map = s.map /\ r.described = d
      /\ r.pending = n /\ r.pcs = [s.pcs EXCEPT ![s.map[p]] = o]
  BY <1>1, <1>3, <1>5, AssignPc
<1> HIDE DEF r
<1>8. Agrees(o, r, p)
  BY <1>1, <1>2, <1>3, <1>7 DEF Agrees, Pc
<1>9. \A q \in Peers \ {p} : q \in r.described <=> q \in s.described BY <1>7
<1>10. Follows(s, r) /\ Keeps(s, r)
  BY <1>3, <1>7, <1>8, <1>9, EntryBecomes
<1>11. Len(r.pcs) = Len(s.pcs) BY <1>2, <1>7
<1> QED BY <1>6, <1>7, <1>10, <1>11

\* A connection put into the map, before anything is forgotten.
LEMMA CreatedFields ==
  ASSUME NEW s \in MapsValue, NEW p \in Peers
  PROVE  LET r == [s EXCEPT !.pcs = Append(@, NewPc(p)), !.map[p] = Len(s.pcs) + 1]
         IN /\ r \in MapsValue /\ r.map = [s.map EXCEPT ![p] = Len(s.pcs) + 1]
            /\ r.described = s.described /\ r.pending = s.pending
            /\ r.pcs = Append(s.pcs, NewPc(p)) /\ r.map[p] # 0
<1> DEFINE q == Append(s.pcs, NewPc(p))
           m == [s.map EXCEPT ![p] = Len(s.pcs) + 1]
           a == [s EXCEPT !.pcs = q]
           r == [a EXCEPT !.map = m]
<1>1. s.pcs \in Seq(Pc) /\ Len(s.pcs) \in Nat /\ s.map \in [Peers -> Nat]
  BY DEF MapsValue
<1>2. NewPc(p) \in Pc
  <2>1. <<>> \in Seq({"connected", "lost", "closed"}) OBVIOUS
  <2> QED BY <2>1 DEF NewPc, Pc
<1>3. q \in Seq(Pc) BY <1>1, <1>2, AppendProperties
<1>4. m \in [Peers -> Nat] /\ m[p] # 0 BY <1>1
<1> HIDE DEF q, m
<1>5. /\ a \in MapsValue /\ a.map = s.map /\ a.described = s.described
      /\ a.pending = s.pending /\ a.pcs = q
  BY <1>3, AssignPcs
<1>6. [s EXCEPT !.pcs = Append(@, NewPc(p)), !.map[p] = Len(s.pcs) + 1] = r
  BY <1>5, Zenon DEF q, m
<1>7. /\ r \in MapsValue /\ r.map = m /\ r.described = s.described
      /\ r.pending = s.pending /\ r.pcs = q
  <2> HIDE DEF a
  <2> QED BY <1>4, <1>5, AssignMap
<1>8. r.map[p] # 0 BY <1>4, <1>7
<1> HIDE DEF r
<1> QED BY <1>6, <1>7, <1>8, Zenon DEF q, m

\* With a connection in the map, and nothing else done, or no connection.
LEMMA CreateFollows ==
  ASSUME NEW s, Sound(s), NEW p \in Peers, s.map[p] = 0,
         NEW r \in createPeerConnection(s, p), r.map[p] # 0
  PROVE  /\ r \in MapsValue /\ wired
         /\ r.map = [s.map EXCEPT ![p] = Len(s.pcs) + 1]
         /\ r.described = s.described /\ r.pending = s.pending
         /\ r.pcs = Append(s.pcs, NewPc(p))
<1>1. s \in MapsValue BY DEF Sound
<1>2. wired /\ r = [s EXCEPT !.pcs = Append(@, NewPc(p)), !.map[p] = Len(s.pcs) + 1]
  BY DEF createPeerConnection
<1> QED BY <1>1, <1>2, CreatedFields

\* A message of a peer without a connection makes one.
LEMMA GotFollows ==
  ASSUME NEW s, Sound(s), NEW p \in Peers, NEW r \in getOrCreatePeerConnection(s, p)
  PROVE  Follows(s, r) /\ Keeps(s, r)
<1>1. CASE s.map[p] # 0
  BY <1>1, FollowsItself DEF getOrCreatePeerConnection
<1>2. CASE s.map[p] = 0
  <2>1. PICK o \in createPeerConnection(s, p) : r = IF o.map[p] = 0 THEN o ELSE Forget(o, p)
    BY <1>2 DEF getOrCreatePeerConnection
  <2>2. CASE o.map[p] = 0
    <3>1. o = s
      <4>1. s \in MapsValue BY DEF Sound
      <4>2. CASE o = [s EXCEPT !.pcs = Append(@, NewPc(p)), !.map[p] = Len(s.pcs) + 1]
        BY <2>2, <4>1, <4>2, CreatedFields
      <4> QED BY <4>2 DEF createPeerConnection
    <3> QED BY <2>1, <2>2, <3>1, FollowsItself
  <2>3. CASE o.map[p] # 0
    <3>1. /\ o \in MapsValue /\ wired /\ o.map = [s.map EXCEPT ![p] = Len(s.pcs) + 1]
          /\ o.described = s.described /\ o.pending = s.pending
          /\ o.pcs = Append(s.pcs, NewPc(p))
      BY <1>2, <2>3, CreateFollows
    <3>2. r = Forget(o, p) BY <2>1, <2>3
    <3>3. /\ r \in MapsValue /\ r.map = o.map /\ r.described = s.described \ {p}
          /\ r.pending = [s.pending EXCEPT ![p] = 0] /\ r.pcs = o.pcs
      <4>1. /\ r \in MapsValue /\ r.map = o.map /\ r.described = o.described \ {p}
            /\ r.pending = [o.pending EXCEPT ![p] = 0] /\ r.pcs = o.pcs
        <5>1. o \in MapsValue BY <3>1
        <5> QED BY ONLY <3>2, <5>1, p \in Peers, ForgetFields
      <4> QED BY <3>1, <4>1
    <3>4. s.pending \in [Peers -> Nat] BY DEF Sound, MapsValue
    <3>5. /\ p \notin r.described /\ r.pending[p] = 0
          /\ \A q \in Peers \ {p} : /\ r.pending[q] = s.pending[q]
                                    /\ q \in r.described <=> q \in s.described
      BY <3>3, <3>4
    <3>6. Sound(s) /\ s.map[p] = 0 /\ p \in Peers BY <1>2
    <3>7. r.map = [s.map EXCEPT ![p] = Len(s.pcs) + 1] /\ r.pcs = Append(s.pcs, NewPc(p))
      BY <3>1, <3>3
    <3> QED BY ONLY <3>1, <3>3, <3>5, <3>6, <3>7, CreatedEntry
  <2> QED BY <2>2, <2>3
<1> QED BY <1>1, <1>2

\* connectToPeer leaves the two other maps alone: nothing of the peer is in them.
LEMMA ConnectFollows ==
  ASSUME NEW s, Sound(s), Clean(s), NEW p \in Peers, s.map[p] = 0,
         NEW o \in createPeerConnection(s, p), o.map[p] # 0
  PROVE  LET r == [o EXCEPT !.pcs[o.map[p]].local = TRUE] IN Follows(s, r) /\ Keeps(s, r)
<1>1. /\ o \in MapsValue /\ wired /\ o.map = [s.map EXCEPT ![p] = Len(s.pcs) + 1]
      /\ o.described = s.described /\ o.pending = s.pending
      /\ o.pcs = Append(s.pcs, NewPc(p))
  BY CreateFollows
<1>2. p \notin s.described /\ s.pending[p] = 0 BY DEF Clean
<1>3. Follows(s, o) /\ Keeps(s, o)
  <2>1. Sound(s) /\ s.map[p] = 0 /\ p \in Peers OBVIOUS
  <2>2. /\ p \notin o.described /\ o.pending[p] = 0
        /\ \A q \in Peers \ {p} : /\ o.pending[q] = s.pending[q]
                                  /\ q \in o.described <=> q \in s.described
    BY <1>1, <1>2
  <2> QED BY ONLY <1>1, <2>1, <2>2, CreatedEntry
<1>4. Sound(o) BY <1>3 DEF Follows
<1>5. o.map[p] \in 1..Len(o.pcs) BY <1>4, EntryPc
<1> DEFINE r == [o EXCEPT !.pcs[o.map[p]].local = TRUE]
<1>6. Follows(o, r) /\ Keeps(o, r) BY <1>4, <1>5, AskedFollows
<1> HIDE DEF r
<1>7. Follows(s, r) /\ Keeps(s, r) BY <1>3, <1>6, FollowsOn
<1> QED BY <1>7 DEF r

\* A leave: the connection is closed, its entry stays, the rest is forgotten.
LEMMA LeaveFollows ==
  ASSUME NEW s, Sound(s), NEW p \in Peers, NEW r \in Leave(s, p)
  PROVE  Follows(s, r) /\ Keeps(s, r)
<1>1. CASE s.map[p] = 0
  BY <1>1, FollowsItself DEF Leave
<1>2. CASE s.map[p] # 0
  <2> DEFINE o == Closed(s.pcs[s.map[p]])
             a == Forget(s, p)
             u == [a EXCEPT !.pcs[s.map[p]] = o]
  <2>1. /\ s \in MapsValue /\ s.map[p] \in 1..Len(s.pcs) /\ s.pcs[s.map[p]] \in Pc
        /\ s.pcs[s.map[p]].peer = p
        /\ s.pcs[s.map[p]].added > 0 => s.pcs[s.map[p]].desc
    BY <1>2, EntryPc
  <2>2. /\ o \in Pc /\ o.conn = "closed" /\ o.peer = p /\ (o.added > 0 => o.desc)
    BY <2>1, ClosedPc
  <2>3. /\ a \in MapsValue /\ a.map = s.map /\ a.described = s.described \ {p}
        /\ a.pending = [s.pending EXCEPT ![p] = 0] /\ a.pcs = s.pcs
    BY <2>1, ForgetFields
  <2>4. r = u
    <3>1. r = [Forget(s, p) EXCEPT !.pcs[s.map[p]] = Closed(@)] BY <1>2 DEF Leave
    <3> QED BY <2>3, <3>1, Zenon
  <2> HIDE DEF a, o
  <2>5. /\ u \in MapsValue /\ u.map = s.map /\ u.described = s.described \ {p}
        /\ u.pending = [s.pending EXCEPT ![p] = 0]
        /\ u.pcs = [s.pcs EXCEPT ![s.map[p]] = o]
    BY <2>1, <2>2, <2>3, AssignPc
  <2> HIDE DEF u
  <2>6. Agrees(o, u, p) BY <2>2, <2>5 DEF Agrees
  <2>7. \A q \in Peers \ {p} : q \in u.described <=> q \in s.described BY <2>5
  <2>8. Sound(s) /\ p \in Peers /\ s.map[p] # 0 /\ 0 \in Nat BY <1>2
  <2>9. Follows(s, u) /\ Keeps(s, u)
    BY ONLY <2>2, <2>5, <2>6, <2>7, <2>8, EntryBecomes
  <2> QED BY <2>4, <2>9
<1> QED BY <1>1, <1>2

LEMMA AnswerFollows ==
  ASSUME NEW s, Sound(s), NEW p \in Peers, NEW r \in Answer(s, p)
  PROVE  Follows(s, r) /\ Keeps(s, r)
<1>1. PICK g \in getOrCreatePeerConnection(s, p) : g.map[p] # 0 /\ r = Describe(g, p)
  BY DEF Answer, Got
<1>2. Follows(s, g) /\ Keeps(s, g) BY GotFollows
<1>3. Sound(g) BY <1>2 DEF Follows
<1>4. Follows(g, r) /\ Keeps(g, r) BY <1>1, <1>3, DescribeFollows
<1> QED BY <1>2, <1>4, FollowsOn

LEMMA OfferFollows ==
  ASSUME NEW s, Sound(s), NEW p \in Peers, NEW r \in Offer(s, p)
  PROVE  Follows(s, r) /\ Keeps(s, r)
<1>1. PICK g \in getOrCreatePeerConnection(s, p) :
        g.map[p] # 0 /\ r = [Describe(g, p) EXCEPT !.pcs[g.map[p]].local = TRUE]
  BY DEF Offer, Got
<1> DEFINE d == Describe(g, p)
<1>2. Follows(s, g) /\ Keeps(s, g) BY GotFollows
<1>3. Sound(g) BY <1>2 DEF Follows
<1>4. Follows(g, d) /\ Keeps(g, d) /\ d.map = g.map BY <1>1, <1>3, DescribeFollows
<1>5. Sound(d) BY <1>4 DEF Follows
<1>6. g.map[p] \in 1..Len(d.pcs)
  <2> HIDE DEF d
  <2> QED BY <1>1, <1>4, <1>5, EntryPc
<1>7. Follows(d, r) /\ Keeps(d, r)
  <2>1. r = [d EXCEPT !.pcs[g.map[p]].local = TRUE] BY <1>1, Zenon
  <2> HIDE DEF d
  <2> QED BY ONLY <1>5, <1>6, <2>1, AskedFollows
<1> HIDE DEF d
<1>8. Follows(s, d) /\ Keeps(s, d) BY <1>2, <1>4, FollowsOn
<1> QED BY <1>7, <1>8, FollowsOn

\* A connection with a candidate more sent, or more added.
LEMMA SentPc ==
  ASSUME NEW pc \in Pc
  PROVE  LET o == [pc EXCEPT !.sent = @ + 1]
         IN /\ o \in Pc /\ o.peer = pc.peer /\ o.desc = pc.desc /\ o.conn = pc.conn
            /\ o.sent = pc.sent + 1 /\ o.added = pc.added
BY DEF Pc

LEMMA AddedPc ==
  ASSUME NEW pc \in Pc
  PROVE  LET o == [pc EXCEPT !.added = @ + 1]
         IN /\ o \in Pc /\ o.peer = pc.peer /\ o.desc = pc.desc /\ o.conn = pc.conn
            /\ o.sent = pc.sent /\ o.added = pc.added + 1
BY DEF Pc

\* A candidate is added to a described connection, or waits.
LEMMA BufferedFollows ==
  ASSUME NEW s, Sound(s), NEW p \in Peers, s.map[p] # 0
  PROVE  LET r == [Buffered(s, p) EXCEPT !.pcs[s.map[p]].sent = @ + 1]
         IN Follows(s, r) /\ Keeps(s, r)
<1> DEFINE c  == s.map[p]
           pc == s.pcs[c]
           r  == [Buffered(s, p) EXCEPT !.pcs[c].sent = @ + 1]
<1>1. /\ s \in MapsValue /\ c \in 1..Len(s.pcs) /\ pc \in Pc /\ pc.peer = p
      /\ pc.added > 0 => pc.desc
      /\ Agrees(pc, s, p)
  BY EntryPc
<1>2. s.pending \in [Peers -> Nat] /\ s.pcs \in Seq(Pc) BY <1>1 DEF MapsValue
<1>3. pc.added \in Nat /\ pc.sent \in Nat BY <1>1 DEF Pc
<1>4. CASE p \in s.described
  <2> DEFINE one == [pc EXCEPT !.added = @ + 1]
             a   == [s EXCEPT !.pcs[c] = one]
             two == [one EXCEPT !.sent = @ + 1]
             u   == [a EXCEPT !.pcs[c] = two]
  <2>1. /\ one \in Pc /\ one.peer = p /\ one.desc = pc.desc /\ one.conn = pc.conn
        /\ one.sent = pc.sent /\ one.added = pc.added + 1
    BY <1>1, AddedPc
  <2>2. /\ a \in MapsValue /\ a.map = s.map /\ a.described = s.described
        /\ a.pending = s.pending /\ a.pcs = [s.pcs EXCEPT ![c] = one]
    <3> HIDE DEF one
    <3> QED BY <1>1, <2>1, AssignPc
  <2>3. /\ two \in Pc /\ two.peer = p /\ two.desc = pc.desc /\ two.conn = pc.conn
        /\ two.sent = pc.sent + 1 /\ two.added = pc.added + 1
    <3> HIDE DEF one
    <3> QED BY <2>1, SentPc
  <2>4. a.pcs[c] = one /\ c \in 1..Len(a.pcs)
    <3> HIDE DEF one, a
    <3> QED BY <1>1, <1>2, <2>1, <2>2
  <2>5. r = u
    <3>1. Buffered(s, p) = a BY <1>4, Zenon DEF Buffered
    <3>2. r = [a EXCEPT !.pcs[c] = [a.pcs[c] EXCEPT !.sent = @ + 1]]
      <4> HIDE DEF a
      <4> QED BY <3>1, Zenon
    <3> HIDE DEF a, one
    <3> QED BY <2>4, <3>2, Zenon
  <2> HIDE DEF one, two, a
  <2>6. /\ u \in MapsValue /\ u.map = s.map /\ u.described = s.described
        /\ u.pending = s.pending /\ u.pcs = [a.pcs EXCEPT ![c] = two]
    BY <2>2, <2>3, <2>4, AssignPc
  <2> HIDE DEF u
  <2>7. u.pcs = [s.pcs EXCEPT ![c] = two]
    BY <1>1, <1>2, <2>1, <2>2, <2>3, <2>6
  <2>8. u.pending = [s.pending EXCEPT ![p] = s.pending[p]] /\ s.pending[p] \in Nat
    BY <1>2, <2>6
  <2>9. Agrees(two, u, p) /\ (two.added > 0 => two.desc)
    BY <1>1, <1>2, <1>3, <1>4, <2>3, <2>6 DEF Agrees
  <2>10. \A q \in Peers \ {p} : q \in u.described <=> q \in s.described BY <2>6
  <2>11. Sound(s) /\ p \in Peers /\ s.map[p] # 0 OBVIOUS
  <2>12. Follows(s, u) /\ Keeps(s, u)
    BY ONLY <2>3, <2>6, <2>7, <2>8, <2>9, <2>10, <2>11, EntryBecomes
  <2> QED BY <2>5, <2>12
<1>5. CASE p \notin s.described
  <2> DEFINE n   == [s.pending EXCEPT ![p] = s.pending[p] + 1]
             a   == [s EXCEPT !.pending = n]
             two == [pc EXCEPT !.sent = @ + 1]
             u   == [a EXCEPT !.pcs[c] = two]
  <2>1. n \in [Peers -> Nat] BY <1>2
  <2>2. /\ a \in MapsValue /\ a.map = s.map /\ a.described = s.described
        /\ a.pending = n /\ a.pcs = s.pcs
    <3> HIDE DEF n
    <3> QED BY <1>1, <2>1, AssignPending
  <2>3. /\ two \in Pc /\ two.peer = p /\ two.desc = pc.desc /\ two.conn = pc.conn
        /\ two.sent = pc.sent + 1 /\ two.added = pc.added
    BY <1>1, SentPc
  <2>4. r = u
    <3>1. Buffered(s, p) = a BY <1>5, Zenon DEF Buffered
    <3> HIDE DEF a
    <3> QED BY <2>2, <3>1, Zenon
  <2> HIDE DEF two, a, n
  <2>5. /\ u \in MapsValue /\ u.map = s.map /\ u.described = s.described
        /\ u.pending = n /\ u.pcs = [s.pcs EXCEPT ![c] = two]
    BY <1>1, <2>2, <2>3, AssignPc
  <2> HIDE DEF u
  <2>6. u.pending = [s.pending EXCEPT ![p] = s.pending[p] + 1] /\ s.pending[p] + 1 \in Nat
    BY <1>2, <2>5 DEF n
  <2>7. Agrees(two, u, p) /\ (two.added > 0 => two.desc)
    <3>1. /\ pc.desc => pc.conn = "closed"
          /\ pc.conn # "closed" => pc.added + s.pending[p] = pc.sent
      BY <1>1, <1>5 DEF Agrees
    <3>2. /\ u.pending[p] = s.pending[p] + 1 /\ s.pending[p] \in Nat
          /\ p \notin u.described
      BY <1>2, <1>5, <2>5, <2>6
    <3> HIDE DEF pc
    <3>3. two.conn # "closed" => two.added + u.pending[p] = two.sent
      BY <1>3, <2>3, <3>1, <3>2
    <3>4. two.desc => two.conn = "closed"
      BY <2>3, <3>1
    <3> QED BY <1>1, <2>3, <3>2, <3>3, <3>4 DEF Agrees
  <2>8. \A q \in Peers \ {p} : q \in u.described <=> q \in s.described BY <2>5
  <2>9. Sound(s) /\ p \in Peers /\ s.map[p] # 0 OBVIOUS
  <2>10. Follows(s, u) /\ Keeps(s, u)
    BY ONLY <2>3, <2>5, <2>6, <2>7, <2>8, <2>9, EntryBecomes
  <2> QED BY <2>4, <2>10
<1> QED BY <1>4, <1>5

LEMMA CandidateFollows ==
  ASSUME NEW s, Sound(s), NEW p \in Peers, NEW r \in Candidate(s, p)
  PROVE  Follows(s, r) /\ Keeps(s, r)
<1>1. PICK g \in getOrCreatePeerConnection(s, p) :
        g.map[p] # 0 /\ r = [Buffered(g, p) EXCEPT !.pcs[g.map[p]].sent = @ + 1]
  BY DEF Candidate, Got
<1>2. Follows(s, g) /\ Keeps(s, g) BY GotFollows
<1>3. Sound(g) BY <1>2 DEF Follows
<1>4. Follows(g, r) /\ Keeps(g, r) BY <1>1, <1>3, BufferedFollows
<1> QED BY <1>2, <1>4, FollowsOn

-----------------------------------------------------------------------------
(* The invariant and the maps.                                             *)

LEMMA InvMaps ==
  ASSUME ManagerInv
  PROVE  /\ Sound(Maps) /\ Mapped(Maps)
         /\ state_ \notin {"Stopping", "Stopped"} => Clean(Maps)
<1> USE DEF ManagerInv
<1>1. /\ Maps.map = peerConnections_ /\ Maps.described = remoteDescriptionSet_
      /\ Maps.pending = pendingRemoteCandidates_ /\ Maps.pcs = pcs
  BY DEF Maps
<1>2. /\ peerConnections_ \in [Peers -> Nat] /\ pendingRemoteCandidates_ \in [Peers -> Nat]
      /\ remoteDescriptionSet_ \in SUBSET Peers /\ pcs \in Seq(Pc)
      /\ DOMAIN pcs = 1..Len(pcs)
  BY DEF TypeOK
<1>3. Maps \in MapsValue BY <1>2 DEF Maps, MapsValue
<1>4. ASSUME NEW p \in Peers, Maps.map[p] # 0
      PROVE  /\ Maps.map[p] \in 1..Len(Maps.pcs) /\ Maps.pcs[Maps.map[p]].peer = p
             /\ Agrees(Maps.pcs[Maps.map[p]], Maps, p)
  BY <1>1, <1>2, <1>4 DEF EntriesAreSound, CandidatesAreKept, Agrees
<1>5. \A c \in 1..Len(Maps.pcs) : Maps.pcs[c].added > 0 => Maps.pcs[c].desc
  BY <1>1, <1>2 DEF CandidatesFollowDescription
<1>6. Sound(Maps) BY <1>3, <1>4, <1>5 DEF Sound
<1>7. state_ \notin {"Stopping", "Stopped"} => Clean(Maps)
  BY <1>1 DEF Clean, EntriesAreSound
<1>8. Mapped(Maps) BY <1>1, <1>2 DEF Mapped, OpenIsMapped
<1> QED BY <1>6, <1>7, <1>8

\* What the maps become is sound.
LEMMA MapsNext ==
  ASSUME NEW r, Sound(r), Become(r)
  PROVE  /\ peerConnections_' \in [Peers -> Nat] /\ pendingRemoteCandidates_' \in [Peers -> Nat]
         /\ remoteDescriptionSet_' \subseteq Peers /\ pcs' \in Seq(Pc)
         /\ CandidatesFollowDescription' /\ CandidatesAreKept'
         /\ (Clean(r) \/ state_' \in {"Stopping", "Stopped"}) => EntriesAreSound'
         /\ Mapped(r) => OpenIsMapped'
<1>1. /\ r.map = peerConnections_' /\ r.described = remoteDescriptionSet_'
      /\ r.pending = pendingRemoteCandidates_' /\ r.pcs = pcs'
  BY DEF Become
<1>2. /\ r.map \in [Peers -> Nat] /\ r.pending \in [Peers -> Nat]
      /\ r.described \in SUBSET Peers /\ r.pcs \in Seq(Pc)
      /\ DOMAIN r.pcs = 1..Len(r.pcs)
  BY DEF Sound, MapsValue
<1>3. CandidatesFollowDescription'
  BY <1>1, <1>2 DEF Sound, CandidatesFollowDescription
<1>4. \A p \in Peers : r.map[p] # 0 =>
        /\ r.map[p] \in 1..Len(r.pcs) /\ r.pcs[r.map[p]].peer = p
        /\ Agrees(r.pcs[r.map[p]], r, p)
  BY DEF Sound
<1>5. CandidatesAreKept'
  BY <1>1, <1>4 DEF Agrees, CandidatesAreKept
<1>6. ASSUME Clean(r) \/ state_' \in {"Stopping", "Stopped"} PROVE EntriesAreSound'
  <2> SUFFICES ASSUME NEW p \in Peers
               PROVE  LET c == peerConnections_'[p] IN
                      IF c = 0
                      THEN state_' \notin {"Stopping", "Stopped"} =>
                             p \notin remoteDescriptionSet_' /\ pendingRemoteCandidates_'[p] = 0
                      ELSE /\ c \in DOMAIN pcs' /\ pcs'[c].peer = p
                           /\ p \in remoteDescriptionSet_' => pcs'[c].desc
                           /\ pcs'[c].desc => p \in remoteDescriptionSet_' \/ pcs'[c].conn = "closed"
    BY DEF EntriesAreSound
  <2>1. CASE r.map[p] = 0
    BY <1>1, <1>6, <2>1 DEF Clean
  <2>2. CASE r.map[p] # 0
    BY <1>1, <1>2, <1>4, <2>2 DEF Agrees
  <2> QED BY <1>1, <2>1, <2>2
<1>7. Mapped(r) => OpenIsMapped' BY <1>1, <1>2 DEF Mapped, OpenIsMapped
<1> QED BY <1>1, <1>2, <1>3, <1>5, <1>6, <1>7

\* A step inside the manager that leaves its state alone.
LEMMA ManagerStep ==
  ASSUME ManagerInv, NEW r, Follows(Maps, r), Become(r), UNCHANGED lifecycle,
         state_ \notin {"Uninitialized", "Initializing", "Initialized"},
         relocking' \in BOOLEAN, told' \subseteq Peers,
         sigThread' \in {"none", "run", "lock", "telling"},
         telling' = None
           \/ telling' \in [peer : Peers, about : {"connected", "disconnected", "event"}],
         wired \/ (sigThread' = "none" /\ ~relocking' /\ telling' = None)
  PROVE  /\ TypeOK' /\ CandidatesFollowDescription' /\ CandidatesAreKept'
         /\ EntriesAreSound' /\ OpenIsMapped' /\ CallsAgreeWithState'
<1>1. Sound(r) /\ Mapped(r) BY InvMaps DEF Follows
<1>2. Clean(r) \/ state_' \in {"Stopping", "Stopped"}
  BY InvMaps DEF Follows, lifecycle
<1>3. /\ peerConnections_' \in [Peers -> Nat] /\ pendingRemoteCandidates_' \in [Peers -> Nat]
      /\ remoteDescriptionSet_' \subseteq Peers /\ pcs' \in Seq(Pc)
      /\ CandidatesFollowDescription' /\ CandidatesAreKept' /\ EntriesAreSound' /\ OpenIsMapped'
  BY <1>1, <1>2, MapsNext
<1>4. wired \/ pcs' = <<>>
  BY DEF ManagerInv, TypeOK, Follows, Become, Maps
<1>5. TypeOK'
  <2>1. /\ wired \in BOOLEAN
        /\ state_ \in {"Uninitialized", "Initializing", "Initialized", "Running", "Stopping", "Stopped"}
        /\ app \in [AppThreads -> {"idle", "init", "start", "stop", "joining"}]
    BY DEF ManagerInv, TypeOK
  <2> QED BY <1>3, <1>4, <2>1 DEF TypeOK, lifecycle
<1>6. CallsAgreeWithState'
  BY DEF ManagerInv, CallsAgreeWithState, lifecycle
<1> QED BY <1>3, <1>5, <1>6

\* A step that leaves the maps alone.
LEMMA SameMaps ==
  ASSUME ManagerInv, UNCHANGED maps,
         state_ \in {"Stopping", "Stopped"} => state_' \in {"Stopping", "Stopped"}
  PROVE  /\ CandidatesFollowDescription' /\ CandidatesAreKept' /\ EntriesAreSound' /\ OpenIsMapped'
         /\ peerConnections_' = peerConnections_ /\ pcs' = pcs
<1>1. /\ peerConnections_' = peerConnections_ /\ remoteDescriptionSet_' = remoteDescriptionSet_
      /\ pendingRemoteCandidates_' = pendingRemoteCandidates_ /\ pcs' = pcs
  BY DEF maps
<1>2. CandidatesFollowDescription' BY <1>1 DEF ManagerInv, CandidatesFollowDescription
<1>3. CandidatesAreKept' BY <1>1 DEF ManagerInv, CandidatesAreKept
<1>4. EntriesAreSound' BY <1>1 DEF ManagerInv, EntriesAreSound
<1>5. OpenIsMapped' BY <1>1 DEF ManagerInv, OpenIsMapped
<1> QED BY <1>1, <1>2, <1>3, <1>4, <1>5

-----------------------------------------------------------------------------
(* Every action.                                                           *)

LEMMA ManagerInit == Init => ManagerInv
<1> SUFFICES ASSUME Init PROVE ManagerInv
  OBVIOUS
<1> USE DEF Init
<1>1. <<>> \in Seq(Pc) /\ DOMAIN <<>> = {} OBVIOUS
<1>2. TypeOK BY <1>1 DEF TypeOK
<1>3. CandidatesFollowDescription BY <1>1 DEF CandidatesFollowDescription
<1>4. CandidatesAreKept BY DEF CandidatesAreKept
<1>5. ApplicationKnowsOfLoss BY DEF ApplicationKnowsOfLoss
<1>6. ToldOfPeersInTheMap BY DEF ToldOfPeersInTheMap
<1>7. EntriesAreSound BY DEF EntriesAreSound
<1>8. OpenIsMapped BY <1>1 DEF OpenIsMapped
<1>9. CallsAgreeWithState BY DEF CallsAgreeWithState
<1> QED BY <1>2, <1>3, <1>4, <1>5, <1>6, <1>7, <1>8, <1>9 DEF ManagerInv

\* The compare-exchanges of init, start and stop, and the sections that leave
\* the maps alone.
LEMMA CallsKeep ==
  ASSUME ManagerInv, NEW t \in AppThreads, init(t) \/ start(t) \/ StopCall(t) \/ StopJoins(t)
  PROVE  ManagerInv'
<1>1. /\ UNCHANGED <<wired, maps, relocking, telling, told>>
      /\ state_ \in {"Stopping", "Stopped"} => state_' \in {"Stopping", "Stopped"}
      /\ sigThread' \in {sigThread, "run", "none"}
      /\ sigThread' = "run" => wired \/ sigThread = "run"
      /\ app' \in [AppThreads -> {"idle", "init", "start", "stop", "joining"}]
      /\ state_' \in {"Initializing", "Initialized", "Running", "Stopping", "Stopped"}
      /\ state_' = "Running" => state_ \in {"Running", "Initialized"}
  BY DEF ManagerInv, TypeOK, CallsAgreeWithState, init, start, StopCall, StopJoins, At
<1>2. /\ CandidatesFollowDescription' /\ CandidatesAreKept' /\ EntriesAreSound' /\ OpenIsMapped'
      /\ peerConnections_' = peerConnections_ /\ pcs' = pcs
  BY <1>1, SameMaps
<1>3. TypeOK'
  <2>1. /\ remoteDescriptionSet_' = remoteDescriptionSet_
        /\ pendingRemoteCandidates_' = pendingRemoteCandidates_
    BY <1>1 DEF maps
  <2> QED BY <1>1, <1>2, <2>1 DEF ManagerInv, TypeOK
<1>4. state_' = "Running" => state_ = "Running" \/ (told = {} /\ telling = None)
  BY <1>1 DEF ManagerInv, CallsAgreeWithState
<1>5. ApplicationKnowsOfLoss'
  BY <1>1, <1>2, <1>4 DEF ManagerInv, ApplicationKnowsOfLoss
<1>6. ToldOfPeersInTheMap'
  BY <1>1, <1>2, <1>4 DEF ManagerInv, ToldOfPeersInTheMap
<1>7. CallsAgreeWithState'
  <2>1. CASE init(t)
    BY <1>1, <1>2, <2>1 DEF ManagerInv, TypeOK, CallsAgreeWithState, init, At
  <2>2. CASE start(t)
    BY <1>1, <1>2, <2>2 DEF ManagerInv, TypeOK, CallsAgreeWithState, start, At
  <2>3. CASE StopCall(t)
    BY <1>1, <1>2, <2>3 DEF ManagerInv, TypeOK, CallsAgreeWithState, StopCall, At
  <2>4. CASE StopJoins(t)
    BY <1>1, <1>2, <2>4 DEF ManagerInv, TypeOK, CallsAgreeWithState, StopJoins, At
  <2> QED BY <2>1, <2>2, <2>3, <2>4
<1> QED BY <1>2, <1>3, <1>5, <1>6, <1>7 DEF ManagerInv

\* The client's thread, and what libwebrtc's thread does without the maps.
LEMMA EventsKeep ==
  ASSUME ManagerInv,
         \/ SignalArrives \/ handleSignalingEvent \/ SignalTold \/ SignalEnds
         \/ Notify
  PROVE  ManagerInv'
<1>1. /\ UNCHANGED <<lifecycle, maps, relocking>>
      /\ sigThread' \in {"none", "run", "lock", "telling"}
      /\ wired \/ sigThread' = "none"
      /\ told' \subseteq Peers /\ telling' \in {telling, None}
      /\ state_ \notin {"Uninitialized", "Initializing", "Initialized"}
  BY DEF ManagerInv, TypeOK, CallsAgreeWithState, SignalArrives, handleSignalingEvent,
         TellOrReturn, SignalTold, SignalEnds, Notify
<1>2. /\ CandidatesFollowDescription' /\ CandidatesAreKept' /\ EntriesAreSound' /\ OpenIsMapped'
      /\ peerConnections_' = peerConnections_ /\ pcs' = pcs
  BY <1>1, SameMaps DEF lifecycle
<1>3. TypeOK'
  <2>1. /\ remoteDescriptionSet_' = remoteDescriptionSet_
        /\ pendingRemoteCandidates_' = pendingRemoteCandidates_
    BY <1>1 DEF maps
  <2> QED BY <1>1, <1>2, <2>1 DEF ManagerInv, TypeOK, lifecycle
<1>4. ApplicationKnowsOfLoss' /\ ToldOfPeersInTheMap'
  <2>1. CASE UNCHANGED <<telling, told>>
    BY <1>1, <1>2, <2>1 DEF ManagerInv, ApplicationKnowsOfLoss, ToldOfPeersInTheMap, lifecycle
  <2>2. CASE Notify
    <3>1. telling' = None /\ telling # None BY <2>2 DEF Notify
    <3>2. ToldOfPeersInTheMap' BY <3>1 DEF ToldOfPeersInTheMap
    <3>3. telling \in [peer : Peers, about : {"connected", "disconnected", "event"}]
      BY <3>1 DEF ManagerInv, TypeOK
    <3> SUFFICES ASSUME NEW p \in told', state_ = "Running" PROVE peerConnections_[p] # 0
      BY <1>1, <1>2, <3>2 DEF ApplicationKnowsOfLoss, lifecycle
    <3>4. CASE telling.about = "connected"
      <4>1. told' = told \cup {telling.peer} BY <2>2, <3>4 DEF Notify
      <4>2. peerConnections_[telling.peer] # 0
        BY <3>1, <3>4 DEF ManagerInv, ToldOfPeersInTheMap
      <4>3. telling # About(p, "disconnected") BY <3>4 DEF About
      <4> QED BY <4>1, <4>2, <4>3 DEF ManagerInv, ApplicationKnowsOfLoss
    <3>5. CASE telling.about = "disconnected"
      <4>1. told' = told \ {telling.peer} BY <2>2, <3>5 DEF Notify
      <4>2. telling # About(p, "disconnected") BY <4>1 DEF About
      <4> QED BY <4>1, <4>2 DEF ManagerInv, ApplicationKnowsOfLoss
    <3>6. CASE telling.about = "event"
      <4>1. told' = told BY <2>2, <3>6 DEF Notify
      <4>2. telling # About(p, "disconnected") BY <3>6 DEF About
      <4> QED BY <4>1, <4>2 DEF ManagerInv, ApplicationKnowsOfLoss
    <3> QED BY <3>3, <3>4, <3>5, <3>6
  <2> QED BY <2>1, <2>2 DEF SignalArrives, handleSignalingEvent, SignalTold, SignalEnds
<1>5. CallsAgreeWithState' BY <1>1 DEF ManagerInv, CallsAgreeWithState, lifecycle
<1> QED BY <1>2, <1>3, <1>4, <1>5 DEF ManagerInv

\* stop() closes what the map holds and empties it; what the other maps keep is of
\* no connection any more.
LEMMA StopSectionKeeps ==
  ASSUME ManagerInv, NEW t \in AppThreads, StopSection(t)
  PROVE  ManagerInv'
<1> DEFINE r == [map |-> peerConnections_', described |-> remoteDescriptionSet_',
                 pending |-> pendingRemoteCandidates_', pcs |-> pcs']
<1>1. /\ wired \in BOOLEAN /\ pcs \in Seq(Pc) /\ DOMAIN pcs = 1..Len(pcs)
      /\ pendingRemoteCandidates_ \in [Peers -> Nat] /\ remoteDescriptionSet_ \subseteq Peers
      /\ app \in [AppThreads -> {"idle", "init", "start", "stop", "joining"}]
      /\ told \subseteq Peers /\ relocking \in BOOLEAN
  BY DEF ManagerInv, TypeOK
<1>2. /\ peerConnections_' = [p \in Peers |-> 0]
      /\ remoteDescriptionSet_' = remoteDescriptionSet_
      /\ pendingRemoteCandidates_' = pendingRemoteCandidates_
      /\ UNCHANGED <<wired, sigThread, relocking, telling, told>>
  BY DEF StopSection, CloseAll
<1>3. /\ Len(pcs') = Len(pcs) /\ pcs' \in Seq(Pc) /\ (pcs = <<>> => pcs' = <<>>)
      /\ \A c \in 1..Len(pcs) : /\ pcs'[c].added > 0 => pcs'[c].desc
                                /\ pcs'[c].conn = "closed"
  <2>1. pcs' = [c \in 1..Len(pcs) |-> IF \E p \in Peers : peerConnections_[p] = c
                                     THEN Closed(pcs[c]) ELSE pcs[c]]
    BY <1>1 DEF StopSection, CloseAll
  <2>2. \A c \in 1..Len(pcs) : pcs[c] \in Pc BY <1>1
  <2>3. ASSUME NEW c \in 1..Len(pcs)
        PROVE  /\ pcs'[c] \in Pc /\ pcs'[c].desc = pcs[c].desc /\ pcs'[c].added = pcs[c].added
    <3>1. /\ Closed(pcs[c]) \in Pc /\ Closed(pcs[c]).desc = pcs[c].desc
          /\ Closed(pcs[c]).added = pcs[c].added
      BY <2>2, ClosedPc
    <3>2. pcs'[c] = Closed(pcs[c]) \/ pcs'[c] = pcs[c] BY <2>1
    <3> QED BY <2>2, <3>1, <3>2
  <2>4. Len(pcs) \in Nat /\ DOMAIN pcs' = 1..Len(pcs) BY <1>1, <2>1
  <2>5. pcs' \in [1..Len(pcs) -> Pc] BY <2>1, <2>3
  <2>6. pcs' \in Seq(Pc) /\ Len(pcs') = Len(pcs) BY <2>4, <2>5
  <2>7. pcs = <<>> => pcs' = <<>> BY <1>1, <2>6
  <2>8. \A c \in 1..Len(pcs) : pcs[c].added > 0 => pcs[c].desc
    BY <1>1 DEF ManagerInv, CandidatesFollowDescription
  <2>9. ASSUME NEW c \in 1..Len(pcs) PROVE pcs'[c].conn = "closed"
    <3>1. CASE pcs[c].conn = "closed"
      BY <2>1, <3>1 DEF Closed
    <3>2. CASE pcs[c].conn # "closed"
      <4>1. pcs[c].peer \in Peers BY <2>2 DEF Pc
      <4>2. peerConnections_[pcs[c].peer] = c
        BY <1>1, <3>2 DEF ManagerInv, OpenIsMapped
      <4>3. pcs'[c] = Closed(pcs[c]) BY <2>1, <4>1, <4>2
      <4> QED BY <2>2, <4>3, ClosedPc
    <3> QED BY <3>1, <3>2
  <2> QED BY <2>3, <2>6, <2>7, <2>8, <2>9
<1>4. Sound(r) /\ Mapped(r) /\ Become(r)
  <2>1. r \in MapsValue BY <1>1, <1>2, <1>3 DEF MapsValue
  <2>2. \A p \in Peers : r.map[p] = 0 BY <1>2
  <2>3. \A c \in 1..Len(r.pcs) : r.pcs[c].added > 0 => r.pcs[c].desc BY <1>3
  <2>4. Become(r) BY DEF Become
  <2>5. \A c \in 1..Len(r.pcs) : r.pcs[c].conn = "closed"
    <3> SUFFICES ASSUME NEW c \in 1..Len(r.pcs) PROVE r.pcs[c].conn = "closed"
      OBVIOUS
    <3>1. r.pcs = pcs' OBVIOUS
    <3>2. c \in 1..Len(pcs) BY <1>3, <3>1
    <3>3. pcs'[c].conn = "closed" BY <1>3, <3>2
    <3> HIDE DEF r
    <3> QED BY <3>1, <3>3
  <2>6. Mapped(r)
    <3> HIDE DEF r
    <3> QED BY <2>5 DEF Mapped
  <2> HIDE DEF r
  <2> QED BY <2>1, <2>2, <2>3, <2>4, <2>6 DEF Sound
<1>5. state_ \in {"Stopping", "Stopped"} /\ state_' \in {"Stopping", "Stopped"}
  BY DEF ManagerInv, CallsAgreeWithState, StopSection
<1>6. /\ peerConnections_' \in [Peers -> Nat] /\ pcs' \in Seq(Pc)
      /\ CandidatesFollowDescription' /\ CandidatesAreKept' /\ EntriesAreSound' /\ OpenIsMapped'
  <2> HIDE DEF r
  <2> QED BY <1>4, <1>5, MapsNext
<1>7. app' \in [AppThreads -> {"idle", "init", "start", "stop", "joining"}]
  BY <1>1 DEF StopSection
<1>8. TypeOK'
  BY <1>1, <1>2, <1>3, <1>5, <1>6, <1>7 DEF ManagerInv, TypeOK
<1>9. ApplicationKnowsOfLoss' /\ ToldOfPeersInTheMap'
  BY <1>5 DEF ApplicationKnowsOfLoss, ToldOfPeersInTheMap
<1>10. CallsAgreeWithState'
  BY <1>1, <1>5 DEF ManagerInv, CallsAgreeWithState, StopSection
<1> QED BY <1>6, <1>8, <1>9, <1>10 DEF ManagerInv

\* Steps that lose no entry and tell nobody anything.
LEMMA KeepingStep ==
  ASSUME ManagerInv, NEW r, Follows(Maps, r), Keeps(Maps, r), Become(r),
         UNCHANGED <<lifecycle, telling, told>>, relocking' \in BOOLEAN,
         state_ \notin {"Uninitialized", "Initializing", "Initialized"},
         sigThread' \in {"none", "run", "lock", "telling"},
         wired \/ (sigThread' = "none" /\ ~relocking')
  PROVE  ManagerInv'
<1>1. /\ told \subseteq Peers
      /\ telling = None
           \/ telling \in [peer : Peers, about : {"connected", "disconnected", "event"}]
      /\ wired \/ telling = None
  BY DEF ManagerInv, TypeOK
<1>2. /\ TypeOK' /\ CandidatesFollowDescription' /\ CandidatesAreKept'
      /\ EntriesAreSound' /\ OpenIsMapped' /\ CallsAgreeWithState'
  BY <1>1, ManagerStep
<1>3. \A p \in Peers : peerConnections_[p] # 0 => peerConnections_'[p] # 0
  BY DEF Keeps, Maps, Become
<1>4. ApplicationKnowsOfLoss'
  BY <1>1, <1>3 DEF ManagerInv, ApplicationKnowsOfLoss, lifecycle
<1>5. ToldOfPeersInTheMap'
  BY <1>1, <1>3 DEF ManagerInv, ToldOfPeersInTheMap, lifecycle
<1> QED BY <1>2, <1>4, <1>5 DEF ManagerInv

\* A step that changes one connection only.
LEMMA OneConnection ==
  ASSUME ManagerInv, NEW c \in DOMAIN pcs, NEW pc \in Pc,
         pc.peer = pcs[c].peer, pc.desc = pcs[c].desc,
         pc.added = pcs[c].added, pc.sent = pcs[c].sent,
         pcs[c].conn = "closed" => pc.conn = "closed"
  PROVE  LET r == [Maps EXCEPT !.pcs[c] = pc]
         IN /\ Follows(Maps, r) /\ Keeps(Maps, r)
            /\ r.map = peerConnections_ /\ r.described = remoteDescriptionSet_
            /\ r.pending = pendingRemoteCandidates_ /\ r.pcs = [pcs EXCEPT ![c] = pc]
            /\ wired /\ state_ \notin {"Uninitialized", "Initializing", "Initialized"}
<1> DEFINE r == [Maps EXCEPT !.pcs[c] = pc]
<1>1. pcs \in Seq(Pc) /\ c \in 1..Len(pcs) /\ pcs # <<>>
  BY DEF ManagerInv, TypeOK
<1>2. /\ Maps.map = peerConnections_ /\ Maps.described = remoteDescriptionSet_
      /\ Maps.pending = pendingRemoteCandidates_ /\ Maps.pcs = pcs
  BY DEF Maps
<1>3. Sound(Maps) /\ Maps \in MapsValue BY InvMaps DEF Sound
<1>4. /\ r \in MapsValue /\ r.map = Maps.map /\ r.described = Maps.described
      /\ r.pending = Maps.pending /\ r.pcs = [Maps.pcs EXCEPT ![c] = pc]
  BY <1>1, <1>2, <1>3, AssignPc
<1> HIDE DEF r
<1>5. Follows(Maps, r) /\ Keeps(Maps, r)
  <2>1. /\ c \in 1..Len(Maps.pcs) /\ pc \in Pc
        /\ pc.peer = Maps.pcs[c].peer /\ pc.desc = Maps.pcs[c].desc
        /\ pc.added = Maps.pcs[c].added /\ pc.sent = Maps.pcs[c].sent
        /\ Maps.pcs[c].conn = "closed" => pc.conn = "closed"
    BY <1>1, <1>2
  <2> QED BY ONLY <2>1, <1>3, <1>4, ChangedConnection
<1>6. wired /\ state_ \notin {"Uninitialized", "Initializing", "Initialized"}
  BY <1>1 DEF ManagerInv, TypeOK, CallsAgreeWithState
<1>7. /\ r.map = peerConnections_ /\ r.described = remoteDescriptionSet_
      /\ r.pending = pendingRemoteCandidates_ /\ r.pcs = [pcs EXCEPT ![c] = pc]
  BY <1>2, <1>4
<1> QED BY <1>5, <1>6, <1>7 DEF r

\* What is known of a connection ever created.
LEMMA KnownPc ==
  ASSUME ManagerInv, NEW c \in DOMAIN pcs
  PROVE  pcs \in Seq(Pc) /\ c \in 1..Len(pcs) /\ pcs[c] \in Pc /\ pcs[c].peer \in Peers
<1>1. pcs \in Seq(Pc) /\ DOMAIN pcs = 1..Len(pcs) BY DEF ManagerInv, TypeOK
<1>2. pcs[c] \in Pc BY <1>1
<1>3. pcs[c].peer \in Peers BY <1>2 DEF Pc
<1> QED BY <1>1, <1>2, <1>3

LEMMA NetworkKeeps ==
  ASSUME ManagerInv, NEW c \in DOMAIN pcs, Network(c)
  PROVE  ManagerInv'
<1>1. PICK e \in {"connected", "lost"} :
        pcs[c].conn # "closed" /\ pcs' = [pcs EXCEPT ![c] = Turned(pcs[c], e)]
  BY DEF Network
<1> DEFINE pc == Turned(pcs[c], e)
           r  == [Maps EXCEPT !.pcs[c] = pc]
<1>2. pcs' = [pcs EXCEPT ![c] = pc]
  BY <1>1
<1>3. /\ pc \in Pc /\ pc.peer = pcs[c].peer /\ pc.desc = pcs[c].desc
      /\ pc.added = pcs[c].added /\ pc.sent = pcs[c].sent
  BY KnownPc, TurnedPc
<1> HIDE DEF pc
<1>4. /\ Follows(Maps, r) /\ Keeps(Maps, r)
      /\ r.map = peerConnections_ /\ r.described = remoteDescriptionSet_
      /\ r.pending = pendingRemoteCandidates_ /\ r.pcs = [pcs EXCEPT ![c] = pc]
      /\ wired /\ state_ \notin {"Uninitialized", "Initializing", "Initialized"}
  BY <1>1, <1>3, OneConnection
<1> HIDE DEF r
<1>5. /\ UNCHANGED <<lifecycle, telling, told, sigThread, relocking>>
      /\ peerConnections_' = peerConnections_ /\ remoteDescriptionSet_' = remoteDescriptionSet_
      /\ pendingRemoteCandidates_' = pendingRemoteCandidates_
  BY DEF Network
<1>6. Become(r) BY <1>2, <1>4, <1>5 DEF Become
<1>7. relocking' \in BOOLEAN /\ sigThread' \in {"none", "run", "lock", "telling"}
  BY <1>5 DEF ManagerInv, TypeOK
<1> QED BY <1>4, <1>5, <1>6, <1>7, KeepingStep

LEMMA DisconnectKeeps ==
  ASSUME ManagerInv, NEW t \in AppThreads, NEW p \in Peers, disconnectFromPeer(t, p)
  PROVE  ManagerInv'
<1> DEFINE c  == peerConnections_[p]
           pc == Closed(pcs[c])
           r  == [Maps EXCEPT !.pcs[c] = pc]
<1>1. c \in DOMAIN pcs /\ pcs' = [pcs EXCEPT ![c] = pc]
  BY DEF ManagerInv, EntriesAreSound, disconnectFromPeer
<1>2. pcs[c] \in Pc BY <1>1, KnownPc
<1>3. /\ pc \in Pc /\ pc.conn = "closed" /\ pc.peer = pcs[c].peer /\ pc.desc = pcs[c].desc
      /\ pc.added = pcs[c].added /\ pc.sent = pcs[c].sent
  BY <1>2, ClosedPc
<1> HIDE DEF pc
<1>4. /\ Follows(Maps, r) /\ Keeps(Maps, r)
      /\ r.map = peerConnections_ /\ r.described = remoteDescriptionSet_
      /\ r.pending = pendingRemoteCandidates_ /\ r.pcs = [pcs EXCEPT ![c] = pc]
      /\ wired /\ state_ \notin {"Uninitialized", "Initializing", "Initialized"}
  BY <1>1, <1>3, OneConnection
<1> HIDE DEF r
<1>5. /\ UNCHANGED <<lifecycle, telling, told, sigThread, relocking>>
      /\ peerConnections_' = peerConnections_ /\ remoteDescriptionSet_' = remoteDescriptionSet_
      /\ pendingRemoteCandidates_' = pendingRemoteCandidates_
  BY DEF disconnectFromPeer
<1>6. Become(r) BY <1>1, <1>4, <1>5 DEF Become
<1>7. relocking' \in BOOLEAN /\ sigThread' \in {"none", "run", "lock", "telling"}
  BY <1>5 DEF ManagerInv, TypeOK
<1> QED BY <1>4, <1>5, <1>6, <1>7, KeepingStep

LEMMA ConnectKeeps ==
  ASSUME ManagerInv, NEW t \in AppThreads, NEW p \in Peers, connectToPeer(t, p)
  PROVE  ManagerInv'
<1>1. /\ state_ = "Running" /\ Maps.map[p] = 0 /\ Maps.pcs = pcs
      /\ UNCHANGED <<lifecycle, sigThread, relocking, telling, told>>
  BY DEF connectToPeer, Maps
<1>2. Sound(Maps) /\ Clean(Maps) BY <1>1, InvMaps
<1>3. PICK o \in createPeerConnection(Maps, p) :
        Become(IF o.map[p] = 0 THEN o ELSE [o EXCEPT !.pcs[o.map[p]].local = TRUE])
  BY DEF connectToPeer
<1>4. PICK r : Become(r) /\ Follows(Maps, r) /\ Keeps(Maps, r)
  <2>1. CASE o.map[p] = 0
    <3>1. o = Maps
      <4>1. CASE o = [Maps EXCEPT !.pcs = Append(@, NewPc(p)), !.map[p] = Len(Maps.pcs) + 1]
        <5>1. Maps \in MapsValue BY <1>2 DEF Sound
        <5> HIDE DEF Maps
        <5> QED BY <2>1, <4>1, <5>1, CreatedFields
      <4> QED BY <4>1 DEF createPeerConnection
    <3> QED BY <1>2, <1>3, <2>1, <3>1, FollowsItself
  <2>2. CASE o.map[p] # 0
    <3> DEFINE u == [o EXCEPT !.pcs[o.map[p]].local = TRUE]
    <3>1. Follows(Maps, u) /\ Keeps(Maps, u)
      BY ONLY <1>1, <1>2, <2>2, p \in Peers, o \in createPeerConnection(Maps, p), ConnectFollows
    <3>2. Become(u) BY <1>3, <2>2
    <3> QED BY <3>1, <3>2
  <2> QED BY <2>1, <2>2
<1>5. /\ relocking' \in BOOLEAN /\ sigThread' \in {"none", "run", "lock", "telling"}
      /\ wired \/ (sigThread' = "none" /\ ~relocking')
  BY <1>1 DEF ManagerInv, TypeOK
<1> QED BY <1>1, <1>4, <1>5, KeepingStep

LEMMA MessageKeeps ==
  ASSUME ManagerInv, NEW p \in Peers,
         handleSignalingMessage(p) \/ handleSignalingMessageRefused(p)
  PROVE  ManagerInv'
<1>1. Sound(Maps) BY InvMaps
<1>2. PICK r : Become(r) /\ Follows(Maps, r) /\ Keeps(Maps, r)
  <2>1. CASE handleSignalingMessage(p)
    <3>1. PICK r \in {Maps} \cup Leave(Maps, p) \cup Offer(Maps, p) \cup Answer(Maps, p)
                       \cup Candidate(Maps, p) :
            Become(r)
      BY <2>1 DEF handleSignalingMessage
    <3>2. Follows(Maps, r) /\ Keeps(Maps, r)
      <4> HIDE DEF Maps
      <4> QED BY <1>1, <3>1, FollowsItself, LeaveFollows, OfferFollows, AnswerFollows,
                 CandidateFollows
    <3> QED BY <3>1, <3>2
  <2>2. CASE handleSignalingMessageRefused(p)
    <3>1. PICK r \in getOrCreatePeerConnection(Maps, p) : Become(r)
      BY <2>2 DEF handleSignalingMessageRefused
    <3> QED BY <1>1, <3>1, GotFollows
  <2> QED BY <2>1, <2>2
<1>3. /\ sigThread = "lock" /\ sigThread' \in {"telling", "run"}
      /\ UNCHANGED <<lifecycle, relocking, telling, told>>
  BY DEF handleSignalingMessage, handleSignalingMessageRefused, TellOrReturn
<1>4. /\ relocking' \in BOOLEAN /\ wired
      /\ state_ \notin {"Uninitialized", "Initializing", "Initialized"}
  BY <1>3 DEF ManagerInv, TypeOK, CallsAgreeWithState
<1> QED BY <1>2, <1>3, <1>4, KeepingStep

\* A callback of a connection that leaves the maps alone.
LEMMA CallbacksKeep ==
  ASSUME ManagerInv, NEW c \in DOMAIN pcs,
         handlePeerLocalSdpOrCandidate(c) \/ handlePeerMessageOrError(c)
  PROVE  ManagerInv'
<1>1. /\ Sound(Maps) /\ Follows(Maps, Maps) BY InvMaps, FollowsItself
<1>2. /\ UNCHANGED <<lifecycle, maps, sigThread, told>> /\ telling = None
      /\ peerConnections_[pcs[c].peer] # 0
      /\ \/ relocking' \in BOOLEAN /\ telling' = telling
         \/ relocking' = relocking /\ telling' = About(pcs[c].peer, "event")
  BY DEF handlePeerLocalSdpOrCandidate, handlePeerMessageOrError, OnPeerThread
<1>3. Become(Maps) BY <1>2 DEF Become, Maps, maps
<1>4. wired /\ state_ \notin {"Uninitialized", "Initializing", "Initialized"}
  BY DEF ManagerInv, TypeOK, CallsAgreeWithState
<1>5. pcs[c].peer \in Peers
  BY KnownPc
<1>6. /\ relocking' \in BOOLEAN /\ told' \subseteq Peers
      /\ sigThread' \in {"none", "run", "lock", "telling"}
      /\ telling' = None
           \/ telling' \in [peer : Peers, about : {"connected", "disconnected", "event"}]
  BY <1>2, <1>5 DEF ManagerInv, TypeOK, About
<1>7. /\ TypeOK' /\ CandidatesFollowDescription' /\ CandidatesAreKept'
      /\ EntriesAreSound' /\ OpenIsMapped' /\ CallsAgreeWithState'
  <2> HIDE DEF Maps
  <2> QED BY <1>1, <1>2, <1>3, <1>4, <1>6, ManagerStep
<1>8. ApplicationKnowsOfLoss'
  <2>1. \A q \in Peers : telling # About(q, "disconnected")
    BY <1>2, NoneIsNothing DEF About
  <2> QED BY <1>2, <2>1 DEF ManagerInv, TypeOK, ApplicationKnowsOfLoss, lifecycle, maps
<1>9. ToldOfPeersInTheMap'
  BY <1>2 DEF ToldOfPeersInTheMap, About, lifecycle, maps
<1> QED BY <1>7, <1>8, <1>9 DEF ManagerInv

\* A change of state: told of it, the manager destroys the connection of the peer,
\* and the application is about to hear of it.
LEMMA StateChangeKeeps ==
  ASSUME ManagerInv, NEW c \in DOMAIN pcs, handlePeerConnectionStateChange(c)
  PROVE  ManagerInv'
<1> DEFINE p  == pcs[c].peer
           pc == [pcs[c] EXCEPT !.owed = Tail(@)]
           s  == [Maps EXCEPT !.pcs[c] = pc]
<1>1. pcs[c] \in Pc /\ p \in Peers /\ pcs[c].owed # <<>> /\ telling = None
  BY KnownPc DEF handlePeerConnectionStateChange, OnPeerThread
<1>2. /\ pc \in Pc /\ pc.peer = pcs[c].peer /\ pc.desc = pcs[c].desc
      /\ pc.added = pcs[c].added /\ pc.sent = pcs[c].sent /\ pc.conn = pcs[c].conn
  <2>1. Tail(pcs[c].owed) \in Seq({"connected", "lost", "closed"})
    BY <1>1 DEF Pc
  <2> QED BY <1>1, <2>1 DEF Pc
<1>3. /\ Follows(Maps, s) /\ Keeps(Maps, s) /\ s.map = peerConnections_
      /\ wired /\ state_ \notin {"Uninitialized", "Initializing", "Initialized"}
  <2> HIDE DEF pc
  <2> QED BY <1>2, OneConnection
<1>4. /\ UNCHANGED <<lifecycle, sigThread, relocking, told>>
      /\ IF s.map[p] = 0 THEN Become(s) /\ UNCHANGED telling
         ELSE IF Head(pcs[c].owed) = "connected"
         THEN Become(s) /\ telling' = About(p, "connected")
         ELSE Become(destroyPeerConnection(s, p)) /\ telling' = About(p, "disconnected")
  <2>1. [Maps EXCEPT !.pcs[c].owed = Tail(@)] = s
    BY Zenon DEF Maps
  <2> QED BY <2>1 DEF handlePeerConnectionStateChange
<1> HIDE DEF s, pc
<1>5. /\ relocking' \in BOOLEAN /\ told' \subseteq Peers
      /\ sigThread' \in {"none", "run", "lock", "telling"}
      /\ \A q \in Peers : telling # About(q, "disconnected")
  BY <1>1, <1>4, NoneIsNothing DEF ManagerInv, TypeOK, About
<1>6. CASE Become(s) /\ telling' \in {None, About(p, "connected")}
           /\ (telling' = None \/ s.map[p] # 0)
  <2>1. telling' = None
           \/ telling' \in [peer : Peers, about : {"connected", "disconnected", "event"}]
    BY <1>1, <1>6 DEF About
  <2>2. /\ TypeOK' /\ CandidatesFollowDescription' /\ CandidatesAreKept'
        /\ EntriesAreSound' /\ OpenIsMapped' /\ CallsAgreeWithState'
    BY <1>3, <1>4, <1>5, <1>6, <2>1, ManagerStep
  <2>3. peerConnections_' = peerConnections_ BY <1>3, <1>6 DEF Become
  <2>4. ApplicationKnowsOfLoss'
    BY <1>4, <1>5, <2>3 DEF ManagerInv, TypeOK, ApplicationKnowsOfLoss, lifecycle
  <2>5. ToldOfPeersInTheMap'
    BY <1>3, <1>6, <2>3 DEF ToldOfPeersInTheMap, About
  <2> QED BY <2>2, <2>4, <2>5 DEF ManagerInv
<1>7. CASE Become(destroyPeerConnection(s, p)) /\ telling' = About(p, "disconnected")
  <2> DEFINE r == destroyPeerConnection(s, p)
  <2>1. Sound(s) BY <1>3 DEF Follows
  <2>2. Follows(s, r) /\ \A q \in Peers \ {p} : r.map[q] = s.map[q]
    BY <1>1, <2>1, DestroyFollows
  <2> HIDE DEF r
  <2>3. Follows(Maps, r) BY <1>3, <2>2, FollowsOn
  <2>4. telling' \in [peer : Peers, about : {"connected", "disconnected", "event"}]
    BY <1>1, <1>7 DEF About
  <2>5. Become(r) BY <1>7 DEF r
  <2>6. /\ TypeOK' /\ CandidatesFollowDescription' /\ CandidatesAreKept'
        /\ EntriesAreSound' /\ OpenIsMapped' /\ CallsAgreeWithState'
    BY <1>3, <1>4, <1>5, <2>3, <2>4, <2>5, ManagerStep
  <2>7. \A q \in Peers \ {p} : peerConnections_'[q] = peerConnections_[q]
    BY <1>3, <2>2, <2>5 DEF Become
  <2>8. ApplicationKnowsOfLoss'
    BY <1>4, <1>5, <1>7, <2>7 DEF ManagerInv, TypeOK, ApplicationKnowsOfLoss, lifecycle
  <2>9. ToldOfPeersInTheMap'
    BY <1>7 DEF ToldOfPeersInTheMap, About
  <2> QED BY <2>6, <2>8, <2>9 DEF ManagerInv
<1> QED BY <1>1, <1>4, <1>6, <1>7

LEMMA ManagerNext == ManagerInv /\ [Next]_vars => ManagerInv'
<1> SUFFICES ASSUME ManagerInv, [Next]_vars PROVE ManagerInv'
  OBVIOUS
<1>1. CASE UNCHANGED vars
  <2>1. UNCHANGED <<wired, state_, app, maps, sigThread, relocking, telling, told>>
    BY <1>1 DEF vars, lifecycle
  <2>2. /\ UNCHANGED <<peerConnections_, remoteDescriptionSet_, pendingRemoteCandidates_, pcs>>
    BY <2>1 DEF maps
  <2>3. TypeOK' BY <2>1, <2>2 DEF ManagerInv, TypeOK
  <2>4. /\ CandidatesFollowDescription' /\ CandidatesAreKept' /\ EntriesAreSound' /\ OpenIsMapped'
    BY <2>1, SameMaps
  <2>5. ApplicationKnowsOfLoss' BY <2>1, <2>2 DEF ManagerInv, ApplicationKnowsOfLoss
  <2>6. ToldOfPeersInTheMap' BY <2>1, <2>2 DEF ManagerInv, ToldOfPeersInTheMap
  <2>7. CallsAgreeWithState' BY <2>1, <2>2 DEF ManagerInv, CallsAgreeWithState
  <2> QED BY <2>3, <2>4, <2>5, <2>6, <2>7 DEF ManagerInv
<1>2. ASSUME NEW t \in AppThreads,
             init(t) \/ start(t) \/ StopCall(t) \/ StopSection(t) \/ StopJoins(t)
      PROVE  ManagerInv'
  BY <1>2, CallsKeep, StopSectionKeeps
<1>3. ASSUME NEW t \in AppThreads, NEW p \in Peers, connectToPeer(t, p) \/ disconnectFromPeer(t, p)
      PROVE  ManagerInv'
  BY <1>3, ConnectKeeps, DisconnectKeeps
<1>4. CASE \/ SignalArrives \/ handleSignalingEvent \/ SignalTold \/ SignalEnds
           \/ Notify
  BY <1>4, EventsKeep
<1>5. ASSUME NEW p \in Peers,
             handleSignalingMessage(p) \/ handleSignalingMessageRefused(p)
      PROVE  ManagerInv'
  BY <1>5, MessageKeeps
<1>6. ASSUME NEW c \in DOMAIN pcs,
             \/ Network(c) \/ handlePeerLocalSdpOrCandidate(c)
             \/ handlePeerConnectionStateChange(c) \/ handlePeerMessageOrError(c)
      PROVE  ManagerInv'
  BY <1>6, NetworkKeeps, CallbacksKeep, StateChangeKeeps
<1> QED BY <1>1, <1>2, <1>3, <1>4, <1>5, <1>6 DEF Next

-----------------------------------------------------------------------------
\* The invariant holds for every number of peers, of threads that call the manager,
\* of connections and of candidates.
THEOREM ManagerIsSafe == Spec => []ManagerInv
<1>1. Init => ManagerInv BY ManagerInit
<1>2. ManagerInv /\ [Next]_vars => ManagerInv' BY ManagerNext
<1> QED BY <1>1, <1>2, PTL DEF Spec

\* handleSignalingMessage never adds a candidate to a connection that has no remote
\* description.
THEOREM CandidatesFollow == Spec => []CandidatesFollowDescription
<1>1. ManagerInv => CandidatesFollowDescription BY DEF ManagerInv
<1> QED BY <1>1, ManagerIsSafe, PTL

\* Each candidate of the peer is added to the connection in the map or waits for its
\* description, once.
THEOREM CandidatesKept == Spec => []CandidatesAreKept
<1>1. ManagerInv => CandidatesAreKept BY DEF ManagerInv
<1> QED BY <1>1, ManagerIsSafe, PTL

\* A peer whose connection went while the manager runs is not one that the
\* application goes on taking for connected.
THEOREM LossIsKnown == Spec => []ApplicationKnowsOfLoss
<1>1. ManagerInv => ApplicationKnowsOfLoss BY DEF ManagerInv
<1> QED BY <1>1, ManagerIsSafe, PTL

-----------------------------------------------------------------------------
(* When one thread alone makes the calls.                                  *)

\* The application calls the manager from one thread.
OneCaller == \A t, u \in AppThreads : t = u

LEMMA SequentialInit == Init => CallsAreSequential
BY DEF Init, CallsAreSequential

\* While the manager is stopped, or the thread that stops it is in disconnect(),
\* no step makes an entry.
LEMMA NoEntryComes ==
  ASSUME ManagerInv, CallsAreSequential, [Next]_vars,
         \A p \in Peers : peerConnections_[p] = 0,
         state_ = "Stopped" \/ \E t \in AppThreads : app[t] = "joining"
  PROVE  \A p \in Peers : peerConnections_'[p] = 0
<1>1. CASE UNCHANGED peerConnections_ BY <1>1
<1>2. CASE \E t \in AppThreads : StopSection(t) BY <1>2 DEF StopSection, CloseAll
<1>3. CASE \E t \in AppThreads, p \in Peers : connectToPeer(t, p)
  BY <1>3 DEF connectToPeer, Free
<1>4. CASE \E p \in Peers : handleSignalingMessage(p) \/ handleSignalingMessageRefused(p)
  BY <1>4 DEF handleSignalingMessage, handleSignalingMessageRefused, Free, CallsAreSequential
<1>5. ASSUME NEW c \in DOMAIN pcs, handlePeerConnectionStateChange(c)
      PROVE  peerConnections_' = peerConnections_
  <2> DEFINE s == [Maps EXCEPT !.pcs[c].owed = Tail(@)]
  <2>1. pcs[c].peer \in Peers BY KnownPc
  <2>2. s.map = peerConnections_ BY DEF Maps
  <2>3. Become(s) BY <1>5, <2>1, <2>2 DEF handlePeerConnectionStateChange
  <2> QED BY <2>2, <2>3 DEF Become
<1> QED
  BY <1>1, <1>2, <1>3, <1>4, <1>5
  DEF Next, vars, maps, init, start, StopCall, StopJoins, disconnectFromPeer, SignalArrives,
      handleSignalingEvent, SignalTold, SignalEnds, Network, handlePeerLocalSdpOrCandidate,
      handlePeerMessageOrError, Notify

\* A thread that has got past start()'s compare-exchange is the only one, so nobody
\* stops the manager before it is through; and when stop() is through, it has joined
\* the client's thread.
LEMMA SequentialNext ==
  ASSUME OneCaller, ManagerInv, CallsAreSequential, [Next]_vars
  PROVE  CallsAreSequential'
<1>1. /\ app \in [AppThreads -> {"idle", "init", "start", "stop", "joining"}]
      /\ wired \in BOOLEAN /\ (wired \/ sigThread = "none")
  BY DEF ManagerInv, TypeOK
<1>2. CASE \E t \in AppThreads : init(t) \/ start(t) \/ StopCall(t) \/ StopSection(t) \/ StopJoins(t)
  <2>1. PICK t \in AppThreads : init(t) \/ start(t) \/ StopCall(t) \/ StopSection(t) \/ StopJoins(t)
    BY <1>2
  <2>2. \A u \in AppThreads : u = t BY DEF OneCaller
  <2>3. CASE init(t)
    <3>1. state_' # "Stopped" /\ app'[t] \in {"init", "idle"}
      BY <1>1, <2>3 DEF init, At
    <3> QED BY <2>2, <3>1 DEF CallsAreSequential
  <2>4. CASE start(t)
    <3>1. CASE app[t] = "idle"
      <4>1. state_' = "Running" /\ app'[t] = "start"
        BY <1>1, <2>4, <3>1 DEF start, At
      <4> QED BY <2>2, <4>1 DEF CallsAreSequential
    <3>2. CASE app[t] = "start"
      <4>1. state_ = "Running" BY <3>2 DEF CallsAreSequential
      <4>2. /\ app'[t] = "idle" /\ peerConnections_' = peerConnections_
            /\ wired => state_' = "Running"
            /\ ~wired => sigThread' = "none"
        BY <1>1, <2>4, <3>2, <4>1 DEF start, At, maps
      <4>3. ~wired => \A p \in Peers : peerConnections_[p] = 0
        BY DEF ManagerInv, TypeOK, EntriesAreSound
      <4> QED BY <1>1, <2>2, <4>2, <4>3 DEF CallsAreSequential
    <3> QED BY <2>4, <3>1, <3>2 DEF start, At
  <2>5. CASE StopCall(t)
    <3>1. state_' = "Stopping" /\ app'[t] = "stop"
      BY <1>1, <2>5 DEF StopCall, At
    <3> QED BY <2>2, <3>1 DEF CallsAreSequential
  <2>6. CASE StopSection(t)
    <3>1. peerConnections_' = [p \in Peers |-> 0] /\ sigThread' = sigThread
      BY <2>6 DEF StopSection, CloseAll
    <3>2. CASE wired
      <4>1. app'[t] = "joining" /\ state_' = state_ /\ app[t] = "stop"
        BY <1>1, <2>6, <3>2 DEF StopSection
      <4>2. state_ # "Stopped" BY <4>1 DEF CallsAreSequential
      <4> QED BY <2>2, <3>1, <4>1, <4>2 DEF CallsAreSequential
    <3>3. CASE ~wired
      <4>1. app'[t] = "idle" BY <1>1, <2>6, <3>3 DEF StopSection
      <4> QED BY <1>1, <2>2, <3>1, <3>3, <4>1 DEF CallsAreSequential
    <3> QED BY <3>2, <3>3
  <2>7. CASE StopJoins(t)
    <3>1. /\ app[t] = "joining" /\ app'[t] = "idle" /\ sigThread' = "none"
          /\ peerConnections_' = peerConnections_
      BY <1>1, <2>7 DEF StopJoins, At, maps
    <3> QED BY <2>2, <3>1 DEF CallsAreSequential
  <2> QED BY <2>1, <2>3, <2>4, <2>5, <2>6, <2>7
<1>3. CASE ~\E t \in AppThreads :
              init(t) \/ start(t) \/ StopCall(t) \/ StopSection(t) \/ StopJoins(t)
  <2>1. UNCHANGED <<app, state_>> /\ (sigThread = "none" => sigThread' = "none")
    BY <1>3
    DEF Next, vars, lifecycle, connectToPeer, disconnectFromPeer, SignalArrives,
        handleSignalingEvent, TellOrReturn, handleSignalingMessage,
        handleSignalingMessageRefused, SignalTold, SignalEnds, Network,
        handlePeerLocalSdpOrCandidate, handlePeerConnectionStateChange,
        handlePeerMessageOrError, Notify
  <2>2. (\A p \in Peers : peerConnections_[p] = 0)
        /\ (state_ = "Stopped" \/ \E t \in AppThreads : app[t] = "joining")
        => \A p \in Peers : peerConnections_'[p] = 0
    BY NoEntryComes
  <2> QED BY <2>1, <2>2 DEF CallsAreSequential
<1> QED BY <1>2, <1>3

\* When one thread makes the calls, a manager that has stopped is silent: the client's
\* thread is gone, no entry is left and no connection is open.  (Two threads can leave
\* a stopped manager with the client's thread running: start() connects the client
\* after its compare-exchange, when stop() may have been through already.)
THEOREM StoppedManagerIsSilent ==
  ASSUME OneCaller PROVE Spec => []StoppedIsSilent
<1>1. Init => ManagerInv /\ CallsAreSequential BY ManagerInit, SequentialInit
<1>2. ManagerInv /\ CallsAreSequential /\ [Next]_vars => (ManagerInv /\ CallsAreSequential)'
  BY ManagerNext, SequentialNext
<1>3. ManagerInv /\ CallsAreSequential => StoppedIsSilent
  <2> SUFFICES ASSUME ManagerInv, CallsAreSequential, state_ = "Stopped"
               PROVE  /\ sigThread = "none"
                      /\ \A p \in Peers : peerConnections_[p] = 0
                      /\ \A c \in DOMAIN pcs : pcs[c].conn = "closed"
    BY DEF StoppedIsSilent
  <2>1. ASSUME NEW c \in DOMAIN pcs PROVE pcs[c].conn = "closed"
    <3>1. c # 0 /\ pcs[c].peer \in Peers BY KnownPc
    <3> QED BY <3>1 DEF CallsAreSequential, ManagerInv, OpenIsMapped
  <2> QED BY <2>1 DEF CallsAreSequential
<1> QED BY <1>1, <1>2, <1>3, PTL DEF Spec
=============================================================================
