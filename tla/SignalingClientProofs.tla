------------------------- MODULE SignalingClientProofs -------------------------
(***************************************************************************)
(* Proofs about module SignalingClient, for any number of connections and  *)
(* calls.  QuietWhenStopped is not inductive: the flag is shared by two    *)
(* threads, and each clears it at a place of its own.                      *)
(***************************************************************************)
EXTENDS SignalingClient, TLAPS

\* A handler that is called was called once more.
LEMMA CalledCounts ==
  ASSUME calls \in [Handlers -> Nat], NEW h, Called(h)
  PROVE  calls' \in [Handlers -> Nat]
<1>1. calls' = [x \in Handlers |-> IF x = h THEN calls[h] + 1 ELSE calls[x]]
  BY DEF Called
<1>2. \A x \in Handlers : calls[x] \in Nat
  OBVIOUS
<1>3. \A x \in Handlers : (IF x = h THEN calls[h] + 1 ELSE calls[x]) \in Nat
  BY <1>2
<1> QED BY <1>1, <1>3

\* A handler changes the connection and the calls; the Asio thread enters it only
\* inside run().
LEMMA HandlerKeepsInv ==
  ASSUME ClientInv, calls' \in [Handlers -> Nat],
         con' \in {"none", "connecting", "open", "closing", "closed", "failed"},
         handling' = handling \/ (handling' = TRUE /\ asioThread_ = "run"),
         UNCHANGED <<owner, destroying, isRunning_, asioThread_, stopped, connects>>
  PROVE  ClientInv'
<1> USE DEF ClientInv, TypeOK, QuietWhenStopped
<1>1. CASE handling' = handling
  BY <1>1
<1>2. CASE handling' = TRUE /\ asioThread_ = "run"
  BY <1>2
<1> QED BY <1>1, <1>2

\* The owner's thread.
LEMMA OwnerKeepsInv ==
  ClientInv /\ (\/ Connect \/ ConnectRefused
                \/ \E fromDestructor \in BOOLEAN : Disconnect(fromDestructor)
                \/ SendClose \/ Stop \/ Join \/ SendSignal) => ClientInv'
<1> SUFFICES ASSUME ClientInv,
                    \/ Connect \/ ConnectRefused
                    \/ \E fromDestructor \in BOOLEAN : Disconnect(fromDestructor)
                    \/ SendClose \/ Stop \/ Join \/ SendSignal
             PROVE  ClientInv'
  OBVIOUS
<1>1. CASE Connect
  <2>1. asioThread_ \in {"none", "done"}
    BY <1>1 DEF Connect, ClientInv, QuietWhenStopped
  <2>2. calls' \in [Handlers -> Nat]
    BY <1>1 DEF Connect
  <2>3. connects' \in 0..MaxConnects
    BY <1>1, Bounds DEF Connect, ClientInv, TypeOK
  <2> QED BY <1>1, <2>1, <2>2, <2>3 DEF Connect, ClientInv, TypeOK, QuietWhenStopped
<1>2. CASE ConnectRefused
  <2>1. calls' \in [Handlers -> Nat]
    BY <1>2, CalledCounts DEF ConnectRefused, ClientInv, TypeOK
  <2> QED BY <1>2, <2>1, HandlerKeepsInv DEF ConnectRefused, ClientInv, TypeOK
<1>3. ASSUME NEW fromDestructor \in BOOLEAN, Disconnect(fromDestructor) PROVE ClientInv'
  BY <1>3 DEF Disconnect, ClientInv, TypeOK, QuietWhenStopped
<1>4. CASE SendClose
  BY <1>4 DEF SendClose, ClientInv, TypeOK, QuietWhenStopped
<1>5. CASE Stop
  BY <1>5 DEF Stop, ClientInv, TypeOK, QuietWhenStopped
<1>6. CASE Join
  BY <1>6 DEF Join, ClientInv, TypeOK, QuietWhenStopped
<1>7. CASE SendSignal
  <2>1. calls' \in [Handlers -> Nat]
    BY <1>7, CalledCounts DEF SendSignal, ClientInv, TypeOK
  <2> QED BY <1>7, <2>1, HandlerKeepsInv DEF SendSignal, ClientInv, TypeOK
<1> QED BY <1>1, <1>2, <1>3, <1>4, <1>5, <1>6, <1>7

\* The Asio thread.
LEMMA AsioKeepsInv ==
  ClientInv /\ (\/ OnOpen \/ OnFail \/ OnMessage \/ OnClose \/ HandlerReturns
                \/ RunReturns \/ ReportEnd \/ EndThread)
    => ClientInv'
<1> SUFFICES ASSUME ClientInv,
                    \/ OnOpen \/ OnFail \/ OnMessage \/ OnClose \/ HandlerReturns
                    \/ RunReturns \/ ReportEnd \/ EndThread
             PROVE  ClientInv'
  OBVIOUS
<1> USE DEF ClientInv, TypeOK
<1>1. CASE OnOpen \/ OnFail \/ OnMessage \/ OnClose
  <2>1. calls' \in [Handlers -> Nat]
    BY <1>1, CalledCounts DEF OnOpen, OnFail, OnMessage, OnClose, Enters
  <2>2. asioThread_ = "run" /\ handling' = TRUE
    BY <1>1 DEF OnOpen, OnFail, OnMessage, OnClose, Serving, Enters
  <2> QED BY <1>1, <2>1, <2>2, HandlerKeepsInv DEF OnOpen, OnFail, OnMessage, OnClose
<1>2. CASE RunReturns
  BY <1>2 DEF RunReturns, QuietWhenStopped
<1>3. CASE ReportEnd
  <2>1. calls' \in [Handlers -> Nat]
    BY <1>3, CalledCounts DEF ReportEnd, Enters
  <2>2. handling' \in BOOLEAN
    BY <1>3 DEF ReportEnd, Enters
  <2> QED BY <1>3, <2>1, <2>2 DEF ReportEnd, QuietWhenStopped
<1>4. CASE EndThread
  BY <1>4 DEF EndThread, QuietWhenStopped
<1>5. CASE HandlerReturns
  BY <1>5 DEF HandlerReturns, QuietWhenStopped
<1> QED BY <1>1, <1>2, <1>3, <1>4, <1>5

-----------------------------------------------------------------------------
\* The flag, the thread and the owner agree, whatever number of connections
\* the owner asks for.
THEOREM ClientIsSafe == Spec => []ClientInv
<1>1. Init => ClientInv
  <2> SUFFICES ASSUME Init PROVE ClientInv
    OBVIOUS
  <2>1. calls \in [Handlers -> Nat]
    BY DEF Init
  <2>2. connects \in 0..MaxConnects
    BY Bounds DEF Init
  <2> QED BY <2>1, <2>2 DEF Init, ClientInv, TypeOK, QuietWhenStopped
<1>2. ClientInv /\ [Next]_vars => ClientInv'
  <2>1. ClientInv /\ UNCHANGED vars => ClientInv'
    BY DEF vars, ClientInv, TypeOK, QuietWhenStopped
  <2> QED BY <2>1, OwnerKeepsInv, AsioKeepsInv DEF Next
<1> QED BY <1>1, <1>2, PTL DEF Spec

\* After disconnect(), or when the flag says the client is not running, the Asio
\* thread is in no handler of the application and enters none.
THEOREM ClientQuietWhenStopped == Spec => []QuietWhenStopped
<1>1. ClientInv => QuietWhenStopped
  BY DEF ClientInv
<1> QED BY <1>1, ClientIsSafe, PTL

=============================================================================
