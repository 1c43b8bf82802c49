---------------------------- MODULE CockpitProofs ----------------------------
(***************************************************************************)
(* The safety of the cockpit's domain state for any number of operations   *)
(* and web clients, the proof that it implements SafetyInterlock, and that *)
(* the process around it (CockpitApp) implements it and fails its          *)
(* self-test only for cause.                                               *)
(***************************************************************************)
EXTENDS CockpitApp, SequenceTheorems, TLAPS

\* What an operation does to the counters it is given.
LEMMA Counting ==
  ASSUME TypeOK, NEW counted \in SUBSET Counters, Count(counted)
  PROVE  /\ stats' \in [Counters -> Nat]
         /\ \A c \in Counters : stats'[c] = IF c \in counted THEN stats[c] + 1 ELSE stats[c]
BY DEF TypeOK, Count

\* An event that is not a command leaves the command counters alone.
LEMMA EventCounting ==
  ASSUME TypeOK, AcksTrackSends,
         NEW c \in Counters \ {"commands_sent", "command_acks", "ws_messages_received",
                               "input_commands_received"},
         Count({c})
  PROVE  stats' \in [Counters -> Nat] /\ AcksTrackSends'
<1>1. /\ stats' \in [Counters -> Nat]
      /\ \A d \in Counters : stats'[d] = IF d \in {c} THEN stats[d] + 1 ELSE stats[d]
  BY Counting
<1>. QED BY <1>1 DEF AcksTrackSends, Counters

\* Pushing a state keeps the timeline the history of the state; it latches an
\* emergency if it is a safe stop and releases it if it is CONNECTED.
LEMMA EnteringState ==
  ASSUME TypeOK, TimelineIsHistory, NEW s \in States, EnterState(s),
         s = "REMOTE_CONTROL" => session_state \in {"CONNECTED", "REMOTE_CONTROL"}
  PROVE  /\ state_timeline' \in Seq(States) /\ TimelineIsHistory' /\ session_state' = s
         /\ Latched' <=> (s = "SAFE_STOP" \/ (s # "CONNECTED" /\ Latched))
<1>. DEFINE t == state_timeline
            n == Len(t)
<1>1. /\ t \in Seq(States) /\ t # <<>> /\ n \in Nat \ {0} /\ t[n] = session_state
      /\ Last(t) = session_state /\ session_state' = s
  BY EmptySeq, LenProperties DEF TypeOK, TimelineIsHistory, Last, EnterState
<1>2. CASE s = session_state
  <2>1. state_timeline' = t
    BY <1>1, <1>2 DEF EnterState, PushState
  <2>2. s = "SAFE_STOP" => Latched
    BY <1>1, <1>2 DEF Latched
  <2>3. s = "CONNECTED" => ~Latched
    BY <1>1, <1>2 DEF Latched
  <2>4. Latched' <=> Latched
    BY <2>1 DEF Latched
  <2>. QED BY <1>1, <1>2, <2>1, <2>2, <2>3, <2>4 DEF TypeOK, TimelineIsHistory
<1>3. CASE s # session_state
  <2>1. state_timeline' = Append(t, s)
    BY <1>1, <1>3 DEF EnterState, PushState
  <2>2. /\ state_timeline' \in Seq(States) /\ Len(state_timeline') = n + 1
        /\ \A k \in 1..n : state_timeline'[k] = t[k]
        /\ state_timeline'[n + 1] = s
    BY <1>1, <2>1, AppendProperties
  <2>3. TimelineIsHistory'
    <3>1. SUFFICES ASSUME NEW k \in 1..n
                   PROVE  /\ state_timeline'[k] # state_timeline'[k + 1]
                          /\ state_timeline'[k + 1] = "REMOTE_CONTROL"
                               => state_timeline'[k] = "CONNECTED"
      BY <1>1, <2>2 DEF TimelineIsHistory
    <3>2. CASE k = n
      BY <1>1, <1>3, <2>2, <3>2
    <3>3. CASE k \in 1..(n - 1)
      <4>1. state_timeline'[k] = t[k] /\ state_timeline'[k + 1] = t[k + 1]
        BY <1>1, <2>2, <3>3
      <4>. QED BY <3>3, <4>1 DEF TimelineIsHistory
    <3>. QED BY <1>1, <3>2, <3>3
  <2>4. Latched' <=> (s = "SAFE_STOP" \/ (s # "CONNECTED" /\ Latched))
    <3>1. CASE s = "SAFE_STOP"
      BY <1>1, <2>2, <3>1 DEF Latched
    <3>2. CASE s = "CONNECTED"
      BY <1>1, <2>2, <3>2 DEF Latched
    <3>3. CASE s \notin {"SAFE_STOP", "CONNECTED"}
      <4>1. ASSUME NEW k \in 1..n
            PROVE  (\A j \in (k + 1)..n : t[j] # "CONNECTED")
                     <=> (\A j \in (k + 1)..(n + 1) : state_timeline'[j] # "CONNECTED")
        <5>1. \A j \in (k + 1)..n : state_timeline'[j] = t[j]
          BY <1>1, <2>2
        <5>2. \A j \in (k + 1)..(n + 1) : j \in (k + 1)..n \/ j = n + 1
          BY <1>1
        <5>3. (k + 1)..n \subseteq (k + 1)..(n + 1)
          BY <1>1
        <5>. QED BY <2>2, <3>3, <5>1, <5>2, <5>3
      <4>2. \A k \in 1..(n + 1) : state_timeline'[k] = "SAFE_STOP" => k \in 1..n
        BY <1>1, <2>2, <3>3
      <4>. QED BY <1>1, <2>2, <3>3, <4>1, <4>2 DEF Latched
    <3>. QED BY <3>1, <3>2, <3>3
  <2>. QED BY <1>1, <2>2, <2>3, <2>4
<1>. QED BY <1>2, <1>3

-----------------------------------------------------------------------------
\* ApplyCommand: every branch, from either source.
LEMMA CommandKeepsInv ==
  ASSUME CockpitInv, NEW source \in Sources, NEW command \in Commands,
         ApplyCommand(source, command)
  PROVE  CockpitInv'
<1>. USE DEF CockpitInv
<1>1. Accepts(command) /\ Obey(command) /\ UNCHANGED <<connected, ws_clients>>
  BY DEF ApplyCommand
<1>2. stats' \in [Counters -> Nat] /\ AcksTrackSends'
  <2>. DEFINE c == IF source = "web" THEN "ws_messages_received" ELSE "input_commands_received"
              C == {"commands_sent", "command_acks"} \cup {c}
  <2>1. C \in SUBSET Counters /\ Count(C)
    BY DEF ApplyCommand, Counters
  <2>2. /\ stats' \in [Counters -> Nat]
        /\ \A d \in Counters : stats'[d] = IF d \in C THEN stats[d] + 1 ELSE stats[d]
    <3>. HIDE DEF C
    <3>. QED BY <2>1, Counting
  <2>3. /\ stats'["commands_sent"] = stats["commands_sent"] + 1
        /\ stats'["command_acks"] = stats["command_acks"] + 1
        /\ \/ /\ stats'["ws_messages_received"] = stats["ws_messages_received"] + 1
              /\ stats'["input_commands_received"] = stats["input_commands_received"]
           \/ /\ stats'["ws_messages_received"] = stats["ws_messages_received"]
              /\ stats'["input_commands_received"] = stats["input_commands_received"] + 1
        /\ \A d \in Counters : stats[d] \in Nat
    BY <2>2 DEF Counters, TypeOK
  <2>. QED BY <2>2, <2>3 DEF AcksTrackSends, Counters
<1>3. CASE command = "TAKEOVER_REQUEST"
  <2>1. /\ EnterState("REMOTE_CONTROL") /\ vehicle_mode' = "REMOTE_CONTROL"
        /\ UNCHANGED <<emergency, expected_speed>> /\ session_state = "CONNECTED"
    BY <1>1, <1>3 DEF Accepts, Obey
  <2>2. /\ state_timeline' \in Seq(States) /\ TimelineIsHistory'
        /\ session_state' = "REMOTE_CONTROL" /\ Latched' = Latched
    BY <2>1, EnteringState DEF States, Latched
  <2>3. TypeOK' BY <1>1, <1>2, <2>1, <2>2 DEF TypeOK, States, Modes
  <2>4. SessionMatchesLink'
    BY <1>1, <1>3, <2>1, <2>2 DEF SessionMatchesLink, Accepts
  <2>. QED BY <1>2, <2>1, <2>2, <2>3, <2>4 DEF EmergencyIsHistory
<1>4. CASE command \in {"FORWARD", "STOP"}
  <2>1. /\ expected_speed' \in {0, ForwardSpeed} /\ session_state = "REMOTE_CONTROL"
        /\ UNCHANGED <<session_state, vehicle_mode, emergency, state_timeline>>
    BY <1>1, <1>4 DEF Accepts, Obey
  <2>2. Latched' = Latched BY <2>1 DEF Latched
  <2>. QED BY <1>1, <1>2, <2>1, <2>2
         DEF TypeOK, SessionMatchesLink, EmergencyIsHistory, TimelineIsHistory
<1>5. CASE command = "EMERGENCY_STOP"
  <2>1. SafeStop BY <1>1, <1>5 DEF Obey
  <2>2. /\ state_timeline' \in Seq(States) /\ TimelineIsHistory'
        /\ session_state' = "SAFE_STOP" /\ Latched'
    BY <2>1, EnteringState DEF SafeStop, States
  <2>. QED BY <1>1, <1>2, <2>1, <2>2
         DEF SafeStop, TypeOK, States, Modes, SessionMatchesLink, EmergencyIsHistory
<1>6. CASE command = "RECOVER_AUTO"
  <2>1. /\ EnterState("CONNECTED") /\ vehicle_mode' = "AUTO" /\ connected
        /\ emergency' = FALSE /\ expected_speed' = 0
    BY <1>1, <1>6 DEF Accepts, Obey
  <2>2. /\ state_timeline' \in Seq(States) /\ TimelineIsHistory'
        /\ session_state' = "CONNECTED" /\ ~Latched'
    BY <2>1, EnteringState DEF States
  <2>3. TypeOK' BY <1>1, <1>2, <2>1, <2>2 DEF TypeOK, States, Modes
  <2>4. SessionMatchesLink' /\ EmergencyIsHistory'
    BY <1>1, <2>1, <2>2 DEF SessionMatchesLink, EmergencyIsHistory
  <2>. QED BY <1>2, <2>2, <2>3, <2>4
<1>. QED BY <1>3, <1>4, <1>5, <1>6 DEF Commands

\* The events of the web clients, the peer connection and the network.
LEMMA EventKeepsInv ==
  ASSUME CockpitInv,
         \/ \E c \in Conn : OnWsConnected(c) \/ OnWsDisconnected(c)
         \/ OnPeerConnected \/ OnPeerDisconnected \/ OnNetworkDown \/ OnNetworkUp
         \/ OnHeartbeatLost \/ Connecting
  PROVE  CockpitInv'
<1>. USE DEF CockpitInv
<1>1. CASE \E c \in Conn : OnWsConnected(c) \/ OnWsDisconnected(c)
  <2>1. /\ UNCHANGED <<session_state, vehicle_mode, emergency, expected_speed, connected,
                       state_timeline>>
        /\ ws_clients' \subseteq Conn
        /\ Count({"ws_connected_events"}) \/ Count({"ws_disconnected_events"})
    BY <1>1 DEF OnWsConnected, OnWsDisconnected, sessionVars, TypeOK
  <2>2. stats' \in [Counters -> Nat] /\ AcksTrackSends'
    BY <2>1, EventCounting DEF Counters
  <2>3. Latched' = Latched BY <2>1 DEF Latched
  <2>. QED BY <2>1, <2>2, <2>3
         DEF TypeOK, SessionMatchesLink, EmergencyIsHistory, TimelineIsHistory
<1>2. CASE OnPeerConnected
  <2>1. stats' \in [Counters -> Nat] /\ AcksTrackSends'
    BY <1>2, EventCounting DEF OnPeerConnected, Counters
  <2>2. CASE emergency
    <3>1. /\ EnterState(session_state)
          /\ UNCHANGED <<vehicle_mode, expected_speed, emergency, ws_clients>> /\ connected' = TRUE
      BY <1>2, <2>2 DEF OnPeerConnected
    <3>2. Latched /\ session_state \notin {"CONNECTED", "REMOTE_CONTROL"}
      BY <2>2 DEF EmergencyIsHistory, SessionMatchesLink
    <3>3. /\ state_timeline' \in Seq(States) /\ TimelineIsHistory'
          /\ session_state' = session_state /\ Latched'
      BY <3>1, <3>2, EnteringState DEF TypeOK
    <3>4. TypeOK' BY <2>1, <3>1, <3>3 DEF TypeOK
    <3>5. SessionMatchesLink' /\ EmergencyIsHistory'
      BY <2>2, <3>1, <3>2, <3>3 DEF SessionMatchesLink, EmergencyIsHistory
    <3>. QED BY <2>1, <3>3, <3>4, <3>5
  <2>3. CASE ~emergency
    <3>1. /\ EnterState("CONNECTED") /\ vehicle_mode' = "AUTO" /\ expected_speed' = 0
          /\ UNCHANGED <<emergency, ws_clients>> /\ connected' = TRUE
      BY <1>2, <2>3 DEF OnPeerConnected
    <3>2. /\ state_timeline' \in Seq(States) /\ TimelineIsHistory'
          /\ session_state' = "CONNECTED" /\ ~Latched'
      BY <3>1, EnteringState DEF States
    <3>3. TypeOK' BY <2>1, <3>1, <3>2 DEF TypeOK, States, Modes
    <3>4. SessionMatchesLink' /\ EmergencyIsHistory'
      BY <2>3, <3>1, <3>2 DEF SessionMatchesLink, EmergencyIsHistory
    <3>. QED BY <2>1, <3>2, <3>3, <3>4
  <2>. QED BY <2>2, <2>3
<1>3. CASE OnPeerDisconnected
  <2>1. stats' \in [Counters -> Nat] /\ AcksTrackSends'
    BY <1>3, EventCounting DEF OnPeerDisconnected, Counters
  <2>2. /\ state_timeline' \in Seq(States) /\ TimelineIsHistory'
        /\ session_state' = "DISCONNECTED" /\ Latched' = Latched
    BY <1>3, EnteringState DEF OnPeerDisconnected, States, Latched
  <2>3. TypeOK' BY <1>3, <2>1, <2>2 DEF OnPeerDisconnected, TypeOK, States, Modes
  <2>4. SessionMatchesLink' /\ EmergencyIsHistory'
    BY <1>3, <2>2 DEF OnPeerDisconnected, SessionMatchesLink, EmergencyIsHistory
  <2>. QED BY <2>1, <2>2, <2>3, <2>4
<1>4. CASE OnNetworkDown
  <2>1. stats' \in [Counters -> Nat] /\ AcksTrackSends'
    BY <1>4, EventCounting DEF OnNetworkDown, Counters
  <2>2. /\ state_timeline' \in Seq(States) /\ TimelineIsHistory'
        /\ session_state' = "RECONNECTING" /\ Latched' = Latched
    BY <1>4, EnteringState DEF OnNetworkDown, States, Latched
  <2>3. TypeOK' BY <1>4, <2>1, <2>2 DEF OnNetworkDown, TypeOK, States
  <2>4. SessionMatchesLink' /\ EmergencyIsHistory'
    BY <1>4, <2>2 DEF OnNetworkDown, SessionMatchesLink, EmergencyIsHistory
  <2>. QED BY <2>1, <2>2, <2>3, <2>4
<1>5. CASE OnNetworkUp
  <2>. DEFINE s == IF emergency THEN "SAFE_STOP" ELSE "CONNECTED"
  <2>1. stats' \in [Counters -> Nat] /\ AcksTrackSends'
    BY <1>5, EventCounting DEF OnNetworkUp, Counters
  <2>2. s \in States /\ s # "REMOTE_CONTROL" /\ EnterState(s)
    BY <1>5 DEF OnNetworkUp, States
  <2>3. /\ state_timeline' \in Seq(States) /\ TimelineIsHistory' /\ session_state' = s
        /\ Latched' <=> (s = "SAFE_STOP" \/ (s # "CONNECTED" /\ Latched))
    <3>. HIDE DEF s
    <3>. QED BY <2>2, EnteringState
  <2>4. TypeOK' BY <1>5, <2>1, <2>2, <2>3 DEF OnNetworkUp, TypeOK, Modes
  <2>5. SessionMatchesLink' /\ EmergencyIsHistory'
    BY <1>5, <2>3 DEF OnNetworkUp, SessionMatchesLink, EmergencyIsHistory, TypeOK
  <2>. QED BY <2>1, <2>3, <2>4, <2>5
<1>6. CASE OnHeartbeatLost
  <2>1. stats' \in [Counters -> Nat] /\ AcksTrackSends'
    BY <1>6, EventCounting DEF OnHeartbeatLost, Counters
  <2>2. /\ state_timeline' \in Seq(States) /\ TimelineIsHistory'
        /\ session_state' = "SAFE_STOP" /\ Latched'
    BY <1>6, EnteringState DEF OnHeartbeatLost, SafeStop, States
  <2>. QED BY <1>6, <2>1, <2>2 DEF OnHeartbeatLost, SafeStop, TypeOK, States, Modes,
                                 SessionMatchesLink, EmergencyIsHistory
<1>7. CASE Connecting
  <2>1. session_state = "DISCONNECTED" /\ ~emergency
    <3>1. state_timeline = <<"DISCONNECTED">> BY <1>7 DEF Connecting
    <3>2. Len(state_timeline) = 1 /\ state_timeline[1] = "DISCONNECTED" BY <3>1
    <3>. QED BY <3>2 DEF TimelineIsHistory, EmergencyIsHistory, Latched
  <2>2. /\ state_timeline' \in Seq(States) /\ TimelineIsHistory'
        /\ session_state' = "CONNECTING" /\ Latched' = Latched
    BY <1>7, EnteringState DEF Connecting, States, Latched
  <2>3. TypeOK' BY <1>7, <2>2 DEF Connecting, TypeOK, States
  <2>4. SessionMatchesLink' /\ EmergencyIsHistory' /\ AcksTrackSends'
    BY <1>7, <2>1, <2>2
       DEF Connecting, SessionMatchesLink, EmergencyIsHistory, AcksTrackSends
  <2>. QED BY <2>2, <2>3, <2>4
<1>. QED BY <1>1, <1>2, <1>3, <1>4, <1>5, <1>6, <1>7

-----------------------------------------------------------------------------
LEMMA CockpitStart == Init => CockpitInv
<1>. SUFFICES ASSUME Init PROVE CockpitInv
  OBVIOUS
<1>1. /\ state_timeline = <<"DISCONNECTED">> /\ Len(state_timeline) = 1
      /\ state_timeline[1] = "DISCONNECTED"
  BY DEF Init
<1>2. <<"DISCONNECTED">> \in Seq(States) BY DEF States
<1>3. stats \in [Counters -> Nat] BY DEF Init
<1>4. TypeOK BY <1>1, <1>2, <1>3 DEF Init, TypeOK, States, Modes
<1>5. ~Latched BY <1>1 DEF Latched
<1>6. AcksTrackSends BY DEF Init, AcksTrackSends, Counters
<1>7. TimelineIsHistory BY <1>1 DEF Init, TimelineIsHistory
<1>8. SessionMatchesLink BY DEF Init, SessionMatchesLink
<1>. QED BY <1>4, <1>5, <1>6, <1>7, <1>8 DEF Init, CockpitInv, EmergencyIsHistory

LEMMA NextKeepsInv == CockpitInv /\ [Next]_vars => CockpitInv'
<1>. SUFFICES ASSUME CockpitInv, [Next]_vars PROVE CockpitInv'
  OBVIOUS
<1>1. CASE UNCHANGED vars
  <2>1. Latched' = Latched BY <1>1 DEF Latched, vars
  <2>. QED BY <1>1, <2>1 DEF vars, CockpitInv, TypeOK, SessionMatchesLink,
                           EmergencyIsHistory, TimelineIsHistory, AcksTrackSends
<1>. QED BY <1>1, CommandKeepsInv, EventKeepsInv DEF Next

\* The inductive invariant, for any number of operations in any order.
THEOREM CockpitIsSafe == Spec => []CockpitInv
BY CockpitStart, NextKeepsInv, PTL DEF Spec

\* Nobody drives over a dead link, and nobody is locked out of a live one.
THEOREM CockpitSessionMatchesLink == Spec => []SessionMatchesLink
<1>1. CockpitInv => SessionMatchesLink BY DEF CockpitInv
<1>. QED BY <1>1, CockpitIsSafe, PTL

\* The emergency flag is what the recorded history says.
THEOREM CockpitEmergencyIsHistory == Spec => []EmergencyIsHistory
<1>1. CockpitInv => EmergencyIsHistory BY DEF CockpitInv
<1>. QED BY <1>1, CockpitIsSafe, PTL

\* The timeline is complete, and control follows CONNECTED.
THEOREM CockpitTimelineIsHistory == Spec => []TimelineIsHistory
<1>1. CockpitInv => TimelineIsHistory BY DEF CockpitInv
<1>. QED BY <1>1, CockpitIsSafe, PTL

\* The emergency flag falls by RECOVER_AUTO only: no peer or network event and no web
\* client coming or going clears it.
THEOREM CockpitEmergencyLatches == Spec => EmergencyLatches
<1>1. [Next]_vars =>
        [emergency /\ ~emergency' =>
           \E source \in Sources : ApplyCommand(source, "RECOVER_AUTO")]_vars
  <2>. SUFFICES ASSUME Next, emergency, ~emergency'
                PROVE  \E source \in Sources : ApplyCommand(source, "RECOVER_AUTO")
    OBVIOUS
  <2>1. ~SafeStop BY DEF SafeStop
  <2>2. ~OnPeerConnected /\ ~OnPeerDisconnected /\ ~OnNetworkUp /\ ~OnNetworkDown
    BY DEF OnPeerConnected, OnPeerDisconnected, OnNetworkUp, OnNetworkDown
  <2>3. ~Connecting /\ ~OnHeartbeatLost
    BY <2>1 DEF Connecting, OnHeartbeatLost
  <2>4. ~(\E c \in Conn : OnWsConnected(c)) /\ ~(\E c \in Conn : OnWsDisconnected(c))
    BY DEF OnWsConnected, OnWsDisconnected, sessionVars
  <2>5. PICK source \in Sources, command \in Commands : ApplyCommand(source, command)
    BY <2>2, <2>3, <2>4 DEF Next
  <2>6. Obey(command) BY <2>5 DEF ApplyCommand
  <2>7. command = "RECOVER_AUTO" BY <2>1, <2>6 DEF Obey
  <2>. QED BY <2>5, <2>7
<1>. QED BY <1>1, PTL DEF Spec, EmergencyLatches

\* What an operation does to the counter of acknowledgements.
LEMMA Acknowledging ==
  ASSUME TypeOK, NEW counted \in SUBSET Counters, Count(counted)
  PROVE  IF "command_acks" \in counted
         THEN stats'["command_acks"] = stats["command_acks"] + 1
         ELSE stats'["command_acks"] = stats["command_acks"]
BY Counting DEF Counters

\* The cockpit's operations implement the interlock: the emergency is left, and control
\* taken, by an acknowledged command only, through all disconnections.
THEOREM CockpitImplementsInterlock == Spec => ImplementsInterlock
<1>. DEFINE d == IF emergency THEN "stopped"
                 ELSE IF session_state = "REMOTE_CONTROL" THEN "remote" ELSE "auto"
            acks == stats["command_acks"]
            mapped == <<d, expected_speed > 0, acks>>
<1>1. Init => Interlock!Init
  BY DEF Init, Interlock!Init, Counters
<1>2. CockpitInv /\ [Next]_vars => [Interlock!Next]_mapped
  <2>. SUFFICES ASSUME CockpitInv, [Next]_vars PROVE [Interlock!Next]_mapped
    OBVIOUS
  <2>. USE DEF CockpitInv
  <2>1. ASSUME SafeStop, acks' = acks + 1 \/ acks' = acks PROVE Interlock!Trip
    BY <2>1 DEF SafeStop, Interlock!Trip, Interlock!Obeyed
  \* an event that leaves no driver in control and does not touch the flag
  <2>2. ASSUME session_state' # "REMOTE_CONTROL", expected_speed' = 0, UNCHANGED emergency,
               acks' = acks
        PROVE  [Interlock!Next]_mapped
    <3>1. CASE emergency
      BY <2>2, <3>1 DEF Interlock!Next, Interlock!Trip
    <3>2. CASE ~emergency /\ session_state = "REMOTE_CONTROL"
      BY <2>2, <3>2 DEF Interlock!Next, Interlock!HandBack
    <3>3. CASE ~emergency /\ session_state # "REMOTE_CONTROL"
      <4>1. (expected_speed > 0) = FALSE BY <3>3 DEF SessionMatchesLink, TypeOK
      <4>. QED BY <2>2, <3>3, <4>1
    <3>. QED BY <3>1, <3>2, <3>3
  <2>3. ASSUME NEW c \in Counters \ {"command_acks"}, Count({c})
        PROVE  acks' = acks
    BY <2>3, Acknowledging
  <2>4. CASE OnPeerDisconnected \/ OnNetworkDown \/ OnNetworkUp
    <3>1. acks' = acks
      BY <2>3, <2>4 DEF OnPeerDisconnected, OnNetworkDown, OnNetworkUp, Counters
    <3>. QED BY <2>2, <2>4, <3>1 DEF OnPeerDisconnected, OnNetworkDown, OnNetworkUp, EnterState
  <2>5. CASE OnPeerConnected
    <3>0. acks' = acks BY <2>3, <2>5 DEF OnPeerConnected, Counters
    <3>1. CASE emergency
      BY <2>5, <3>0, <3>1 DEF OnPeerConnected
    <3>2. CASE ~emergency
      BY <2>2, <2>5, <3>0, <3>2 DEF OnPeerConnected, EnterState
    <3>. QED BY <3>1, <3>2
  <2>6. CASE Connecting
    <3>1. state_timeline = <<"DISCONNECTED">> BY <2>6 DEF Connecting
    <3>2. session_state = "DISCONNECTED"
      BY <3>1 DEF TimelineIsHistory
    <3>. QED BY <2>6, <3>2 DEF Connecting, EnterState
  <2>7. CASE \E c \in Conn : OnWsConnected(c) \/ OnWsDisconnected(c)
    <3>1. acks' = acks BY <2>3, <2>7 DEF OnWsConnected, OnWsDisconnected, Counters
    <3>. QED BY <2>7, <3>1 DEF OnWsConnected, OnWsDisconnected, sessionVars
  <2>8. CASE OnHeartbeatLost
    <3>1. acks' = acks BY <2>3, <2>8 DEF OnHeartbeatLost, Counters
    <3>. QED BY <2>1, <2>8, <3>1 DEF OnHeartbeatLost, Interlock!Next
  <2>9. ASSUME NEW source \in Sources, NEW command \in Commands, ApplyCommand(source, command)
        PROVE  [Interlock!Next]_mapped
    <3>0. acks' = acks + 1
      <4>. DEFINE C == {"commands_sent", "command_acks"} \cup
             {IF source = "web" THEN "ws_messages_received" ELSE "input_commands_received"}
      <4>1. Count(C) BY <2>9 DEF ApplyCommand
      <4>2. C \in SUBSET Counters BY DEF Counters
      <4>3. "command_acks" \in C OBVIOUS
      <4>. HIDE DEF C
      <4>. QED BY <4>1, <4>2, <4>3, Acknowledging
    <3>. USE <2>9 DEF ApplyCommand, Accepts, Obey, EnterState, SessionMatchesLink
    <3>1. CASE command = "TAKEOVER_REQUEST"
      <4>1. session_state = "CONNECTED" /\ session_state' = "REMOTE_CONTROL" /\ ~emergency
            /\ emergency' = emergency /\ expected_speed' = expected_speed
        BY <3>1
      <4>2. (expected_speed > 0) = FALSE BY <4>1
      <4>. QED BY <3>0, <4>1, <4>2 DEF Interlock!Next, Interlock!TakeOver, Interlock!Obeyed
    <3>2. CASE command \in {"FORWARD", "STOP"}
      <4>1. session_state = "REMOTE_CONTROL" /\ session_state' = session_state
            /\ ~emergency /\ emergency' = emergency
        BY <3>2
      <4>. QED BY <3>0, <4>1 DEF Interlock!Next, Interlock!SetSpeed, Interlock!Obeyed
    <3>3. CASE command = "EMERGENCY_STOP"
      BY <2>1, <3>0, <3>3 DEF Interlock!Next
    <3>4. CASE command = "RECOVER_AUTO"
      <4>1. session_state = "SAFE_STOP" /\ emergency /\ session_state' = "CONNECTED"
            /\ emergency' = FALSE /\ expected_speed' = 0
        BY <3>4
      <4>. QED BY <3>0, <4>1 DEF Interlock!Next, Interlock!Recover, Interlock!Obeyed
    <3>. QED BY <3>1, <3>2, <3>3, <3>4 DEF Commands
  <2>10. CASE UNCHANGED vars
    BY <2>10 DEF vars
  <2>. QED BY <2>4, <2>5, <2>6, <2>7, <2>8, <2>9, <2>10 DEF Next
<1>. QED BY <1>1, <1>2, CockpitIsSafe, PTL DEF Spec, ImplementsInterlock, Interlock!Spec

-----------------------------------------------------------------------------
(* The self-test of the process.                                           *)

\* How many lines of the script are done: its last event may still have to publish.
Done == IF main = "publish" THEN line ELSE line - 1

\* 1 when the k-th line is among the first n.
Since(k, n) == IF n >= k THEN 1 ELSE 0

\* What the first n lines, and the peer reported before them, have counted.
CountsHold(n) ==
  /\ stats["commands_sent"] >= Since(2, n) + Since(3, n) + Since(4, n) + Since(5, n)
                                 + Since(8, n) + Since(10, n)
  /\ stats["ws_messages_received"] >= Since(2, n) + Since(4, n) + Since(5, n) + Since(10, n)
  /\ stats["input_commands_received"] >= Since(3, n) + Since(8, n)
  /\ stats["ws_connected_events"] >= Since(1, n) /\ stats["ws_disconnected_events"] >= Since(13, n)
  /\ stats["peer_connected_events"] >= 1 + Since(12, n)
  /\ stats["peer_disconnected_events"] >= Since(11, n)
  /\ stats["network_down_events"] >= Since(6, n) /\ stats["network_up_events"] >= Since(7, n)
  /\ stats["heartbeat_lost_events"] >= Since(9, n)

\* How many of the expected states have been entered.
Entered(n) == 3 + Since(2, n) + Since(5, n) + Since(6, n) + Since(7, n) + Since(8, n)
                + Since(9, n) + Since(10, n) + Since(11, n) + Since(12, n)

StatesHold(n) ==
  /\ Len(state_timeline) = Entered(n)
  /\ \A k \in 1..Entered(n) : state_timeline[k] = ExpectedStates[k]
  /\ connected <=> n \notin {6, 11}
  /\ emergency <=> n \in {5, 6, 7, 9}
  /\ ws_clients = IF n \in 1..12 THEN {ws_conn} ELSE {}

\* Every handler of the script publishes, its commands do not.
Published(n) == Since(1, n) + Since(6, n) + Since(7, n) + Since(9, n) + Since(11, n)
                  + Since(12, n) + Since(13, n)

Unreported == session \in {"start", "delay", "report"}

\* Until the session thread reports the peer nothing else has happened.
SessionRuns ==
  Unreported =>
    /\ ~connected /\ ~emergency /\ ws_clients = {}
    /\ main \notin {"ready", "script", "publish"}
    /\ state_timeline = IF session = "start" THEN <<"DISCONNECTED">>
                        ELSE <<"DISCONNECTED", "CONNECTING">>

\* The self-test is waiting for the peer, or has done the first lines of its script.
ScriptRuns ==
  main \in {"self_test", "poll", "ready", "script", "publish"} =>
    /\ exitCode = 0 /\ (g_stop_requested => signalled)
    /\ line \in 1..14 /\ (main = "publish" => line \in 1..13)
    /\ main \in {"self_test", "poll", "ready"} => line = 1
    /\ main \in {"ready", "script", "publish"} \/ connected
         => status_updates >= Published(line - 1) /\ CountsHold(Done) /\ StatesHold(Done)

\* What every step of the process preserves.
AppInv ==
  /\ CockpitInv
  /\ line \in Nat \ {0} /\ status_updates \in Nat /\ exitCode \in {0, 5}
  /\ SessionRuns /\ ScriptRuns

-----------------------------------------------------------------------------
LEMMA TheScript ==
  /\ Len(Script) = 13
  /\ \A k \in {1, 6, 7, 9, 11, 12, 13} : Script[k].kind = "event"
  /\ \A k \in {2, 3, 4, 5, 8, 10} :
        /\ Script[k].kind = "command"
        /\ Script[k].source = IF k \in {3, 8} THEN "input" ELSE "web"
  /\ Script[1].name = "ws_connected" /\ Script[2].name = "TAKEOVER_REQUEST"
  /\ Script[3].name = "FORWARD" /\ Script[4].name = "STOP"
  /\ Script[5].name = "EMERGENCY_STOP" /\ Script[6].name = "network_down"
  /\ Script[7].name = "network_up" /\ Script[8].name = "RECOVER_AUTO"
  /\ Script[9].name = "heartbeat_lost" /\ Script[10].name = "RECOVER_AUTO"
  /\ Script[11].name = "peer_disconnected" /\ Script[12].name = "peer_connected"
  /\ Script[13].name = "ws_disconnected"
BY DEF Script, Event, Command

\* A step of main, of the session thread, of a loop or of the signal handler is an
\* operation of the domain layer, or leaves the cockpit's state alone.
LEMMA StepIsOperation == line \in Nat \ {0} /\ [AppNext]_allVars => [Next]_vars
<1>. SUFFICES ASSUME line \in Nat \ {0}, [AppNext]_allVars PROVE [Next]_vars
  OBVIOUS
<1>1. CASE HandleEvent
  BY <1>1, SelfTestConn DEF HandleEvent, Handle, Next
<1>2. CASE HandleCommand
  <2>1. line \in 1..13 /\ Script[line].kind = "command"
    BY <1>2, TheScript DEF HandleCommand, InScript
  <2>2. line \in {2, 3, 4, 5, 8, 10}
    BY <2>1, TheScript
  <2>3. Script[line].source \in Sources /\ Script[line].name \in Commands
    BY <2>2, TheScript DEF Sources, Commands
  <2>. QED BY <1>2, <2>3 DEF HandleCommand, Next
<1>3. CASE SessionStart BY <1>3 DEF SessionStart, Next
<1>4. CASE SessionReport BY <1>4 DEF SessionReport, Next
<1>5. CASE UNCHANGED vars BY <1>5
<1>. QED BY <1>1, <1>2, <1>3, <1>4, <1>5
       DEF AppNext, MainStep, SessionStep, LoopStep, allVars, TestStop, Poll, PublishStatus,
           Verdict, RunSecondsOver, SeesStop, Join, SessionCheck, SessionPublish, LoopTop,
           Tick, signal_handler

-----------------------------------------------------------------------------
LEMMA EnteredTable ==
  ASSUME NEW n \in 0..13
  PROVE  Entered(n) = IF n < 2 THEN 3 ELSE IF n < 5 THEN 4 ELSE IF n < 12 THEN n ELSE 12
BY DEF Entered, Since

\* The state after n lines.
LEMMA StateAfter ==
  ASSUME CockpitInv, NEW n \in 0..13, StatesHold(n)
  PROVE  /\ session_state = ExpectedStates[Entered(n)]
         /\ session_state = IF n \in {2, 3, 4} THEN "REMOTE_CONTROL"
                            ELSE IF n \in {5, 7, 9} THEN "SAFE_STOP"
                            ELSE IF n = 6 THEN "RECONNECTING"
                            ELSE IF n = 11 THEN "DISCONNECTED" ELSE "CONNECTED"
<1>1. Entered(n) \in 1..12 BY EnteredTable
<1>2. session_state = ExpectedStates[Entered(n)]
  BY <1>1 DEF CockpitInv, TimelineIsHistory, StatesHold
<1>. QED BY <1>2, EnteredTable DEF ExpectedStates

\* One more line, and what it counts.
LEMMA CountsGoOn ==
  ASSUME TypeOK, NEW n \in 0..12, CountsHold(n), NEW C \in SUBSET Counters, Count(C),
         n \in {1, 2, 3, 4, 7, 9} => "commands_sent" \in C,
         n \in {1, 3, 4, 9} => "ws_messages_received" \in C,
         n \in {2, 7} => "input_commands_received" \in C,
         n = 0 => "ws_connected_events" \in C, n = 12 => "ws_disconnected_events" \in C,
         n = 11 => "peer_connected_events" \in C, n = 10 => "peer_disconnected_events" \in C,
         n = 5 => "network_down_events" \in C, n = 6 => "network_up_events" \in C,
         n = 8 => "heartbeat_lost_events" \in C
  PROVE  CountsHold(n + 1)'
<1>1. \A c \in Counters : stats[c] \in Nat /\ stats'[c] = IF c \in C THEN stats[c] + 1 ELSE stats[c]
  BY Counting DEF TypeOK
<1>2. \A k \in 1..13 : Since(k, n + 1) = IF n + 1 = k THEN 1 ELSE Since(k, n)
  BY DEF Since
<1>3. \A k \in 1..13 : Since(k, n) \in {0, 1} /\ (n + 1 = k => Since(k, n) = 0)
  BY DEF Since
<1>. QED BY <1>1, <1>2, <1>3 DEF CountsHold, Counters

\* One more line, and the state it enters.
LEMMA TimelineGoesOn ==
  ASSUME CockpitInv, NEW n \in 0..12, StatesHold(n), NEW s \in States,
         s = ExpectedStates[Entered(n + 1)],
         Entered(n + 1) = IF s = session_state THEN Entered(n) ELSE Entered(n) + 1,
         EnterState(s) \/ (s = session_state /\ UNCHANGED state_timeline)
  PROVE  /\ Len(state_timeline') = Entered(n + 1)
         /\ \A k \in 1..Entered(n + 1) : state_timeline'[k] = ExpectedStates[k]
<1>. DEFINE t == state_timeline
<1>1. /\ t \in Seq(States) /\ t # <<>> /\ Len(t) = Entered(n) /\ t[Len(t)] = session_state
      /\ Entered(n) \in 1..12 /\ Last(t) = session_state
      /\ \A k \in 1..Len(t) : t[k] = ExpectedStates[k]
  <2>1. t \in Seq(States) /\ t # <<>> /\ t[Len(t)] = session_state
    BY DEF CockpitInv, TypeOK, TimelineIsHistory
  <2>2. Entered(n) \in 1..12 BY EnteredTable
  <2>3. Last(t) = session_state BY <2>1 DEF Last
  <2>. QED BY <2>1, <2>2, <2>3 DEF StatesHold
<1>2. CASE s = session_state
  <2>1. state_timeline' = t
    BY <1>1, <1>2 DEF EnterState, PushState
  <2>. QED BY <1>1, <1>2, <2>1
<1>3. CASE s # session_state
  <2>1. state_timeline' = Append(t, s)
    BY <1>1, <1>3 DEF EnterState, PushState
  <2>2. /\ Len(state_timeline') = Len(t) + 1
        /\ \A k \in 1..Len(t) : state_timeline'[k] = t[k]
        /\ state_timeline'[Len(t) + 1] = s
    BY <1>1, <2>1, AppendProperties
  <2>3. \A k \in 1..(Len(t) + 1) : k \in 1..Len(t) \/ k = Len(t) + 1
    BY <1>1
  <2>4. Entered(n + 1) = Len(t) + 1 BY <1>1, <1>3
  <2>. QED BY <1>1, <2>2, <2>3, <2>4
<1>. QED BY <1>2, <1>3

\* An event of the script.
LEMMA EventLine ==
  ASSUME CockpitInv, NEW n \in {0, 5, 6, 8, 10, 11, 12}, CountsHold(n), StatesHold(n),
         Handle(Script[n + 1].name)
  PROVE  CountsHold(n + 1)' /\ StatesHold(n + 1)'
<1>1. TypeOK BY DEF CockpitInv
<1>2. n \in 0..12 OBVIOUS
<1>3. /\ n = 0 => OnWsConnected(ws_conn)
      /\ n = 5 => OnNetworkDown
      /\ n = 6 => OnNetworkUp
      /\ n = 8 => OnHeartbeatLost
      /\ n = 10 => OnPeerDisconnected
      /\ n = 11 => OnPeerConnected
      /\ n = 12 => OnWsDisconnected(ws_conn)
  BY TheScript DEF Handle
<1>. DEFINE c == IF n = 0 THEN "ws_connected_events"
                 ELSE IF n = 5 THEN "network_down_events"
                 ELSE IF n = 6 THEN "network_up_events"
                 ELSE IF n = 8 THEN "heartbeat_lost_events"
                 ELSE IF n = 10 THEN "peer_disconnected_events"
                 ELSE IF n = 11 THEN "peer_connected_events" ELSE "ws_disconnected_events"
<1>4. Count({c})
  BY <1>3 DEF OnWsConnected, OnNetworkDown, OnNetworkUp, OnHeartbeatLost, OnPeerDisconnected,
              OnPeerConnected, OnWsDisconnected
<1>5. CountsHold(n + 1)'
  <2>. DEFINE C == {c}
  <2>1. /\ Count(C) /\ C \in SUBSET Counters /\ n \notin {1, 2, 3, 4, 7, 9}
        /\ n = 0 => "ws_connected_events" \in C
        /\ n = 12 => "ws_disconnected_events" \in C
        /\ n = 11 => "peer_connected_events" \in C
        /\ n = 10 => "peer_disconnected_events" \in C
        /\ n = 5 => "network_down_events" \in C
        /\ n = 6 => "network_up_events" \in C
        /\ n = 8 => "heartbeat_lost_events" \in C
    BY <1>4 DEF Counters
  <2>. HIDE DEF C, c
  <2>. QED BY <1>1, <1>2, <2>1, CountsGoOn
<1>. HIDE DEF c
<1>. DEFINE s == IF n = 5 THEN "RECONNECTING" ELSE IF n \in {6, 8} THEN "SAFE_STOP"
                 ELSE IF n = 10 THEN "DISCONNECTED" ELSE "CONNECTED"
<1>6. session_state = IF n = 5 THEN "SAFE_STOP" ELSE IF n = 6 THEN "RECONNECTING"
                      ELSE IF n = 11 THEN "DISCONNECTED" ELSE "CONNECTED"
  BY <1>2, StateAfter
<1>7. /\ connected <=> n # 6 /\ n # 11
      /\ emergency <=> n \in {5, 6}
      /\ ws_clients = IF n = 0 THEN {} ELSE {ws_conn}
  BY DEF StatesHold
<1>8. /\ EnterState(s) \/ (s = session_state /\ UNCHANGED state_timeline)
      /\ connected' <=> n + 1 \notin {6, 11}
      /\ emergency' <=> n + 1 \in {5, 6, 7, 9}
      /\ ws_clients' = IF n = 12 THEN {} ELSE {ws_conn}
  <2>1. CASE n = 0
    BY <1>3, <1>6, <1>7, <2>1 DEF OnWsConnected, sessionVars
  <2>2. CASE n = 5
    BY <1>3, <1>7, <2>2 DEF OnNetworkDown
  <2>3. CASE n = 6
    BY <1>3, <1>7, <2>3 DEF OnNetworkUp
  <2>4. CASE n = 8
    BY <1>3, <1>7, <2>4 DEF OnHeartbeatLost, SafeStop
  <2>5. CASE n = 10
    BY <1>3, <1>7, <2>5 DEF OnPeerDisconnected
  <2>6. CASE n = 11
    BY <1>3, <1>7, <2>6 DEF OnPeerConnected
  <2>7. CASE n = 12
    BY <1>3, <1>6, <1>7, <2>7 DEF OnWsDisconnected, sessionVars
  <2>. QED BY <2>1, <2>2, <2>3, <2>4, <2>5, <2>6, <2>7
<1>9. /\ s \in States /\ s = ExpectedStates[Entered(n + 1)]
      /\ Entered(n + 1) = IF s = session_state THEN Entered(n) ELSE Entered(n) + 1
  BY <1>2, <1>6, EnteredTable DEF ExpectedStates, States
<1>10. /\ Len(state_timeline') = Entered(n + 1)
       /\ \A k \in 1..Entered(n + 1) : state_timeline'[k] = ExpectedStates[k]
  <2>. HIDE DEF s
  <2>. QED BY <1>2, <1>8, <1>9, TimelineGoesOn
<1>11. StatesHold(n + 1)'
  <2>1. n + 1 \in 1..12 <=> n # 12 BY <1>2
  <2>. QED BY <1>8, <1>10, <2>1 DEF StatesHold
<1>. QED BY <1>5, <1>11

\* A command of the script is accepted, and does what the self-test expects of it.
LEMMA CommandLine ==
  ASSUME CockpitInv, NEW n \in {1, 2, 3, 4, 7, 9}, CountsHold(n), StatesHold(n)
  PROVE  /\ Accepts(Script[n + 1].name)
         /\ ApplyCommand(Script[n + 1].source, Script[n + 1].name)
              => CountsHold(n + 1)' /\ StatesHold(n + 1)'
<1>. DEFINE source  == Script[n + 1].source
            command == Script[n + 1].name
<1>1. TypeOK BY DEF CockpitInv
<1>2. n \in 0..12 OBVIOUS
<1>3. /\ source = IF n \in {2, 7} THEN "input" ELSE "web"
      /\ n = 1 => command = "TAKEOVER_REQUEST"
      /\ n = 2 => command = "FORWARD"
      /\ n = 3 => command = "STOP"
      /\ n = 4 => command = "EMERGENCY_STOP"
      /\ n \in {7, 9} => command = "RECOVER_AUTO"
  BY TheScript
<1>4. session_state = IF n = 1 THEN "CONNECTED" ELSE IF n < 5 THEN "REMOTE_CONTROL" ELSE "SAFE_STOP"
  BY <1>2, StateAfter
<1>5. /\ connected /\ (emergency <=> n \in {7, 9}) /\ ws_clients = {ws_conn}
  BY DEF StatesHold
<1>. HIDE DEF source, command
<1>6. Accepts(command) BY <1>3, <1>4, <1>5 DEF Accepts
<1>. SUFFICES ASSUME ApplyCommand(source, command)
              PROVE  CountsHold(n + 1)' /\ StatesHold(n + 1)'
  BY <1>6 DEF source, command
<1>. DEFINE C == {"commands_sent", "command_acks"} \cup
       {IF source = "web" THEN "ws_messages_received" ELSE "input_commands_received"}
<1>7. /\ Count(C) /\ C \in SUBSET Counters /\ "commands_sent" \in C
      /\ n \notin {2, 7} => "ws_messages_received" \in C
      /\ n \in {2, 7} => "input_commands_received" \in C
  BY <1>3 DEF ApplyCommand, Counters
<1>8. CountsHold(n + 1)'
  <2>. HIDE DEF C
  <2>. QED BY <1>1, <1>2, <1>7, CountsGoOn
<1>. DEFINE s == IF n < 4 THEN "REMOTE_CONTROL" ELSE IF n = 4 THEN "SAFE_STOP" ELSE "CONNECTED"
<1>9. /\ EnterState(s) \/ (s = session_state /\ UNCHANGED state_timeline)
      /\ connected' = connected /\ ws_clients' = ws_clients
      /\ emergency' <=> n = 4
  BY <1>3, <1>4, <1>5 DEF ApplyCommand, Obey, SafeStop
<1>10. /\ s \in States /\ s = ExpectedStates[Entered(n + 1)]
       /\ Entered(n + 1) = IF s = session_state THEN Entered(n) ELSE Entered(n) + 1
  BY <1>2, <1>4, EnteredTable DEF ExpectedStates, States
<1>11. /\ Len(state_timeline') = Entered(n + 1)
       /\ \A k \in 1..Entered(n + 1) : state_timeline'[k] = ExpectedStates[k]
  <2>. HIDE DEF s
  <2>. QED BY <1>2, <1>9, <1>10, TimelineGoesOn
<1>12. StatesHold(n + 1)' BY <1>5, <1>9, <1>11 DEF StatesHold
<1>. QED BY <1>8, <1>12

\* The states the session has gone through at the end are the expected ones.
LEMMA TheCursor ==
  ASSUME Len(state_timeline) = 12, \A k \in 1..12 : state_timeline[k] = ExpectedStates[k]
  PROVE  Cursor = 12
<1>. DEFINE Step(f, n) ==
       IF n = 0 THEN 0
       ELSE IF f[n - 1] < Len(ExpectedStates) /\ state_timeline[n] = ExpectedStates[f[n - 1] + 1]
            THEN f[n - 1] + 1 ELSE f[n - 1]
            g == [n \in 0..12 |-> n]
            c == CHOOSE f : f = [n \in 0..12 |-> Step(f, n)]
<1>1. Cursor = c[12] BY DEF Cursor
<1>2. Len(ExpectedStates) = 12 BY DEF ExpectedStates
<1>3. g = [n \in 0..12 |-> Step(g, n)]
  <2>1. ASSUME NEW n \in 0..12 PROVE g[n] = Step(g, n)
    BY <1>2
  <2>. QED BY <2>1
<1>4. c = [n \in 0..12 |-> Step(c, n)]
  <2>. HIDE DEF g
  <2>. QED BY <1>3
<1>5. \A n \in 0..12 : c[n] = Step(c, n)
  <2>. HIDE DEF c
  <2>. QED BY <1>4
<1>. HIDE DEF c
<1>6. c[0] = 0 BY <1>5
<1>7. ASSUME NEW n \in 0..11, c[n] = n PROVE c[n + 1] = n + 1
  BY <1>2, <1>5, <1>7
<1>8. c[1] = 1 /\ c[2] = 2 /\ c[3] = 3 /\ c[4] = 4
  BY <1>6, <1>7
<1>9. c[5] = 5 /\ c[6] = 6 /\ c[7] = 7 /\ c[8] = 8
  BY <1>7, <1>8
<1>10. c[9] = 9 /\ c[10] = 10 /\ c[11] = 11 /\ c[12] = 12
  BY <1>7, <1>9
<1>. QED BY <1>1, <1>10

\* When the script has run to its end, all it was to do is done.
LEMMA ScriptSucceeds ==
  ASSUME AppInv, main = "script", line > Len(Script)
  PROVE  ScriptChecks
<1>1. line = 14 /\ Done = 13 /\ CockpitInv /\ CountsHold(13) /\ StatesHold(13)
  BY TheScript DEF AppInv, ScriptRuns, Done
<1>2. \A k \in 1..13 : Since(k, 13) = 1 BY DEF Since
<1>3. Entered(13) = 12 BY EnteredTable
<1>4. Len(state_timeline) = 12 /\ \A k \in 1..12 : state_timeline[k] = ExpectedStates[k]
  BY <1>1, <1>3 DEF StatesHold
<1>5. Cursor = Len(ExpectedStates)
  BY <1>4, TheCursor DEF ExpectedStates
<1>6. /\ connected /\ session_state = "CONNECTED" /\ vehicle_mode = "AUTO"
      /\ ~emergency /\ ws_clients = {}
  <2>1. session_state = "CONNECTED" BY <1>1, StateAfter
  <2>2. connected /\ ~emergency /\ ws_clients = {} BY <1>1 DEF StatesHold
  <2>. QED BY <1>1, <2>1, <2>2 DEF CockpitInv, SessionMatchesLink
<1>7. status_updates >= 5
  BY <1>1, <1>2 DEF AppInv, ScriptRuns, Published
<1>8. \A c \in Counters : stats[c] \in Nat BY <1>1 DEF CockpitInv, TypeOK
<1>9. stats["command_acks"] = stats["commands_sent"] BY <1>1 DEF CockpitInv, AcksTrackSends
<1>10. /\ stats["commands_sent"] >= 6
       /\ stats["ws_connected_events"] >= 1 /\ stats["ws_disconnected_events"] >= 1
       /\ stats["ws_messages_received"] >= 4 /\ stats["input_commands_received"] >= 2
       /\ stats["peer_connected_events"] >= 2 /\ stats["peer_disconnected_events"] >= 1
       /\ stats["network_up_events"] >= 1 /\ stats["network_down_events"] >= 1
       /\ stats["heartbeat_lost_events"] >= 1
  BY <1>1, <1>2 DEF CountsHold
<1>. QED BY <1>5, <1>6, <1>7, <1>8, <1>9, <1>10 DEF ScriptChecks, Counters

-----------------------------------------------------------------------------
LEMMA AppStart == AppInit => AppInv
<1>. SUFFICES ASSUME AppInit PROVE AppInv
  OBVIOUS
<1>1. CockpitInv BY CockpitStart DEF AppInit
<1>2. line = 1 /\ exitCode = 0 /\ status_updates = 0
  BY DEF AppInit
<1>3. SessionRuns BY DEF AppInit, Init, SessionRuns
<1>4. ScriptRuns BY DEF AppInit, Init, ScriptRuns
<1>. QED BY <1>1, <1>2, <1>3, <1>4 DEF AppInv

\* The session thread reports the peer, and the script may begin.
LEMMA ReportStep ==
  ASSUME AppInv, SessionReport
  PROVE  SessionRuns' /\ ScriptRuns'
<1>1. /\ OnPeerConnected /\ session' = "publish" /\ UNCHANGED <<g_stop_requested, signalled,
         main, line, exitCode, status_updates>>
  BY DEF SessionReport
<1>2. /\ ~connected /\ ~emergency /\ ws_clients = {} /\ main \notin {"ready", "script", "publish"}
      /\ state_timeline = <<"DISCONNECTED", "CONNECTING">>
  BY DEF AppInv, SessionRuns, Unreported, SessionReport
<1>3. SessionRuns' BY <1>1 DEF SessionRuns, Unreported
<1>4. CountsHold(0)'
  <2>1. TypeOK /\ Count({"peer_connected_events"}) BY <1>1 DEF AppInv, CockpitInv, OnPeerConnected
  <2>2. /\ \A c \in Counters : stats[c] \in Nat /\ stats'[c] \in Nat
        /\ stats'["peer_connected_events"] = stats["peer_connected_events"] + 1
    BY <2>1, Counting DEF TypeOK, Counters
  <2>3. \A k \in 1..13 : Since(k, 0) = 0 BY DEF Since
  <2>. QED BY <2>2, <2>3 DEF CountsHold, Counters
<1>5. StatesHold(0)'
  <2>1. state_timeline' = <<"DISCONNECTED", "CONNECTING", "CONNECTED">>
    <3>1. Last(state_timeline) = "CONNECTING" BY <1>2 DEF Last
    <3>. QED BY <1>1, <1>2, <3>1 DEF OnPeerConnected, EnterState, PushState
  <2>2. connected' /\ ~emergency' /\ ws_clients' = {}
    BY <1>1, <1>2 DEF OnPeerConnected
  <2>3. Entered(0) = 3 BY EnteredTable
  <2>. QED BY <2>1, <2>2, <2>3 DEF StatesHold, ExpectedStates
<1>6. ASSUME main \in {"self_test", "poll"} PROVE ScriptRuns'
  <2>1. line = 1 /\ exitCode = 0 /\ (g_stop_requested => signalled) /\ status_updates \in Nat
    BY <1>6 DEF AppInv, ScriptRuns
  <2>2. Done' = 0 /\ line' = 1 BY <1>1, <1>6, <2>1 DEF Done
  <2>3. CountsHold(Done)' BY <1>4, <2>2 DEF CountsHold
  <2>4. StatesHold(Done)' BY <1>5, <2>2 DEF StatesHold
  <2>5. Published(0) = 0 BY DEF Published, Since
  <2>6. status_updates' >= Published(line' - 1) BY <1>1, <2>1, <2>2, <2>5
  <2>. QED BY <1>1, <1>6, <2>1, <2>2, <2>3, <2>4, <2>6 DEF ScriptRuns
<1>. QED BY <1>1, <1>2, <1>3, <1>6 DEF ScriptRuns

\* A line of the script is begun or done.
LEMMA ScriptStep ==
  ASSUME AppInv, HandleEvent \/ HandleCommand
  PROVE  ScriptRuns'
<1>1. /\ main = "script" /\ line \in 1..13 /\ UNCHANGED <<signalled, status_updates>>
  <2>1. main = "script" /\ line <= 13 /\ UNCHANGED <<signalled, status_updates>>
    BY TheScript DEF HandleEvent, HandleCommand, InScript
  <2>. QED BY <2>1 DEF AppInv
<1>2. PICK n \in 0..12 : n = line - 1
  BY <1>1
<1>3. /\ CockpitInv /\ CountsHold(n) /\ StatesHold(n) /\ line = n + 1
      /\ exitCode = 0 /\ (g_stop_requested => signalled)
      /\ status_updates >= Published(n)
  <2>1. Done = n BY <1>1, <1>2 DEF Done
  <2>. QED BY <1>1, <1>2, <2>1 DEF AppInv, ScriptRuns
<1>4. CASE HandleEvent
  <2>1. Script[line].kind = "event" /\ Handle(Script[line].name)
        /\ main' = "publish" /\ UNCHANGED <<line, exitCode, g_stop_requested>>
    BY <1>4 DEF HandleEvent, InScript, Proceed
  <2>2. n \in {0, 5, 6, 8, 10, 11, 12}
    <3>1. line \in {1, 6, 7, 9, 11, 12, 13} BY <1>1, <2>1, TheScript
    <3>. QED BY <1>2, <3>1
  <2>3. CountsHold(n + 1)' /\ StatesHold(n + 1)'
    BY <1>3, <2>1, <2>2, EventLine
  <2>4. Done' = n + 1 /\ line' = n + 1 BY <1>3, <2>1 DEF Done
  <2>5. CountsHold(Done)' BY <2>3, <2>4 DEF CountsHold
  <2>6. StatesHold(Done)' BY <2>3, <2>4 DEF StatesHold
  <2>7. status_updates' >= Published(line' - 1) BY <1>1, <1>2, <1>3, <2>4
  <2>. QED BY <1>1, <1>3, <2>1, <2>5, <2>6, <2>7 DEF ScriptRuns
<1>5. CASE HandleCommand
  <2>1. n \in {1, 2, 3, 4, 7, 9}
    <3>1. Script[line].kind = "command" BY <1>5 DEF HandleCommand, InScript
    <3>2. line \in {2, 3, 4, 5, 8, 10} BY <1>1, <3>1, TheScript
    <3>. QED BY <1>2, <3>2
  <2>2. Accepts(Script[line].name) BY <1>3, <2>1, CommandLine
  <2>3. /\ ApplyCommand(Script[line].source, Script[line].name)
        /\ main' = "script" /\ line' = line + 1 /\ UNCHANGED <<exitCode, g_stop_requested>>
    BY <1>5, <2>2 DEF HandleCommand, Proceed
  <2>4. CountsHold(n + 1)' /\ StatesHold(n + 1)'
    BY <1>3, <2>1, <2>3, CommandLine
  <2>5. Done' = n + 1 /\ line' - 1 = n + 1 BY <1>3, <2>3 DEF Done
  <2>6. CountsHold(Done)' BY <2>4, <2>5 DEF CountsHold
  <2>7. StatesHold(Done)' BY <2>4, <2>5 DEF StatesHold
  <2>8. Published(n + 1) = Published(n) BY <2>1 DEF Published, Since
  <2>9. status_updates' >= Published(line' - 1) BY <1>1, <1>3, <2>5, <2>8
  <2>. QED BY <1>1, <1>3, <2>3, <2>6, <2>7, <2>9 DEF ScriptRuns
<1>. QED BY <1>4, <1>5

\* A handler of the script publishes, beside the session thread.
LEMMA PublishStep ==
  ASSUME AppInv, PublishStatus
  PROVE  ScriptRuns'
<1>1. /\ main = "publish" /\ main' = "script" /\ line \in 1..13 /\ line' = line + 1
      /\ UNCHANGED <<vars, g_stop_requested, signalled, exitCode>>
      /\ status_updates' = status_updates + 1 /\ status_updates \in Nat
  BY DEF PublishStatus, AppInv, ScriptRuns, Proceed
<1>2. PICK n \in 0..12 : n = line - 1 BY <1>1
<1>3. Published(n + 1) <= Published(n) + 1
  BY DEF Published, Since
<1>4. status_updates >= Published(n) /\ CountsHold(Done) /\ StatesHold(Done)
      /\ exitCode = 0 /\ (g_stop_requested => signalled)
  BY <1>1, <1>2 DEF AppInv, ScriptRuns
<1>5. Done = line /\ Done' = line /\ line' - 1 = n + 1 /\ line' \in 2..14
  BY <1>1, <1>2 DEF Done
<1>6. status_updates' >= Published(line' - 1)
  <2>1. Published(n) \in Nat /\ Published(n + 1) \in Nat BY DEF Published, Since
  <2>. QED BY <1>1, <1>3, <1>4, <1>5, <2>1
<1>7. CountsHold(Done)' BY <1>1, <1>4, <1>5 DEF CountsHold, vars
<1>8. StatesHold(Done)' BY <1>1, <1>4, <1>5 DEF StatesHold, vars
<1>. QED BY <1>1, <1>4, <1>5, <1>6, <1>7, <1>8 DEF ScriptRuns

\* The steps that leave the cockpit's state alone.
LEMMA QuietStep ==
  ASSUME AppInv, UNCHANGED <<vars, line>>,
         exitCode' = exitCode \/ main' \notin {"self_test", "poll", "ready", "script", "publish"},
         main' = main \/ main' \notin {"self_test", "poll", "ready", "script", "publish"}
           \/ (main = "self_test" /\ main' = "poll") \/ (main = "ready" /\ main' = "script")
           \/ (main = "poll" /\ main' = IF connected THEN "ready" ELSE "self_test"),
         session' = session \/ (session = "delay" /\ session' = "report")
           \/ session' \in {"idle", "done"},
         status_updates' \in {status_updates, status_updates + 1},
         g_stop_requested' => g_stop_requested \/ signalled'
           \/ main' \notin {"self_test", "poll", "ready", "script", "publish"},
         signalled => signalled'
  PROVE  SessionRuns' /\ ScriptRuns'
<1>1. SessionRuns'
  BY DEF AppInv, SessionRuns, Unreported, vars
<1>2. ScriptRuns'
  <2>1. SUFFICES ASSUME main' \in {"self_test", "poll", "ready", "script", "publish"}
                 PROVE  ScriptRuns'
    BY DEF ScriptRuns
  <2>2. main \in {"self_test", "poll", "ready", "script", "publish"}
        /\ (main' = "publish" => main = "publish") /\ (main = "publish" => main' = "publish")
    BY <2>1
  <2>3. Done' = Done BY <2>2 DEF Done
  <2>4. CountsHold(Done) => CountsHold(Done)' BY <2>3 DEF CountsHold, vars
  <2>5. StatesHold(Done) => StatesHold(Done)' BY <2>3 DEF StatesHold, vars
  <2>6. /\ exitCode = 0 /\ (g_stop_requested => signalled) /\ line \in 1..14
        /\ (main = "publish" => line \in 1..13)
        /\ main \in {"self_test", "poll", "ready"} => line = 1
    BY <2>2 DEF AppInv, ScriptRuns
  <2>7. main' \in {"self_test", "poll", "ready"} => line' = 1
    BY <2>2, <2>6
  <2>8. ASSUME main' \in {"ready", "script", "publish"} \/ connected'
        PROVE  status_updates' >= Published(line' - 1) /\ CountsHold(Done)' /\ StatesHold(Done)'
    <3>1. main \in {"ready", "script", "publish"} \/ connected
      BY <2>8 DEF vars
    <3>2. status_updates >= Published(line - 1) /\ CountsHold(Done) /\ StatesHold(Done)
      BY <2>2, <3>1 DEF AppInv, ScriptRuns
    <3>3. PICK n \in 0..13 : n = line - 1 BY <2>6
    <3>4. Published(n) \in Nat BY DEF Published, Since
    <3>. QED BY <2>4, <2>5, <3>2, <3>3, <3>4 DEF AppInv
  <2>. QED BY <2>1, <2>2, <2>6, <2>7, <2>8 DEF ScriptRuns
<1>. QED BY <1>1, <1>2

\* A timeline of two entries.
LEMMA TwoEntries ==
  ASSUME NEW a \in States, NEW b \in States
  PROVE  Append(<<a>>, b) = <<a, b>>
<1>. DEFINE t == Append(<<a>>, b)
<1>1. /\ <<a>> \in Seq(States) /\ <<a, b>> \in Seq(States)
      /\ Len(<<a>>) = 1 /\ Len(<<a, b>>) = 2
  OBVIOUS
<1>2. t \in Seq(States) /\ Len(t) = 2 /\ t[1] = a /\ t[2] = b
  BY <1>1, AppendProperties
<1>3. \A i \in 1..Len(t) : t[i] = <<a, b>>[i]
  BY <1>2
<1>. HIDE DEF t
<1>4. t = <<a, b>> BY <1>1, <1>2, <1>3, SeqEqual
<1>. QED BY <1>4 DEF t

\* What every step of the process preserves.
LEMMA AppKeepsInv == AppInv /\ [AppNext]_allVars => AppInv'
<1>. SUFFICES ASSUME AppInv, [AppNext]_allVars PROVE AppInv'
  OBVIOUS
<1>1. CockpitInv'
  BY StepIsOperation, NextKeepsInv DEF AppInv
<1>2. line' \in Nat \ {0} /\ status_updates' \in Nat /\ exitCode' \in {0, 5}
  BY DEF AppInv, AppNext, MainStep, SessionStep, LoopStep, allVars, appVars, TestStop, Poll,
         HandleEvent, HandleCommand, PublishStatus, EndSelfTest, Proceed, Verdict,
         RunSecondsOver, SeesStop, Join, SessionStart, SessionCheck, SessionReport,
         SessionPublish, LoopTop, Tick, signal_handler
<1>3. SessionRuns' /\ ScriptRuns'
  <2>1. CASE HandleEvent \/ HandleCommand \/ PublishStatus
    <3>1. main \in {"script", "publish"} /\ session' = session
      BY <2>1 DEF HandleEvent, HandleCommand, PublishStatus, InScript
    <3>2. SessionRuns' BY <3>1 DEF AppInv, SessionRuns, Unreported
    <3>. QED BY <2>1, <3>2, ScriptStep, PublishStep
  <2>2. CASE SessionReport BY <2>2, ReportStep
  <2>3. CASE SessionStart
    <3>1. /\ session = "start" /\ session' = "delay" /\ Connecting
          /\ UNCHANGED <<g_stop_requested, signalled, main, line, exitCode, status_updates>>
      BY <2>3 DEF SessionStart
    <3>2. /\ ~connected /\ ~emergency /\ ws_clients = {}
          /\ main \notin {"ready", "script", "publish"}
          /\ state_timeline = <<"DISCONNECTED">>
      BY <3>1 DEF AppInv, SessionRuns, Unreported
    <3>3. state_timeline' = <<"DISCONNECTED", "CONNECTING">>
      <4>1. Last(state_timeline) = "DISCONNECTED" BY <3>2 DEF Last
      <4>2. state_timeline' = Append(state_timeline, "CONNECTING")
        BY <3>1, <4>1 DEF Connecting, EnterState, PushState
      <4>. QED BY <3>2, <4>2, TwoEntries DEF States
    <3>4. SessionRuns' BY <3>1, <3>2, <3>3 DEF SessionRuns, Connecting
    <3>5. ScriptRuns' BY <3>1, <3>2 DEF AppInv, ScriptRuns, Connecting
    <3>. QED BY <3>4, <3>5
  <2>4. CASE TestStop \/ Poll
    BY <2>4, QuietStep DEF TestStop, Poll, EndSelfTest, Proceed
  <2>5. CASE Verdict \/ RunSecondsOver \/ SeesStop \/ Join
    BY <2>5, QuietStep DEF Verdict, EndSelfTest, RunSecondsOver, SeesStop, Join, Proceed
  <2>6. CASE SessionCheck \/ SessionPublish
    BY <2>6, QuietStep DEF SessionCheck, SessionPublish
  <2>7. CASE (\E t \in Loops : LoopStep(t)) \/ signal_handler \/ UNCHANGED allVars
    BY <2>7, QuietStep DEF LoopStep, LoopTop, Tick, signal_handler, allVars, appVars
  <2>. QED BY <2>1, <2>2, <2>3, <2>4, <2>5, <2>6, <2>7 DEF AppNext, MainStep, SessionStep
<1>. QED BY <1>1, <1>2, <1>3 DEF AppInv

LEMMA AppIsSafe == AppSpec => []AppInv
BY AppStart, AppKeepsInv, PTL DEF AppSpec

\* connection_loop writes CONNECTING without looking at the state: nothing the timeline
\* records comes before it, as the guard of Connecting says.
THEOREM ConnectingComesFirst ==
  AppSpec => [](session = "start" => state_timeline = <<"DISCONNECTED">>)
<1>1. AppInv => (session = "start" => state_timeline = <<"DISCONNECTED">>)
  BY DEF AppInv, SessionRuns, Unreported
<1>. QED BY <1>1, AppIsSafe, PTL

\* Whatever the interleaving of main, the session thread, the loops and the signal
\* handler, what holds of CockpitRuntime holds of the process.
THEOREM CockpitAppImplementsRuntime == AppSpec => ImplementsRuntime
<1>1. AppInit => Init BY DEF AppInit
<1>2. AppInv => line \in Nat \ {0} BY DEF AppInv
<1>. QED BY <1>1, <1>2, AppIsSafe, StepIsOperation, PTL DEF AppSpec, ImplementsRuntime, Spec

\* run_self_test ends in failure only when the process was signalled, or a loop had not
\* had its time: no command is rejected, however late the session thread reports the
\* peer, and at the end the script has done all it is checked for.
THEOREM CockpitFailsOnlyForCause == AppSpec => FailsOnlyForCause
<1>1. AppInv /\ [AppNext]_allVars
        => [exitCode' # exitCode => signalled \/ (line > Len(Script) /\ ~TickChecks)]_allVars
  <2>. SUFFICES ASSUME AppInv, AppNext, exitCode' # exitCode
                PROVE  signalled \/ (line > Len(Script) /\ ~TickChecks)
    OBVIOUS
  <2>1. CASE TestStop
    BY <2>1 DEF TestStop, Proceed, AppInv, ScriptRuns
  <2>2. CASE HandleCommand
    <3>1. main = "script" /\ line \in 1..13 /\ Script[line].kind = "command"
      BY <2>2, TheScript DEF HandleCommand, InScript, AppInv
    <3>2. line \in {2, 3, 4, 5, 8, 10} BY <3>1, TheScript
    <3>3. PICK n \in {1, 2, 3, 4, 7, 9} : line = n + 1 BY <3>2
    <3>4. CockpitInv /\ CountsHold(n) /\ StatesHold(n)
      <4>1. Done = n BY <3>1, <3>3 DEF Done
      <4>. QED BY <3>1, <4>1 DEF AppInv, ScriptRuns
    <3>5. Accepts(Script[line].name) BY <3>3, <3>4, CommandLine
    <3>. QED BY <2>2, <3>5 DEF HandleCommand, Proceed
  <2>3. CASE Verdict
    <3>1. main = "script" /\ line > Len(Script) /\ EndSelfTest(TickChecks /\ ScriptChecks)
      BY <2>3 DEF Verdict
    <3>2. ScriptChecks BY <3>1, ScriptSucceeds
    <3>3. exitCode = 0 BY <3>1 DEF AppInv, ScriptRuns
    <3>. QED BY <3>1, <3>2, <3>3 DEF EndSelfTest
  <2>. QED BY <2>1, <2>2, <2>3
         DEF AppNext, MainStep, SessionStep, LoopStep, Poll, HandleEvent, PublishStatus,
             Proceed, RunSecondsOver, SeesStop, Join, SessionStart, SessionCheck,
             SessionReport, SessionPublish, LoopTop, Tick, signal_handler
<1>. QED BY <1>1, AppIsSafe, PTL DEF AppSpec, FailsOnlyForCause
=============================================================================
