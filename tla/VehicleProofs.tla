---------------------------- MODULE VehicleProofs ----------------------------
(***************************************************************************)
(* The safety of the vehicle's domain state for any number of operations,  *)
(* the proof that it implements SafetyInterlock, and that the process      *)
(* around it (VehicleApp) implements it and fails its self-test only for   *)
(* cause.                                                                  *)
(***************************************************************************)
EXTENDS VehicleApp, SequenceTheorems, FiniteSetTheorems, TLAPS

\* What one operation leaves to show about the counters it is given.
LEMMA Counting ==
  ASSUME TypeOK, NEW counted \in SUBSET Counters, Count(counted)
  PROVE  /\ stats' \in [Counters -> Nat]
         /\ \A c \in Counters : stats'[c] = IF c \in counted THEN stats[c] + 1 ELSE stats[c]
BY DEF TypeOK, Count

\* The entries of a timeline are finitely many.
LEMMA StopEntriesFinite ==
  ASSUME NEW s \in Seq(Modes)
  PROVE  LET E == {k \in DOMAIN s : s[k] = "SAFE_STOP"} IN
           IsFiniteSet(E) /\ Cardinality(E) \in Nat
<1>. DEFINE E == {k \in DOMAIN s : s[k] = "SAFE_STOP"}
<1>1. DOMAIN s = 1..Len(s) /\ Len(s) \in Nat
  BY LenProperties
<1>2. IsFiniteSet(DOMAIN s)
  BY <1>1, FS_Interval
<1>3. E \subseteq DOMAIN s
  OBVIOUS
<1>. QED BY <1>2, <1>3, FS_Subset, FS_CardinalityType

\* Recording a mode that the last recorded one may be followed by keeps the
\* timeline the history of the mode, and adds a safe stop only to enter one.
LEMMA EnteringMode ==
  ASSUME TypeOK, TimelineIsHistory, NEW m \in Modes, m = mode \/ LegalMove(mode, m),
         EnterMode(m)
  PROVE  /\ mode_timeline' \in Seq(Modes) /\ TimelineIsHistory' /\ mode' = m
         /\ Cardinality(StopEntries') <= Cardinality(StopEntries)
              + (IF m = "SAFE_STOP" /\ mode # "SAFE_STOP" THEN 1 ELSE 0)
<1>. DEFINE s == mode_timeline
<1>1. s \in Seq(Modes) /\ s # <<>> /\ Len(s) \in Nat \ {0} /\ s[Len(s)] = mode
  BY EmptySeq, LenProperties DEF TypeOK, TimelineIsHistory
<1>2. Last(s) = mode
  BY <1>1 DEF Last
<1>0. IsFiniteSet(StopEntries) /\ Cardinality(StopEntries) \in Nat
  BY <1>1, StopEntriesFinite DEF StopEntries
<1>3. CASE m = mode
  <2>1. mode_timeline' = mode_timeline /\ mode' = mode
    BY <1>1, <1>2, <1>3 DEF EnterMode, PushMode
  <2>2. StopEntries' = StopEntries BY <2>1 DEF StopEntries
  <2>. QED BY <2>1, <2>2, <1>0, <1>3 DEF TypeOK, TimelineIsHistory
<1>4. CASE m # mode /\ LegalMove(mode, m)
  <2>1. mode_timeline' = Append(s, m) /\ mode' = m
    BY <1>1, <1>2, <1>4 DEF EnterMode, PushMode
  <2>2. /\ Append(s, m) \in Seq(Modes) /\ Append(s, m) # <<>>
        /\ Len(Append(s, m)) = Len(s) + 1
        /\ \A k \in 1..Len(s) : Append(s, m)[k] = s[k]
        /\ Append(s, m)[Len(s) + 1] = m
    BY <1>1, AppendProperties
  <2>3. DOMAIN Append(s, m) = 1..(Len(s) + 1) /\ DOMAIN s = 1..Len(s)
    BY <1>1, <2>2, LenProperties
  <2>4. TimelineIsHistory'
    <3>1. SUFFICES ASSUME NEW k \in 1..Len(s)
                   PROVE  LegalMove(mode_timeline'[k], mode_timeline'[k + 1])
      BY <1>1, <2>1, <2>2 DEF TimelineIsHistory
    <3>2. CASE k = Len(s)
      BY <1>1, <1>4, <2>1, <2>2, <3>2
    <3>3. CASE k \in 1..(Len(s) - 1)
      <4>1. mode_timeline'[k] = s[k] /\ mode_timeline'[k + 1] = s[k + 1]
        BY <1>1, <2>1, <2>2, <3>3
      <4>. QED BY <3>3, <4>1 DEF TimelineIsHistory
    <3>. QED BY <1>1, <3>2, <3>3
  <2>5. StopEntries' = IF m = "SAFE_STOP" THEN StopEntries \cup {Len(s) + 1} ELSE StopEntries
    BY <1>1, <2>1, <2>2, <2>3 DEF StopEntries
  <2>6. Len(s) + 1 \notin StopEntries
    BY <1>1, <2>3 DEF StopEntries
  <2>7. Cardinality(StopEntries \cup {Len(s) + 1}) = Cardinality(StopEntries) + 1
    BY <1>0, <2>6, FS_AddElement
  <2>. QED BY <1>0, <1>4, <2>1, <2>2, <2>4, <2>5, <2>7
<1>. QED BY <1>3, <1>4

-----------------------------------------------------------------------------
(* One lemma per kind of operation.                                        *)

\* Everything that makes the vehicle stop by itself or on command: the stop is
\* counted, once, together with the event or with the ack of the command.
LEMMA StopKeepsInv ==
  ASSUME VehicleInv, SafeStop, peer_connected' \in BOOLEAN,
         NEW c \in {"network_down_events", "heartbeat_lost_events", "webrtc_errors",
                    "command_acks"},
         NEW C, {c, "emergency_commands_received"} \subseteq C,
         C \subseteq {c, "emergency_commands_received", "control_messages_received"},
         Count(C)
  PROVE  VehicleInv'
<1>. USE DEF VehicleInv
<1>1. mode = "SAFE_STOP" \/ LegalMove(mode, "SAFE_STOP")
  BY DEF TypeOK, Modes, LegalMove
<1>2. /\ mode_timeline' \in Seq(Modes) /\ TimelineIsHistory' /\ mode' = "SAFE_STOP"
      /\ emergency' = TRUE /\ speed' = 0 /\ gear' = 0
  BY <1>1, EnteringMode DEF SafeStop, Modes
<1>3. C \in SUBSET Counters BY DEF Counters
<1>4. /\ stats' \in [Counters -> Nat]
      /\ \A d \in Counters : stats'[d] = IF d \in C THEN stats[d] + 1 ELSE stats[d]
  BY <1>3, Counting
<1>5. TypeOK' BY <1>2, <1>4 DEF TypeOK, Modes
<1>6. StopsAreCounted'
  <2>1. \A d \in {"network_down_events", "heartbeat_lost_events", "webrtc_errors",
                  "emergency_commands_received", "command_acks"} :
           /\ stats[d] \in Nat
           /\ stats'[d] = IF d \in {c, "emergency_commands_received"} THEN stats[d] + 1
                          ELSE stats[d]
    BY <1>4 DEF TypeOK, Counters
  <2>2. Cardinality(StopEntries) \in Nat /\ Cardinality(StopEntries)' \in Nat
    BY <1>5, StopEntriesFinite DEF StopEntries, TypeOK
  <2>3. Cardinality(StopEntries)' <= Cardinality(StopEntries) + 1
    BY <1>1, <2>2, EnteringMode DEF SafeStop, Modes
  <2>. HIDE DEF StopEntries
  <2>. QED BY <2>1, <2>2, <2>3 DEF StopsAreCounted
<1>. QED BY <1>2, <1>5, <1>6 DEF MovesOnlyUnderControl, EmergencyIsSafeStop

\* The peer or the network comes or goes without an emergency of its own: the
\* mode falls back to what the emergency flag says.
LEMMA PeerEventKeepsInv ==
  ASSUME VehicleInv, EnterMode(IF emergency THEN "SAFE_STOP" ELSE "AUTO"),
         speed' = 0, gear' \in {0, 1}, emergency => gear' = 0, emergency' = emergency,
         peer_connected' \in BOOLEAN,
         NEW c \in {"peer_connected_events", "peer_disconnected_events", "network_up_events"},
         Count({c})
  PROVE  VehicleInv'
<1>. USE DEF VehicleInv
<1>. DEFINE m == IF emergency THEN "SAFE_STOP" ELSE "AUTO"
<1>1. m \in Modes /\ (m = mode \/ LegalMove(mode, m)) /\ (m = "SAFE_STOP" => mode = "SAFE_STOP")
  BY DEF TypeOK, Modes, LegalMove, EmergencyIsSafeStop
<1>2. /\ mode_timeline' \in Seq(Modes) /\ TimelineIsHistory' /\ mode' = m
      /\ Cardinality(StopEntries') <= Cardinality(StopEntries)
  <2>. HIDE DEF m
  <2>1. EnterMode(m) BY DEF m
  <2>2. Cardinality(StopEntries) \in Nat
    BY StopEntriesFinite DEF StopEntries, TypeOK
  <2>. QED BY <1>1, <2>1, <2>2, EnteringMode
<1>3. /\ stats' \in [Counters -> Nat]
      /\ \A d \in Counters : stats'[d] = IF d \in {c} THEN stats[d] + 1 ELSE stats[d]
  BY Counting DEF Counters
<1>4. TypeOK' BY <1>1, <1>2, <1>3 DEF TypeOK
<1>5. StopsAreCounted'
  <2>1. \A d \in {"network_down_events", "heartbeat_lost_events", "webrtc_errors",
                  "emergency_commands_received", "command_acks"} :
           stats'[d] = stats[d] /\ stats[d] \in Nat
    BY <1>3 DEF TypeOK, Counters
  <2>2. Cardinality(StopEntries) \in Nat /\ Cardinality(StopEntries)' \in Nat
    BY <1>4, StopEntriesFinite DEF StopEntries, TypeOK
  <2>. QED BY <1>2, <2>1, <2>2 DEF StopsAreCounted
<1>. QED BY <1>1, <1>2, <1>4, <1>5 DEF MovesOnlyUnderControl, EmergencyIsSafeStop

\* ApplyCommand: every branch of the chain, and a rejected command.
LEMMA CommandKeepsInv ==
  ASSUME VehicleInv, NEW source \in Sources, NEW command \in Commands,
         ApplyCommand(source, command)
  PROVE  VehicleInv'
<1>. USE DEF VehicleInv
<1>. DEFINE rest == IF source = "control_channel" THEN {"control_messages_received"} ELSE {}
<1>0. peer_connected' \in BOOLEAN
  BY DEF ApplyCommand, TypeOK
<1>1. CASE command = "EMERGENCY_STOP"
  <2>1. SafeStop
    BY <1>1 DEF ApplyCommand, Accepts, Obey
  <2>2. Count(rest \cup {"emergency_commands_received"} \cup {"command_acks"})
    BY <1>1 DEF ApplyCommand, Accepts
  <2>. DEFINE C == rest \cup {"emergency_commands_received"} \cup {"command_acks"}
  <2>3. /\ {"command_acks", "emergency_commands_received"} \subseteq C
        /\ C \subseteq {"command_acks", "emergency_commands_received",
                        "control_messages_received"}
    OBVIOUS
  <2>. HIDE DEF C
  <2>. QED BY <1>0, <2>1, <2>2, <2>3, StopKeepsInv DEF C
<1>2. CASE command # "EMERGENCY_STOP"
  <2>. DEFINE C == rest \cup (IF Accepts(command) THEN {"command_acks"} ELSE {})
  <2>1. Count(C)
    <3>1. (IF source = "control_channel" THEN {"control_messages_received"} ELSE {})
          \cup (IF command = "EMERGENCY_STOP" THEN {"emergency_commands_received"} ELSE {})
          \cup (IF Accepts(command) THEN {"command_acks"} ELSE {}) = C
      BY <1>2
    <3>. HIDE DEF C
    <3>. QED BY <3>1 DEF ApplyCommand
  <2>2. C \in SUBSET Counters BY DEF Counters
  <2>3. /\ stats' \in [Counters -> Nat]
        /\ \A d \in Counters : stats'[d] = IF d \in C THEN stats[d] + 1 ELSE stats[d]
    <3>. HIDE DEF C
    <3>. QED BY <2>1, <2>2, Counting
  <2>4. /\ \A d \in {"network_down_events", "heartbeat_lost_events", "webrtc_errors",
                     "emergency_commands_received"} :
              stats'[d] = stats[d] /\ stats[d] \in Nat
        /\ stats["command_acks"] \in Nat /\ stats'["command_acks"] \in Nat
        /\ stats'["command_acks"] >= stats["command_acks"]
    BY <2>3 DEF TypeOK, Counters
  <2>. HIDE DEF C, rest
  <2>5. Cardinality(StopEntries) \in Nat
    BY StopEntriesFinite DEF StopEntries, TypeOK
  <2>6. ASSUME mode_timeline' \in Seq(Modes),
               Cardinality(StopEntries') <= Cardinality(StopEntries)
        PROVE  StopsAreCounted'
    <3>1. Cardinality(StopEntries') \in Nat
      BY <2>6, StopEntriesFinite DEF StopEntries
    <3>. QED BY <2>4, <2>5, <2>6, <3>1 DEF StopsAreCounted
  <2>7. CASE UNCHANGED <<mode, emergency, speed, gear, mode_timeline>>
    <3>1. StopEntries' = StopEntries BY <2>7 DEF StopEntries
    <3>. QED BY <1>0, <2>3, <2>5, <2>6, <2>7, <3>1
           DEF TypeOK, MovesOnlyUnderControl, EmergencyIsSafeStop, TimelineIsHistory
  <2>8. CASE command = "TAKEOVER_REQUEST" /\ mode = "AUTO"
    <3>1. EnterMode("REMOTE_CONTROL") /\ gear' = 1 /\ UNCHANGED <<emergency, speed>>
      BY <2>8 DEF ApplyCommand, Accepts, Obey
    <3>2. /\ mode_timeline' \in Seq(Modes) /\ TimelineIsHistory' /\ mode' = "REMOTE_CONTROL"
          /\ Cardinality(StopEntries') <= Cardinality(StopEntries)
      BY <2>5, <2>8, <3>1, EnteringMode DEF LegalMove, Modes
    <3>. QED BY <1>0, <2>3, <2>6, <2>8, <3>1, <3>2
           DEF TypeOK, Modes, MovesOnlyUnderControl, EmergencyIsSafeStop
  <2>9. CASE command \in {"FORWARD", "STOP"} /\ Accepts(command)
    <3>1. /\ speed' \in {0, ForwardSpeed} /\ UNCHANGED <<mode, emergency, gear, mode_timeline>>
          /\ mode = "REMOTE_CONTROL"
      BY <2>9 DEF ApplyCommand, Accepts, Obey
    <3>2. StopEntries' = StopEntries BY <3>1 DEF StopEntries
    <3>. QED BY <1>0, <2>3, <2>5, <2>6, <3>1, <3>2
           DEF TypeOK, MovesOnlyUnderControl, EmergencyIsSafeStop, TimelineIsHistory
  <2>10. CASE command = "RECOVER_AUTO" /\ mode = "SAFE_STOP"
    <3>1. EnterMode("AUTO") /\ emergency' = FALSE /\ speed' = 0 /\ gear' = 0
      BY <2>10 DEF ApplyCommand, Accepts, Obey
    <3>2. /\ mode_timeline' \in Seq(Modes) /\ TimelineIsHistory' /\ mode' = "AUTO"
          /\ Cardinality(StopEntries') <= Cardinality(StopEntries)
      BY <2>5, <2>10, <3>1, EnteringMode DEF LegalMove, Modes
    <3>3. TypeOK'
      BY <1>0, <2>3, <3>1, <3>2 DEF TypeOK, Modes
    <3>4. StopsAreCounted'
      BY <2>6, <3>2
    <3>5. MovesOnlyUnderControl' /\ EmergencyIsSafeStop'
      BY <3>1, <3>2 DEF MovesOnlyUnderControl, EmergencyIsSafeStop
    <3>. QED BY <3>2, <3>3, <3>4, <3>5
  <2>11. Accepts(command) \/ UNCHANGED <<mode, emergency, speed, gear, mode_timeline>>
    BY DEF ApplyCommand, drivingVars
  <2>. QED BY <1>2, <2>7, <2>8, <2>9, <2>10, <2>11 DEF Accepts, Commands
<1>. QED BY <1>1, <1>2

-----------------------------------------------------------------------------
\* Which lemma covers which operation.
LEMMA NextKeepsInv == VehicleInv /\ [Next]_vars => VehicleInv'
<1>. SUFFICES ASSUME VehicleInv, [Next]_vars PROVE VehicleInv'
  OBVIOUS
<1>. USE DEF VehicleInv
<1>1. CASE OnPeerConnected
  <2>. QED BY <1>1, PeerEventKeepsInv DEF OnPeerConnected, TypeOK
<1>2. CASE OnPeerDisconnected
  <2>. QED BY <1>2, PeerEventKeepsInv DEF OnPeerDisconnected
<1>3. CASE OnNetworkUp
  <2>1. emergency => gear = 0
    BY DEF EmergencyIsSafeStop, MovesOnlyUnderControl
  <2>. QED BY <1>3, <2>1, PeerEventKeepsInv DEF OnNetworkUp, TypeOK
<1>4. ASSUME NEW c \in {"network_down_events", "heartbeat_lost_events", "webrtc_errors"},
             SafeStop, peer_connected' \in BOOLEAN,
             Count({c, "emergency_commands_received"})
      PROVE  VehicleInv'
  BY <1>4, StopKeepsInv
<1>5. CASE OnNetworkDown
  BY <1>4, <1>5 DEF OnNetworkDown
<1>6. CASE OnHeartbeatLost
  BY <1>4, <1>6 DEF OnHeartbeatLost, TypeOK
<1>7. CASE OnWebrtcError
  BY <1>4, <1>7 DEF OnWebrtcError, TypeOK
<1>8. CASE OnTelemetryMessageReceived
  <2>1. UNCHANGED <<mode, emergency, speed, gear, peer_connected, mode_timeline>>
    BY <1>8 DEF OnTelemetryMessageReceived, drivingVars
  <2>2. /\ stats' \in [Counters -> Nat]
        /\ \A d \in Counters : stats'[d] = IF d \in {"telemetry_messages_received"}
                                           THEN stats[d] + 1 ELSE stats[d]
    BY <1>8, Counting DEF OnTelemetryMessageReceived, Counters
  <2>3. StopEntries' = StopEntries BY <2>1 DEF StopEntries
  <2>4. StopsAreCounted' BY <2>2, <2>3 DEF StopsAreCounted, Counters
  <2>. QED BY <2>1, <2>2, <2>4 DEF TypeOK, MovesOnlyUnderControl, EmergencyIsSafeStop,
                                 TimelineIsHistory
<1>9. CASE \E source \in Sources, command \in Commands : ApplyCommand(source, command)
  BY <1>9, CommandKeepsInv
<1>10. CASE UNCHANGED vars
  <2>1. StopEntries' = StopEntries BY <1>10 DEF StopEntries, vars
  <2>. QED BY <1>10, <2>1 DEF vars, TypeOK, MovesOnlyUnderControl, EmergencyIsSafeStop,
                            TimelineIsHistory, StopsAreCounted
<1>. QED BY <1>1, <1>2, <1>3, <1>5, <1>6, <1>7, <1>8, <1>9, <1>10 DEF Next

LEMMA VehicleStart == Init => VehicleInv
<1>. SUFFICES ASSUME Init PROVE VehicleInv
  OBVIOUS
<1>1. mode_timeline = <<"AUTO">> /\ Len(mode_timeline) = 1 /\ mode_timeline[1] = "AUTO"
  BY DEF Init
<1>2. StopEntries = {}
  BY <1>1 DEF StopEntries
<1>3. Cardinality(StopEntries) = 0
  BY <1>2, FS_EmptySet
<1>4. TypeOK
  <2>1. <<"AUTO">> \in Seq(Modes) BY DEF Modes
  <2>2. stats \in [Counters -> Nat] BY DEF Init
  <2>. QED BY <1>1, <2>1, <2>2 DEF Init, TypeOK, Modes
<1>5. StopsAreCounted
  BY <1>3 DEF Init, StopsAreCounted, Counters
<1>6. TimelineIsHistory
  BY <1>1 DEF Init, TimelineIsHistory
<1>. QED BY <1>4, <1>5, <1>6 DEF Init, VehicleInv, MovesOnlyUnderControl, EmergencyIsSafeStop

\* The inductive invariant, for any number of operations in any order.
THEOREM VehicleIsSafe == Spec => []VehicleInv
BY VehicleStart, NextKeepsInv, PTL DEF Spec

\* The emergency flag and the mode agree, whatever sets the one or reads the other.
THEOREM VehicleEmergencyIsSafeStop == Spec => []EmergencyIsSafeStop
<1>1. VehicleInv => EmergencyIsSafeStop BY DEF VehicleInv
<1>. QED BY <1>1, VehicleIsSafe, PTL

\* The vehicle moves only while a remote driver is in control.
THEOREM VehicleMovesOnlyUnderControl == Spec => []MovesOnlyUnderControl
<1>1. VehicleInv => MovesOnlyUnderControl BY DEF VehicleInv
<1>. QED BY <1>1, VehicleIsSafe, PTL

\* The recorded timeline is the history of the mode, and every move in it is
\* one the takeover protocol has.
THEOREM VehicleTimelineIsHistory == Spec => []TimelineIsHistory
<1>1. VehicleInv => TimelineIsHistory BY DEF VehicleInv
<1>. QED BY <1>1, VehicleIsSafe, PTL

\* No stop goes uncounted and none is counted without cause.
THEOREM VehicleStopsAreCounted == Spec => []StopsAreCounted
<1>1. VehicleInv => StopsAreCounted BY DEF VehicleInv
<1>. QED BY <1>1, VehicleIsSafe, PTL

\* The emergency flag falls by RECOVER_AUTO only: no event of the peer, the network or
\* an error clears it.
THEOREM VehicleEmergencyLatches == Spec => EmergencyLatches
<1>1. VehicleInv /\ [Next]_vars =>
        [emergency /\ ~emergency' =>
           \E source \in Sources : ApplyCommand(source, "RECOVER_AUTO")]_vars
  <2>. SUFFICES ASSUME VehicleInv, Next, emergency, ~emergency'
                PROVE  \E source \in Sources : ApplyCommand(source, "RECOVER_AUTO")
    OBVIOUS
  <2>1. ~SafeStop BY DEF SafeStop
  <2>2. ~OnPeerConnected /\ ~OnPeerDisconnected /\ ~OnNetworkUp
    BY DEF OnPeerConnected, OnPeerDisconnected, OnNetworkUp
  <2>3. ~OnNetworkDown /\ ~OnHeartbeatLost /\ ~OnWebrtcError
    BY <2>1 DEF OnNetworkDown, OnHeartbeatLost, OnWebrtcError
  <2>4. ~OnTelemetryMessageReceived
    BY DEF OnTelemetryMessageReceived, drivingVars
  <2>5. PICK source \in Sources, command \in Commands : ApplyCommand(source, command)
    BY <2>2, <2>3, <2>4 DEF Next
  <2>6. Obey(command) BY <2>5 DEF ApplyCommand, drivingVars
  <2>7. command = "RECOVER_AUTO" BY <2>1, <2>6 DEF Obey
  <2>. QED BY <2>5, <2>7
<1>. QED BY <1>1, VehicleIsSafe, PTL DEF Spec, EmergencyLatches

\* What an operation does to the counter of acknowledgements.
LEMMA Acknowledging ==
  ASSUME TypeOK, NEW counted \in SUBSET Counters, Count(counted)
  PROVE  IF "command_acks" \in counted
         THEN stats'["command_acks"] = stats["command_acks"] + 1
         ELSE stats'["command_acks"] = stats["command_acks"]
BY Counting DEF Counters

\* The vehicle's operations implement the interlock: SAFE_STOP is left, and control
\* taken, by an acknowledged command only, and only a driver in control moves it.
THEOREM VehicleImplementsInterlock == Spec => ImplementsInterlock
<1>. DEFINE d == CASE mode = "AUTO" -> "auto"
                   [] mode = "REMOTE_CONTROL" -> "remote"
                   [] mode = "SAFE_STOP" -> "stopped"
            acks == stats["command_acks"]
            mapped == <<d, speed > 0, acks>>
<1>1. Init => Interlock!Init
  BY DEF Init, Interlock!Init, Counters
<1>2. VehicleInv /\ [Next]_vars => [Interlock!Next]_mapped
  <2>. SUFFICES ASSUME VehicleInv, [Next]_vars PROVE [Interlock!Next]_mapped
    OBVIOUS
  <2>. USE DEF VehicleInv, TypeOK, Modes
  <2>1. ASSUME SafeStop, acks' = acks + 1 \/ acks' = acks PROVE Interlock!Trip
    BY <2>1 DEF SafeStop, EnterMode, Interlock!Trip, Interlock!Obeyed
  <2>2. ASSUME EnterMode(IF emergency THEN "SAFE_STOP" ELSE "AUTO"), speed' = 0, acks' = acks
        PROVE  [Interlock!Next]_mapped
    <3>1. CASE emergency
      <4>1. mode' = "SAFE_STOP" BY <2>2, <3>1 DEF EnterMode
      <4>. QED BY <2>2, <4>1 DEF Interlock!Next, Interlock!Trip
    <3>2. CASE ~emergency
      <4>1. mode' = "AUTO" /\ mode # "SAFE_STOP"
        BY <2>2, <3>2 DEF EnterMode, EmergencyIsSafeStop
      <4>. QED BY <2>2, <4>1 DEF Interlock!Next, Interlock!HandBack, MovesOnlyUnderControl
    <3>. QED BY <3>1, <3>2
  <2>3. ASSUME NEW C \in SUBSET (Counters \ {"command_acks"}), Count(C)
        PROVE  acks' = acks
    BY <2>3, Acknowledging
  <2>4. CASE OnPeerConnected \/ OnPeerDisconnected \/ OnNetworkUp
    <3>1. acks' = acks
      BY <2>3, <2>4 DEF OnPeerConnected, OnPeerDisconnected, OnNetworkUp, Counters
    <3>. QED BY <2>2, <2>4, <3>1 DEF OnPeerConnected, OnPeerDisconnected, OnNetworkUp
  <2>5. CASE OnNetworkDown \/ OnHeartbeatLost \/ OnWebrtcError
    <3>1. acks' = acks
      BY <2>3, <2>5 DEF OnNetworkDown, OnHeartbeatLost, OnWebrtcError, Counters
    <3>. QED BY <2>1, <2>5, <3>1
           DEF OnNetworkDown, OnHeartbeatLost, OnWebrtcError, Interlock!Next
  <2>6. CASE OnTelemetryMessageReceived
    <3>1. acks' = acks
      BY <2>3, <2>6 DEF OnTelemetryMessageReceived, Counters
    <3>. QED BY <2>6, <3>1 DEF OnTelemetryMessageReceived, drivingVars
  <2>7. ASSUME NEW source \in Sources, NEW command \in Commands, ApplyCommand(source, command)
        PROVE  [Interlock!Next]_mapped
    <3>. DEFINE C == (IF source = "control_channel" THEN {"control_messages_received"} ELSE {})
                \cup (IF command = "EMERGENCY_STOP" THEN {"emergency_commands_received"} ELSE {})
                \cup (IF Accepts(command) THEN {"command_acks"} ELSE {})
    <3>1. Count(C) BY <2>7 DEF ApplyCommand
    <3>2. C \in SUBSET Counters BY DEF Counters
    <3>3. Accepts(command) => "command_acks" \in C
      OBVIOUS
    <3>4. ~Accepts(command) => "command_acks" \notin C
      OBVIOUS
    <3>. HIDE DEF C
    <3>5. Accepts(command) => acks' = acks + 1
      BY <3>1, <3>2, <3>3, Acknowledging
    <3>6. ~Accepts(command) => acks' = acks
      BY <3>1, <3>2, <3>4, Acknowledging
    <3>7. CASE ~Accepts(command)
      BY <2>7, <3>6, <3>7 DEF ApplyCommand, drivingVars
    <3>8. CASE Accepts(command) /\ command = "TAKEOVER_REQUEST"
      <4>1. mode = "AUTO" /\ mode' = "REMOTE_CONTROL" /\ speed' = speed
        BY <2>7, <3>8 DEF ApplyCommand, Accepts, Obey, EnterMode
      <4>. QED BY <3>5, <3>8, <4>1
             DEF Interlock!Next, Interlock!TakeOver, Interlock!Obeyed, MovesOnlyUnderControl
    <3>9. CASE Accepts(command) /\ command \in {"FORWARD", "STOP"}
      <4>1. mode = "REMOTE_CONTROL" /\ mode' = mode
        BY <2>7, <3>9 DEF ApplyCommand, Accepts, Obey
      <4>. QED BY <3>5, <3>9, <4>1 DEF Interlock!Next, Interlock!SetSpeed, Interlock!Obeyed
    <3>10. CASE command = "EMERGENCY_STOP"
      <4>1. SafeStop /\ acks' = acks + 1
        BY <2>7, <3>5, <3>10 DEF ApplyCommand, Accepts, Obey
      <4>. QED BY <2>1, <4>1 DEF Interlock!Next
    <3>11. CASE Accepts(command) /\ command = "RECOVER_AUTO"
      <4>1. mode = "SAFE_STOP" /\ mode' = "AUTO" /\ speed' = 0
        BY <2>7, <3>11 DEF ApplyCommand, Accepts, Obey, EnterMode
      <4>. QED BY <3>5, <3>11, <4>1 DEF Interlock!Next, Interlock!Recover, Interlock!Obeyed
    <3>. QED BY <3>7, <3>8, <3>9, <3>10, <3>11 DEF Commands
  <2>8. CASE UNCHANGED vars
    BY <2>8 DEF vars
  <2>. QED BY <2>4, <2>5, <2>6, <2>7, <2>8 DEF Next
<1>. QED BY <1>1, <1>2, VehicleIsSafe, PTL DEF Spec, ImplementsInterlock, Interlock!Spec

-----------------------------------------------------------------------------
(* The process.  How far the self-test has come says what its lines have   *)
(* done to the vehicle, whatever the loops do meanwhile.                   *)

\* The last line of the script whose handler or command is through.
Done == IF main = "publish" THEN line ELSE line - 1

\* Whether line k is among the first n.
Since(k, n) == IF n >= k THEN 1 ELSE 0

\* What the first n lines have counted.
CountsHold(n) ==
  /\ stats["telemetry_messages_received"] >= Since(2, n)
  /\ stats["command_acks"] >= Since(3, n) + Since(4, n) + Since(5, n) + Since(6, n)
                                + Since(9, n) + Since(11, n) + Since(13, n)
  /\ stats["control_messages_received"] >= Since(3, n) + Since(4, n) + Since(5, n)
                                             + Since(9, n) + Since(11, n)
  /\ stats["emergency_commands_received"] >= Since(6, n) + Since(7, n) + Since(10, n)
  /\ stats["webrtc_errors"] >= Since(12, n) /\ stats["heartbeat_lost_events"] >= Since(10, n)
  /\ stats["peer_connected_events"] >= Since(1, n) + Since(15, n)
  /\ stats["peer_disconnected_events"] >= Since(14, n)
  /\ stats["network_down_events"] >= Since(7, n) /\ stats["network_up_events"] >= Since(8, n)

\* The modes the vehicle goes through, and how many of them it has entered.
Moves == <<"AUTO", "REMOTE_CONTROL", "SAFE_STOP", "AUTO", "SAFE_STOP", "AUTO",
           "SAFE_STOP", "AUTO">>
Entered(n) == 1 + Since(3, n) + Since(6, n) + Since(9, n) + Since(10, n) + Since(11, n)
                + Since(12, n) + Since(13, n)

ModesHold(n) ==
  /\ Len(mode_timeline) = Entered(n)
  /\ \A k \in 1..Entered(n) : mode_timeline[k] = Moves[k]
  /\ peer_connected <=> n \notin {0, 7, 14}

ScriptRuns ==
  main \in {"self_test", "publish", "apply"} =>
    /\ line \in 1..16 /\ (main = "publish" => line \in 1..15)
    /\ exitCode = 0 /\ (g_stop_requested => signalled)
    /\ ticks["status_updates"] >= Since(1, line - 1) + Since(2, line - 1) + Since(7, line - 1)
                                    + Since(8, line - 1) + Since(10, line - 1)
    /\ CountsHold(Done) /\ ModesHold(Done)

\* What every step of the process preserves.
AppInv ==
  /\ VehicleInv
  /\ line \in Nat \ {0} /\ ticks \in [Ticks -> Nat] /\ exitCode \in {0, 5}
  /\ ScriptRuns

-----------------------------------------------------------------------------
LEMMA TheScript ==
  /\ Len(Script) = 15
  /\ \A k \in {1, 2, 7, 8, 10, 12, 14, 15} : Script[k].kind = "event"
  /\ \A k \in {3, 4, 5, 6, 9, 11, 13} :
        /\ Script[k].kind = "command"
        /\ Script[k].source = IF k = 6 THEN "safety_channel" ELSE "control_channel"
  /\ Script[1].name = "peer_connected" /\ Script[2].name = "telemetry_rx"
  /\ Script[3].name = "TAKEOVER_REQUEST" /\ Script[4].name = "FORWARD"
  /\ Script[5].name = "STOP" /\ Script[6].name = "EMERGENCY_STOP"
  /\ Script[7].name = "network_down" /\ Script[8].name = "network_up"
  /\ Script[9].name = "RECOVER_AUTO" /\ Script[10].name = "heartbeat_lost"
  /\ Script[11].name = "RECOVER_AUTO" /\ Script[12].name = "webrtc_error"
  /\ Script[13].name = "RECOVER_AUTO" /\ Script[14].name = "peer_disconnected"
  /\ Script[15].name = "peer_connected"
BY DEF Script, Event, Command

\* A step of main, of a loop or of the signal handler is an operation of the domain
\* layer, or leaves the vehicle's state alone.
LEMMA StepIsOperation == line \in Nat \ {0} /\ [AppNext]_allVars => [Next]_vars
<1>. SUFFICES ASSUME line \in Nat \ {0}, [AppNext]_allVars PROVE [Next]_vars
  OBVIOUS
<1>1. CASE HandleEvent
  BY <1>1 DEF HandleEvent, Handle, Next
<1>2. CASE ApplyCmd
  <2>1. line \in 1..15 /\ Script[line].kind = "command"
    BY <1>2, TheScript DEF ApplyCmd, InScript
  <2>2. line \in {3, 4, 5, 6, 9, 11, 13}
    BY <2>1, TheScript
  <2>3. Script[line].source \in Sources /\ Script[line].name \in Commands
    BY <2>2, TheScript DEF Sources, Commands
  <2>. QED BY <1>2, <2>3 DEF ApplyCmd, Next
<1>3. CASE UNCHANGED vars BY <1>3
<1>. QED BY <1>1, <1>2, <1>3
       DEF AppNext, MainStep, LoopStep, allVars, PublishStatus, ApplyCmdCheck, Verdict,
           RunSecondsOver, SeesStop, Join, LoopTop, Tick, signal_handler

-----------------------------------------------------------------------------
LEMMA EnteredTable ==
  ASSUME NEW n \in 0..15
  PROVE  Entered(n) = IF n < 3 THEN 1 ELSE IF n < 6 THEN 2 ELSE IF n < 9 THEN 3
                      ELSE IF n < 10 THEN 4 ELSE IF n < 11 THEN 5 ELSE IF n < 12 THEN 6
                      ELSE IF n < 13 THEN 7 ELSE 8
BY DEF Entered, Since

\* The mode after n lines.
LEMMA ModeAfter ==
  ASSUME VehicleInv, NEW n \in 0..15, ModesHold(n)
  PROVE  /\ mode = Moves[Entered(n)]
         /\ mode = IF n < 3 \/ n = 9 \/ n = 11 \/ n > 12 THEN "AUTO"
                   ELSE IF n < 6 THEN "REMOTE_CONTROL" ELSE "SAFE_STOP"
         /\ emergency <=> mode = "SAFE_STOP"
<1>1. Entered(n) \in 1..8 BY EnteredTable
<1>2. mode = Moves[Entered(n)]
  BY <1>1 DEF VehicleInv, TimelineIsHistory, ModesHold
<1>3. mode = IF n < 3 \/ n = 9 \/ n = 11 \/ n > 12 THEN "AUTO"
             ELSE IF n < 6 THEN "REMOTE_CONTROL" ELSE "SAFE_STOP"
  BY <1>2, EnteredTable DEF Moves
<1>. QED BY <1>2, <1>3 DEF VehicleInv, EmergencyIsSafeStop

\* One more line, and what it counts.
LEMMA CountsGoOn ==
  ASSUME TypeOK, NEW n \in 0..14, CountsHold(n), NEW C \in SUBSET Counters, Count(C),
         n = 1 => "telemetry_messages_received" \in C,
         n \in {2, 3, 4, 5, 8, 10, 12} => "command_acks" \in C,
         n \in {2, 3, 4, 8, 10} => "control_messages_received" \in C,
         n \in {5, 6, 9} => "emergency_commands_received" \in C,
         n = 11 => "webrtc_errors" \in C, n = 9 => "heartbeat_lost_events" \in C,
         n \in {0, 14} => "peer_connected_events" \in C,
         n = 13 => "peer_disconnected_events" \in C,
         n = 6 => "network_down_events" \in C, n = 7 => "network_up_events" \in C
  PROVE  CountsHold(n + 1)'
<1>1. \A c \in Counters : stats[c] \in Nat /\ stats'[c] = IF c \in C THEN stats[c] + 1 ELSE stats[c]
  BY Counting DEF TypeOK
<1>2. \A k \in 1..15 : Since(k, n + 1) = IF n + 1 = k THEN 1 ELSE Since(k, n)
  BY DEF Since
<1>3. \A k \in 1..15 : Since(k, n) \in {0, 1} /\ (n + 1 = k => Since(k, n) = 0)
  BY DEF Since
<1>. QED BY <1>1, <1>2, <1>3 DEF CountsHold, Counters

\* One more line, and the mode it enters.
LEMMA ModesGoOn ==
  ASSUME VehicleInv, NEW n \in 0..14, ModesHold(n), NEW m \in Modes,
         m = Moves[Entered(n + 1)],
         Entered(n + 1) = IF m = mode THEN Entered(n) ELSE Entered(n) + 1,
         EnterMode(m) \/ (m = mode /\ UNCHANGED mode_timeline),
         peer_connected' <=> n + 1 \notin {0, 7, 14}
  PROVE  ModesHold(n + 1)'
<1>. DEFINE s == mode_timeline
<1>1. /\ s \in Seq(Modes) /\ s # <<>> /\ Len(s) = Entered(n) /\ s[Len(s)] = mode
      /\ Entered(n) \in 1..8 /\ Last(s) = mode
      /\ \A k \in 1..Len(s) : s[k] = Moves[k]
  <2>1. s \in Seq(Modes) /\ s # <<>> /\ s[Len(s)] = mode
    BY DEF VehicleInv, TypeOK, TimelineIsHistory
  <2>2. Entered(n) \in 1..8 BY EnteredTable
  <2>3. Last(s) = mode BY <2>1 DEF Last
  <2>. QED BY <2>1, <2>2, <2>3 DEF ModesHold
<1>2. CASE m = mode
  <2>1. mode_timeline' = s
    BY <1>1, <1>2 DEF EnterMode, PushMode
  <2>. QED BY <1>1, <1>2, <2>1 DEF ModesHold
<1>3. CASE m # mode
  <2>1. mode_timeline' = Append(s, m)
    BY <1>1, <1>3 DEF EnterMode, PushMode
  <2>2. /\ Len(mode_timeline') = Len(s) + 1
        /\ \A k \in 1..Len(s) : mode_timeline'[k] = s[k]
        /\ mode_timeline'[Len(s) + 1] = m
    BY <1>1, <2>1, AppendProperties
  <2>3. \A k \in 1..(Len(s) + 1) : k \in 1..Len(s) \/ k = Len(s) + 1
    BY <1>1
  <2>4. Entered(n + 1) = Len(s) + 1 BY <1>1, <1>3
  <2>5. \A k \in 1..(Len(s) + 1) : mode_timeline'[k] = Moves[k]
    BY <1>1, <2>2, <2>3, <2>4
  <2>. QED BY <2>2, <2>4, <2>5 DEF ModesHold
<1>. QED BY <1>2, <1>3

\* An event of the script.
LEMMA EventLine ==
  ASSUME VehicleInv, NEW n \in {0, 1, 6, 7, 9, 11, 13, 14}, CountsHold(n), ModesHold(n),
         Handle(Script[n + 1].name)
  PROVE  CountsHold(n + 1)' /\ ModesHold(n + 1)'
<1>1. TypeOK BY DEF VehicleInv
<1>2. n \in 0..14 OBVIOUS
<1>3. /\ n \in {0, 14} => OnPeerConnected
      /\ n = 1 => OnTelemetryMessageReceived
      /\ n = 6 => OnNetworkDown
      /\ n = 7 => OnNetworkUp
      /\ n = 9 => OnHeartbeatLost
      /\ n = 11 => OnWebrtcError
      /\ n = 13 => OnPeerDisconnected
  BY TheScript DEF Handle
<1>4. PICK C \in SUBSET Counters :
        /\ Count(C)
        /\ n \in {0, 14} => "peer_connected_events" \in C
        /\ n = 1 => "telemetry_messages_received" \in C
        /\ n = 6 => "network_down_events" \in C /\ "emergency_commands_received" \in C
        /\ n = 7 => "network_up_events" \in C
        /\ n = 9 => "heartbeat_lost_events" \in C /\ "emergency_commands_received" \in C
        /\ n = 11 => "webrtc_errors" \in C
        /\ n = 13 => "peer_disconnected_events" \in C
  <2>1. CASE n \in {0, 14}
    <3>1. Count({"peer_connected_events"}) BY <1>3, <2>1 DEF OnPeerConnected
    <3>. QED BY <2>1, <3>1 DEF Counters
  <2>2. CASE n = 1
    <3>1. Count({"telemetry_messages_received"})
      BY <1>3, <2>2 DEF OnTelemetryMessageReceived
    <3>. QED BY <2>2, <3>1 DEF Counters
  <2>3. CASE n = 6
    <3>1. Count({"network_down_events", "emergency_commands_received"})
      BY <1>3, <2>3 DEF OnNetworkDown
    <3>. QED BY <2>3, <3>1 DEF Counters
  <2>4. CASE n = 7
    <3>1. Count({"network_up_events"}) BY <1>3, <2>4 DEF OnNetworkUp
    <3>. QED BY <2>4, <3>1 DEF Counters
  <2>5. CASE n = 9
    <3>1. Count({"heartbeat_lost_events", "emergency_commands_received"})
      BY <1>3, <2>5 DEF OnHeartbeatLost
    <3>. QED BY <2>5, <3>1 DEF Counters
  <2>6. CASE n = 11
    <3>1. Count({"webrtc_errors", "emergency_commands_received"})
      BY <1>3, <2>6 DEF OnWebrtcError
    <3>. QED BY <2>6, <3>1 DEF Counters
  <2>7. CASE n = 13
    <3>1. Count({"peer_disconnected_events"}) BY <1>3, <2>7 DEF OnPeerDisconnected
    <3>. QED BY <2>7, <3>1 DEF Counters
  <2>. QED BY <2>1, <2>2, <2>3, <2>4, <2>5, <2>6, <2>7
<1>5. CountsHold(n + 1)'
  BY <1>1, <1>2, <1>4, CountsGoOn
<1>. DEFINE m == IF n \in {6, 7, 9, 11} THEN "SAFE_STOP" ELSE "AUTO"
<1>6. mode = IF n < 3 \/ n = 9 \/ n = 11 \/ n > 12 THEN "AUTO" ELSE "SAFE_STOP"
  BY <1>2, ModeAfter
<1>7. emergency <=> mode = "SAFE_STOP" BY DEF VehicleInv, EmergencyIsSafeStop
<1>8. /\ EnterMode(m) \/ (m = mode /\ UNCHANGED mode_timeline)
      /\ peer_connected' <=> n + 1 \notin {0, 7, 14}
  <2>1. CASE n \in {0, 14}
    BY <1>3, <1>6, <1>7, <2>1 DEF OnPeerConnected
  <2>2. CASE n = 1
    BY <1>3, <1>6, <2>2 DEF OnTelemetryMessageReceived, drivingVars, ModesHold
  <2>3. CASE n \in {6, 9, 11}
    BY <1>3, <2>3 DEF OnNetworkDown, OnHeartbeatLost, OnWebrtcError, SafeStop, ModesHold
  <2>4. CASE n = 7
    BY <1>3, <1>6, <1>7, <2>4 DEF OnNetworkUp
  <2>5. CASE n = 13
    BY <1>3, <1>6, <1>7, <2>5 DEF OnPeerDisconnected
  <2>. QED BY <2>1, <2>2, <2>3, <2>4, <2>5
<1>9. /\ m \in Modes /\ m = Moves[Entered(n + 1)]
      /\ Entered(n + 1) = IF m = mode THEN Entered(n) ELSE Entered(n) + 1
  BY <1>2, <1>6, EnteredTable DEF Moves, Modes
<1>10. ModesHold(n + 1)'
  <2>. HIDE DEF m
  <2>. QED BY <1>2, <1>8, <1>9, ModesGoOn
<1>. QED BY <1>5, <1>10

\* A command of the script: it is accepted.
LEMMA CommandLine ==
  ASSUME VehicleInv, NEW n \in {2, 3, 4, 5, 8, 10, 12}, CountsHold(n), ModesHold(n),
         ApplyCommand(Script[n + 1].source, Script[n + 1].name)
  PROVE  Accepts(Script[n + 1].name) /\ CountsHold(n + 1)' /\ ModesHold(n + 1)'
<1>. DEFINE source  == Script[n + 1].source
            command == Script[n + 1].name
<1>1. TypeOK BY DEF VehicleInv
<1>2. n \in 0..14 OBVIOUS
<1>3. /\ source = IF n = 5 THEN "safety_channel" ELSE "control_channel"
      /\ n = 2 => command = "TAKEOVER_REQUEST"
      /\ n = 3 => command = "FORWARD"
      /\ n = 4 => command = "STOP"
      /\ n = 5 => command = "EMERGENCY_STOP"
      /\ n \in {8, 10, 12} => command = "RECOVER_AUTO"
  BY TheScript
<1>4. mode = IF n < 3 THEN "AUTO" ELSE IF n < 6 THEN "REMOTE_CONTROL" ELSE "SAFE_STOP"
  BY <1>2, ModeAfter
<1>5. emergency <=> mode = "SAFE_STOP" BY DEF VehicleInv, EmergencyIsSafeStop
<1>. HIDE DEF source, command
<1>6. Accepts(command) BY <1>3, <1>4, <1>5 DEF Accepts
<1>7. ApplyCommand(source, command) BY DEF source, command
<1>. DEFINE C == (IF source = "control_channel" THEN {"control_messages_received"} ELSE {})
                  \cup (IF command = "EMERGENCY_STOP" THEN {"emergency_commands_received"} ELSE {})
                  \cup {"command_acks"}
<1>8. Count(C) BY <1>6, <1>7 DEF ApplyCommand
<1>9. /\ C \in SUBSET Counters /\ "command_acks" \in C
      /\ n # 5 => "control_messages_received" \in C
      /\ n = 5 => "emergency_commands_received" \in C
  BY <1>3 DEF Counters
<1>10. CountsHold(n + 1)'
  <2>. HIDE DEF C
  <2>. QED BY <1>1, <1>2, <1>8, <1>9, CountsGoOn
<1>. DEFINE m == IF n < 5 THEN "REMOTE_CONTROL" ELSE IF n = 5 THEN "SAFE_STOP" ELSE "AUTO"
<1>11. /\ EnterMode(m) \/ (m = mode /\ UNCHANGED mode_timeline)
       /\ peer_connected' = peer_connected
  BY <1>3, <1>4, <1>6, <1>7 DEF ApplyCommand, Obey, SafeStop
<1>12. /\ m \in Modes /\ m = Moves[Entered(n + 1)]
       /\ Entered(n + 1) = IF m = mode THEN Entered(n) ELSE Entered(n) + 1
  BY <1>2, <1>4, EnteredTable DEF Moves, Modes
<1>13. peer_connected' <=> n + 1 \notin {0, 7, 14}
  BY <1>11 DEF ModesHold
<1>14. ModesHold(n + 1)'
  <2>. HIDE DEF m
  <2>. QED BY <1>2, <1>11, <1>12, <1>13, ModesGoOn
<1>. QED BY <1>6, <1>10, <1>14 DEF command

\* The modes the vehicle has gone through at the end contain the expected ones.
LEMMA TheCursor ==
  ASSUME Len(mode_timeline) = 8, \A k \in 1..8 : mode_timeline[k] = Moves[k]
  PROVE  Cursor = 6
<1>. DEFINE Step(f, n) ==
       IF n = 0 THEN 0
       ELSE IF f[n - 1] < Len(ExpectedModes) /\ mode_timeline[n] = ExpectedModes[f[n - 1] + 1]
            THEN f[n - 1] + 1 ELSE f[n - 1]
            g == [n \in 0..8 |-> IF n < 6 THEN n ELSE 6]
            c == CHOOSE f : f = [n \in 0..8 |-> Step(f, n)]
<1>1. Cursor = c[8] BY DEF Cursor
<1>2. g = [n \in 0..8 |-> Step(g, n)]
  <2>1. ASSUME NEW n \in 0..8 PROVE g[n] = Step(g, n)
    BY DEF Moves, ExpectedModes
  <2>. QED BY <2>1
<1>3. c = [n \in 0..8 |-> Step(c, n)]
  <2>. HIDE DEF g
  <2>. QED BY <1>2
<1>4. \A n \in 0..8 : c[n] = Step(c, n)
  <2>. HIDE DEF c
  <2>. QED BY <1>3
<1>. HIDE DEF c
<1>5. c[0] = 0 BY <1>4
<1>6. c[1] = 1 BY <1>4, <1>5 DEF Moves, ExpectedModes
<1>7. c[2] = 2 BY <1>4, <1>6 DEF Moves, ExpectedModes
<1>8. c[3] = 3 BY <1>4, <1>7 DEF Moves, ExpectedModes
<1>9. c[4] = 4 BY <1>4, <1>8 DEF Moves, ExpectedModes
<1>10. c[5] = 5 BY <1>4, <1>9 DEF Moves, ExpectedModes
<1>11. c[6] = 6 BY <1>4, <1>10 DEF Moves, ExpectedModes
<1>12. c[7] = 6 BY <1>4, <1>11 DEF Moves, ExpectedModes
<1>13. c[8] = 6 BY <1>4, <1>12 DEF Moves, ExpectedModes
<1>. QED BY <1>1, <1>13

\* When the script has run to its end, all it was to do is done.
LEMMA ScriptSucceeds ==
  ASSUME AppInv, main = "self_test", line > Len(Script)
  PROVE  ScriptChecks
<1>1. line = 16 /\ Done = 15 /\ VehicleInv /\ CountsHold(15) /\ ModesHold(15)
  BY TheScript DEF AppInv, ScriptRuns, Done
<1>2. \A k \in 1..15 : Since(k, 15) = 1 BY DEF Since
<1>3. Entered(15) = 8 BY EnteredTable
<1>4. Len(mode_timeline) = 8 /\ \A k \in 1..8 : mode_timeline[k] = Moves[k]
  BY <1>1, <1>3 DEF ModesHold
<1>5. Cursor = Len(ExpectedModes)
  BY <1>4, TheCursor DEF ExpectedModes
<1>6. mode = "AUTO" /\ ~emergency /\ peer_connected
  <2>1. mode = "AUTO" /\ (emergency <=> mode = "SAFE_STOP") BY <1>1, ModeAfter
  <2>2. peer_connected BY <1>1 DEF ModesHold
  <2>. QED BY <2>1, <2>2
<1>7. ticks["status_updates"] >= 5
  BY <1>1, <1>2 DEF AppInv, ScriptRuns
<1>8. \A c \in Counters : stats[c] \in Nat BY <1>1 DEF VehicleInv, TypeOK
<1>9. /\ stats["telemetry_messages_received"] >= 1
      /\ stats["command_acks"] >= 7 /\ stats["control_messages_received"] >= 5
      /\ stats["emergency_commands_received"] >= 3 /\ stats["webrtc_errors"] >= 1
      /\ stats["peer_connected_events"] >= 2 /\ stats["peer_disconnected_events"] >= 1
      /\ stats["network_up_events"] >= 1 /\ stats["network_down_events"] >= 1
      /\ stats["heartbeat_lost_events"] >= 1
  BY <1>1, <1>2 DEF CountsHold
<1>. QED BY <1>5, <1>6, <1>7, <1>9 DEF ScriptChecks

-----------------------------------------------------------------------------
LEMMA AppStart == AppInit => AppInv
<1>. SUFFICES ASSUME AppInit PROVE AppInv
  OBVIOUS
<1>1. VehicleInv BY VehicleStart DEF AppInit
<1>2. line = 1 /\ exitCode = 0 /\ ~g_stop_requested /\ main \in {"self_test", "sleeping", "waiting"}
      /\ ticks = [c \in Ticks |-> 0]
  BY DEF AppInit
<1>3. ticks \in [Ticks -> Nat] /\ ticks["status_updates"] = 0
  BY <1>2 DEF Ticks
<1>4. Done = 0 BY <1>2 DEF Done
<1>5. \A k \in 1..15 : Since(k, 0) = 0 BY DEF Since
<1>6. CountsHold(0) BY <1>5 DEF CountsHold, AppInit, Init, Counters
<1>7. ModesHold(0)
  <2>1. mode_timeline = <<"AUTO">> /\ peer_connected = FALSE BY DEF AppInit, Init
  <2>2. Entered(0) = 1 /\ Moves[1] = "AUTO" BY EnteredTable DEF Moves
  <2>. QED BY <2>1, <2>2 DEF ModesHold
<1>8. ScriptRuns BY <1>2, <1>3, <1>4, <1>5, <1>6, <1>7 DEF ScriptRuns
<1>. QED BY <1>1, <1>2, <1>3, <1>8 DEF AppInv

\* A line of the script is done.
LEMMA ScriptStep ==
  ASSUME AppInv, HandleEvent \/ ApplyCmd
  PROVE  ScriptRuns'
<1>1. /\ main \in {"self_test", "apply"} /\ line \in 1..15 /\ Done = line - 1
      /\ UNCHANGED <<signalled, ticks>>
  <2>1. /\ main \in {"self_test", "apply"} /\ line <= 15 /\ UNCHANGED <<signalled, ticks>>
    BY TheScript DEF HandleEvent, ApplyCmd, InScript
  <2>. QED BY <2>1 DEF AppInv, ScriptRuns, Done
<1>2. PICK n \in 0..14 : n = line - 1
  BY <1>1
<1>3. /\ VehicleInv /\ CountsHold(n) /\ ModesHold(n) /\ line = n + 1
      /\ exitCode = 0 /\ (g_stop_requested => signalled)
      /\ ticks["status_updates"] >= Since(1, n) + Since(2, n) + Since(7, n) + Since(8, n)
                                      + Since(10, n)
  BY <1>1, <1>2 DEF AppInv, ScriptRuns
<1>4. CASE HandleEvent
  <2>1. Script[line].kind = "event" /\ Handle(Script[line].name)
        /\ main' = "publish" /\ UNCHANGED <<line, exitCode, g_stop_requested>>
    BY <1>4 DEF HandleEvent, InScript
  <2>2. line \in {1, 2, 7, 8, 10, 12, 14, 15}
    BY <1>1, <2>1, TheScript
  <2>3. n \in {0, 1, 6, 7, 9, 11, 13, 14}
    BY <1>2, <1>3, <2>2
  <2>4. CountsHold(n + 1)' /\ ModesHold(n + 1)'
    BY <1>3, <2>1, <2>3, EventLine
  <2>5. Done' = n + 1 /\ line' = n + 1 BY <1>3, <2>1 DEF Done
  <2>6. CountsHold(Done)' BY <2>4, <2>5 DEF CountsHold
  <2>7. ModesHold(Done)' BY <2>4, <2>5 DEF ModesHold
  <2>. QED BY <1>1, <1>2, <1>3, <2>1, <2>5, <2>6, <2>7 DEF ScriptRuns
<1>5. CASE ApplyCmd
  <2>1. Script[line].kind = "command" /\ ApplyCommand(Script[line].source, Script[line].name)
    BY <1>5 DEF ApplyCmd, InScript
  <2>2. line \in {3, 4, 5, 6, 9, 11, 13}
    BY <1>1, <2>1, TheScript
  <2>3. n \in {2, 3, 4, 5, 8, 10, 12}
    BY <1>2, <1>3, <2>2
  <2>4. Accepts(Script[line].name) /\ CountsHold(n + 1)' /\ ModesHold(n + 1)'
    BY <1>3, <2>1, <2>3, CommandLine
  <2>5. main' = "self_test" /\ line' = line + 1 /\ UNCHANGED <<exitCode, g_stop_requested>>
    BY <1>5, <2>4 DEF ApplyCmd
  <2>6. Done' = n + 1 /\ line' - 1 = n + 1 BY <1>3, <2>5 DEF Done
  <2>7. CountsHold(Done)' BY <2>4, <2>6 DEF CountsHold
  <2>8. ModesHold(Done)' BY <2>4, <2>6 DEF ModesHold
  <2>9. \A k \in {1, 2, 7, 8, 10} : Since(k, n + 1) = Since(k, n)
    BY <2>3 DEF Since
  <2>10. ticks'["status_updates"] >= Since(1, line' - 1) + Since(2, line' - 1)
            + Since(7, line' - 1) + Since(8, line' - 1) + Since(10, line' - 1)
    BY <1>1, <1>3, <2>6, <2>9
  <2>. QED BY <1>1, <1>3, <2>5, <2>7, <2>8, <2>10 DEF ScriptRuns
<1>. QED BY <1>4, <1>5

LEMMA PublishStep ==
  ASSUME AppInv, PublishStatus
  PROVE  ScriptRuns'
<1>1. /\ main = "publish" /\ main' = "self_test" /\ line \in 1..15 /\ line' = line + 1
      /\ UNCHANGED <<vars, g_stop_requested, signalled, exitCode>>
      /\ ticks' = [ticks EXCEPT !["status_updates"] = @ + 1]
  BY DEF PublishStatus, AppInv, ScriptRuns
<1>2. ticks'["status_updates"] = ticks["status_updates"] + 1 /\ ticks["status_updates"] \in Nat
  BY <1>1 DEF AppInv, Ticks
<1>3. PICK n \in 0..14 : n = line - 1 BY <1>1
<1>4. \A k \in {1, 2, 7, 8, 10} : Since(k, n + 1) = IF k = n + 1 THEN 1 ELSE Since(k, n)
  BY DEF Since
<1>5. \A k \in {1, 2, 7, 8, 10} : Since(k, n) \in {0, 1} /\ (k = n + 1 => Since(k, n) = 0)
  BY DEF Since
<1>6. ticks["status_updates"] >= Since(1, n) + Since(2, n) + Since(7, n) + Since(8, n)
                                  + Since(10, n)
  BY <1>1, <1>3 DEF AppInv, ScriptRuns
<1>7. ticks'["status_updates"] >= Since(1, n + 1) + Since(2, n + 1) + Since(7, n + 1)
                                   + Since(8, n + 1) + Since(10, n + 1)
  BY <1>2, <1>4, <1>5, <1>6
<1>8. Done = line /\ Done' = line /\ line' - 1 = n + 1 /\ line' \in 1..16
  BY <1>1, <1>3 DEF Done
<1>9. CountsHold(Done) /\ ModesHold(Done) /\ exitCode = 0 /\ (g_stop_requested => signalled)
  BY <1>1 DEF AppInv, ScriptRuns
<1>10. CountsHold(Done)' BY <1>1, <1>8, <1>9 DEF CountsHold, vars
<1>11. ModesHold(Done)' BY <1>1, <1>8, <1>9 DEF ModesHold, vars
<1>. QED BY <1>1, <1>7, <1>8, <1>9, <1>10, <1>11 DEF ScriptRuns

\* What every step of the process preserves.
LEMMA AppKeepsInv == AppInv /\ [AppNext]_allVars => AppInv'
<1>. SUFFICES ASSUME AppInv, [AppNext]_allVars PROVE AppInv'
  OBVIOUS
<1>1. VehicleInv'
  BY StepIsOperation, NextKeepsInv DEF AppInv
<1>2. line' \in Nat \ {0} /\ ticks' \in [Ticks -> Nat] /\ exitCode' \in {0, 5}
  <2>1. line' \in Nat \ {0} /\ exitCode' \in {0, 5}
    BY DEF AppInv, AppNext, MainStep, LoopStep, allVars, appVars, HandleEvent, PublishStatus,
           ApplyCmdCheck, ApplyCmd, EndSelfTest, Verdict, RunSecondsOver, SeesStop, Join,
           LoopTop, Tick, signal_handler
  <2>2. CASE PublishStatus BY <2>2 DEF AppInv, PublishStatus, Ticks
  <2>3. CASE \E t \in Loops : Tick(t) BY <2>3 DEF AppInv, Tick
  <2>4. CASE UNCHANGED ticks BY <2>1, <2>4 DEF AppInv
  <2>. QED BY <2>1, <2>2, <2>3, <2>4
         DEF AppNext, MainStep, LoopStep, allVars, appVars, HandleEvent,
             ApplyCmdCheck, ApplyCmd, Verdict, RunSecondsOver, SeesStop, Join,
             LoopTop, signal_handler
<1>3. ScriptRuns'
  <2>1. CASE HandleEvent \/ ApplyCmd BY <2>1, ScriptStep
  <2>2. CASE PublishStatus BY <2>2, PublishStep
  <2>3. CASE main' \notin {"self_test", "publish", "apply"} BY <2>3 DEF ScriptRuns
  <2>4. ASSUME UNCHANGED <<vars, line, exitCode>>, Done' = Done,
               main' \in {"self_test", "publish", "apply"} => 
                 main \in {"self_test", "publish", "apply"} /\ (main' = "publish" => main = "publish"),
               ticks'["status_updates"] = ticks["status_updates"],
               g_stop_requested' => g_stop_requested \/ signalled', signalled => signalled'
        PROVE  ScriptRuns'
    <3>1. CountsHold(Done) => CountsHold(Done)' BY <2>4 DEF CountsHold, vars
    <3>2. ModesHold(Done) => ModesHold(Done)' BY <2>4 DEF ModesHold, vars
    <3>. QED BY <2>4, <3>1, <3>2 DEF AppInv, ScriptRuns
  <2>5. CASE ApplyCmdCheck
    BY <2>3, <2>4, <2>5 DEF ApplyCmdCheck, InScript, EndSelfTest, Done
  <2>6. CASE \E t \in Loops : LoopTop(t)
    BY <2>4, <2>6 DEF LoopTop, Done
  <2>7. CASE \E t \in Loops : Tick(t)
    <3>1. ticks'["status_updates"] = ticks["status_updates"]
      BY <2>7 DEF Tick, Counted, Ticks, Loops
    <3>. QED BY <2>4, <2>7, <3>1 DEF Tick, Done
  <2>8. CASE signal_handler
    BY <2>4, <2>8 DEF signal_handler, Done
  <2>9. CASE UNCHANGED allVars
    BY <2>4, <2>9 DEF allVars, appVars, Done
  <2>10. CASE Verdict \/ RunSecondsOver \/ SeesStop \/ Join
    BY <2>3, <2>10 DEF Verdict, EndSelfTest, RunSecondsOver, SeesStop, Join
  <2>. QED BY <2>1, <2>2, <2>5, <2>6, <2>7, <2>8, <2>9, <2>10 DEF AppNext, MainStep, LoopStep
<1>. QED BY <1>1, <1>2, <1>3 DEF AppInv

LEMMA AppIsSafe == AppSpec => []AppInv
BY AppStart, AppKeepsInv, PTL DEF AppSpec

\* Whatever the interleaving of main, the loops and the signal handler, what holds of
\* VehicleRuntime holds of the process: they change the vehicle only through the
\* operations of the domain layer.
THEOREM VehicleAppImplementsRuntime == AppSpec => ImplementsRuntime
<1>1. AppInit => Init BY DEF AppInit
<1>2. AppInv => line \in Nat \ {0} BY DEF AppInv
<1>. QED BY <1>1, <1>2, AppIsSafe, StepIsOperation, PTL DEF AppSpec, ImplementsRuntime, Spec

\* run_self_test ends in failure only when the process was signalled, or a loop had not
\* had its time: no command is rejected, and at the end the script has done all it is
\* checked for.
THEOREM VehicleFailsOnlyForCause == AppSpec => FailsOnlyForCause
<1>1. AppInv /\ [AppNext]_allVars
        => [exitCode' # exitCode => signalled \/ (line > Len(Script) /\ ~TickChecks)]_allVars
  <2>. SUFFICES ASSUME AppInv, AppNext, exitCode' # exitCode
                PROVE  signalled \/ (line > Len(Script) /\ ~TickChecks)
    OBVIOUS
  <2>1. CASE ApplyCmdCheck
    BY <2>1 DEF ApplyCmdCheck, InScript, AppInv, ScriptRuns
  <2>2. CASE ApplyCmd
    <3>1. /\ main = "apply" /\ Script[line].kind = "command" /\ line \in 1..15
          /\ ApplyCommand(Script[line].source, Script[line].name)
      BY <2>2, TheScript DEF ApplyCmd, InScript, AppInv
    <3>2. line \in {3, 4, 5, 6, 9, 11, 13} BY <3>1, TheScript
    <3>3. PICK n \in {2, 3, 4, 5, 8, 10, 12} : line = n + 1 BY <3>2
    <3>4. Done = n /\ VehicleInv /\ CountsHold(n) /\ ModesHold(n)
      <4>1. Done = n BY <3>1, <3>3 DEF Done
      <4>. QED BY <3>1, <4>1 DEF AppInv, ScriptRuns
    <3>5. Accepts(Script[line].name) BY <3>1, <3>3, <3>4, CommandLine
    <3>. QED BY <2>2, <3>5 DEF ApplyCmd
  <2>3. CASE Verdict
    <3>1. main = "self_test" /\ line > Len(Script) /\ EndSelfTest(TickChecks /\ ScriptChecks)
      BY <2>3 DEF Verdict
    <3>2. ScriptChecks BY <3>1, ScriptSucceeds
    <3>3. exitCode = 0 BY <3>1 DEF AppInv, ScriptRuns
    <3>. QED BY <3>1, <3>2, <3>3 DEF EndSelfTest
  <2>. QED BY <2>1, <2>2, <2>3
         DEF AppNext, MainStep, LoopStep, HandleEvent, PublishStatus, RunSecondsOver, SeesStop,
             Join, LoopTop, Tick, signal_handler
<1>. QED BY <1>1, AppIsSafe, PTL DEF AppSpec, FailsOnlyForCause
=============================================================================
