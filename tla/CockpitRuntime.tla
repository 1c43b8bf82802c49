--------------------------- MODULE CockpitRuntime ---------------------------
(***************************************************************************)
(* cockpit_client/domain/runtime_state.cc: the state of the cockpit client *)
(* and the operations on it, each one critical section of                  *)
(* RuntimeState::mutex.  Web clients, input devices, the peer connection   *)
(* and the network monitor call them in any order.                         *)
(***************************************************************************)
EXTENDS Integers, Sequences, FiniteSets, SequencesExt

CONSTANT Conn  \* connection ids of the web clients

VARIABLES
  session_state,
  vehicle_mode,    \* what the cockpit believes of the vehicle
  emergency,
  expected_speed,  \* expected_speed_mps
  connected,
  ws_clients,
  stats,           \* the counters of RuntimeStats these operations touch
  state_timeline

sessionVars == <<session_state, vehicle_mode, emergency, expected_speed, connected>>
vars == <<session_state, vehicle_mode, emergency, expected_speed, connected,
          ws_clients, stats, state_timeline>>

States   == {"DISCONNECTED", "CONNECTING", "CONNECTED", "REMOTE_CONTROL",
             "SAFE_STOP", "RECONNECTING"}
Modes    == {"AUTO", "REMOTE_CONTROL", "SAFE_STOP"}
Sources  == {"web", "input"}
Commands == {"TAKEOVER_REQUEST", "FORWARD", "STOP", "EMERGENCY_STOP", "RECOVER_AUTO"}
Counters == {"ws_connected_events", "ws_disconnected_events", "peer_connected_events",
             "peer_disconnected_events", "network_up_events", "network_down_events",
             "heartbeat_lost_events", "commands_sent", "command_acks",
             "ws_messages_received", "input_commands_received"}
ForwardSpeed == 6

-----------------------------------------------------------------------------
\* Mutant: a state is recorded whether or not it changes.
PushState_Repeats(s) == state_timeline' = Append(state_timeline, s)

PushState(s) ==
  state_timeline' = IF state_timeline = <<>> \/ Last(state_timeline) # s
                    THEN Append(state_timeline, s) ELSE state_timeline

Count(counted) ==
  stats' = [c \in Counters |-> IF c \in counted THEN stats[c] + 1 ELSE stats[c]]

EnterState(s) == session_state' = s /\ PushState(s)

SafeStop == /\ EnterState("SAFE_STOP") /\ vehicle_mode' = "SAFE_STOP"
            /\ emergency' = TRUE /\ expected_speed' = 0

OnWsConnected(c) ==
  /\ ws_clients' = ws_clients \cup {c}
  /\ Count({"ws_connected_events"})
  /\ UNCHANGED <<sessionVars, state_timeline>>

OnWsDisconnected(c) ==
  /\ ws_clients' = ws_clients \ {c}
  /\ Count({"ws_disconnected_events"})
  /\ UNCHANGED <<sessionVars, state_timeline>>

\* Mutant: a new peer ends the safe stop without clearing the emergency.
OnPeerConnected_AlwaysConnected ==
  /\ connected' = TRUE
  /\ EnterState("CONNECTED") /\ vehicle_mode' = "AUTO" /\ expected_speed' = 0
  /\ Count({"peer_connected_events"})
  /\ UNCHANGED <<emergency, ws_clients>>

\* In an emergency the session state stays what it was, and that is pushed.
OnPeerConnected ==
  /\ connected' = TRUE
  /\ IF emergency
     THEN EnterState(session_state) /\ UNCHANGED <<vehicle_mode, expected_speed>>
     ELSE EnterState("CONNECTED") /\ vehicle_mode' = "AUTO" /\ expected_speed' = 0
  /\ Count({"peer_connected_events"})
  /\ UNCHANGED <<emergency, ws_clients>>

\* Mutant: a lost peer ends the emergency.
OnPeerDisconnected_Clears ==
  /\ connected' = FALSE /\ emergency' = FALSE
  /\ EnterState("DISCONNECTED") /\ vehicle_mode' = "AUTO" /\ expected_speed' = 0
  /\ Count({"peer_disconnected_events"})
  /\ UNCHANGED ws_clients

OnPeerDisconnected ==
  /\ connected' = FALSE
  /\ EnterState("DISCONNECTED") /\ vehicle_mode' = "AUTO" /\ expected_speed' = 0
  /\ Count({"peer_disconnected_events"})
  /\ UNCHANGED <<emergency, ws_clients>>

OnNetworkDown ==
  /\ connected' = FALSE
  /\ EnterState("RECONNECTING") /\ expected_speed' = 0
  /\ Count({"network_down_events"})
  /\ UNCHANGED <<vehicle_mode, emergency, ws_clients>>

\* Mutant: the network coming back ends the emergency.
OnNetworkUp_Recovers ==
  /\ connected' = TRUE /\ emergency' = FALSE
  /\ EnterState("CONNECTED") /\ vehicle_mode' = "AUTO" /\ expected_speed' = 0
  /\ Count({"network_up_events"})
  /\ UNCHANGED ws_clients

OnNetworkUp ==
  /\ connected' = TRUE
  /\ EnterState(IF emergency THEN "SAFE_STOP" ELSE "CONNECTED")
  /\ vehicle_mode' = IF emergency THEN "SAFE_STOP" ELSE "AUTO"
  /\ expected_speed' = 0
  /\ Count({"network_up_events"})
  /\ UNCHANGED <<emergency, ws_clients>>

OnHeartbeatLost ==
  /\ SafeStop
  /\ Count({"heartbeat_lost_events"})
  /\ UNCHANGED <<connected, ws_clients>>

-----------------------------------------------------------------------------
(* ApplyCommand.  Only EMERGENCY_STOP is accepted while disconnected.      *)

\* Mutant: the link is not looked at, and recovery not tied to the safe stop.
Accepts_Unlinked(command) ==
  \/ command \in {"EMERGENCY_STOP", "RECOVER_AUTO"}
  \/ command = "TAKEOVER_REQUEST" /\ session_state = "CONNECTED"
  \/ command = "FORWARD" /\ session_state = "REMOTE_CONTROL" /\ ~emergency
  \/ command = "STOP" /\ session_state = "REMOTE_CONTROL"

Accepts(command) ==
  \/ command = "EMERGENCY_STOP"
  \/ /\ connected
     /\ \/ command = "TAKEOVER_REQUEST" /\ session_state = "CONNECTED"
        \/ command = "FORWARD" /\ session_state = "REMOTE_CONTROL" /\ ~emergency
        \/ command = "STOP" /\ session_state = "REMOTE_CONTROL"
        \/ command = "RECOVER_AUTO" /\ session_state = "SAFE_STOP"

Obey(command) ==
  \/ /\ command = "TAKEOVER_REQUEST"
     /\ EnterState("REMOTE_CONTROL") /\ vehicle_mode' = "REMOTE_CONTROL"
     /\ UNCHANGED <<emergency, expected_speed>>
  \/ /\ command \in {"FORWARD", "STOP"}
     /\ expected_speed' = IF command = "FORWARD" THEN ForwardSpeed ELSE 0
     /\ UNCHANGED <<session_state, vehicle_mode, emergency, state_timeline>>
  \/ command = "EMERGENCY_STOP" /\ SafeStop
  \/ /\ command = "RECOVER_AUTO"
     /\ EnterState("CONNECTED") /\ vehicle_mode' = "AUTO"
     /\ emergency' = FALSE /\ expected_speed' = 0

\* Mutant: a command counts as sent before it is known to be acceptable.
ApplyCommand_CountsFirst(source, command) ==
  /\ IF Accepts(command) THEN Obey(command) ELSE UNCHANGED <<session_state,
       vehicle_mode, emergency, expected_speed, state_timeline>>
  /\ Count({"commands_sent"}
       \cup {IF source = "web" THEN "ws_messages_received" ELSE "input_commands_received"}
       \cup (IF Accepts(command) THEN {"command_acks"} ELSE {}))
  /\ UNCHANGED <<connected, ws_clients>>

\* A rejected command leaves no trace at all.
ApplyCommand(source, command) ==
  /\ Accepts(command)
  /\ Obey(command)
  /\ Count({"commands_sent", "command_acks"} \cup
       {IF source = "web" THEN "ws_messages_received" ELSE "input_commands_received"})
  /\ UNCHANGED <<connected, ws_clients>>

-----------------------------------------------------------------------------
\* The first step of connection_loop.  main has pushed the initial state by
\* then, and nothing the timeline records comes before it: the same thread
\* reports the peer later, and run_self_test waits for that (see CockpitApp).
Connecting ==
  /\ state_timeline = <<"DISCONNECTED">>
  /\ EnterState("CONNECTING")
  /\ UNCHANGED <<vehicle_mode, emergency, expected_speed, connected, ws_clients, stats>>

Init ==
  /\ session_state = "DISCONNECTED" /\ vehicle_mode = "AUTO"
  /\ emergency = FALSE /\ expected_speed = 0 /\ connected = FALSE
  /\ ws_clients = {}
  /\ stats = [c \in Counters |-> 0]
  /\ state_timeline = <<"DISCONNECTED">>

Next ==
  \/ Connecting
  \/ \E c \in Conn : OnWsConnected(c)
  \/ \E c \in Conn : OnWsDisconnected(c)
  \/ OnPeerConnected
  \/ OnPeerDisconnected
  \/ OnNetworkDown
  \/ OnNetworkUp
  \/ OnHeartbeatLost
  \/ \E source \in Sources, command \in Commands : ApplyCommand(source, command)

Spec == Init /\ [][Next]_vars

-----------------------------------------------------------------------------
TypeOK ==
  /\ session_state \in States /\ vehicle_mode \in Modes /\ emergency \in BOOLEAN
  /\ expected_speed \in {0, ForwardSpeed} /\ connected \in BOOLEAN
  /\ ws_clients \subseteq Conn
  /\ stats \in [Counters -> Nat]
  /\ state_timeline \in Seq(States)

\* The session state, which decides what commands are accepted, agrees with
\* the link, the emergency flag and the belief about the vehicle, although
\* every handler sets them on its own: nobody drives over a dead link, and an
\* operator whose link is up is not locked out unless there is an emergency.
SessionMatchesLink ==
  /\ session_state = "REMOTE_CONTROL"
       => connected /\ ~emergency /\ vehicle_mode = "REMOTE_CONTROL"
  /\ session_state = "CONNECTED" => connected /\ ~emergency /\ vehicle_mode = "AUTO"
  /\ session_state = "SAFE_STOP" => emergency /\ vehicle_mode = "SAFE_STOP"
  /\ connected /\ ~emergency => session_state \in {"CONNECTED", "REMOTE_CONTROL"}
  /\ expected_speed > 0 => session_state = "REMOTE_CONTROL"

\* The last word of the timeline on emergencies is a safe stop.
Latched == \E k \in 1..Len(state_timeline) :
             /\ state_timeline[k] = "SAFE_STOP"
             /\ \A j \in (k + 1)..Len(state_timeline) : state_timeline[j] # "CONNECTED"

\* The timeline explains the emergency flag: it is set exactly when no entry
\* CONNECTED follows the last SAFE_STOP.  Peer and network events come and go
\* in between without clearing it, and what clears it leaves its mark.
EmergencyIsHistory == emergency <=> Latched

\* The timeline ends in the current state, and control is entered in it from
\* CONNECTED only: whatever a session goes through, it is CONNECTED before
\* anybody drives.
TimelineIsHistory ==
  LET n == Len(state_timeline) IN
    /\ n > 0 /\ state_timeline[1] = "DISCONNECTED" /\ state_timeline[n] = session_state
    /\ \A k \in 1..(n - 1) : /\ state_timeline[k] # state_timeline[k + 1]
                             /\ state_timeline[k + 1] = "REMOTE_CONTROL"
                                  => state_timeline[k] = "CONNECTED"

\* "acks track command sends" (tests/cockpit_runtime_state_test.cc), and both
\* are what came from the web clients and the input devices.
AcksTrackSends ==
  /\ stats["command_acks"] = stats["commands_sent"]
  /\ stats["commands_sent"] = stats["ws_messages_received"] + stats["input_commands_received"]

\* The cockpit's emergency latches: peer and network events that restore the
\* session state, with the emergency and without, never drop the flag; that
\* takes RECOVER_AUTO, from the web or an input device.
EmergencyLatches ==
  [][emergency /\ ~emergency' => \E source \in Sources : ApplyCommand(source, "RECOVER_AUTO")]_vars

\* The cockpit implements the interlock.
Interlock == INSTANCE SafetyInterlock WITH
  drive  <- IF emergency THEN "stopped"
            ELSE IF session_state = "REMOTE_CONTROL" THEN "remote" ELSE "auto",
  moving <- expected_speed > 0,
  commands <- stats["command_acks"]

\* The emergency is left, and control taken, by an acknowledged command only,
\* through all disconnections and reconnections; speed is asked for by a
\* driver in control only; and an acknowledgement stands for one such move.
ImplementsInterlock == Interlock!Spec

\* The invariant the proofs rest on, and with it the counters.
CockpitInv == /\ TypeOK /\ SessionMatchesLink /\ EmergencyIsHistory
              /\ TimelineIsHistory /\ AcksTrackSends
=============================================================================
