--------------------------- MODULE VehicleRuntime ---------------------------
(***************************************************************************)
(* vehicle_client/domain/runtime_state.cc: the state of the vehicle client *)
(* and the operations on it.  Each operation holds RuntimeState::mutex from *)
(* its first line to its last, so each is one action; the threads and      *)
(* callbacks that call them do so in any order.                            *)
(***************************************************************************)
EXTENDS Integers, Sequences, FiniteSets, SequencesExt

VARIABLES
  mode,            \* "AUTO", "REMOTE_CONTROL" or "SAFE_STOP"
  emergency,
  speed,           \* speed_mps
  gear,
  peer_connected,
  stats,           \* the counters of RuntimeStats these operations touch
  mode_timeline

drivingVars == <<mode, emergency, speed, gear>>
vars == <<mode, emergency, speed, gear, peer_connected, stats, mode_timeline>>

Modes    == {"AUTO", "REMOTE_CONTROL", "SAFE_STOP"}
Sources  == {"control_channel", "safety_channel"}
Commands == {"TAKEOVER_REQUEST", "FORWARD", "STOP", "EMERGENCY_STOP", "RECOVER_AUTO"}
Counters == {"peer_connected_events", "peer_disconnected_events", "network_up_events",
             "network_down_events", "heartbeat_lost_events", "webrtc_errors",
             "telemetry_messages_received", "control_messages_received",
             "emergency_commands_received", "command_acks"}
ForwardSpeed == 6

-----------------------------------------------------------------------------
\* Mutant: a mode is recorded whether or not it changes.
PushMode_Repeats(m) == mode_timeline' = Append(mode_timeline, m)

\* The timeline records a mode when it differs from the last one recorded.
PushMode(m) ==
  mode_timeline' = IF mode_timeline = <<>> \/ Last(mode_timeline) # m
                   THEN Append(mode_timeline, m) ELSE mode_timeline

Count(counted) ==
  stats' = [c \in Counters |-> IF c \in counted THEN stats[c] + 1 ELSE stats[c]]

EnterMode(m) == mode' = m /\ PushMode(m)

\* The common part of everything that stops the vehicle for safety.
SafeStop == /\ EnterMode("SAFE_STOP")
            /\ emergency' = TRUE /\ speed' = 0 /\ gear' = 0

\* Mutant: a new peer does not stop the vehicle.
OnPeerConnected_KeepsSpeed ==
  /\ peer_connected' = TRUE
  /\ EnterMode(IF emergency THEN "SAFE_STOP" ELSE "AUTO")
  /\ gear' = IF emergency THEN 0 ELSE gear
  /\ Count({"peer_connected_events"})
  /\ UNCHANGED <<emergency, speed>>

OnPeerConnected ==
  /\ peer_connected' = TRUE
  /\ EnterMode(IF emergency THEN "SAFE_STOP" ELSE "AUTO")
  /\ speed' = 0
  /\ gear' = IF emergency THEN 0 ELSE gear
  /\ Count({"peer_connected_events"})
  /\ UNCHANGED emergency

\* Mutant: a lost peer leaves the safe stop as well.
OnPeerDisconnected_AlwaysAuto ==
  /\ peer_connected' = FALSE
  /\ EnterMode("AUTO")
  /\ speed' = 0 /\ gear' = 0
  /\ Count({"peer_disconnected_events"})
  /\ UNCHANGED emergency

\* Mutant: a lost peer ends the emergency.
OnPeerDisconnected_Clears ==
  /\ peer_connected' = FALSE
  /\ EnterMode("AUTO") /\ emergency' = FALSE
  /\ speed' = 0 /\ gear' = 0
  /\ Count({"peer_disconnected_events"})

OnPeerDisconnected ==
  /\ peer_connected' = FALSE
  /\ EnterMode(IF emergency THEN "SAFE_STOP" ELSE "AUTO")
  /\ speed' = 0 /\ gear' = 0
  /\ Count({"peer_disconnected_events"})
  /\ UNCHANGED emergency

OnNetworkDown ==
  /\ peer_connected' = FALSE
  /\ SafeStop
  /\ Count({"network_down_events", "emergency_commands_received"})

\* Mutant: the network coming back ends the emergency.
OnNetworkUp_Recovers ==
  /\ peer_connected' = TRUE
  /\ EnterMode("AUTO") /\ emergency' = FALSE
  /\ speed' = 0
  /\ Count({"network_up_events"})
  /\ UNCHANGED gear

OnNetworkUp ==
  /\ peer_connected' = TRUE
  /\ EnterMode(IF emergency THEN "SAFE_STOP" ELSE "AUTO")
  /\ speed' = 0
  /\ Count({"network_up_events"})
  /\ UNCHANGED <<emergency, gear>>

OnHeartbeatLost ==
  /\ SafeStop
  /\ Count({"heartbeat_lost_events", "emergency_commands_received"})
  /\ UNCHANGED peer_connected

OnTelemetryMessageReceived ==
  /\ Count({"telemetry_messages_received"})
  /\ UNCHANGED <<drivingVars, peer_connected, mode_timeline>>

\* Mutant: the stop after a media error is not counted as an emergency.
OnWebrtcError_Uncounted ==
  /\ SafeStop
  /\ Count({"webrtc_errors"})
  /\ UNCHANGED peer_connected

OnWebrtcError ==
  /\ SafeStop
  /\ Count({"webrtc_errors", "emergency_commands_received"})
  /\ UNCHANGED peer_connected

-----------------------------------------------------------------------------
(* ApplyCommand: one disjunct per branch of its if-chain.                  *)

Accepts(command) ==
  \/ command = "TAKEOVER_REQUEST" /\ mode = "AUTO"
  \/ command = "FORWARD" /\ mode = "REMOTE_CONTROL" /\ ~emergency
  \/ command = "STOP" /\ mode = "REMOTE_CONTROL"
  \/ command = "EMERGENCY_STOP"
  \/ command = "RECOVER_AUTO" /\ mode = "SAFE_STOP"

Obey(command) ==
  \/ /\ command = "TAKEOVER_REQUEST"
     /\ EnterMode("REMOTE_CONTROL") /\ gear' = 1
     /\ UNCHANGED <<emergency, speed>>
  \/ /\ command \in {"FORWARD", "STOP"}
     /\ speed' = IF command = "FORWARD" THEN ForwardSpeed ELSE 0
     /\ UNCHANGED <<mode, emergency, gear, mode_timeline>>
  \/ command = "EMERGENCY_STOP" /\ SafeStop
  \/ /\ command = "RECOVER_AUTO"
     /\ EnterMode("AUTO") /\ emergency' = FALSE /\ speed' = 0 /\ gear' = 0

\* A message counts as received and an emergency command as such before it is
\* known whether the command is accepted; the ack counts only if it is.
ApplyCommand(source, command) ==
  /\ Count((IF source = "control_channel" THEN {"control_messages_received"} ELSE {})
      \cup (IF command = "EMERGENCY_STOP" THEN {"emergency_commands_received"} ELSE {})
      \cup (IF Accepts(command) THEN {"command_acks"} ELSE {}))
  /\ IF Accepts(command) THEN Obey(command) ELSE UNCHANGED <<drivingVars, mode_timeline>>
  /\ UNCHANGED peer_connected

-----------------------------------------------------------------------------
\* main pushes the initial mode before it starts a thread.
Init ==
  /\ mode = "AUTO" /\ emergency = FALSE /\ speed = 0 /\ gear = 0
  /\ peer_connected = FALSE
  /\ stats = [c \in Counters |-> 0]
  /\ mode_timeline = <<"AUTO">>

Next ==
  \/ OnPeerConnected
  \/ OnPeerDisconnected
  \/ OnNetworkDown
  \/ OnNetworkUp
  \/ OnHeartbeatLost
  \/ OnTelemetryMessageReceived
  \/ OnWebrtcError
  \/ \E source \in Sources, command \in Commands : ApplyCommand(source, command)

Spec == Init /\ [][Next]_vars

-----------------------------------------------------------------------------
TypeOK ==
  /\ mode \in Modes /\ emergency \in BOOLEAN
  /\ speed \in {0, ForwardSpeed} /\ gear \in {0, 1}
  /\ peer_connected \in BOOLEAN
  /\ stats \in [Counters -> Nat]
  /\ mode_timeline \in Seq(Modes)

\* The vehicle has a speed only while a remote driver is in control, and then
\* it is in gear and in no emergency; stopped for safety it is out of gear.
\* None of the operations, in any order, leaves a speed behind that belongs to
\* a mode that was left.  A gear they may leave behind: OnPeerConnected and
\* OnNetworkUp go from REMOTE_CONTROL back to AUTO with the gear engaged.
MovesOnlyUnderControl ==
  /\ speed > 0 => mode = "REMOTE_CONTROL"
  /\ mode = "REMOTE_CONTROL" => gear = 1 /\ ~emergency
  /\ mode = "SAFE_STOP" => gear = 0

\* The emergency flag and the mode are set in different places and read in
\* different places (OnPeerConnected derives the mode from the flag,
\* ApplyCommand the permission from the mode): they never disagree.
EmergencyIsSafeStop == emergency <=> mode = "SAFE_STOP"

\* What mode_timeline may record next: control is taken from AUTO only, and a
\* safe stop is followed by AUTO and never directly by REMOTE_CONTROL.
LegalMove(from, to) ==
  \/ from = "AUTO" /\ to \in {"REMOTE_CONTROL", "SAFE_STOP"}
  \/ from = "REMOTE_CONTROL" /\ to \in {"AUTO", "SAFE_STOP"}
  \/ from = "SAFE_STOP" /\ to = "AUTO"

\* The timeline is the complete history of the mode: it ends in the mode the
\* vehicle is in, holds no repetition, and no step of it skips a mode.
TimelineIsHistory ==
  /\ mode_timeline # <<>> /\ mode_timeline[1] = "AUTO"
  /\ mode_timeline[Len(mode_timeline)] = mode
  /\ \A k \in 1..(Len(mode_timeline) - 1) : LegalMove(mode_timeline[k], mode_timeline[k + 1])

StopEntries == {k \in DOMAIN mode_timeline : mode_timeline[k] = "SAFE_STOP"}

\* Every stop is accounted for, although each handler updates the counters on
\* its own: emergency_commands_received counts the stops the vehicle made
\* itself, and whatever else it counts was acknowledged as a command; the
\* timeline has no more entries into SAFE_STOP than were counted.
StopsAreCounted ==
  LET own == stats["network_down_events"] + stats["heartbeat_lost_events"]
               + stats["webrtc_errors"]
      stops == stats["emergency_commands_received"]
  IN  /\ own <= stops /\ stops <= own + stats["command_acks"]
      /\ Cardinality(StopEntries) <= stops

\* An emergency latches: whatever the peer, the network and the errors do to
\* the state, the flag falls by RECOVER_AUTO only, on either channel.
EmergencyLatches ==
  [][emergency /\ ~emergency' => \E source \in Sources : ApplyCommand(source, "RECOVER_AUTO")]_vars

\* The vehicle implements the interlock.
Interlock == INSTANCE SafetyInterlock WITH
  drive  <- CASE mode = "AUTO" -> "auto"
              [] mode = "REMOTE_CONTROL" -> "remote"
              [] mode = "SAFE_STOP" -> "stopped",
  moving <- speed > 0,
  commands <- stats["command_acks"]

\* SAFE_STOP is left by an acknowledged command only, control is taken by one
\* and out of AUTO, only a remote driver in control moves the vehicle, and an
\* acknowledgement stands for one of these moves: every step of every
\* operation is one the interlock allows, or changes nothing it sees.
ImplementsInterlock == Interlock!Spec

\* The invariant the proofs rest on, and with it the counters.
VehicleInv == /\ TypeOK /\ MovesOnlyUnderControl /\ EmergencyIsSafeStop
              /\ TimelineIsHistory /\ StopsAreCounted
=============================================================================
