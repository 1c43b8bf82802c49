----------------------------- MODULE VehicleApp -----------------------------
(***************************************************************************)
(* vehicle_client/vehicle_client_app.cc: the threads of the process around *)
(* the state of VehicleRuntime.  main starts the camera, telemetry and     *)
(* heartbeat loops, then runs the self-test, sleeps, or waits for a signal;*)
(* it sets g_stop_requested, joins the loops and exits.                    *)
(*                                                                         *)
(* A step is what happens between two points where the scheduler may run   *)
(* another thread and it matters: a critical section of the runtime mutex, *)
(* or a reading of g_stop_requested.  The sleeps are such points.          *)
(***************************************************************************)
EXTENDS VehicleRuntime

CONSTANT MaxTicks  \* bound: where the counters of each loop saturate

ASSUME TicksBound == MaxTicks \in [{"camera", "telemetry", "heartbeat"} -> Nat \ {0}]

VARIABLES
  run,       \* how the process was started: [mode, heartbeat]
  g_stop_requested,
  signalled, \* history: SIGINT or SIGTERM was handled
  main,      \* where main is
  line,      \* the next line of the script of run_self_test
  exitCode,
  loop,      \* where each loop is: "top", "tick", "done"
  ticks      \* the counters of RuntimeStats that only the loops and handlers touch

appVars == <<run, g_stop_requested, signalled, main, line, exitCode, loop, ticks>>
allVars == <<vars, appVars>>

Loops == {"camera", "telemetry", "heartbeat"}
Ticks == {"camera_frames", "video_frames_sent", "telemetry_messages",
          "telemetry_sent", "heartbeat_messages", "status_updates"}

Event(name) == [kind |-> "event", name |-> name, source |-> "control_channel"]
Command(source, name) == [kind |-> "command", name |-> name, source |-> source]

\* What run_self_test does, in this order.
Script == <<
  Event("peer_connected"), Event("telemetry_rx"),
  Command("control_channel", "TAKEOVER_REQUEST"), Command("control_channel", "FORWARD"),
  Command("control_channel", "STOP"), Command("safety_channel", "EMERGENCY_STOP"),
  Event("network_down"), Event("network_up"), Command("control_channel", "RECOVER_AUTO"),
  Event("heartbeat_lost"), Command("control_channel", "RECOVER_AUTO"),
  Event("webrtc_error"), Command("control_channel", "RECOVER_AUTO"),
  Event("peer_disconnected"), Event("peer_connected")>>

-----------------------------------------------------------------------------
(* The loops.  Each tests the stop flag, counts under the mutex and sleeps. *)

\* Mutant: a loop does not look at the flag.
LoopTop_IgnoresStop(t) ==
  /\ loop[t] = "top"
  /\ loop' = [loop EXCEPT ![t] = "tick"]
  /\ UNCHANGED <<vars, run, g_stop_requested, signalled, main, line, exitCode, ticks>>

LoopTop(t) ==
  /\ loop[t] = "top"
  /\ loop' = [loop EXCEPT ![t] = IF g_stop_requested THEN "done" ELSE "tick"]
  /\ UNCHANGED <<vars, run, g_stop_requested, signalled, main, line, exitCode, ticks>>

\* A frame or a message is produced anyway and sent if there is a peer.
Counted(t) ==
  CASE t = "camera"    -> {"camera_frames"} \cup
                            (IF peer_connected THEN {"video_frames_sent"} ELSE {})
    [] t = "telemetry" -> {"telemetry_messages"} \cup
                            (IF peer_connected THEN {"telemetry_sent"} ELSE {})
    [] t = "heartbeat" -> {"heartbeat_messages"}

Tick(t) ==
  /\ loop[t] = "tick"
  /\ ticks' = [c \in Ticks |-> IF c \in Counted(t) /\ ticks[c] < MaxTicks[t]
                               THEN ticks[c] + 1 ELSE ticks[c]]
  /\ loop' = [loop EXCEPT ![t] = "top"]
  /\ UNCHANGED <<vars, run, g_stop_requested, signalled, main, line, exitCode>>

-----------------------------------------------------------------------------
(* run_self_test.                                                          *)

\* Mutant: an error stops the vehicle without going through the domain layer.
Handle_Inline(name) ==
  \/ name = "peer_connected" /\ OnPeerConnected
  \/ name = "telemetry_rx" /\ OnTelemetryMessageReceived
  \/ name = "network_down" /\ OnNetworkDown
  \/ name = "network_up" /\ OnNetworkUp
  \/ name = "heartbeat_lost" /\ OnHeartbeatLost
  \/ name = "webrtc_error" /\ SafeStop /\ UNCHANGED <<stats, peer_connected>>
  \/ name = "peer_disconnected" /\ OnPeerDisconnected

Handle(name) ==
  \/ name = "peer_connected" /\ OnPeerConnected
  \/ name = "telemetry_rx" /\ OnTelemetryMessageReceived
  \/ name = "network_down" /\ OnNetworkDown
  \/ name = "network_up" /\ OnNetworkUp
  \/ name = "heartbeat_lost" /\ OnHeartbeatLost
  \/ name = "webrtc_error" /\ OnWebrtcError
  \/ name = "peer_disconnected" /\ OnPeerDisconnected

InScript(at, kind) == main = at /\ line <= Len(Script) /\ Script[line].kind = kind

\* Every handle_* ends in publish_status_update, a critical section of its own.
HandleEvent ==
  /\ InScript("self_test", "event")
  /\ Handle(Script[line].name)
  /\ main' = "publish"
  /\ UNCHANGED <<run, g_stop_requested, signalled, line, exitCode, loop, ticks>>

PublishStatus ==
  /\ main = "publish"
  /\ ticks' = [ticks EXCEPT !["status_updates"] = @ + 1]
  /\ main' = "self_test" /\ line' = line + 1
  /\ UNCHANGED <<vars, run, g_stop_requested, signalled, exitCode, loop>>

\* The self-test is over: its result becomes the exit code, the loops stop.
EndSelfTest(ok) ==
  /\ main' = "joining"
  /\ exitCode' = IF ok THEN 0 ELSE 5
  /\ g_stop_requested' = TRUE

\* apply_cmd tests the stop flag, then sleeps, then applies the command.
ApplyCmdCheck ==
  /\ InScript("self_test", "command")
  /\ IF g_stop_requested THEN EndSelfTest(FALSE)
     ELSE main' = "apply" /\ UNCHANGED <<exitCode, g_stop_requested>>
  /\ UNCHANGED <<vars, run, signalled, line, loop, ticks>>

ApplyCmd ==
  /\ InScript("apply", "command")
  /\ ApplyCommand(Script[line].source, Script[line].name)
  /\ IF Accepts(Script[line].name)
     THEN main' = "self_test" /\ line' = line + 1 /\ UNCHANGED <<exitCode, g_stop_requested>>
     ELSE EndSelfTest(FALSE) /\ UNCHANGED line
  /\ UNCHANGED <<run, signalled, loop, ticks>>

ExpectedModes == <<"AUTO", "REMOTE_CONTROL", "SAFE_STOP", "AUTO", "SAFE_STOP", "AUTO">>

\* How much of the expected sequence the timeline contains, in order.
Cursor ==
  LET cursor[n \in 0..Len(mode_timeline)] ==
        IF n = 0 THEN 0
        ELSE LET c == cursor[n - 1] IN
             IF c < Len(ExpectedModes) /\ mode_timeline[n] = ExpectedModes[c + 1] THEN c + 1 ELSE c
  IN  cursor[Len(mode_timeline)]

\* What the loops have to have done by the time of the verdict.
TickChecks ==
  /\ ticks["camera_frames"] > 0 /\ ticks["video_frames_sent"] > 0
  /\ ticks["telemetry_messages"] >= 3 /\ ticks["telemetry_sent"] > 0
  /\ IF run.heartbeat THEN ticks["heartbeat_messages"] > 0
                      ELSE ticks["heartbeat_messages"] = 0

\* Mutant: one acknowledgement more than the script has commands.
ScriptChecks_OneMore ==
  /\ stats["command_acks"] >= 8 /\ Cursor = Len(ExpectedModes)
  /\ mode = "AUTO" /\ ~emergency /\ peer_connected

\* What the script has to have done.
ScriptChecks ==
  /\ stats["telemetry_messages_received"] >= 1
  /\ stats["command_acks"] >= 7 /\ stats["control_messages_received"] >= 5
  /\ stats["emergency_commands_received"] >= 3 /\ stats["webrtc_errors"] >= 1
  /\ stats["peer_connected_events"] >= 2 /\ stats["peer_disconnected_events"] >= 1
  /\ stats["network_up_events"] >= 1 /\ stats["network_down_events"] >= 1
  /\ stats["heartbeat_lost_events"] >= 1 /\ ticks["status_updates"] >= 5
  /\ Cursor = Len(ExpectedModes)
  /\ mode = "AUTO" /\ ~emergency /\ peer_connected

Verdict ==
  /\ main = "self_test" /\ line > Len(Script)
  /\ EndSelfTest(TickChecks /\ ScriptChecks)
  /\ UNCHANGED <<vars, run, signalled, line, loop, ticks>>

-----------------------------------------------------------------------------
(* The rest of main, and the signal handler.                               *)

\* --run-seconds: the sleep is over; a signal does not shorten it.
RunSecondsOver ==
  /\ main = "sleeping"
  /\ main' = "joining" /\ g_stop_requested' = TRUE
  /\ UNCHANGED <<vars, run, signalled, line, exitCode, loop, ticks>>

SeesStop ==
  /\ main = "waiting" /\ g_stop_requested
  /\ main' = "joining"
  /\ UNCHANGED <<vars, run, g_stop_requested, signalled, line, exitCode, loop, ticks>>

Join ==
  /\ main = "joining" /\ \A t \in Loops : loop[t] = "done"
  /\ main' = "exited"
  /\ UNCHANGED <<vars, run, g_stop_requested, signalled, line, exitCode, loop, ticks>>

signal_handler ==
  /\ main # "exited" /\ ~signalled
  /\ g_stop_requested' = TRUE /\ signalled' = TRUE
  /\ UNCHANGED <<vars, run, main, line, exitCode, loop, ticks>>

-----------------------------------------------------------------------------
\* The heartbeat loop is not started when its interval is 0.
AppInit ==
  /\ Init
  /\ run \in [mode: {"self_test", "sleeping", "waiting"}, heartbeat: BOOLEAN]
  /\ main = run.mode /\ line = 1 /\ exitCode = 0
  /\ g_stop_requested = FALSE /\ signalled = FALSE
  /\ loop = [t \in Loops |-> IF t = "heartbeat" /\ ~run.heartbeat THEN "done" ELSE "top"]
  /\ ticks = [c \in Ticks |-> 0]

MainStep == \/ HandleEvent \/ PublishStatus \/ ApplyCmdCheck \/ ApplyCmd \/ Verdict
            \/ RunSecondsOver \/ SeesStop \/ Join

LoopStep(t) == LoopTop(t) \/ Tick(t)

AppNext == MainStep \/ (\E t \in Loops : LoopStep(t)) \/ signal_handler

\* Every thread is scheduled again and again; nobody has to send a signal.
AppFairness == WF_allVars(MainStep) /\ \A t \in Loops : WF_allVars(LoopStep(t))

AppSpec == AppInit /\ [][AppNext]_allVars /\ AppFairness

-----------------------------------------------------------------------------
\* The threads only ever change the vehicle's state through the operations of
\* the domain layer, whatever the interleaving: what holds of VehicleRuntime
\* holds of the process.
ImplementsRuntime == Spec

\* The process decides on failure (exit code 5) for a cause: it was signalled,
\* or the script ran to its end and a loop had not had the time its check asks
\* for.  No command of the script is rejected, no event of it leaves the
\* vehicle in an unexpected mode, and the loops do not disturb it.
FailsOnlyForCause ==
  [][exitCode' # exitCode => signalled \/ (line > Len(Script) /\ ~TickChecks)]_allVars

\* A request to stop, and the end of a self-test or of --run-seconds, ends the
\* process: every loop sees the flag and main joins them all.
StopTerminates == (g_stop_requested \/ run.mode # "waiting") ~> (main = "exited")
=============================================================================
