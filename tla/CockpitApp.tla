----------------------------- MODULE CockpitApp -----------------------------
(***************************************************************************)
(* cockpit_client/cockpit_client_app.cc: the threads of the process around *)
(* the state of CockpitRuntime.  The session thread brings the peer up, the *)
(* heartbeat and telemetry loops count, and main runs the self-test, sleeps *)
(* or waits for a signal, then stops and joins the three.                  *)
(*                                                                         *)
(* As in VehicleApp a step is a critical section of the runtime mutex or a *)
(* reading of g_stop_requested.  The messages of the web client carry the  *)
(* command their text names (parse_web_command_name).                      *)
(***************************************************************************)
EXTENDS CockpitRuntime

CONSTANT MaxTicks  \* bound: where each of the loops' counters saturates

ws_conn == 101  \* the web client of the self-test

ASSUME SelfTestConn == ws_conn \in Conn
ASSUME TicksBound ==
  MaxTicks \in [{"heartbeats", "telemetry_received", "telemetry_broadcasts"} -> Nat \ {0}]

VARIABLES
  run,        \* how the process was started: "self_test", "sleeping" or "waiting"
  g_stop_requested,
  signalled,  \* history: SIGINT or SIGTERM was handled
  main,       \* where main is
  line,       \* the next line of the script of run_self_test
  exitCode,
  session,    \* where the session thread is
  loop,       \* where the two loops are: "top", "tick", "done"
  ticks,      \* the loops' counters of RuntimeStats
  status_updates

appVars == <<run, g_stop_requested, signalled, main, line, exitCode, session,
             loop, ticks, status_updates>>
allVars == <<vars, appVars>>

Loops == {"heartbeat", "telemetry"}

Event(name) == [kind |-> "event", name |-> name, source |-> "web"]
Command(source, name) == [kind |-> "command", name |-> name, source |-> source]

\* What run_self_test does once the peer is connected, in this order.
Script == <<
  Event("ws_connected"),
  Command("web", "TAKEOVER_REQUEST"), Command("input", "FORWARD"),
  Command("web", "STOP"), Command("web", "EMERGENCY_STOP"),
  Event("network_down"), Event("network_up"), Command("input", "RECOVER_AUTO"),
  Event("heartbeat_lost"), Command("web", "RECOVER_AUTO"),
  Event("peer_disconnected"), Event("peer_connected"), Event("ws_disconnected")>>

-----------------------------------------------------------------------------
(* connection_loop.  It tests the stop flag after the connect delay and not *)
(* again before it reports the peer.                                       *)

SessionStart ==
  /\ session = "start"
  /\ Connecting
  /\ session' = "delay"
  /\ UNCHANGED <<run, g_stop_requested, signalled, main, line, exitCode, loop, ticks,
                 status_updates>>

SessionCheck ==
  /\ session \in {"delay", "idle"}
  /\ session' = IF g_stop_requested THEN "done"
                ELSE IF session = "delay" THEN "report" ELSE "idle"
  /\ UNCHANGED <<vars, run, g_stop_requested, signalled, main, line, exitCode, loop,
                 ticks, status_updates>>

SessionReport ==
  /\ session = "report"
  /\ OnPeerConnected
  /\ session' = "publish"
  /\ UNCHANGED <<run, g_stop_requested, signalled, main, line, exitCode, loop, ticks,
                 status_updates>>

SessionPublish ==
  /\ session = "publish"
  /\ status_updates' = status_updates + 1
  /\ session' = "idle"
  /\ UNCHANGED <<vars, run, g_stop_requested, signalled, main, line, exitCode, loop, ticks>>

-----------------------------------------------------------------------------
(* The loops.                                                              *)

\* Mutant: a loop does not look at the flag.
LoopTop_IgnoresStop(t) ==
  /\ loop[t] = "top"
  /\ loop' = [loop EXCEPT ![t] = "tick"]
  /\ UNCHANGED <<vars, run, g_stop_requested, signalled, main, line, exitCode, session,
                 ticks, status_updates>>

LoopTop(t) ==
  /\ loop[t] = "top"
  /\ loop' = [loop EXCEPT ![t] = IF g_stop_requested THEN "done" ELSE "tick"]
  /\ UNCHANGED <<vars, run, g_stop_requested, signalled, main, line, exitCode, session,
                 ticks, status_updates>>

\* Telemetry counts while the link is up, once for each web client served.
Counted(t, c) ==
  CASE t = "heartbeat" /\ c = "heartbeats" -> 1
    [] t = "telemetry" /\ connected /\ c = "telemetry_received" -> 1
    [] t = "telemetry" /\ connected /\ c = "telemetry_broadcasts" -> Cardinality(ws_clients)
    [] OTHER -> 0

Tick(t) ==
  /\ loop[t] = "tick"
  /\ ticks' = [c \in DOMAIN ticks |-> Min({MaxTicks[c], ticks[c] + Counted(t, c)})]
  /\ loop' = [loop EXCEPT ![t] = "top"]
  /\ UNCHANGED <<vars, run, g_stop_requested, signalled, main, line, exitCode, session,
                 status_updates>>

-----------------------------------------------------------------------------
(* run_self_test.                                                          *)

\* Its result becomes the exit code, the threads are told to stop.
EndSelfTest(ok) ==
  /\ main' = "joining"
  /\ exitCode' = IF ok THEN 0 ELSE 5
  /\ g_stop_requested' = TRUE

Proceed(at) == main' = at /\ UNCHANGED <<exitCode, g_stop_requested>>

\* It waits for the peer, testing the stop flag before each look at it and
\* once more before it goes on.
TestStop ==
  /\ main \in {"self_test", "ready"}
  /\ IF g_stop_requested THEN EndSelfTest(FALSE)
     ELSE Proceed(IF main = "self_test" THEN "poll" ELSE "script")
  /\ UNCHANGED <<vars, run, signalled, line, session, loop, ticks, status_updates>>

\* Mutant: it does not wait for the peer.
Poll_NoWait ==
  /\ main = "poll"
  /\ Proceed("ready")
  /\ UNCHANGED <<vars, run, signalled, line, session, loop, ticks, status_updates>>

Poll ==
  /\ main = "poll"
  /\ Proceed(IF connected THEN "ready" ELSE "self_test")
  /\ UNCHANGED <<vars, run, signalled, line, session, loop, ticks, status_updates>>

InScript(kind) == main = "script" /\ line <= Len(Script) /\ Script[line].kind = kind

\* Mutant: a lost peer only clears the link flag.
Handle_Inline(name) ==
  \/ name = "ws_connected" /\ OnWsConnected(ws_conn)
  \/ name = "ws_disconnected" /\ OnWsDisconnected(ws_conn)
  \/ name = "peer_connected" /\ OnPeerConnected
  \/ /\ name = "peer_disconnected" /\ connected' = FALSE
     /\ UNCHANGED <<session_state, vehicle_mode, emergency, expected_speed,
                    ws_clients, stats, state_timeline>>
  \/ name = "network_down" /\ OnNetworkDown
  \/ name = "network_up" /\ OnNetworkUp
  \/ name = "heartbeat_lost" /\ OnHeartbeatLost

Handle(name) ==
  \/ name = "ws_connected" /\ OnWsConnected(ws_conn)
  \/ name = "ws_disconnected" /\ OnWsDisconnected(ws_conn)
  \/ name = "peer_connected" /\ OnPeerConnected
  \/ name = "peer_disconnected" /\ OnPeerDisconnected
  \/ name = "network_down" /\ OnNetworkDown
  \/ name = "network_up" /\ OnNetworkUp
  \/ name = "heartbeat_lost" /\ OnHeartbeatLost

\* Every handle_* ends in publish_status_update, a critical section of its own.
HandleEvent ==
  /\ InScript("event")
  /\ Handle(Script[line].name)
  /\ Proceed("publish")
  /\ UNCHANGED <<run, signalled, line, session, loop, ticks, status_updates>>

PublishStatus ==
  /\ main = "publish"
  /\ status_updates' = status_updates + 1
  /\ Proceed("script") /\ line' = line + 1
  /\ UNCHANGED <<vars, run, signalled, session, loop, ticks>>

\* A rejected command ends the self-test.  It does not test the stop flag.
HandleCommand ==
  /\ InScript("command")
  /\ IF Accepts(Script[line].name)
     THEN ApplyCommand(Script[line].source, Script[line].name)
          /\ Proceed("script") /\ line' = line + 1
     ELSE EndSelfTest(FALSE) /\ UNCHANGED <<vars, line>>
  /\ UNCHANGED <<run, signalled, session, loop, ticks, status_updates>>

ExpectedStates == <<"DISCONNECTED", "CONNECTING", "CONNECTED", "REMOTE_CONTROL",
  "SAFE_STOP", "RECONNECTING", "SAFE_STOP", "CONNECTED", "SAFE_STOP", "CONNECTED",
  "DISCONNECTED", "CONNECTED">>

\* How much of the expected sequence the timeline contains, in order.
Cursor ==
  LET cursor[n \in 0..Len(state_timeline)] ==
        IF n = 0 THEN 0
        ELSE LET c == cursor[n - 1] IN
             IF c < Len(ExpectedStates) /\ state_timeline[n] = ExpectedStates[c + 1] THEN c + 1 ELSE c
  IN  cursor[Len(state_timeline)]

\* What the loops have to have done by the time of the verdict.
TickChecks == /\ ticks["heartbeats"] > 0
              /\ ticks["telemetry_received"] >= 3 /\ ticks["telemetry_broadcasts"] > 0

\* What the script has to have done.
ScriptChecks ==
  /\ stats["commands_sent"] >= 6 /\ stats["command_acks"] >= 6
  /\ stats["ws_connected_events"] >= 1 /\ stats["ws_disconnected_events"] >= 1
  /\ stats["ws_messages_received"] >= 4 /\ stats["input_commands_received"] >= 2
  /\ stats["peer_connected_events"] >= 2 /\ stats["peer_disconnected_events"] >= 1
  /\ stats["network_up_events"] >= 1 /\ stats["network_down_events"] >= 1
  /\ stats["heartbeat_lost_events"] >= 1 /\ status_updates >= 5
  /\ Cursor = Len(ExpectedStates)
  /\ connected /\ session_state = "CONNECTED" /\ vehicle_mode = "AUTO"
  /\ ~emergency /\ ws_clients = {}

Verdict ==
  /\ main = "script" /\ line > Len(Script)
  /\ EndSelfTest(TickChecks /\ ScriptChecks)
  /\ UNCHANGED <<vars, run, signalled, line, session, loop, ticks, status_updates>>

-----------------------------------------------------------------------------
(* The rest of main, and the signal handler.                               *)

\* --run-seconds: the sleep is over; a signal does not shorten it.
RunSecondsOver ==
  /\ main = "sleeping"
  /\ main' = "joining" /\ g_stop_requested' = TRUE
  /\ UNCHANGED <<vars, run, signalled, line, exitCode, session, loop, ticks, status_updates>>

SeesStop ==
  /\ main = "waiting" /\ g_stop_requested
  /\ Proceed("joining")
  /\ UNCHANGED <<vars, run, signalled, line, session, loop, ticks, status_updates>>

Join ==
  /\ main = "joining" /\ session = "done" /\ \A t \in Loops : loop[t] = "done"
  /\ Proceed("exited")
  /\ UNCHANGED <<vars, run, signalled, line, session, loop, ticks, status_updates>>

signal_handler ==
  /\ main # "exited" /\ ~signalled
  /\ g_stop_requested' = TRUE /\ signalled' = TRUE
  /\ UNCHANGED <<vars, run, main, line, exitCode, session, loop, ticks, status_updates>>

-----------------------------------------------------------------------------
AppInit ==
  /\ Init
  /\ run \in {"self_test", "sleeping", "waiting"}
  /\ main = run /\ line = 1 /\ exitCode = 0
  /\ g_stop_requested = FALSE /\ signalled = FALSE
  /\ session = "start"
  /\ loop = [t \in Loops |-> "top"]
  /\ ticks = [c \in DOMAIN MaxTicks |-> 0]
  /\ status_updates = 0

MainStep == \/ TestStop \/ Poll \/ HandleEvent \/ PublishStatus \/ HandleCommand
            \/ Verdict \/ RunSecondsOver \/ SeesStop \/ Join

SessionStep == SessionStart \/ SessionCheck \/ SessionReport \/ SessionPublish

LoopStep(t) == LoopTop(t) \/ Tick(t)

AppNext == MainStep \/ SessionStep \/ (\E t \in Loops : LoopStep(t)) \/ signal_handler

\* Every thread is scheduled again and again; nobody has to send a signal.
AppFairness == /\ WF_allVars(MainStep) /\ WF_allVars(SessionStep)
               /\ \A t \in Loops : WF_allVars(LoopStep(t))

AppSpec == AppInit /\ [][AppNext]_allVars /\ AppFairness

-----------------------------------------------------------------------------
\* The threads only ever change the cockpit's state through the operations of
\* the domain layer, and connection_loop's own write of CONNECTING comes
\* before anything else the timeline records: what holds of CockpitRuntime
\* holds of the process.
ImplementsRuntime == Spec

\* The process decides on failure (exit code 5) for a cause: it was signalled,
\* or the script ran to its end and a loop had not had the time its check asks
\* for.  No command of the script is rejected, although the session thread
\* that brings the peer up runs beside it.
FailsOnlyForCause ==
  [][exitCode' # exitCode => signalled \/ (line > Len(Script) /\ ~TickChecks)]_allVars

\* A request to stop, and the end of a self-test or of --run-seconds, ends the
\* process, also when it comes before the peer was ever connected.
StopTerminates == (g_stop_requested \/ run # "waiting") ~> (main = "exited")
=============================================================================
