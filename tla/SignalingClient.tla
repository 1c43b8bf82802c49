--------------------------- MODULE SignalingClient ---------------------------
(***************************************************************************)
(* signaling/signaling_client.cc: SignalingClientImpl, between the thread  *)
(* of its owner, which calls connect, disconnect and sendSignal and in the *)
(* end destroys it, and the Asio thread, which websocketpp calls the       *)
(* handlers on.  websocketpp itself is external: a connection is in one of *)
(* its session states, and run() returns when the io_context was stopped,  *)
(* which nothing undoes, or when no connection is left to serve.           *)
(***************************************************************************)
EXTENDS Naturals

CONSTANTS
  MaxConnects,  \* bound: connections the owner asks for
  MaxCalls      \* bound: calls of each of the application's handlers

ASSUME Bounds == MaxConnects \in Nat /\ MaxCalls \in Nat \ {0}

VARIABLES
  owner,       \* the owner's thread: "idle", in disconnect() at "closing",
               \* "stopping" or "joining", or at its end, "gone" or "aborted"
  destroying,  \* the disconnect() is the destructor's
  isRunning_,
  asioThread_, \* "none" is not joinable; "run" inside run(); "returned" and
               \* "reported" in what follows it; "done" is over, not joined
  stopped,     \* the io_context was stopped
  con,         \* the session state of the connection of connectionHdl_
  connects,    \* connections so far
  calls,       \* calls of each handler for the current connection
  handling     \* the Asio thread is inside a handler of the application

vars == <<owner, destroying, isRunning_, asioThread_, stopped, con, connects, calls, handling>>

Handlers == {"connected", "disconnected", "error", "message"}

\* A handler is called; the Asio thread enters it, and goes on when it returns.
Called(h) == calls' = [calls EXCEPT ![h] = @ + 1]
Enters(h) == Called(h) /\ handling' = TRUE

Room == \A h \in Handlers : calls[h] < MaxCalls

-----------------------------------------------------------------------------
(* The owner's thread.                                                     *)

\* connect() does nothing while isRunning_.  Assigning to asioThread_ while it
\* is joinable ends the process (std::terminate).
Connect ==
  /\ owner = "idle" /\ ~isRunning_ /\ connects < MaxConnects
  /\ con' = "connecting" /\ connects' = connects + 1
  /\ isRunning_' = TRUE
  /\ calls' = [h \in Handlers |-> 0]
  /\ IF asioThread_ = "none"
     THEN asioThread_' = "run" /\ UNCHANGED owner
     ELSE owner' = "aborted" /\ UNCHANGED asioThread_
  /\ UNCHANGED <<destroying, stopped, handling>>

\* The URI is no good: no connection object, the error handler is told.
ConnectRefused ==
  /\ owner = "idle" /\ ~isRunning_ /\ Room
  /\ Called("error")
  /\ UNCHANGED <<owner, destroying, isRunning_, asioThread_, stopped, con, connects, handling>>

\* disconnect(), from the owner or from the destructor, which goes on to
\* destroy asioThread_: joinable, that ends the process.
Disconnect(fromDestructor) ==
  /\ owner = "idle"
  /\ destroying' = fromDestructor
  /\ IF isRunning_
     THEN isRunning_' = FALSE /\ owner' = "closing"
     ELSE /\ owner' = IF ~fromDestructor THEN "idle"
                      ELSE IF asioThread_ = "none" THEN "gone" ELSE "aborted"
          /\ UNCHANGED isRunning_
  /\ UNCHANGED <<asioThread_, stopped, con, connects, calls, handling>>

\* A close frame for a connection that is open; a failure of it is logged.
SendClose ==
  /\ owner = "closing"
  /\ con' = IF con = "open" THEN "closing" ELSE con
  /\ owner' = "stopping"
  /\ UNCHANGED <<destroying, isRunning_, asioThread_, stopped, connects, calls, handling>>

\* Mutant: the io_context is left running.
Stop_Forgotten ==
  /\ owner = "stopping"
  /\ owner' = "joining"
  /\ UNCHANGED <<destroying, isRunning_, asioThread_, stopped, con, connects, calls, handling>>

\* Mutant: the Asio thread is stopped and not joined.
Stop_NoJoin ==
  /\ owner = "stopping"
  /\ stopped' = TRUE
  /\ owner' = IF destroying THEN "gone" ELSE "idle"
  /\ UNCHANGED <<destroying, isRunning_, asioThread_, con, connects, calls, handling>>

Stop ==
  /\ owner = "stopping"
  /\ stopped' = TRUE
  /\ owner' = "joining"
  /\ UNCHANGED <<destroying, isRunning_, asioThread_, con, connects, calls, handling>>

Join ==
  /\ owner = "joining" /\ asioThread_ = "done"
  /\ asioThread_' = "none"
  /\ owner' = IF destroying THEN "gone" ELSE "idle"
  /\ UNCHANGED <<destroying, isRunning_, stopped, con, connects, calls, handling>>

\* sendSignal: websocketpp takes the frame of an open connection; otherwise,
\* and when its send fails, the error handler is told.
SendSignal ==
  /\ owner = "idle" /\ Room
  /\ Called("error") \/ (con = "open" /\ UNCHANGED calls)
  /\ UNCHANGED <<owner, destroying, isRunning_, asioThread_, stopped, con, connects, handling>>

-----------------------------------------------------------------------------
(* The handlers, on the Asio thread.                                       *)

\* run() serves the connection when no handler is in progress.
Serving == asioThread_ = "run" /\ ~stopped /\ ~handling

OnOpen ==
  /\ Serving /\ con = "connecting"
  /\ con' = "open" /\ Enters("connected")
  /\ UNCHANGED <<owner, destroying, isRunning_, asioThread_, stopped, connects>>

\* The disconnected handler is not called: run() is left to return.
OnFail ==
  /\ Serving /\ con = "connecting"
  /\ con' = "failed" /\ Enters("error")
  /\ UNCHANGED <<owner, destroying, isRunning_, asioThread_, stopped, connects>>

\* A message that does not parse goes to the error handler.
OnMessage ==
  /\ Serving /\ con \in {"open", "closing"} /\ Room
  /\ \E h \in {"message", "error"} : Enters(h)
  /\ UNCHANGED <<owner, destroying, isRunning_, asioThread_, stopped, con, connects>>

\* The server closes, the connection breaks, or the closing handshake ends.
OnClose ==
  /\ Serving /\ con \in {"open", "closing"}
  /\ con' = "closed" /\ Enters("disconnected")
  /\ UNCHANGED <<owner, destroying, isRunning_, asioThread_, stopped, connects>>

HandlerReturns ==
  /\ handling /\ handling' = FALSE
  /\ UNCHANGED <<owner, destroying, isRunning_, asioThread_, stopped, con, connects, calls>>

RunReturns ==
  /\ asioThread_ = "run" /\ ~handling
  /\ stopped \/ con \in {"closed", "failed"}
  /\ asioThread_' = "returned"
  /\ UNCHANGED <<owner, destroying, isRunning_, stopped, con, connects, calls, handling>>

\* Mutant: nothing is reported when run() returns.
ReportEnd_Silent ==
  /\ asioThread_ = "returned"
  /\ asioThread_' = "reported"
  /\ UNCHANGED <<owner, destroying, isRunning_, stopped, con, connects, calls, handling>>

\* After run(): the application is told, unless disconnect() was called.
ReportEnd ==
  /\ asioThread_ = "returned"
  /\ IF isRunning_ THEN Enters("disconnected") ELSE UNCHANGED <<calls, handling>>
  /\ asioThread_' = "reported"
  /\ UNCHANGED <<owner, destroying, isRunning_, stopped, con, connects>>

EndThread ==
  /\ asioThread_ = "reported" /\ ~handling
  /\ isRunning_' = FALSE
  /\ asioThread_' = "done"
  /\ UNCHANGED <<owner, destroying, stopped, con, connects, calls, handling>>

-----------------------------------------------------------------------------
Init ==
  /\ owner = "idle" /\ destroying = FALSE
  /\ isRunning_ = FALSE /\ asioThread_ = "none"
  /\ stopped = FALSE /\ con = "none"
  /\ connects = 0 /\ calls = [h \in Handlers |-> 0]
  /\ handling = FALSE

Next ==
  \/ Connect
  \/ ConnectRefused
  \/ \E fromDestructor \in BOOLEAN : Disconnect(fromDestructor)
  \/ SendClose
  \/ Stop
  \/ Join
  \/ SendSignal
  \/ OnOpen
  \/ OnFail
  \/ OnMessage
  \/ OnClose
  \/ HandlerReturns
  \/ RunReturns
  \/ ReportEnd
  \/ EndThread

\* disconnect() goes on and the Asio thread is scheduled; a server answers a
\* close frame, and a handshake succeeds or times out.  The application's
\* handlers return: an assumption, which the manager's do not meet while stop()
\* holds mutex_ (StopReturns in module WebrtcManager).  Nobody has to connect, to
\* disconnect or to close an open connection.
Fairness ==
  /\ WF_vars(SendClose) /\ WF_vars(Stop) /\ WF_vars(Join)
  /\ WF_vars(RunReturns) /\ WF_vars(ReportEnd) /\ WF_vars(EndThread)
  /\ WF_vars(HandlerReturns)
  /\ WF_vars(OnOpen \/ OnFail) /\ WF_vars(con = "closing" /\ OnClose)

Spec == Init /\ [][Next]_vars /\ Fairness

-----------------------------------------------------------------------------
TypeOK ==
  /\ owner \in {"idle", "closing", "stopping", "joining", "gone", "aborted"}
  /\ destroying \in BOOLEAN /\ isRunning_ \in BOOLEAN
  /\ asioThread_ \in {"none", "run", "returned", "reported", "done"}
  /\ stopped \in BOOLEAN
  /\ con \in {"none", "connecting", "open", "closing", "closed", "failed"}
  /\ connects \in 0..MaxConnects
  /\ calls \in [Handlers -> Nat]
  /\ isRunning_ => asioThread_ \in {"run", "returned", "reported"} \/ owner = "aborted"
  /\ handling \in BOOLEAN /\ (handling => asioThread_ \in {"run", "reported"})

\* Once isRunning_ is false and the owner is not inside disconnect(), the Asio
\* thread is in no handler of the application and will enter none: it is joined,
\* or past its last call.  The owner may then drop what the handlers refer to
\* (webrtc_manager.cc:163-164 relies on it).
QuietWhenStopped ==
  owner \in {"idle", "gone"} /\ ~isRunning_ => asioThread_ \in {"none", "done"} /\ ~handling

\* What makes it inductive: disconnect() has cleared the flag before it waits.
ClientInv ==
  /\ TypeOK /\ QuietWhenStopped
  /\ owner \in {"closing", "stopping", "joining"} => ~isRunning_

\* disconnect() returns, whatever the Asio thread was doing when it was called:
\* in run(), past it, or inside a handler, for which the join waits.  That the
\* handler returns is assumed (Fairness).
DisconnectReturns ==
  owner \in {"closing", "stopping", "joining"} ~> owner \in {"idle", "gone"}

\* A connection attempt that fails is reported to the disconnected handler, by
\* the end of the Asio thread, unless the owner disconnects first ("Ensure the
\* disconnected handler is called to inform the app", signaling_client.cc:393).
FailureIsReported ==
  (con = "failed" /\ isRunning_ /\ owner = "idle") ~> (calls["disconnected"] > 0 \/ owner # "idle")
=============================================================================
