------------------------------ MODULE MCVehicle ------------------------------
(***************************************************************************)
(* The vehicle client for TLC, in two parts of one run.  One is the        *)
(* process, VehicleApp, whose self-test is the only caller of the domain   *)
(* operations in the tree.  In the other these operations are called in    *)
(* any order, as the transports may that are to come, and no thread runs.  *)
(*                                                                         *)
(* The counters saturate where the self-test stops telling their values    *)
(* apart, and so many operations are called that those of the domain stay  *)
(* small.                                                                  *)
(***************************************************************************)
EXTENDS VehicleApp

CONSTANT MaxCounted  \* bound: the sum of the counters when an operation is called

ASSUME CountedBound == MaxCounted \in Nat

Enough == [camera |-> 1, telemetry |-> 3, heartbeat |-> 1]

Room == FoldFunction(LAMBDA x, y : x + y, 0, stats) < MaxCounted

NoThreads ==
  /\ Init
  /\ run = [mode |-> "waiting", heartbeat |-> FALSE]
  /\ main = "calls" /\ line = 1 /\ exitCode = 0
  /\ g_stop_requested = FALSE /\ signalled = FALSE
  /\ loop = [t \in Loops |-> "done"]
  /\ ticks = [c \in Ticks |-> 0]

Calls == main = "calls" /\ Room /\ Next /\ UNCHANGED appVars

MCSpec == /\ AppInit \/ NoThreads
          /\ [][Calls \/ (main # "calls" /\ AppNext)]_allVars
          /\ AppFairness
=============================================================================
