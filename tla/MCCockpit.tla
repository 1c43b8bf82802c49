------------------------------ MODULE MCCockpit ------------------------------
(***************************************************************************)
(* The cockpit client for TLC, in two parts of one run: the process,       *)
(* CockpitApp, and the operations of the domain called in any order, as    *)
(* the transports may that are to come, while no thread runs.              *)
(*                                                                         *)
(* The counters saturate where the self-test stops telling their values    *)
(* apart, and so many operations are called that those of the domain stay  *)
(* small.                                                                  *)
(***************************************************************************)
EXTENDS CockpitApp

CONSTANT MaxCounted  \* bound: the sum of the counters when an operation is called

ASSUME CountedBound == MaxCounted \in Nat

Enough == [heartbeats |-> 1, telemetry_received |-> 3, telemetry_broadcasts |-> 1]

Room == FoldFunction(LAMBDA x, y : x + y, 0, stats) < MaxCounted

NoThreads ==
  /\ Init
  /\ run = "waiting" /\ main = "calls" /\ line = 1 /\ exitCode = 0
  /\ g_stop_requested = FALSE /\ signalled = FALSE
  /\ session = "done"
  /\ loop = [t \in Loops |-> "done"]
  /\ ticks = [c \in DOMAIN MaxTicks |-> 0]
  /\ status_updates = 0

Calls == main = "calls" /\ Room /\ Next /\ UNCHANGED appVars

MCSpec == /\ AppInit \/ NoThreads
          /\ [][Calls \/ (main # "calls" /\ AppNext)]_allVars
          /\ AppFairness
=============================================================================
