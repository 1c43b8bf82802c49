-------------------------- MODULE SafetyInterlock --------------------------
(***************************************************************************)
(* What the domain layer of both clients promises of remote driving,       *)
(* whatever else it keeps track of: an emergency stop can strike at any    *)
(* moment and latches, since nothing but a command that the client obeyed  *)
(* leads out of it, never the peer or the network coming or going; a       *)
(* remote driver has to take over before anything moves, and never takes   *)
(* over out of an emergency; giving back control stops the vehicle.        *)
(* VehicleRuntime and CockpitRuntime implement it.                         *)
(***************************************************************************)
EXTENDS Naturals

VARIABLES
  drive,    \* "auto", "remote" or "stopped"
  moving,   \* the remote driver has set a speed
  commands  \* how many commands were obeyed

Init == drive = "auto" /\ moving = FALSE /\ commands = 0

Obeyed == commands' = commands + 1

TakeOver == drive = "auto" /\ drive' = "remote" /\ moving' = FALSE /\ Obeyed

SetSpeed == drive = "remote" /\ drive' = "remote" /\ moving' \in BOOLEAN /\ Obeyed

\* The peer or the network ended the remote drive.
HandBack == drive = "remote" /\ drive' = "auto" /\ moving' = FALSE /\ UNCHANGED commands

\* On command or not.
Trip == drive' = "stopped" /\ moving' = FALSE /\ (Obeyed \/ UNCHANGED commands)

Recover == drive = "stopped" /\ drive' = "auto" /\ moving' = FALSE /\ Obeyed

Next == TakeOver \/ SetSpeed \/ HandBack \/ Trip \/ Recover

Spec == Init /\ [][Next]_<<drive, moving, commands>>
=============================================================================
