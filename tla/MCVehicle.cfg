SPECIFICATION MCSpec
CONSTANTS MaxTicks <- Enough
          MaxCounted = 7
INVARIANTS VehicleInv MovesOnlyUnderControl EmergencyIsSafeStop TimelineIsHistory
PROPERTIES EmergencyLatches ImplementsInterlock
           ImplementsRuntime FailsOnlyForCause StopTerminates
\* The process exits, and the counters are bounded.
CHECK_DEADLOCK FALSE
