SPECIFICATION MCSpec
CONSTANTS Conn = {101, 102}
          MaxTicks <- Enough
          MaxCounted = 8
INVARIANTS CockpitInv SessionMatchesLink EmergencyIsHistory TimelineIsHistory
PROPERTIES EmergencyLatches ImplementsInterlock
           ImplementsRuntime FailsOnlyForCause StopTerminates
\* The process exits, and the counters are bounded.
CHECK_DEADLOCK FALSE
