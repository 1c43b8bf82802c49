SPECIFICATION Spec
CONSTANTS MaxConnects = 3
          MaxCalls = 3
INVARIANT QuietWhenStopped
PROPERTIES DisconnectReturns FailureIsReported
\* The client is destroyed in the end.
CHECK_DEADLOCK FALSE
