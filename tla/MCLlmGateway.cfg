SPECIFICATION Spec
CONSTANTS
    MaxTurns = 3
    MaxInFlight = 2
    MaxStages = 2
    Threshold = 1
    MaxAttempts = 1
    Fallback = TRUE
    RpmCap = 1
    TpmCap = 1
    MinInterval = "long"
    DailyLimit = 1
INVARIANT TypeOK
INVARIANT BreakerCountsFailedTurns
PROPERTY RestsAfterFailures
PROPERTY OncePerInterval
PROPERTY LimitStopsEachTurn
PROPERTY TurnsEnd
\* All turns are over in the end.
CHECK_DEADLOCK FALSE
