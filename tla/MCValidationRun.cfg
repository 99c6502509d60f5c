SPECIFICATION MCSpec
CONSTANTS
    Tasks = {t1, t2}
    NumSteps = 2
    Optional = {2}
    MaxRemediations = 3
    MaxRetries = 3
    MaxMessages = 2
    MaxFaults = 2
    Operators = {o1, o2}
    MaxOperatorCalls = 3
    Callers = {c1, c2, c3}
    FailureThreshold = 2
    RecoveryTimeout = 2
    MaxFailures = 6
CHECK_DEADLOCK FALSE
INVARIANTS
    OneExecutor
    CompletedIsProven
    TripsAtThreshold
PROPERTIES
    RunsConclude
    BreakerRecovers
