SPECIFICATION Spec
CONSTANTS
    FailureThreshold = 1
    RecoveryTimeout = 1
    HalfOpenMaxCalls = 1
    MaxFailureCount = 1
    Order <- MCOrder
    Kind <- MCKind
    Nodes <- MCNodes
    Raises <- MCRaises
    Callers = {c1}
    MaxAttempts = 2
    MaxFaults = 2
    MaxTasks = 2
    NoKey = NoKey
PROPERTY PingIsRetried
CHECK_DEADLOCK FALSE
