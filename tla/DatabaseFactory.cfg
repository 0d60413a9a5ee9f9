SPECIFICATION Spec
CONSTANTS
    FailureThreshold = 1
    RecoveryTimeout = 1
    HalfOpenMaxCalls = 1
    MaxFailureCount = 1
    Order <- MCOrder
    Kind <- MCKind
    Nodes <- MCNodes
    Raises <- MCRaises
    Callers = {c1, c2}
    MaxAttempts = 2
    MaxFaults = 3
    MaxTasks = 2
    NoKey = NoKey
SYMMETRY Symmetry
INVARIANTS
    TypeOK
    PoolsReleased
    RetryDiscipline
PROPERTIES
    StaysClosed
    OutageCounted
    RefusalsExplained
    HealthReportComplete
CHECK_DEADLOCK FALSE
