SPECIFICATION Spec
CONSTANTS
    Calls = {c1, c2}
    FailureThreshold = 1
    RecoveryTimeout = 1
    HalfOpenMaxCalls = 1
    MaxFailureCount = 1
SYMMETRY Symmetry
INVARIANT ProbeLimit
