SPECIFICATION Spec
CONSTANTS
    Relays = {r1, r2}
    Records = {1, 2}
    BatchSize = 2
    MaxAttempts = 2
    MaxFaults = 2
SYMMETRY Symmetry
INVARIANTS
    TypeOK
    HonestMarks
    DuplicatesAccounted
    NoTightRetry
CHECK_DEADLOCK FALSE
