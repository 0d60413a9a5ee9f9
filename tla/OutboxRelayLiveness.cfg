SPECIFICATION FairSpec
CONSTANTS
    Relays = {r1, r2}
    Records = {1, 2}
    BatchSize = 1
    MaxAttempts = 1
    MaxFaults = 1
PROPERTIES
    EverySavedSettles
    StopEndsRun
CHECK_DEADLOCK FALSE
