SPECIFICATION FairSpec
CONSTANTS
    Calls = {c1, c2, c3}
    Managers = {m1, m2}
    Keys = {k1}
    Payloads = {p1, p2}
    MaxExpiries = 1
    None = None
INVARIANTS
    TypeOK
    SerializedPerKey
    NoForeignResult
    ReplaysAgree
    ExecutionsAccounted
PROPERTY EveryCallEnds
CHECK_DEADLOCK FALSE
