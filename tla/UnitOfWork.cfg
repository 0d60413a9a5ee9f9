SPECIFICATION Spec
CONSTANTS
    Roots = {t1, t2}
    Children = {k1}
    Uows = {u1, u2}
    Sessions = {s1, s2, s3}
    Writes = {w1}
    Events = {e1}
    LateCalls = FALSE
    None = None
    NoToken = NoToken
SYMMETRY Symmetry
INVARIANTS
    TypeOK
    OwnSession
    SessionIsolation
    NoOrphanTransaction
    CommitKeepsPromise
PROPERTY AtomicOutbox
CHECK_DEADLOCK FALSE
