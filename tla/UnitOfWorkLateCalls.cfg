SPECIFICATION Spec
CONSTANTS
    Roots = {t1}
    Children = {}
    Uows = {u1}
    Sessions = {s1}
    Writes = {w1}
    Events = {e1}
    LateCalls = TRUE
    None = None
    NoToken = NoToken
INVARIANT OutboxOnlyWithCommit
CHECK_DEADLOCK FALSE
