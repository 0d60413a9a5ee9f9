SPECIFICATION Spec
CONSTANTS
    Roots = {t1}
    Children = {k1}
    Uows = {u1}
    Sessions = {s1}
    Writes = {w1}
    Events = {e1}
    LateCalls = FALSE
    None = None
    NoToken = NoToken
INVARIANT NoStrayWrites
CHECK_DEADLOCK FALSE
