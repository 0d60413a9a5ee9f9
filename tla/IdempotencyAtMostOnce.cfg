SPECIFICATION Spec
CONSTANTS
    Calls = {c1, c2}
    Managers = {m1}
    Keys = {k1}
    Payloads = {p1}
    MaxExpiries = 0
    None = None
INVARIANT AtMostOnce
CHECK_DEADLOCK FALSE
