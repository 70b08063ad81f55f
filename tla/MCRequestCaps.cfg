SPECIFICATION Spec
CONSTANTS
    s1 = s1
    s2 = s2
    r1 = r1
    r2 = r2
    r3 = r3
    Sessions = {s1, s2}
    Global = Global
    Requests = {r1, r2, r3}
    SessionOf <- AllOfOne
    Caps = {2}
    DefaultCap = 1
    MaxAppends = 2
    MaxOpens = 2
    MaxRestarts = 1
INVARIANT CapInForce
PROPERTY OneSemaphoreEach
CHECK_DEADLOCK FALSE
SYMMETRY Alike
