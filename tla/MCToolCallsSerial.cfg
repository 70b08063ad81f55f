CONSTANTS
    p = p
    q = q
    a = a
    b = b
    c = c
    NoCall = NoCall
    Callers = {p, q, a, b, c}
    Parent <- TwoAgents
    Limits = {1}
    MaxChanges = 0
SPECIFICATION ToolSpec
INVARIANTS QueueAdvances
CHECK_DEADLOCK FALSE
