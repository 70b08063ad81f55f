CONSTANTS
    p = p
    q = q
    a = a
    b = b
    c = c
    NoCall = NoCall
    Callers = {p, q, a, b, c}
    Parent <- TwoAgents
    Limits = {3, 4}
    MaxChanges = 0
SPECIFICATION FairToolSpec
INVARIANTS QueueAdvances
PROPERTIES ImplementsFifoAdmission
CHECK_DEADLOCK FALSE
