CONSTANTS
    Callers = {a, b, c, d}
    Limits = {1, 2, 3}
    MaxChanges = 2
SPECIFICATION FairSpec
INVARIANTS TypeOK ActiveCountsHolders WaitersAreWaiting NoIdleSlot
PROPERTIES GrantsRespectLimit WaiterIsServed
CHECK_DEADLOCK FALSE
