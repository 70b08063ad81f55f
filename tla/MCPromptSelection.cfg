CONSTANTS
    Sessions = {s1, s2}
    NoSession = NoSession
    MaxPrompts = 2
    Images = {1}
    Cancels = {c1}
    Conditions <- AllButLoss
    MaxSeq = 2
    MaxSelects = 2
SPECIFICATION Spec
INVARIANTS TypeOK QueueHoldsEachPromptOnce ShownIsQueued ActivePromptIsAlive ControllerIsInFlight RunningIsTrue
CHECK_DEADLOCK FALSE
