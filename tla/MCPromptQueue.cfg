CONSTANTS
    Sessions = {s1}
    NoSession = NoSession
    MaxPrompts = 3
    Images = {}
    Cancels = {c1, c2}
    Conditions <- Turbulence
    MaxSeq = 8
    MaxSelects = 1
SPECIFICATION FairSpec
INVARIANTS DrainLock TurnsFollowSubmission TakenAtMostOnce
PROPERTIES SettledCancelMeansNotRunning QueuedPromptIsSent CancelReturnsEventually
CHECK_DEADLOCK FALSE
