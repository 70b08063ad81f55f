CONSTANTS
    Sessions = {s1}
    NoSession = NoSession
    MaxPrompts = 3
    Images = {}
    Cancels = {}
    Conditions <- EarlyEnds
    MaxSeq = 6
    MaxSelects = 1
SPECIFICATION FairSpec
PROPERTIES QueuedPromptIsSent
CHECK_DEADLOCK FALSE
