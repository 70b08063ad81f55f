CONSTANTS
    Sessions = {s1}
    NoSession = NoSession
    MaxPrompts = 2
    Images = {}
    Cancels = {c1}
    Conditions <- Shared
    MaxSeq = 4
    MaxSelects = 1
SPECIFICATION Spec
PROPERTIES SettledCancelMeansNotRunning
CHECK_DEADLOCK FALSE
