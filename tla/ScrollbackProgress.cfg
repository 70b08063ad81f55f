SPECIFICATION LiveScrollbackSpec
CONSTANTS
    Sessions = {s1}
    NoSession = none
    Widths = {1, 2}
    Heights = {2, 3}
    MaxLines = 1
    MaxEvents = 3
    MaxResizes = 3
    MaxRetained = 4
    Conditions = {"olderPage", "subagent", "shrink"}
INVARIANTS TailVisible
PROPERTIES EventuallyPrinted
CHECK_DEADLOCK FALSE
