SPECIFICATION ScrollbackSpec
CONSTANTS
    Sessions = {s1}
    NoSession = none
    Widths = {1, 2}
    Heights = {2}
    MaxLines = 1
    MaxEvents = 4
    MaxResizes = 2
    MaxRetained = 4
    Conditions = {"olderPage", "subagent"}
INVARIANTS TypeOK NothingRefused RowsInOrder NoRowSkipped PrintedAtMostTwice NoRowLost ReleasedAfterwards
CHECK_DEADLOCK FALSE
