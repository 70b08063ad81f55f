\* An approval and a question, over three commands of kinds that a reply opens
\* through the shell, in vain (the focus manager does not know them), and
\* through the interactive window.
CONSTANTS
    Approvals = {a1}
    Questions = {q1}
    NoKey = NoKey
    Kinds = {"command", "selector.workspaces", "selector.model"}
    MaxOpens = 3
    MaxHappened = 1
SPECIFICATION Spec
INVARIANTS
    TypeOK
    FocusRestored
    HeadShown
PROPERTIES
    KeysActOnTop
CHECK_DEADLOCK FALSE
