CONSTANTS
    Hosts = {"sequenced", "opencode"}
    Page = 2
    MaxChunks = 5
    MaxMessages = 3
    MaxSelects = 4
SPECIFICATION Spec
INVARIANTS
    TypeOK
    NoHole
    ShownOnce
    FollowLives
CHECK_DEADLOCK FALSE
