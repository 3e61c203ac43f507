CONSTANTS
    Commits = {c1}
    Foreign = {2, 3}
    PerPage = 1
    Limit = 2
    GithubLookback = 1
    None = None
    MaxNow = 1
    MaxRoom = 3
    MaxMishaps = 1
SPECIFICATION Spec
INVARIANTS TypeOK PassedIsPosted PolledIsPosted RepeatsNeedAMishap
PROPERTIES MessagesAreBridged BranchIsForwarded RoomIsForwarded
CHECK_DEADLOCK FALSE
