CONSTANTS
    d1 = d1  d2 = d2
    Calls = {c1, c2}
    Users = {u1}
    Npubs = {k1}
    Codes = {d1}
    Submissions = {}
    None = None
    MaxVerifyAttempts = 1
    MaxVerifyTokenPerWindow = 2
    MaxVerifyTokenGlobal = 2
    MaxVerifyAttemptsGlobal = 1
    OccRetries = 2
    GlobalOccRetries = 2
    TokenExpiry = 1
    WindowLength = 2
    MaxNow = 1
SPECIFICATION Spec
PROPERTIES PendingIsNotReplaced
