CONSTANTS
    u1 = u1  u2 = u2  r1 = r1  r2 = r2  r3 = r3  n1 = n1  n2 = n2  a1 = a1  here = here  near = near  t1 = t1  t2 = t2
    Users = {u1}
    Filters = {here, near}
    Tokens = {t1}
    Notes = {n1}
    Authors = {a1}
    Requests = {r1, r2}
    UserOf <- OneUserOf
    Asks <- OneAsks
    Gives <- OneGives
    CreatedAt <- MCCreatedAt
    Readable = {r1, r2}
    Matches <- OneMatches
    AuthorOf <- OneAuthorOf
    Pings = {}
    Pong = Pong
    None = None
    MaxQueue = 3
    MaxCrashes = 0
SPECIFICATION Spec
INVARIANT ServesStoredRequest

CHECK_DEADLOCK FALSE
