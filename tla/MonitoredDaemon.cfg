CONSTANTS
    Users = {u1}
    Filters = {here}
    Tokens = {t1}
    Notes = {}
    Authors = {a1}
    Requests = {}
    UserOf <- MCUserOf
    Asks <- MCAsks
    Gives <- MCGives
    CreatedAt <- MCCreatedAt
    Readable = {}
    Matches = {}
    AuthorOf <- MCAuthorOf
    Pings = {p1, p2}
    Pong = Pong
    None = None
    MaxQueue = 4
    MaxCrashes = 0
    Services = {strfry}
    Ping = Ping
    MaxAttempts = 3
    MaxRestarts = 1
SPECIFICATION MonitoredSpec
INVARIANTS MonitoredTypeOK WellMeansDrained SilenceMeansTold
PROPERTIES RoundsEnd
CHECK_DEADLOCK FALSE
