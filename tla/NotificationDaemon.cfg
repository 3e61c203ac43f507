CONSTANTS
    u1 = u1  u2 = u2  r1 = r1  r2 = r2  r3 = r3  n1 = n1  n2 = n2  a1 = a1  here = here  near = near  t1 = t1  t2 = t2
    Users = {u1, u2}
    Filters = {here, near}
    Tokens = {t1, t2}
    Notes = {n1, n2}
    Authors = {a1}
    Requests = {r1, r2, r3}
    UserOf <- MCUserOf
    Asks <- MCAsks
    Gives <- MCGives
    CreatedAt <- MCDates
    Readable = {r1, r2, r3}
    Matches <- MCMatches
    AuthorOf <- MCAuthorOf
    Pings = {p1}
    Pong = Pong
    None = None
    MaxQueue = 3
    MaxCrashes = 1
SPECIFICATION Spec
INVARIANTS TypeOK AskedNotesWereAttempted
PROPERTIES KeepsTheLedger NotesAreSettled
CHECK_DEADLOCK FALSE
