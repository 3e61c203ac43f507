CONSTANTS
    n1 = n1  a1 = a1  place = place
    Notes = {n1}
    Pings = {}
    Others = {echo}
    Echo = echo
    AcceptedItems = {n1}
    Authors = {a1}
    Pubkeys = {a1}
    Usernames = {u1}
    NoName = NoName
    None = None
    Places = {place}
    AuthorOf <- MCAuthorOf
    PlaceOf <- MCPlaceOf
    CreatedAt <- MCCreatedAt
    MaxLines = 2
    MaxNow = 0
    MaxCrashes = 1
    MaxThrows = 1
SPECIFICATION Spec
INVARIANTS AcceptedNotesAreKept
PROPERTIES ServerView AcceptedNotesAreDecided
CHECK_DEADLOCK FALSE
