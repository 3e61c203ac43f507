CONSTANTS
    n1 = n1  n2 = n2  p1 = p1  o1 = o1  a1 = a1  a2 = a2  place = place
    Notes = {n1, n2}
    Pings = {}
    Others = {}
    Authors = {a1}
    Pubkeys = {a1}
    Usernames = {u1}
    NoName = NoName
    None = None
    Places = {place}
    AuthorOf <- MCAuthorOf
    PlaceOf <- MCPlaceOf
    CreatedAt <- MCCreatedAt
    MaxQueue = 1
    MaxNow = 0
    MaxCrashes = 0
    MaxThrows = 1
SPECIFICATION FairSpec
PROPERTIES EverythingIsProcessed
CHECK_DEADLOCK FALSE
