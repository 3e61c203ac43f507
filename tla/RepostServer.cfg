CONSTANTS
    n1 = n1  n2 = n2  p1 = p1  o1 = o1  a1 = a1  a2 = a2  place = place
    Notes = {n1, n2}
    Pings = {p1}
    Others = {o1}
    Authors = {a1}
    Pubkeys = {a1, a2}
    Usernames = {u1}
    NoName = NoName
    None = None
    Places = {place}
    AuthorOf <- MCAuthorOf
    PlaceOf <- MCPlaceOf
    CreatedAt <- MCCreatedAt
    MaxQueue = 2
    MaxNow = 1
    MaxCrashes = 1
    MaxThrows = 1
SPECIFICATION Spec
INVARIANTS TypeOK AckedIsDecided LastProcessedWins NewestWinsInOrder
PROPERTIES CopiesAreVetted
