\* Two versions of a note, a note elsewhere, a profile and a message; one restart.
CONSTANTS
    ann = ann
    bob = bob
    here = here
    there = there
    x = x
    y = y
    z = z
    None = None
    Events <- MCEvents
    Addresses <- MCAddresses
    Authors <- MCAuthors
    Areas <- MCAreas
    MaxRequests = 3
    MaxWaiting = 2
    MaxKills = 1
SPECIFICATION Spec
INVARIANTS
    TypeOK
    StoreHoldsNewest
    QueriesAreServed
    AuthorsAreCovered
PROPERTIES AuthorsAreSubscribed
