SPECIFICATION Spec
CONSTANTS
    Messages = {m1, m2, m3}
    MaxListed = 2
    Catalogues <- Listings
    MaxUid = 9
    RestartTime = 1
    MaxClock = 3
    MaxFaults = 1
INVARIANT
    UidNeverReassigned
