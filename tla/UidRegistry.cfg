SPECIFICATION Spec
CONSTANTS
    Messages = {m1, m2, m3, m4}
    MaxListed = 2
    Catalogues <- Listings
    MaxUid = 3
    RestartTime = 1
    MaxClock = 3
    MaxFaults = 1
SYMMETRY Interchangeable
INVARIANTS
    TypeOK
    UidNamesOneMessage
    MessageKeepsUid
    ValidityIsStable
