SPECIFICATION Spec
CONSTANTS
    Sessions = {s1}
    Window = 3
    Flags = {"seen", "deleted"}
    StoreModes = {"add", "remove"}
    Messages = {m1, m2, m3}
    Catalogues <- Listings
    MaxUid = 9
    RestartTime = 1
    MaxClock = 2
    MaxFaults = 1
SYMMETRY Interchangeable
INVARIANTS
    TypeOK
    CopyIsServer
    NumbersAgree
