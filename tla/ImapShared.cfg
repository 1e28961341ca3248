SPECIFICATION Spec
CONSTANTS
    Sessions = {s1, s2}
    Window = 3
    Flags = {"deleted"}
    StoreModes = {"set", "remove"}
    Messages = {m1, m2}
    Catalogues <- Listings
    MaxUid = 9
    RestartTime = 1
    MaxClock = 1
    MaxFaults = 1
SYMMETRY Interchangeable
INVARIANTS
    UidsAgree
    PurgedWasMarked
PROPERTY
    ExpungeKeepsStep
