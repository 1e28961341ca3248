SPECIFICATION Spec
CONSTANTS
    Sessions = {s1, s2}
    Window = 3
    Flags = {"deleted"}
    StoreModes = {"add"}
    Messages = {m1, m2}
    Catalogues <- Listings
    MaxUid = 9
    RestartTime = 1
    MaxClock = 1
    MaxFaults = 0
SYMMETRY Interchangeable
PROPERTY
    ExpungeNumbersAreRight
