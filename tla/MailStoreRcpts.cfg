SPECIFICATION Spec
CONSTANTS
    p1 = p1
    p2 = p2
    d1 = d1
    d2 = d2
    Principals = {p1, p2}
    Devices = {d1, d2}
    DeviceOwner <- TwoOwners
    Messages = {m1, m2}
    Sessions = {s1}
    Readers = {}
    PublishedKeys = {"usable"}
    MaxHeld = 1
    MaxRcpts = 2
    MaxFaults = 1
    None = None
SYMMETRY Interchangeable
INVARIANTS
    EnvelopesStayHome
    ReplyIsDurable
PROPERTIES
    KeepsPromise
