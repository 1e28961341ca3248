SPECIFICATION Spec
CONSTANTS
    p1 = p1
    p2 = p2
    d1 = d1
    d2 = d2
    Principals = {p1}
    Devices = {d1}
    DeviceOwner <- OneOwner
    Messages = {m1, m2, m3}
    Sessions = {s1, s2}
    Readers = {}
    PublishedKeys = {"usable", "malformed"}
    MaxHeld = 1
    MaxRcpts = 1
    MaxFaults = 1
    None = None
SYMMETRY Interchangeable
INVARIANTS
    TypeOK
    RacesAreBounded
    NothingLost
    KeysFollowTheMail
    BodyOnDisk
