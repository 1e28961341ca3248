SPECIFICATION FairSpec
CONSTANTS
    p1 = p1
    p2 = p2
    d1 = d1
    d2 = d2
    Principals = {p1}
    Devices = {d1}
    DeviceOwner <- OneOwner
    Messages = {m1, m2}
    Sessions = {s1}
    Readers = {r1}
    PublishedKeys = {"usable", "malformed"}
    MaxHeld = 2
    MaxRcpts = 1
    MaxFaults = 1
    None = None
INVARIANTS
    MissingFileMeansPurged
PROPERTIES
    HeldMailIsReleased
