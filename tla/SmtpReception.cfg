SPECIFICATION FairSpec
CONSTANTS
    hugo = hugo
    ghost = ghost
    p1 = p1
    Addrs = {hugo, ghost, garbled}
    Principals = {p1}
    Resolve <- Directory
    Unknown = Unknown
    Invalid = Invalid
    MaxRecipients = 2
    MaxBody = 1
    MaxText = 2
    MaxMails = 2
    MaxAsides = 2
    MaxAhead = 2
    MaxFaults = 1
INVARIANTS
    TypeOK
    ViewsAgree
    CopiesAreAsSent
    VerdictIsTrue
PROPERTY
    NoPeerWaitsForEver
CHECK_DEADLOCK FALSE
