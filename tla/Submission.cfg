SPECIFICATION FairSpec
CONSTANTS
    hugo = hugo
    ghost = ghost
    quoted = quoted
    abroad = abroad
    home = home
    away = away
    Sessions = {s1}
    Addrs = {hugo, ghost, quoted, abroad}
    AfterLastAt <- LastPart
    AfterFirstAt <- FirstPart
    LocalDomains = {home}
    Known = {hugo}
    MaxRecipients = 2
    MaxAttempts = 2
    MaxFaults = 1
INVARIANTS
    TypeOK
    FaultlessAnswersAreExact
PROPERTIES
    KeepsSubmitPromise
    SubmissionsEnd
CHECK_DEADLOCK FALSE
