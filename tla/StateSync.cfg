\* Two keys, two handlers that may share one, two faults.
CONSTANTS
    m1 = m1
    m2 = m2
    Msgs = {m1, m2}
    Keys = {k1, k2}
    Attempts = {a1, a2}
    Bodies <- MCBodies
    Nil = Nil
    MaxSends = 4
    MaxFaults = 2
SPECIFICATION FairSpec
INVARIANTS
    TypeOK
    FieldsAreLastWriter
    PurgeIsLastEntry
    AnswersAreJournaled
    AppliedOnceWithoutFault
PROPERTIES
    MessageEntriesInOrder
    AttemptsEnd
CHECK_DEADLOCK FALSE
