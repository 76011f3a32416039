SPECIFICATION FairSpec
CONSTANTS
    m1 = m1
    m2 = m2
    m3 = m3
    Messages = {m1, m2, m3}
    Malformed = {}
    Refused = {}
    KindOf <- MCKindOf
    Dispatchers = {d1, d2}
    BatchSize = 1
    Ceiling = 2
    MaxAttempts = 3
    MaxFaults = 1
    NULL = NULL
PROPERTIES
    EveryCommittedTriggerIsPublished
CHECK_DEADLOCK FALSE
