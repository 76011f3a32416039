SPECIFICATION Spec
CONSTANTS
    m1 = m1
    m2 = m2
    m3 = m3
    Messages = {m1, m2, m3}
    Malformed = {m3}
    Refused = {m2}
    KindOf <- MCKindOf
    Dispatchers = {d1, d2}
    BatchSize = 2
    Ceiling = 2
    MaxAttempts = 3
    MaxFaults = 2
    NULL = NULL
SYMMETRY Symmetry
INVARIANTS
    TypeOK
    NeverMarkedUnsent
    ExhaustedIsSurfaced
PROPERTIES
    PublishesOnlyWhatCommitted
CHECK_DEADLOCK FALSE
