SPECIFICATION Spec
CONSTANTS
    WorkItems = {w1, w2}
    Reserved = {w1, w2}
    Consumers = {c1, c2}
    Sweepers = {s1}
    Writers = {x1}
    TransitionTargets = {"cancelled"}
    Window = 1
    SweepLimit = 1
    MaxTime = 2
    MaxVersion = 3
    MaxFaults = 2
    NULL = NULL
SYMMETRY Symmetry
INVARIANTS
    TypeOK
    AtMostOneCommittedEffect
    ClaimInsideWindow
PROPERTIES
    ExpiryHitsOnlyWaitingWork
    WithdrawnWorkIsNeverClaimed
CHECK_DEADLOCK FALSE
