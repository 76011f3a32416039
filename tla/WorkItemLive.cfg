SPECIFICATION FairSpec
CONSTANTS
    WorkItems = {w1, w2}
    Reserved = {w1, w2}
    Consumers = {c1}
    Sweepers = {s1}
    Writers = {x1}
    TransitionTargets = {"cancelled"}
    Window = 1
    SweepLimit = 1
    MaxTime = 2
    MaxVersion = 3
    MaxFaults = 1
    NULL = NULL
PROPERTIES
    ClosedWindowIsSettled
CHECK_DEADLOCK FALSE
