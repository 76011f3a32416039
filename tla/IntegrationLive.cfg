SPECIFICATION FairSpec
CONSTANTS
    w1 = w1
    j1 = j1
    m1 = m1
    m2 = m2
    mx = mx
    Works = {w1}
    Jobs = {j1}
    WorkOf <- MCWorkOf
    Keyed = {}
    Messages = {m1, m2}
    JobOf <- MCJobOf
    Forged = {m2}
    Consumers = {c1}
    Approvals = {"approved"}
    WorkMoves = {"cancelled"}
    Window = 1
    MaxDelivery = 3
    MaxTime = 1
    MaxChanges = 1
    MaxFaults = 2
    NULL = NULL
PROPERTIES
    EveryCommandEnds
CHECK_DEADLOCK FALSE
