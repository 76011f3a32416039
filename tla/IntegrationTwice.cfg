SPECIFICATION Spec
CONSTANTS
    w1 = w1
    j1 = j1
    m1 = m1
    m2 = m2
    mx = mx
    Works = {w1}
    Jobs = {j1}
    WorkOf <- MCWorkOf
    Keyed = {w1}
    Messages = {m1, m2}
    JobOf <- MCJobOf
    Forged = {}
    Consumers = {c1, c2}
    Approvals = {"approved"}
    WorkMoves = {"cancelled"}
    Window = 1
    MaxDelivery = 2
    MaxTime = 1
    MaxChanges = 0
    MaxFaults = 0
    NULL = NULL
SYMMETRY Symmetry
INVARIANTS
    AtMostOneExternalEffect
CHECK_DEADLOCK FALSE
