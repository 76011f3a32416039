SPECIFICATION Spec
CONSTANTS
    w1 = w1
    j1 = j1
    m1 = m1
    m2 = m2
    mx = mx
    Works = {w1}
    Jobs = {j1}
    WorkOf <- MCWorkOf
    Keyed = {w1}
    Messages = {m1, m2, mx}
    JobOf <- MCJobOf
    Forged = {m2, mx}
    Consumers = {c1, c2}
    Approvals = {"approved", "none"}
    WorkMoves = {"cancelled", "executed"}
    Window = 1
    MaxDelivery = 2
    MaxTime = 1
    MaxChanges = 1
    MaxFaults = 1
    NULL = NULL
SYMMETRY Symmetry
INVARIANTS
    TypeOK
    AnsweredWorkIsNotCalledAgain
    WithdrawnWorkIsNotCalled
    HandledMeansAnswered
    ActedMeansCalled
PROPERTIES
    AnswersAreFinal
CHECK_DEADLOCK FALSE
