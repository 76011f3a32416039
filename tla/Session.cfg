SPECIFICATION Spec
CONSTANTS
    NULL = NULL
    Requests = {r1, r2}
    Kinds = {"turn", "escalate", "resolved"}
    Signals = {"up"}
    Messages = {"request", "reply"}
    ContentOf <- MCContentOf
    Givers = {"user", "staff"}
    Requester = "user"
    ChatWindow = 2
    CheckpointWindow = 1
    Overrides <- MCOverrides
    MaxTime = 2
    MaxVersion = 3
INVARIANTS
    TypeOK
    FeedbackIsOwned
    EndedWillExpire
PROPERTIES
    EndedIsFinal
    RetentionIsExact
SYMMETRY Symmetry
CHECK_DEADLOCK FALSE
