SPECIFICATION Spec
CONSTANTS
    NULL = NULL
    Runs = {r1, r2}
    Versions = {1, 2}
    FirstEntries <- MCFirstEntries
    LaterEntries <- MCLaterEntries
    UserTurns <- MCUserTurns
    RequestTurns <- MCRequestTurns
    SearchResults <- MCSearchResults
    StaffAnswers <- MCStaffAnswers
    Window = 1
    MaxTime = 1
    MaxInvocations = 2
    MaxChanges = 1
INVARIANTS
    TypeOK
    RestIsExplained
    MirrorIsTheRow
PROPERTIES
    SpendsOnlyStandingAuthority
    RunsOnlyAdvance
SYMMETRY Symmetry
CHECK_DEADLOCK FALSE
