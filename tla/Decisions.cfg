SPECIFICATION Spec
CONSTANTS
    NULL = NULL
    Tenants = {"a", "b"}
    Keys = {"k", " k", " "}
    Strip <- MCStrip
    Entries = {"x", "y"}
    Configured = TRUE
    MAX_TTL = 2
    MaxTime = 4
    MaxPuts = 2
    GateRequests <- MCGateRequests
    HumanDecisions <- MCHumanDecisions
    Legs <- MCLegs
    Limits = {1, 2}
    Candidates <- MCCandidates
    RerankerScores <- MCRerankerScores
    Bodies <- MCBodies
    CaseBodies <- MCCaseBodies
    Sizes = {65536, 65537}
    AccessRequests <- MCAccessRequests
    HttpRequests <- MCHttpRequests
    Registries <- MCRegistries
    Answers <- MCAnswers
    DirectoryTexts <- MCDirectoryTexts
    Tools <- MCTools
    RecordsToEmbed <- MCRecordsToEmbed
    OutboxRows <- MCOutboxRows
    Correlations = {"plain", "shaped", ""}
    CatalogueRows <- MCCatalogueRows
    CatalogueReads <- MCCatalogueReads
    FarResults <- MCFarResults
    Moments <- MCMoments
    AuditReads <- MCAuditReads
    ReadRequests <- MCReadRequests
    Endpoints <- MCEndpoints
    Collections <- MCOneChange
    PageLimits <- MCPageLimits
    Conversations <- MCConversations
    Approvals <- MCApprovals
INVARIANTS
    ProceedsIffAuthorised
    ApprovalAloneResumes
    RankingIsFaithful
    ContractsHold
    PagesContract
    CacheServesOnlyFreshOwn
CHECK_DEADLOCK FALSE
