SPECIFICATION EngineSpec
CONSTANTS
    Decisions = {1, 2}
    Resources = {1, 2}
    Paths = {1}
    NoPath = 0
    MaxU64 = 7
    MaxLedgerEntries = 8
    Requests <- RepeatedRequest
    HistoryCapacity = 8
    AttemptCapacity = 8
    MaxDecisionRecords = 8
    None = None
    Policies <- MCPolicies
    Capacities <- MCCapacities
    Reservations <- MCReservations
    PathCatalogs <- MCPathCatalogs
    QosCatalogs <- MCQosCatalogs
    PriorityCatalogs <- MCQosCatalogs
    MaxTick = 0
    AcceptInProcessClaims = FALSE
    Durable = FALSE
    MayFail = {}
    MayLinger = {}
    CompactAt = 8
    SessionCapacity = 1
    ConfigEpoch = 1
    Incarnations = {1}
    Claimants = {1}
    InProcessClaims = {}
    MaxFrames = 1
    MaxEpoch = 2
    MaxNonce = 1
INVARIANT
    GrantAnswersReplay
