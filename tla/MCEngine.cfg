SPECIFICATION EngineSpec
CONSTANTS
    Decisions = {1, 2, 3}
    Resources = {1, 2}
    Paths = {1}
    NoPath = 0
    MaxU64 = 7
    MaxLedgerEntries = 8
    Requests <- MCRequests
    HistoryCapacity = 1
    AttemptCapacity = 8
    MaxDecisionRecords = 8
    None = None
    Policies <- MCPolicies
    Capacities <- MCCapacities
    Reservations <- MCReservations
    PathCatalogs <- MCPathCatalogs
    QosCatalogs <- MCQosCatalogs
    PriorityCatalogs <- MCQosCatalogs
    MaxTick = 0
    AcceptInProcessClaims = TRUE
    Durable = FALSE
    MayFail = {}
    MayLinger = {}
    CompactAt = 8
    SessionCapacity = 1
    ConfigEpoch = 1
    Incarnations = {1}
    Claimants = {}
    InProcessClaims <- MCInProcessClaims
    MaxFrames = 1
    MaxEpoch = 1
    MaxNonce = 1
INVARIANTS
    EngineTypeOK
    AccountingClosed
    HeldRecorded
    IndexExact
    CursorSound
    ReplyBacked
    NoDoubleGrant
PROPERTIES
    HistoryBounded
    NewestFirst
