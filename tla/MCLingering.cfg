SPECIFICATION RecoverySpec
CONSTANTS
    Decisions = {1, 2}
    Resources = {1}
    Paths = {}
    NoPath = 0
    MaxU64 = 7
    MaxLedgerEntries = 8
    Requests <- RepeatedRequest
    HistoryCapacity = 8
    AttemptCapacity = 8
    MaxDecisionRecords = 8
    None = None
    Policies <- DurablePolicies
    Capacities <- DurableCapacities
    Reservations <- DurableReservations
    PathCatalogs = {}
    QosCatalogs <- MCQosCatalogs
    PriorityCatalogs <- MCQosCatalogs
    MaxTick = 0
    AcceptInProcessClaims = TRUE
    Durable = TRUE
    MayFail = {"Commit"}
    MayLinger = {"Commit"}
    CompactAt = 99
    SessionCapacity = 1
    ConfigEpoch = 0
    Incarnations = {1}
    Claimants = {}
    InProcessClaims <- MCInProcessClaims
    MaxFrames = 8
    MaxEpoch = 2
    MaxNonce = 1
INVARIANT
    NoDoubleGrant
CHECK_DEADLOCK FALSE
