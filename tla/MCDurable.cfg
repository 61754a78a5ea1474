SPECIFICATION RecoverySpec
CONSTANTS
    Decisions = {1, 2, 3}
    Resources = {1}
    Paths = {}
    NoPath = 0
    MaxU64 = 7
    MaxLedgerEntries = 8
    Requests <- DurableRequests
    HistoryCapacity = 2
    AttemptCapacity = 8
    MaxDecisionRecords = 8
    None = None
    Policies <- DurablePolicies
    Capacities <- DurableCapacities
    Reservations <- DurableReservations
    PathCatalogs = {}
    QosCatalogs <- MCQosCatalogs
    PriorityCatalogs <- MCQosCatalogs
    MaxTick = 0
    AcceptInProcessClaims = TRUE
    Durable = TRUE
    MayFail = {"Boot", "Policy", "Prepare", "Commit", "Refused", "Release", "Revocation", "Mark", "Compact"}
    MayLinger = {"Boot", "Prepare", "Revocation"}
    CompactAt = 6
    SessionCapacity = 1
    ConfigEpoch = 0
    Incarnations = {1}
    Claimants = {}
    InProcessClaims <- MCInProcessClaims
    MaxFrames = 6
    MaxEpoch = 1
    MaxNonce = 1
INVARIANTS
    DurableMatchesMemory
    JournalReplays
PROPERTIES
    GrantsFit
CHECK_DEADLOCK FALSE
