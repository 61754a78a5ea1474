SPECIFICATION RecoverySpec
CONSTANTS
    Decisions = {1, 2}
    Resources = {1}
    Paths = {}
    NoPath = 0
    MaxU64 = 7
    MaxLedgerEntries = 8
    Requests <- RecoveryRequests
    HistoryCapacity = 1
    AttemptCapacity = 8
    MaxDecisionRecords = 8
    None = None
    Policies <- DurablePolicies
    Capacities <- RecoveryCapacities
    Reservations <- DurableReservations
    PathCatalogs = {}
    QosCatalogs <- MCQosCatalogs
    PriorityCatalogs <- MCQosCatalogs
    MaxTick = 0
    AcceptInProcessClaims = FALSE
    Durable = TRUE
    MayFail = {"Commit", "Revocation"}
    MayLinger = {}
    CompactAt = 99
    SessionCapacity = 1
    ConfigEpoch = 0
    Incarnations = {1}
    Claimants = {1}
    InProcessClaims = {}
    MaxFrames = 7
    MaxEpoch = 2
    MaxNonce = 1
INVARIANTS
    HeldRecorded
    NoDoubleGrant
    RestoredLoadGated
    ReleasedStayReleased
    JournalReplays
    RestoredAsGranted
    SessionsCurrent
PROPERTY
    FencedForever
CHECK_DEADLOCK FALSE
