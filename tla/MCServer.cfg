SPECIFICATION ServerSpec
CONSTANTS
    Connections = {1, 2}
    MaxConnections = 1
    SessionCapacity = 1
    None = None
INVARIANTS
    SessionsServed
    RunLeavesNothing
    WorkersBounded
PROPERTIES
    ShutdownEndsOrJoins
    LostClientsRetired
    NobodyWaitsForever
CHECK_DEADLOCK FALSE
