SPECIFICATION ServerSpec
CONSTANTS
    Connections = {1}
    MaxConnections = 1
    SessionCapacity = 1
    None = None
PROPERTIES
    ShutdownEnds
CHECK_DEADLOCK FALSE
