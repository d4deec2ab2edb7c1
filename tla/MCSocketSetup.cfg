SPECIFICATION Spec
CONSTANTS
    Optional = {"interface", "mark", "congestion", "fastopen", "send_buffer"}
    MaxAddrs = 2
CHECK_DEADLOCK FALSE
INVARIANTS
    TypeOK
    PolicyHolds
    TriedInOrder
PROPERTIES
    SetupEnds
