SPECIFICATION Spec
CONSTANTS
    Base = 4
    UuidLen = 2
    HandshakeLens = {3, 5, 6, 7}
    MaxHandshake = 7
    MaxLogin = 8
    BufferSize = 4
    Trailing = 2
CHECK_DEADLOCK FALSE
INVARIANTS
    TypeOK
    PacketsAsSent
    UpstreamSeesTheClient
PROPERTIES
    LoginsAreServed
