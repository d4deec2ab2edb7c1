SPECIFICATION Spec
CONSTANTS
    Conns = {c1, c2}
    Ids = {i1, i2}
    PlayerState = {"Connected", "Proxying"}
    Absent = Absent
    NoId = NoId
    UniqueIds = FALSE
    MaxBytes = 1
CHECK_DEADLOCK FALSE
INVARIANTS
    TypeOK
    SettledExactly
    ClosedOnceWithFinalTraffic
    OnlineTracksProxying
    NothingLeftBehind
PROPERTIES
    ConnectionsEnd
