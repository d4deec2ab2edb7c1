SPECIFICATION Spec
CONSTANTS
    Conns = {c1, c2}
    Good = {"default", "splice"}
    Splices = {"splice"}
    Default = "default"
    Broken = {"broken"}
    BadLevel = {"bad level"}
    Fatal = {"fatal"}
    PoolSize = 1
    MaxTime = 2
    MaxEdits = 2
CHECK_DEADLOCK FALSE
INVARIANTS
    TypeOK
    RunningConfigIsChecked
PROPERTIES
    OperatorIsServed
