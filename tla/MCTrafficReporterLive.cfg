SPECIFICATION Spec
CONSTANTS
    Ids = {i1, i2}
    Dirs = {"up"}
    MaxBytes = 1
    MaxClosed = 1
    MaxLate = 0
    Absent = Absent
PROPERTIES
    EveryFinishIsSent
    TrafficIsReported
