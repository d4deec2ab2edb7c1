SPECIFICATION Spec
CONSTANTS
    Ids = {i1, i2}
    Dirs = {"up"}
    MaxBytes = 2
    MaxClosed = 1
    MaxLate = 1
    Absent = Absent
SYMMETRY Symmetry
INVARIANTS
    TypeOK
    SentReachedApi
    ReportedWasRelayed
    ClosedIsFinal
PROPERTIES
    MarksNeverGoBack
