SPECIFICATION Spec
CONSTANTS
    MaxBytes = 2
    RetryLimit = 2
CHECK_DEADLOCK FALSE
INVARIANTS
    TypeOK
    BytesAreAccountedFor
PROPERTIES
    RelayEnds
