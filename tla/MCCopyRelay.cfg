SPECIFICATION Spec
CONSTANTS
    MaxBytes = 3
CHECK_DEADLOCK FALSE
INVARIANTS
    TypeOK
    CountsFollowDelivery
PROPERTIES
    ImplementsByteStreams
    RelayProgresses
