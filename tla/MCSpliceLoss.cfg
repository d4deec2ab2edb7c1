SPECIFICATION Spec
CONSTANTS
    MaxBytes = 2
    RetryLimit = 2
CHECK_DEADLOCK FALSE
PROPERTIES
    ImplementsByteStreams
