SPECIFICATION MotdSpec
CONSTANTS
    MaxSent = 2
CHECK_DEADLOCK FALSE
INVARIANTS
    MotdTypeOK
    OneAnswerEach
PROPERTIES
    ExchangeEnds
