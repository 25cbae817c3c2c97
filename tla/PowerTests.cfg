CONSTANTS
    NumSessions = 2
    NumCores = 3
    Freqs = {1000, 1400}
    Days <- MCDays
SPECIFICATION Spec
CHECK_DEADLOCK FALSE
INVARIANTS
    TypeOK
    LimitsInForce
    ResultFresh
PROPERTIES
    SessionProtocol
    RecordersStop
