\* A connection with nothing left to read may stay so: no deadlock check.
SPECIFICATION WireSpec
CONSTANTS
    Packets <- MCPackets
    MaxWritten = 2
INVARIANTS
    WireTypeOK
    FramingAgrees
    MeaningSurvives
    FailsForAReason
PROPERTIES
    EverythingIsRead
CHECK_DEADLOCK FALSE
