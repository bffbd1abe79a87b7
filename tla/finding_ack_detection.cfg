SPECIFICATION Spec
CONSTANTS
    EnableSessionContinuity = TRUE
    BufferTime = 1
    MaxRetransmissions = 5
    HandoverDetectionInterval = 3
    SendInterval = 1
    NumPackets = 3
    StopTime = 0
    HandoverTimeout = 2
    SimTimeLimit = 7
    MaxDuplicates = 0
    MaxErrors = 0
CHECK_DEADLOCK FALSE
PROPERTY MissingAcksDetected
