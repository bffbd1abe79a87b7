SPECIFICATION Spec
CONSTANTS
    EnableSessionContinuity = TRUE
    BufferTime = 1
    MaxRetransmissions = 5
    HandoverDetectionInterval = 3
    SendInterval = 1
    NumPackets = 3
    StopTime = 0
    HandoverTimeout = 2
    SimTimeLimit = 7
    MaxDuplicates = 1
    MaxErrors = 1
CHECK_DEADLOCK FALSE
INVARIANTS
    TypeOK
    PlayedInOrder
    NothingPlayableWaits
    TailRepairable
PROPERTIES
    SkipsOnlyAfterSilence
