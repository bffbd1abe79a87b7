SPECIFICATION Spec
CONSTANTS
    Paths <- BothPaths
    MinDelay <- Fastest
    MaxDelay <- Slowest
    PacketizationInterval = 3
    TalkspurtDurations <- Durations
    SilenceDurations <- Silences
    InitialPlayoutDelay = 1
    MosSpareTime = 3
    AdaptivePlayoutDelay = TRUE
    BufferSpace = 4
    UIntSize = 16
    HandoverDetectionInterval = 5
    SendInterval = 1
    SimTimeLimit = 18
    None = None
CHECK_DEADLOCK FALSE
INVARIANTS
    CallMeetsReceiver
PROPERTIES
    ReportedLossIsReal
    TimerWaitsForTheCall
