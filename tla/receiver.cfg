SPECIFICATION FairSpec
CONSTANTS
    VoiceDuration = 2
    BufferSpace = 1
    UIntSize = 16
    InitialPlayoutDelay = 1
    MosSpareTime = 1
    AdaptivePlayoutDelay = TRUE
    Call <- TwoTalkspurts
    MaxDelay = 4
    MaxDuplicates = 1
    None = None
CHECK_DEADLOCK FALSE
INVARIANTS
    TypeOK
    TimerMatchesTalkspurt
    LossesAddUp
    NoNeedlessLoss
    TimerWaitsForTimelyPackets
    AdaptationSuffices
PROPERTIES
    EvaluatedInOrder
    EveryTalkspurtEvaluated
