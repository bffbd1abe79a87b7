SPECIFICATION Spec
CONSTANTS
    PacketizationInterval = 3
    StartTime = 1
    StopTime = 18
    TalkspurtDurations <- ShortAndLong
    SilenceDurations <- ShortSilences
    UIntSize = 16
CHECK_DEADLOCK FALSE
INVARIANTS
    TypeOK
    VoiceDoesNotOverlap
    NumberingFollowsVoice
    OnlyLastPacketIsCut
    NumberedWithinTalkspurt
    OnePacketPastStop
