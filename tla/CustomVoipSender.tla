-------------------------- MODULE CustomVoipSender --------------------------
(***************************************************************************)
(* The voice source: talkspurts and silences alternate (timer selfSource), *)
(* and during a talkspurt a packet leaves every packetization interval     *)
(* (timer selfSender), the last ones possibly after the talkspurt's end.   *)
(***************************************************************************)
EXTENDS EventQueue

CONSTANTS
    PacketizationInterval,
    StartTime, StopTime,                    \* StopTime is Forever or a time
    TalkspurtDurations, SilenceDurations,   \* what the volatile parameters may draw
    UIntSize                                \* 2^w of the packet's unsigned fields

Forever == -1

ASSUME SenderAssumption ==
    /\ PacketizationInterval \in Nat \ {0}
    /\ StartTime \in Nat
    /\ StopTime \in Nat \cup {Forever}
    /\ StopTime # Forever => StartTime =< StopTime   \* else initialize() throws
    /\ TalkspurtDurations \subseteq Nat \ {0}
    /\ SilenceDurations \subseteq Nat \ {0}
    /\ UIntSize \in Nat \ {0}

SelfSource == "selfSource"
SelfSender == "selfSender"
SenderTimers == {SelfSource, SelfSender}

VARIABLES
    now,                 \* simTime()
    pending,             \* the two timers in the kernel's event queue
    isTalk,
    talkspurtID,         \* number of the next talkspurt
    talkspurtNumPackets, \* packets of the current one, an int
    packetID,            \* next packet of the current one
    sent                 \* every packet handed to the socket so far

vars == <<now, pending, isTalk, talkspurtID, talkspurtNumPackets, packetID, sent>>

Packet == [talkspurtID : Nat, talkspurtNumPackets : 0 .. UIntSize - 1,
           packetID : Nat, voipTimestamp : Int]

TypeOK ==
    /\ now \in Nat
    /\ IsQueue(pending, SenderTimers)
    /\ isTalk \in BOOLEAN
    /\ talkspurtID \in Nat
    /\ talkspurtNumPackets \in Int
    /\ packetID \in Nat
    /\ sent \subseteq Packet

-----------------------------------------------------------------------------
\* ceil(dur / interval), also of a negative dur.
Packets(dur) == -((-dur) \div PacketizationInterval)
\* Fault: the number is stored as it is.
UIntUnwrapped(n) == n
\* An int stored in an unsigned field.
UInt(n) == n % UIntSize

Stopped(time) == StopTime # Forever /\ time >= StopTime
\* Fault: a talkspurt runs over the stop time.
Uncapped(time, dur) == dur
\* A period that ends no later than the stop time.
Capped(time, dur) ==
    IF StopTime # Forever /\ time + dur > StopTime THEN StopTime - time ELSE dur

Init ==
    /\ now = 0
    /\ pending = ScheduleAfter(EmptyQueue(SenderTimers), SelfSource, StartTime)
    /\ isTalk = FALSE
    /\ talkspurtID = 0 /\ talkspurtNumPackets = 0 /\ packetID = 0
    /\ sent = {}

\* talkspurt(): how long a packet of the talkspurt before is still pending.
Overlap(q) == IF SelfSender \in Scheduled(q) THEN q.left[SelfSender] ELSE 0

\* Faults: the time lost to the overlap is not taken off the talkspurt; the
\* first packet leaves before its voice was spoken.
TalkspurtUncut(q, dur) ==
    /\ talkspurtID' = talkspurtID + 1
    /\ packetID' = 0
    /\ talkspurtNumPackets' = Packets(dur)
    /\ pending' = ScheduleAfter(
                    ScheduleAfter(Cancel(q, SelfSender), SelfSender,
                                  Overlap(q) + PacketizationInterval),
                    SelfSource, dur)
TalkspurtAtOnce(q, dur) ==
    /\ talkspurtID' = talkspurtID + 1
    /\ packetID' = 0
    /\ talkspurtNumPackets' = Packets(dur - Overlap(q))
    /\ pending' = ScheduleAfter(
                    ScheduleAfter(Cancel(q, SelfSender), SelfSender, Overlap(q)),
                    SelfSource, dur)

\* talkspurt(dur), and the scheduling of the talkspurt's end after it: the
\* pending packet is dropped, its time stays occupied.
Talkspurt(q, dur) ==
    /\ talkspurtID' = talkspurtID + 1
    /\ packetID' = 0
    /\ talkspurtNumPackets' = Packets(dur - Overlap(q))
    /\ pending' = ScheduleAfter(
                    ScheduleAfter(Cancel(q, SelfSender), SelfSender,
                                  Overlap(q) + PacketizationInterval),
                    SelfSource, dur)

BeginSilence(q) ==
    /\ isTalk
    /\ \E dur \in SilenceDurations :
          pending' = ScheduleAfter(q, SelfSource, Capped(now', dur))
    /\ isTalk' = FALSE
    /\ UNCHANGED <<talkspurtID, talkspurtNumPackets, packetID>>

BeginTalk(q) ==
    /\ ~isTalk
    /\ \E dur \in TalkspurtDurations : Talkspurt(q, Capped(now', dur))
    /\ isTalk' = TRUE

SelectTalkOrSilenceInterval(q) ==
    \/ /\ Stopped(now')
       /\ pending' = q
       /\ UNCHANGED <<isTalk, talkspurtID, talkspurtNumPackets, packetID>>
    \/ ~Stopped(now') /\ BeginSilence(q)
    \/ ~Stopped(now') /\ BeginTalk(q)

HandleSelfSource ==
    /\ IsNext(pending, SelfSource)
    /\ now' = now + pending.left[SelfSource]
    /\ SelectTalkOrSilenceInterval(Deliver(pending, SelfSource))
    /\ UNCHANGED sent

VoicePacket(time) ==
    [talkspurtID         |-> talkspurtID - 1,
     talkspurtNumPackets |-> UInt(talkspurtNumPackets),
     packetID            |-> packetID,
     voipTimestamp       |-> time - PacketizationInterval]

\* Faults: the packet number is not advanced; one packet too many.
SendVoIPPacketSameID(q) ==
    /\ sent' = sent \cup {VoicePacket(now')}
    /\ packetID' = packetID
    /\ pending' = IF packetID + 1 < talkspurtNumPackets
                  THEN ScheduleAfter(q, SelfSender, PacketizationInterval) ELSE q
SendVoIPPacketExtra(q) ==
    /\ sent' = sent \cup {VoicePacket(now')}
    /\ packetID' = packetID + 1
    /\ pending' = IF packetID' =< talkspurtNumPackets
                  THEN ScheduleAfter(q, SelfSender, PacketizationInterval) ELSE q

\* sendVoIPPacket: a packet leaves even if the talkspurt has room for none.
SendVoIPPacket(q) ==
    /\ sent' = sent \cup {VoicePacket(now')}
    /\ packetID' = packetID + 1
    /\ pending' = IF packetID' < talkspurtNumPackets
                  THEN ScheduleAfter(q, SelfSender, PacketizationInterval) ELSE q

HandleSelfSender ==
    /\ IsNext(pending, SelfSender)
    /\ now' = now + pending.left[SelfSender]
    /\ SendVoIPPacket(Deliver(pending, SelfSender))
    /\ UNCHANGED <<isTalk, talkspurtID, talkspurtNumPackets>>

Next == HandleSelfSource \/ HandleSelfSender

Spec == Init /\ [][Next]_vars

-----------------------------------------------------------------------------
\* Voice is never sent twice: packets of the whole call start at least one
\* packetization interval apart, also when talkspurts overlap.
VoiceDoesNotOverlap ==
    \A p, q \in sent :
        p # q => \/ p.voipTimestamp + PacketizationInterval =< q.voipTimestamp
                 \/ q.voipTimestamp + PacketizationInterval =< p.voipTimestamp

\* A receiver can order packets by talkspurt and packet number: it is the
\* order in which the voice was spoken, and no pair of numbers is used twice.
NumberingFollowsVoice ==
    \A p, q \in sent :
        p.voipTimestamp < q.voipTimestamp <=>
            \/ p.talkspurtID < q.talkspurtID
            \/ p.talkspurtID = q.talkspurtID /\ p.packetID < q.packetID

\* A talkspurt that was cut short by the next one misses its last packet at
\* most, so all packets but the last arrive numbered without a gap.
OnlyLastPacketIsCut ==
    \A p \in sent : p.talkspurtID < talkspurtID - 1 =>
        \A i \in 0 .. p.talkspurtNumPackets - 2 :
            \/ \E q \in sent : q.talkspurtID = p.talkspurtID /\ q.packetID = i
            \/ p.talkspurtNumPackets >= UIntSize \div 2   \* a negative number wrapped

\* Every packet number is below the talkspurt's number of packets, unless the
\* talkspurt was too short for one packet.
NumberedWithinTalkspurt ==
    \A p \in sent : p.packetID = 0 \/ p.packetID < p.talkspurtNumPackets

\* Sending does not end with the stop time (see NothingSentAfterStop), but
\* every packet of a talkspurt with room for one leaves less than an interval
\* after it: voice from after the stop time is sent in one packet at most, the
\* first of the last talkspurt, if the one before had eaten that talkspurt up.
OnePacketPastStop ==
    StopTime # Forever =>
        \A p \in sent : p.voipTimestamp >= StopTime =>
            /\ p.talkspurtID = talkspurtID - 1 /\ p.packetID = 0
            /\ p.talkspurtNumPackets = 0 \/ p.talkspurtNumPackets >= UIntSize \div 2

-----------------------------------------------------------------------------
\* Statements of the repository that the code does not keep.

\* CustomVoipPacket.msg: packetID is in "0..talkspurtNumPackets-1".
PacketIDInRange == \A p \in sent : p.packetID \in 0 .. p.talkspurtNumPackets - 1

\* CustomVoipSender.ned: stopTime is the "time of end of sending".
NothingSentAfterStop ==
    StopTime # Forever => \A p \in sent : p.voipTimestamp + PacketizationInterval =< StopTime
=============================================================================
