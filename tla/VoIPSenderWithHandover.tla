----------------------- MODULE VoIPSenderWithHandover -----------------------
(***************************************************************************)
(* What VoIPSenderWithHandover adds to CustomVoipSender: a timer that      *)
(* looks for handovers, packets with sequence numbers kept for             *)
(* retransmission, and acknowledgements.  Messages that are none of these  *)
(* fall through to the base class.                                         *)
(*                                                                         *)
(* No code of the repository sets isAppActive, without which no packet is  *)
(* numbered or buffered; Start stands for the subclass that would, and     *)
(* that declares the parameters sendVoIPPacket reads and no NED file has   *)
(* (numPackets, sampleBits, transmitBitrate).                              *)
(***************************************************************************)
EXTENDS EventQueue, FiniteSets

CONSTANTS
    EnableSessionContinuity, BufferTime, MaxRetransmissions,
    HandoverDetectionInterval, SendInterval,
    NumPackets,
    StopTime,        \* 0: never; a negative time has always passed
    Startable        \* whether a subclass sets isAppActive; FALSE as shipped

\* Assumed by the modules that instantiate this one.
ContinuityAssumption ==
    /\ EnableSessionContinuity \in BOOLEAN /\ Startable \in BOOLEAN
    /\ BufferTime \in Nat /\ MaxRetransmissions \in Int
    /\ HandoverDetectionInterval \in Nat \ {0}
    /\ SendInterval \in Nat
    /\ NumPackets \in Int /\ StopTime \in Int

DetectionTimer == "handoverDetection"
SendTimer      == "sendPacket"
ContinuityTimers == {DetectionTimer, SendTimer}

VARIABLES
    now, timers,
    isAppActive,
    packetBuffer,
    nextSequenceNumber, ackSequenceNumber, lastPacketSent,
    packetsRetransmitted, packetsLostDuringHandover, handoverEvents,
    output           \* what this step handed to the socket

numbering == <<isAppActive, packetBuffer, nextSequenceNumber, lastPacketSent>>
repairs   == <<packetsRetransmitted, packetsLostDuringHandover>>
vars == <<now, timers, numbering, ackSequenceNumber, repairs, handoverEvents, output>>

Packet == [seqNum : Nat, sendTime : Nat, retransmissionCount : Nat]

TypeOK ==
    /\ now \in Nat /\ lastPacketSent \in 0 .. now
    /\ IsQueue(timers, ContinuityTimers)
    /\ isAppActive \in BOOLEAN
    /\ packetBuffer \subseteq Packet
    /\ \A p, q \in packetBuffer : p.seqNum = q.seqNum => p = q   \* a std::map
    /\ nextSequenceNumber \in Nat /\ ackSequenceNumber \in 0 .. nextSequenceNumber - 1
    /\ packetsRetransmitted \in Nat /\ packetsLostDuringHandover \in Nat /\ handoverEvents \in Nat
    /\ output \subseteq Packet

Init ==
    /\ now = 0
    /\ timers = IF EnableSessionContinuity
                THEN ScheduleAfter(EmptyQueue(ContinuityTimers), DetectionTimer, HandoverDetectionInterval)
                ELSE EmptyQueue(ContinuityTimers)
    /\ isAppActive = FALSE
    /\ packetBuffer = {}
    /\ nextSequenceNumber = 1 /\ ackSequenceNumber = 0 /\ lastPacketSent = 0
    /\ packetsRetransmitted = 0 /\ packetsLostDuringHandover = 0 /\ handoverEvents = 0
    /\ output = {}

-----------------------------------------------------------------------------
\* "Lack of ACKs" is in fact a pause in sending.
IsHandoverInProgress(time) == time - lastPacketSent > 2 * SendInterval

\* retransmitLostPackets: the attempt is counted in the copy, not in the
\* buffered packet, so every attempt is the first.
RetransmitLostPackets ==
    LET copies  == {[p EXCEPT !.retransmissionCount = @ + 1] :
                        p \in {b \in packetBuffer : b.seqNum > ackSequenceNumber}}
        allowed == {p \in copies : p.retransmissionCount =< MaxRetransmissions}
    IN  /\ output' = allowed
        /\ packetsRetransmitted' = packetsRetransmitted + Cardinality(allowed)
        /\ packetsLostDuringHandover' =
              packetsLostDuringHandover + Cardinality(copies \ allowed)

NoRetransmission == output' = {} /\ UNCHANGED repairs

ProcessHandoverDetection ==
    \/ /\ IsHandoverInProgress(now')
       /\ handoverEvents' = handoverEvents + 1
       /\ IF EnableSessionContinuity THEN RetransmitLostPackets ELSE NoRetransmission
    \/ /\ ~IsHandoverInProgress(now')
       /\ UNCHANGED handoverEvents
       /\ NoRetransmission

\* The timer goes on only while the application is active.
HandleDetectionTimer ==
    /\ IsNext(timers, DetectionTimer)
    /\ now' = now + timers.left[DetectionTimer]
    /\ ProcessHandoverDetection
    /\ LET rest == Deliver(timers, DetectionTimer)
       IN  timers' = IF isAppActive
                     THEN ScheduleAfter(rest, DetectionTimer, HandoverDetectionInterval)
                     ELSE rest
    /\ UNCHANGED <<numbering, ackSequenceNumber>>

-----------------------------------------------------------------------------
\* Fault: the buffer keeps what is old and drops what is recent.
BufferPacketOld(p) ==
    packetBuffer' = {b \in packetBuffer \cup {p} : now' - b.sendTime >= BufferTime}

\* bufferPacket: old packets are cleaned out when one is added, only then.
BufferPacket(p) ==
    packetBuffer' = {b \in packetBuffer \cup {p} : now' - b.sendTime =< BufferTime}

\* What sendVoIPPacket schedules: with the default stop time of -1 nothing.
ScheduleNextPacket(q) ==
    timers' = IF (StopTime = 0 \/ now' < StopTime) /\ nextSequenceNumber' =< NumPackets
              THEN ScheduleAfter(q, SendTimer, SendInterval)
              ELSE q

SendNothing(q) ==
    /\ timers' = q /\ output' = {}
    /\ UNCHANGED <<packetBuffer, nextSequenceNumber, lastPacketSent>>

\* The destination is looked up for the first packet; if it is not found the
\* sender ends there.
SendVoIPPacket(q) ==
    \/ ~isAppActive /\ SendNothing(q)
    \/ isAppActive /\ nextSequenceNumber = 1 /\ SendNothing(q)
    \/ /\ isAppActive
       /\ LET packet == [seqNum |-> nextSequenceNumber, sendTime |-> now', retransmissionCount |-> 0]
          IN  /\ IF EnableSessionContinuity THEN BufferPacket(packet) ELSE UNCHANGED packetBuffer
              /\ output' = {packet}
       /\ lastPacketSent' = now'
       /\ nextSequenceNumber' = nextSequenceNumber + 1
       /\ ScheduleNextPacket(q)

HandleSendTimer ==
    /\ IsNext(timers, SendTimer)
    /\ now' = now + timers.left[SendTimer]
    /\ SendVoIPPacket(Deliver(timers, SendTimer))
    /\ UNCHANGED <<isAppActive, ackSequenceNumber, repairs, handoverEvents>>

-----------------------------------------------------------------------------
\* A message from outside arrives after a delay of d.
Passes(d) == MayElapse(timers, d) /\ now' = now + d /\ timers' = Elapse(timers, d)

\* Fault: the number acknowledged is taken for the next one expected.
HandleAckPacketNext(ackedSeq) ==
    \/ /\ ackedSeq + 1 > ackSequenceNumber
       /\ ackSequenceNumber' = ackedSeq + 1
       /\ packetBuffer' = {p \in packetBuffer : p.seqNum > ackedSeq}
    \/ /\ ackedSeq + 1 =< ackSequenceNumber
       /\ UNCHANGED <<ackSequenceNumber, packetBuffer>>

\* handleAckPacket: an acknowledgement stands for all lower numbers as well.
HandleAckPacket(ackedSeq) ==
    \/ /\ ackedSeq > ackSequenceNumber
       /\ ackSequenceNumber' = ackedSeq
       /\ packetBuffer' = {p \in packetBuffer : p.seqNum > ackedSeq}
    \/ /\ ackedSeq =< ackSequenceNumber
       /\ UNCHANGED <<ackSequenceNumber, packetBuffer>>

HandleAck(ackedSeq, d) ==
    /\ Passes(d)
    /\ HandleAckPacket(ackedSeq)
    /\ output' = {}
    /\ UNCHANGED <<isAppActive, nextSequenceNumber, lastPacketSent, repairs, handoverEvents>>

\* handleSocketError, and handleIndication of an error.
HandleSocketError(d) ==
    /\ Passes(d)
    /\ \/ isAppActive /\ EnableSessionContinuity /\ ProcessHandoverDetection
       \/ ~(isAppActive /\ EnableSessionContinuity) /\ NoRetransmission /\ UNCHANGED handoverEvents
    /\ UNCHANGED <<numbering, ackSequenceNumber>>

\* External: a subclass makes the application active and sends its first packet.
Start ==
    /\ Startable /\ ~isAppActive
    /\ isAppActive' = TRUE
    /\ timers' = ScheduleAfter(timers, SendTimer, 0)
    /\ output' = {}
    /\ UNCHANGED <<now, packetBuffer, nextSequenceNumber, lastPacketSent, ackSequenceNumber,
                   repairs, handoverEvents>>
=============================================================================
