-------------------------- MODULE SessionContinuity --------------------------
(***************************************************************************)
(* A numbered call between the two ends of VoIPWithHandover over a network *)
(* that delays, reorders, duplicates and loses packets and                 *)
(* acknowledgements.  The ends are driven as a subclass would that makes   *)
(* the sender active and hands arriving packets and the expired timeout to *)
(* the receiver: the shipped dispatch does neither.                        *)
(***************************************************************************)
EXTENDS EventQueue, Sequences, FiniteSets, FiniteSetsExt

CONSTANTS
    EnableSessionContinuity, BufferTime, MaxRetransmissions, HandoverDetectionInterval,
    SendInterval, NumPackets, StopTime, HandoverTimeout,
    SimTimeLimit,    \* bound: the simulation ends then
    MaxDuplicates,   \* bound: how often the network keeps a copy of what it delivers
    MaxErrors        \* bound: socket errors

ASSUME BoundAssumption ==
    SimTimeLimit \in Nat /\ MaxDuplicates \in Nat /\ MaxErrors \in Nat

VARIABLES
    now,
    sTimers, isAppActive, packetBuffer, nextSequenceNumber, ackSequenceNumber, lastPacketSent,
    packetsRetransmitted, packetsLostDuringHandover, handoverEvents, sOutput,
    rTimers, receivedPackets, expectedSequenceNumber, lastPacketReceived,
    duplicatePackets, outOfOrderPackets, played, rOutput,
    uplink, downlink,     \* packets and acknowledgements in flight
    duplicates, errors,
    log                   \* every packet sent, first copies only

S == INSTANCE VoIPSenderWithHandover WITH
        timers <- sTimers, output <- sOutput, Startable <- TRUE
R == INSTANCE VoIPReceiverWithHandover WITH
        timers <- rTimers, output <- rOutput

ASSUME EndsAssumption == S!ContinuityAssumption /\ R!TimeoutAssumption

network == <<uplink, downlink, duplicates, errors>>
vars == <<now, S!vars, R!vars, network, log>>
sender   == <<isAppActive, packetBuffer, nextSequenceNumber, ackSequenceNumber,
              lastPacketSent, packetsRetransmitted, packetsLostDuringHandover, handoverEvents>>
receiver == <<receivedPackets, expectedSequenceNumber, lastPacketReceived,
              duplicatePackets, outOfOrderPackets, played>>

TypeOK ==
    /\ S!TypeOK /\ R!TypeOK
    /\ uplink \subseteq S!Packet /\ log \subseteq S!Packet
    /\ \A p \in packetBuffer \cup uplink \cup log : p.seqNum \in 1 .. nextSequenceNumber - 1
    /\ receivedPackets \cup downlink \subseteq 1 .. nextSequenceNumber - 1
    /\ duplicates \in 0 .. MaxDuplicates /\ errors \in 0 .. MaxErrors

Init ==
    /\ S!Init /\ R!Init
    /\ uplink = {} /\ downlink = {} /\ duplicates = 0 /\ errors = 0
    /\ log = {}

-----------------------------------------------------------------------------
\* The other end's timers run on while one end handles an event.
RunsOn(timers, timersAfter) ==
    /\ now' =< SimTimeLimit
    /\ MayElapse(timers, now' - now)
    /\ timersAfter = Elapse(timers, now' - now)

SenderActs(action) ==
    /\ action
    /\ RunsOn(rTimers, rTimers') /\ rOutput' = {} /\ UNCHANGED receiver
    /\ uplink' = uplink \cup sOutput'

SendNext ==
    /\ SenderActs(S!HandleSendTimer)
    /\ log' = log \cup sOutput'
    /\ UNCHANGED <<downlink, duplicates, errors>>

Detect ==
    /\ SenderActs(S!HandleDetectionTimer)
    /\ UNCHANGED <<downlink, duplicates, errors, log>>

Error(d) ==
    /\ errors < MaxErrors /\ errors' = errors + 1
    /\ SenderActs(S!HandleSocketError(d))
    /\ UNCHANGED <<downlink, duplicates, log>>

Start ==
    /\ SenderActs(S!Start)
    /\ UNCHANGED <<downlink, duplicates, errors, log>>

\* What is delivered leaves the network, or a copy of it stays.
Delivered(channel, m, channelAfter) ==
    \/ channelAfter = channel \ {m} /\ UNCHANGED duplicates
    \/ duplicates < MaxDuplicates /\ duplicates' = duplicates + 1 /\ channelAfter = channel

DeliverAck(seqNum, d) ==
    /\ S!HandleAck(seqNum, d)
    /\ RunsOn(rTimers, rTimers') /\ rOutput' = {} /\ UNCHANGED receiver
    /\ Delivered(downlink, seqNum, downlink')
    /\ UNCHANGED <<uplink, errors, log>>

ReceiverActs(action) ==
    /\ action
    /\ RunsOn(sTimers, sTimers') /\ sOutput' = {} /\ UNCHANGED sender

DeliverPacket(p, d) ==
    /\ ReceiverActs(R!ProcessReceivedPacket(p.seqNum, d))
    /\ Delivered(uplink, p, uplink')
    /\ downlink' = downlink \cup rOutput'
    /\ UNCHANGED <<errors, log>>

Timeout ==
    /\ ReceiverActs(R!HandleHandoverTimeout)
    /\ UNCHANGED <<network, log>>

Lose ==
    /\ \/ \E p \in uplink : uplink' = uplink \ {p} /\ UNCHANGED downlink
       \/ \E a \in downlink : downlink' = downlink \ {a} /\ UNCHANGED uplink
    /\ sOutput' = {} /\ rOutput' = {}
    /\ UNCHANGED <<now, sTimers, sender, rTimers, receiver, duplicates, errors, log>>

Next ==
    \/ Start \/ SendNext \/ Detect \/ Timeout \/ Lose
    \/ \E d \in 0 .. SimTimeLimit - now :
          \/ Error(d)
          \/ \E p \in uplink : DeliverPacket(p, d)
          \/ \E a \in downlink : DeliverAck(a, d)

Spec == Init /\ [][Next]_vars

-----------------------------------------------------------------------------
\* Whatever is lost, doubled, reordered, sent again or skipped, packets are
\* played in the order they were sent in, and none twice.
PlayedInOrder ==
    \A i, j \in DOMAIN played : i < j => played[i] < played[j]

\* The next packet expected is never left in the reorder buffer.  Those above a
\* second gap may be: see SkippingContinues.
NothingPlayableWaits == expectedSequenceNumber \notin receivedPackets

\* What session continuity can repair, the end of the call: a recent packet
\* above everything the receiver has got is still in the sender's buffer and
\* above ackSequenceNumber, so the next detection sends it again.
TailRepairable ==
    LET heard == receivedPackets \cup {played[i] : i \in DOMAIN played} \cup {0}
    IN  \A p \in log :
            p.seqNum > Max(heard) /\ lastPacketSent - p.sendTime =< BufferTime =>
                p \in packetBuffer /\ p.seqNum > ackSequenceNumber

\* A missing packet holds up playout until nothing has arrived for
\* handoverTimeout: as long as packets keep coming none is skipped.
SkipsOnlyAfterSilence ==
    [][(\E s \in expectedSequenceNumber .. expectedSequenceNumber' - 1 :
            \A i \in DOMAIN played' : played'[i] # s)
         => now' - lastPacketReceived >= HandoverTimeout]_vars

-----------------------------------------------------------------------------
\* isHandoverInProgress, "handover detection based on lack of ACKs": if no
\* acknowledgement has ever come and the first packet is older than two send
\* intervals, the detection timer finds a handover.
MissingAcksDetected ==
    [][/\ Detect
       /\ ackSequenceNumber = 0
       /\ \E p \in log : now' - p.sendTime > 2 * SendInterval
       => handoverEvents' # handoverEvents]_vars

\* handleHandoverTimeout, "Skip missing packets and continue with available
\* ones": once the timeout has fired, no packet above a gap is left waiting.
SkippingContinues ==
    R!TimeoutTimer \notin Scheduled(rTimers) =>
        \A s \in receivedPackets : s < expectedSequenceNumber
=============================================================================
