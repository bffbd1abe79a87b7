----------------------------- MODULE HybridCall -----------------------------
(***************************************************************************)
(* A voice call of the UE to the server while handovers go on: the voice   *)
(* source with the shipped session continuity on top of it, the path that  *)
(* the handover manager selects (ActivePath, which it implements), a       *)
(* network in which each path has delays of its own, and the receiver.     *)
(*                                                                         *)
(* Each component keeps the time its own timers have left; time passes for *)
(* all of them together.  The modules of one simulation share one event    *)
(* queue: which of two timers of different modules comes first at the same *)
(* instant is left open.                                                   *)
(***************************************************************************)
EXTENDS EventQueue, Sequences, FiniteSets, FiniteSetsExt

CONSTANTS
    Paths, MinDelay, MaxDelay,        \* of a packet on each path
    PacketizationInterval, TalkspurtDurations, SilenceDurations,
    InitialPlayoutDelay, MosSpareTime, AdaptivePlayoutDelay, BufferSpace, UIntSize,
    HandoverDetectionInterval, SendInterval,
    SimTimeLimit,                     \* sim-time-limit of the scenario
    None

\* No talkspurt is too short for a packet.  The delays, truncnormal(10ms,5ms) in
\* internetCloud.xml, have no bound; the calls considered are those whose delays
\* differ by less than an interval and the receiver's spare time (1 s).  Packets
\* may overtake each other on one path as well as across a handover.
ASSUME CallAssumption ==
    /\ MinDelay \in [Paths -> Nat] /\ MaxDelay \in [Paths -> Nat]
    /\ \A r \in Paths : MinDelay[r] =< MaxDelay[r]
    /\ \A r, s \in Paths : MaxDelay[r] - MinDelay[s] < PacketizationInterval + MosSpareTime
    /\ \A dur \in TalkspurtDurations : dur > PacketizationInterval
    /\ SimTimeLimit \in Nat

VARIABLES
    now,
    path, switching, over,
    vPending, isTalk, spokenID, spokenNumPackets, packetID, sent,
    dTimers, isAppActive, packetBuffer, nextSequenceNumber, ackSequenceNumber, lastPacketSent,
    packetsRetransmitted, packetsLostDuringHandover, handoverEvents, output,
    rPending, status, heardID, heardNumPackets, packets, playoutDelay, last, ignored,
    inFlight,      \* packets on their way, each with its path
    lost,          \* packets the network lost
    handedOver     \* whether a handover was ever begun

BufferTime == 10 * PacketizationInterval    \* VoIPWithHandover.ned: 0.2 s

P == INSTANCE ActivePath
V == INSTANCE CustomVoipSender WITH
        pending <- vPending, talkspurtID <- spokenID, talkspurtNumPackets <- spokenNumPackets,
        StartTime <- 0, StopTime <- -1
D == INSTANCE VoIPSenderWithHandover WITH
        timers <- dTimers, Startable <- FALSE, EnableSessionContinuity <- TRUE,
        MaxRetransmissions <- 5, NumPackets <- 0, StopTime <- -1
R == INSTANCE CustomVoipReceiver WITH
        pending <- rPending, talkspurtID <- heardID, talkspurtNumPackets <- heardNumPackets,
        VoiceDuration <- PacketizationInterval,
        Call <- {}, copies <- [p \in {} |-> 0], MaxDelay <- 0, MaxDuplicates <- 0

\* What the components assume; and the int of the source can count the packets
\* of every talkspurt.
ASSUME ComponentsAssumption ==
    /\ V!SenderAssumption /\ D!ContinuityAssumption
    /\ R!ReceiverAssumption /\ R!EvaluationAssumption
    /\ UIntSize >= 2
    /\ \A dur \in TalkspurtDurations : V!Packets(dur) < UIntSize \div 2

handover   == <<path, switching>>
source     == <<isTalk, spokenID, spokenNumPackets, packetID, sent>>
continuity == <<isAppActive, packetBuffer, nextSequenceNumber, ackSequenceNumber, lastPacketSent,
                packetsRetransmitted, packetsLostDuringHandover, handoverEvents, output>>
receiver   == <<status, heardID, heardNumPackets, packets, playoutDelay, last, ignored>>
network    == <<inFlight, lost>>
vars == <<now, handover, over, vPending, source, dTimers, continuity, rPending, receiver,
          network, handedOver>>

Init ==
    /\ P!Init /\ V!Init /\ D!Init /\ R!Init
    /\ inFlight = {} /\ lost = {}
    /\ handedOver = FALSE

-----------------------------------------------------------------------------
\* The timers of a component that does not act.
RunsOn(timers, timersAfter) ==
    /\ MayElapse(timers, now' - now)
    /\ timersAfter = Elapse(timers, now' - now)

\* A packet in flight arrives within its path's delays.
Arrival(i) == i.sentAt + MinDelay[i.path] .. i.sentAt + MaxDelay[i.path]

OnTime ==
    /\ ~over
    /\ now' =< SimTimeLimit
    /\ \A i \in inFlight : now' =< Max(Arrival(i))

Handover ==
    /\ P!Begin \/ P!Commit
    /\ handedOver' = TRUE
    /\ UNCHANGED <<now, vPending, source, dTimers, continuity, rPending, receiver, network>>

TalkOrSilence ==
    /\ V!HandleSelfSource
    /\ OnTime /\ RunsOn(dTimers, dTimers') /\ RunsOn(rPending, rPending')
    /\ UNCHANGED <<handover, over, continuity, receiver, network, handedOver>>

\* A packet takes the path of the moment it is sent, and may get lost there.
\* The timer is the base class's and runs its sendVoIPPacket, which is not
\* virtual: D!SendVoIPPacket, which would number and keep it, is not called.
Send ==
    /\ V!HandleSelfSender
    /\ OnTime /\ RunsOn(dTimers, dTimers') /\ RunsOn(rPending, rPending')
    /\ LET p == V!VoicePacket(now')
       IN  \/ /\ inFlight' = inFlight \cup {[packet |-> p, path |-> path, sentAt |-> now']}
              /\ UNCHANGED lost
           \/ lost' = lost \cup {p} /\ UNCHANGED inFlight
    /\ UNCHANGED <<handover, over, continuity, receiver, handedOver>>

Detect ==
    /\ D!HandleDetectionTimer
    /\ OnTime /\ RunsOn(vPending, vPending') /\ RunsOn(rPending, rPending')
    /\ UNCHANGED <<handover, over, source, receiver, network, handedOver>>

Arrive(i, time) ==
    /\ now' = time
    /\ OnTime /\ RunsOn(vPending, vPending') /\ RunsOn(dTimers, dTimers')
    /\ MayElapse(rPending, time - now)
    /\ R!SocketDataArrived(Elapse(rPending, time - now), i.packet)
    /\ inFlight' = inFlight \ {i}
    /\ UNCHANGED <<handover, over, source, continuity, lost, handedOver>>

TalkspurtFinished ==
    /\ R!HandleTalkspurtFinished
    /\ OnTime /\ RunsOn(vPending, vPending') /\ RunsOn(dTimers, dTimers')
    /\ UNCHANGED <<handover, source, continuity, network, handedOver>>

\* The simulation ends, with P!Stop, at any moment.
Finish ==
    /\ R!Finish /\ P!Stop
    /\ UNCHANGED <<vPending, source, dTimers, continuity, network, handedOver>>

Next ==
    \/ Handover \/ TalkOrSilence \/ Send \/ Detect \/ TalkspurtFinished \/ Finish
    \/ \E i \in inFlight : \E time \in Arrival(i) : time >= now /\ Arrive(i, time)

Spec == Init /\ [][Next]_vars

-----------------------------------------------------------------------------
\* What the receiver takes for granted of a call is true of what the source
\* sends: checkPacket never fails, packet numbers stay inside the array of
\* evaluateTalkspurt, and a packet's number says when its voice was spoken.
CallMeetsReceiver ==
    \A p, q \in sent :
        /\ p.packetID < p.talkspurtNumPackets
        /\ p.talkspurtID = q.talkspurtID =>
              /\ p.talkspurtNumPackets = q.talkspurtNumPackets
              /\ q.voipTimestamp - p.voipTimestamp
                    = (q.packetID - p.packetID) * PacketizationInterval

\* The evaluation's channel loss is the truth: packets the network lost, those
\* a newer talkspurt overtook, and one the source cut off; when the call ends,
\* only those before the last one heard.
ReportedLossIsReal ==
    [][last' # last =>
        LET spurt   == {p \in sent : p.talkspurtID = last'.talkspurtID}
            missing == {p \in spurt : p \in lost \/ \E i \in inFlight' : i.packet = p}
            heard   == {last'.packets[i].packetID : i \in DOMAIN last'.packets}
        IN  last'.result.channelLoss =
                IF last'.cause = "finish"
                THEN Cardinality({p \in missing : p.packetID < Max(heard)})
                ELSE Cardinality(missing) + last'.numPackets - Cardinality(spurt)]_vars

\* Whatever path each packet takes, the timer waits for the whole talkspurt:
\* when it evaluates one none of its packets is under way or yet to be sent.
TimerWaitsForTheCall ==
    [][last' # last /\ last'.cause = "timer" =>
        /\ \A i \in inFlight : i.packet.talkspurtID # last'.talkspurtID
        /\ last'.talkspurtID = spokenID - 1 => V!SelfSender \notin Scheduled(vPending)]_vars

\* VoIPWithHandover.cc: "Handover detected", and the statistic "Handovers
\* Detected": what is reported took place.
DetectedHandoverHappened == handoverEvents > 0 => handedOver
=============================================================================
