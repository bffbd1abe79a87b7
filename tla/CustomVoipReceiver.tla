------------------------- MODULE CustomVoipReceiver -------------------------
(***************************************************************************)
(* The receiver of a voice call: it collects the packets of one talkspurt  *)
(* and evaluates them when the timer says that all of them are due, when a *)
(* packet of a newer talkspurt arrives, or when the simulation ends.  The  *)
(* network is external: it loses, duplicates, delays and reorders.         *)
(***************************************************************************)
EXTENDS EventQueue, TalkspurtEvaluation

CONSTANTS
    InitialPlayoutDelay, MosSpareTime, AdaptivePlayoutDelay,
    Call,            \* the packets a sender sends
    MaxDelay,        \* of a packet in the network
    MaxDuplicates,   \* bound: how many packets of a call the network duplicates
    None

ASSUME ReceiverAssumption ==
    /\ InitialPlayoutDelay \in Nat
    /\ MosSpareTime \in Nat
    /\ AdaptivePlayoutDelay \in BOOLEAN
    /\ MaxDelay \in Nat
    /\ MaxDuplicates \in Nat

\* What CustomVoipSender sends, as long as no talkspurt is too short for a
\* packet: checkPacket never fails on it.
ASSUME CallAssumption ==
    /\ Call \subseteq [talkspurtID : Nat, talkspurtNumPackets : Nat,
                       packetID : Nat, voipTimestamp : Int]
    /\ \A p \in Call : p.packetID < p.talkspurtNumPackets /\ p.talkspurtNumPackets < UIntSize
    /\ \A p, q \in Call : p.talkspurtID = q.talkspurtID =>
          /\ p.talkspurtNumPackets = q.talkspurtNumPackets
          /\ q.voipTimestamp - p.voipTimestamp = (q.packetID - p.packetID) * VoiceDuration

TalkspurtFinished == "selfTalkspurtFinished"
ReceiverTimers == {TalkspurtFinished}

VARIABLES
    now, pending,
    status, talkspurtID, talkspurtNumPackets, packets,   \* currentTalkspurt
    playoutDelay,
    over,        \* finish() was called
    copies,      \* how often each packet arrived so far
    last,        \* the last evaluation: what it was given and what it found
    ignored      \* the packet this step ignored

talkspurt == <<status, talkspurtID, talkspurtNumPackets, packets>>
vars == <<now, pending, talkspurt, playoutDelay, over, copies, last, ignored>>

\* In particular every packet collected has its place in evaluateTalkspurt's
\* isArrived array, which has talkspurtNumPackets places.
TypeOK ==
    /\ now \in Nat
    /\ IsQueue(pending, ReceiverTimers)
    /\ status \in {"EMPTY", "ACTIVE", "FINISHED"}
    /\ talkspurtID \in Int /\ talkspurtNumPackets \in Nat
    /\ \A p \in Range(packets) : p.packetID \in 0 .. talkspurtNumPackets - 1
    /\ playoutDelay \in Nat
    /\ over \in BOOLEAN
    /\ copies \in [Call -> 0 .. 2]

Init ==
    /\ now = 0
    /\ pending = EmptyQueue(ReceiverTimers)
    /\ status = "EMPTY" /\ talkspurtID = -1 /\ talkspurtNumPackets = 0 /\ packets = <<>>
    /\ playoutDelay = InitialPlayoutDelay
    /\ over = FALSE
    /\ copies = [p \in Call |-> 0]
    /\ last = None
    /\ ignored = None

-----------------------------------------------------------------------------
Info(p, time) ==
    [packetID |-> p.packetID, creationTime |-> p.voipTimestamp, arrivalTime |-> time]

\* Faults: the timer waits for the playout of the first packet only; it is
\* left unscheduled.
StartTalkspurtShortTimer(q, p, delay) ==
    /\ status' = "ACTIVE"
    /\ talkspurtID' = p.talkspurtID
    /\ talkspurtNumPackets' = p.talkspurtNumPackets
    /\ packets' = <<Info(p, now')>>
    /\ pending' = ScheduleAfter(q, TalkspurtFinished, delay + MosSpareTime)
StartTalkspurtNoTimer(q, p, delay) ==
    /\ status' = "ACTIVE"
    /\ talkspurtID' = p.talkspurtID
    /\ talkspurtNumPackets' = p.talkspurtNumPackets
    /\ packets' = <<Info(p, now')>>
    /\ pending' = q

\* startTalkspurt: all packets will be due when the timer arrives.
StartTalkspurt(q, p, delay) ==
    /\ status' = "ACTIVE"
    /\ talkspurtID' = p.talkspurtID
    /\ talkspurtNumPackets' = p.talkspurtNumPackets
    /\ packets' = <<Info(p, now')>>
    /\ pending' = ScheduleAfter(q, TalkspurtFinished,
            delay + (p.talkspurtNumPackets - p.packetID) * VoiceDuration + MosSpareTime)

\* Fault: the delay shrinks when packets were early but does not grow.
AdaptedDownwards(delay, lateness) ==
    IF AdaptivePlayoutDelay /\ lateness < 0 THEN Max({0, delay + lateness}) ELSE delay
\* The playout delay of the talkspurts to come.
Adapted(delay, lateness) ==
    IF AdaptivePlayoutDelay THEN Max({0, delay + lateness}) ELSE delay

\* evaluateTalkspurt, up to the clearing of the packets.
Evaluate(cause) ==
    LET finish == cause = "finish"
        result == Evaluation(packets, talkspurtNumPackets, playoutDelay, finish)
    IN  /\ last' = [talkspurtID |-> talkspurtID, numPackets |-> talkspurtNumPackets,
                    packets |-> packets, delay |-> playoutDelay,
                    cause |-> cause, result |-> result]
        /\ playoutDelay' = Adapted(playoutDelay, result.maxLateness)

FinishTalkspurt == status' = "FINISHED" /\ packets' = <<>>

\* The branches of socketDataArrived.
FirstTalkspurt(q, p) ==
    /\ status = "EMPTY"
    /\ StartTalkspurt(q, p, playoutDelay)
    /\ ignored' = None
    /\ UNCHANGED <<playoutDelay, last>>

NewTalkspurt(q, p) ==
    /\ status # "EMPTY" /\ p.talkspurtID > talkspurtID
    /\ \/ status = "ACTIVE" /\ Evaluate("newer")
       \/ status # "ACTIVE" /\ UNCHANGED <<playoutDelay, last>>
    /\ StartTalkspurt(Cancel(q, TalkspurtFinished), p, playoutDelay')
    /\ ignored' = None

\* Fault: packets of older talkspurts are taken as well.
ContinuedTalkspurtAnyID(q, p) ==
    /\ status = "ACTIVE" /\ p.talkspurtID =< talkspurtID
    /\ packets' = Append(packets, Info(p, now'))
    /\ pending' = q
    /\ ignored' = None
    /\ UNCHANGED <<status, talkspurtID, talkspurtNumPackets, playoutDelay, last>>

ContinuedTalkspurt(q, p) ==
    /\ status = "ACTIVE" /\ p.talkspurtID = talkspurtID
    /\ packets' = Append(packets, Info(p, now'))
    /\ pending' = q
    /\ ignored' = None
    /\ UNCHANGED <<status, talkspurtID, talkspurtNumPackets, playoutDelay, last>>

OlderTalkspurt(q, p) ==
    /\ status # "EMPTY"
    /\ \/ p.talkspurtID < talkspurtID
       \/ p.talkspurtID = talkspurtID /\ status # "ACTIVE"
    /\ ignored' = [talkspurtID |-> p.talkspurtID, packetID |-> p.packetID, time |-> now']
    /\ pending' = q
    /\ UNCHANGED <<talkspurt, playoutDelay, last>>

\* Fault: any packet after a finished talkspurt starts a talkspurt.
SocketDataArrivedRestart(q, p) ==
    \/ FirstTalkspurt(q, p)
    \/ NewTalkspurt(q, p)
    \/ ContinuedTalkspurt(q, p)
    \/ status = "ACTIVE" /\ OlderTalkspurt(q, p)
    \/ /\ status = "FINISHED" /\ p.talkspurtID =< talkspurtID
       /\ StartTalkspurt(q, p, playoutDelay)
       /\ ignored' = None
       /\ UNCHANGED <<playoutDelay, last>>

SocketDataArrived(q, p) ==
    \/ FirstTalkspurt(q, p)
    \/ NewTalkspurt(q, p)
    \/ ContinuedTalkspurt(q, p)
    \/ OlderTalkspurt(q, p)

\* The network: a copy of p, sent when its voice had been spoken.
MayCopy(p) ==
    \/ copies[p] = 0
    \/ copies[p] = 1 /\ Cardinality({q \in Call : copies[q] > 1}) < MaxDuplicates

Arrive(p, d) ==
    /\ ~over
    /\ MayElapse(pending, d)
    /\ now + d - (p.voipTimestamp + VoiceDuration) \in 0 .. MaxDelay
    /\ MayCopy(p)
    /\ now' = now + d
    /\ copies' = [copies EXCEPT ![p] = @ + 1]
    /\ SocketDataArrived(Elapse(pending, d), p)
    /\ UNCHANGED over

TimerArrives ==
    /\ ~over
    /\ IsNext(pending, TalkspurtFinished)
    /\ now' = now + pending.left[TalkspurtFinished]
    /\ pending' = Deliver(pending, TalkspurtFinished)
    /\ UNCHANGED over

HandleTalkspurtFinished ==
    /\ TimerArrives
    /\ Evaluate("timer")
    /\ FinishTalkspurt
    /\ ignored' = None
    /\ UNCHANGED <<talkspurtID, talkspurtNumPackets, copies>>

Finish ==
    /\ ~over
    /\ over' = TRUE
    /\ pending' = Cancel(pending, TalkspurtFinished)
    /\ \/ status = "ACTIVE" /\ Evaluate("finish") /\ FinishTalkspurt
       \/ status # "ACTIVE" /\ UNCHANGED <<status, packets, playoutDelay, last>>
    /\ ignored' = None
    /\ UNCHANGED <<now, talkspurtID, talkspurtNumPackets, copies>>

Horizon == Max({p.voipTimestamp : p \in Call}) + VoiceDuration + MaxDelay

Next ==
    \/ \E p \in Call : \E d \in 0 .. Horizon - now : Arrive(p, d)
    \/ HandleTalkspurtFinished
    \/ Finish

Spec == Init /\ [][Next]_vars

\* The kernel delivers a pending timer; the simulation need not end.
FairSpec == Spec /\ WF_pending(TimerArrives)
-----------------------------------------------------------------------------
\* The assertions of evaluateTalkspurt hold whenever it is called: the timer
\* is pending exactly while a talkspurt with packets is being collected.
TimerMatchesTalkspurt ==
    /\ status = "ACTIVE" <=> packets # <<>>
    /\ status = "ACTIVE" <=> TalkspurtFinished \in Scheduled(pending)

\* The three losses that go into the MOS add up, modulo the width of the
\* counters, to the expected packets that were not played.  It is the sum that
\* is right: a duplicate of a late or dropped packet is counted as late or
\* dropped again, and the channel loss is one too low in return.
LossesAddUp ==
    last # None =>
        LET r == last.result
        IN  UInt(r.tailDropLoss + r.playoutLoss + r.channelLoss) =
            ExpectedPackets(last.packets, last.numPackets, last.cause = "finish")
                - Cardinality(r.played)

\* A packet that came in time for its playout is played, unless as many
\* packets as the buffer holds were waiting for theirs when it came.
NoNeedlessLoss ==
    last # None =>
        \A i \in DOMAIN last.packets :
            LET p    == last.packets[i]
                due(id) == PlayoutTime(last.packets, last.delay, id)
                waiting == {id \in PacketIDs(SubSeq(last.packets, 1, i - 1)) \cap last.result.played :
                                due(id) >= p.arrivalTime}
            IN  p.arrivalTime =< due(p.packetID) =>
                    p.packetID \in last.result.played \/ Cardinality(waiting) >= BufferSpace

\* The timer gives up on a talkspurt no earlier than its packets are useless:
\* what is ignored because of it is late for its playout.
TimerWaitsForTimelyPackets ==
    (ignored # None /\ last # None) =>
        (last.cause = "timer" /\ ignored.talkspurtID = last.talkspurtID =>
            ignored.time > PlayoutTime(last.packets, last.delay, ignored.packetID))

\* The adapted playout delay is long enough: with it the evaluated talkspurt
\* would have lost no packet to lateness.
AdaptationSuffices ==
    (AdaptivePlayoutDelay /\ last # None) =>
        \A i \in DOMAIN last.packets :
            LET p == last.packets[i]
            IN  p.arrivalTime =< PlayoutTime(last.packets, playoutDelay, p.packetID)

\* Talkspurts are evaluated in the order they were spoken, none twice, however
\* their packets are reordered.
EvaluatedInOrder ==
    [][last' # last /\ last # None => last'.talkspurtID > last.talkspurtID]_vars

\* A talkspurt that was heard is evaluated, even if the call falls silent and
\* the simulation goes on.
EveryTalkspurtEvaluated ==
    \A id \in {p.talkspurtID : p \in Call} :
        (talkspurtID = id /\ status = "ACTIVE") ~> (last # None /\ last.talkspurtID >= id)
=============================================================================
