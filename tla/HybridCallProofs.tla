-------------------------- MODULE HybridCallProofs --------------------------
(***************************************************************************)
(* For any number of paths, with any delays that CallAssumption allows,    *)
(* and handovers at any time: the receiver's timer waits for all packets   *)
(* of a talkspurt, the source meets what the receiver relies on, and the   *)
(* channel loss that an evaluation reports is what did not arrive.         *)
(*                                                                         *)
(* What is known of source and evaluation is taken from the theorems of    *)
(* their own modules, instantiated for this call.                          *)
(***************************************************************************)
EXTENDS HybridCall, EventQueueProofs, FiniteSetTheorems

\* What is proved of the source alone.
VP == INSTANCE CustomVoipSenderProofs WITH
        pending <- vPending, talkspurtID <- spokenID, talkspurtNumPackets <- spokenNumPackets,
        StartTime <- 0, StopTime <- -1

\* What the source sends: the invariants of its own module.
VoiceInv == VP!SenderInv /\ VP!TypeOK /\ VP!NumbersInv /\ VP!FitInv

\* What is proved of the evaluation of a talkspurt.
TE == INSTANCE TalkspurtEvaluationProofs WITH VoiceDuration <- PacketizationInterval

\* One handover is reported, when the detection timer arrives.
OneReport ==
    handoverEvents = IF D!DetectionTimer \in Scheduled(dTimers) THEN 0 ELSE 1

\* The detection timer arrives once, before any packet was numbered.
DetectionInv ==
    /\ IsQueue(dTimers, D!ContinuityTimers) /\ Scheduled(dTimers) \subseteq {D!DetectionTimer}
    /\ D!DetectionTimer \in Scheduled(dTimers) =>
          now + dTimers.left[D!DetectionTimer] = HandoverDetectionInterval
    /\ isAppActive = FALSE /\ lastPacketSent = 0
    /\ OneReport

\* A packet on its way was sent, when its voice had been spoken.
NetworkInv ==
    /\ path \in Paths
    /\ \A i \in inFlight :
          /\ i.packet \in sent /\ i.path \in Paths
          /\ i.sentAt = i.packet.voipTimestamp + PacketizationInterval

\* The talkspurt the receiver collects is one the source began.
HeardInv ==
    /\ IsQueue(rPending, R!ReceiverTimers) /\ playoutDelay \in Nat
    /\ heardID \in Int /\ heardID < spokenID
    /\ R!TalkspurtFinished \in Scheduled(rPending) => status = "ACTIVE"
    /\ status = "ACTIVE" =>
          /\ R!TalkspurtFinished \in Scheduled(rPending)
          /\ heardNumPackets \in Nat
          /\ packets \in Seq(TE!PacketInfo(heardNumPackets)) /\ packets # <<>>
          /\ \E p \in sent : p.talkspurtID = heardID /\ p.talkspurtNumPackets = heardNumPackets

\* When the receiver gives the talkspurt up, and when its last packet leaves.
Deadline == now + rPending.left[R!TalkspurtFinished]
LastSent == now + vPending.left[V!SelfSender]
               + (spokenNumPackets - 1 - packetID) * PacketizationInterval

\* By then all its packets have arrived, those yet to be sent included.
WaitInv ==
    status = "ACTIVE" =>
        /\ \A i \in inFlight : i.packet.talkspurtID = heardID =>
              i.sentAt + MaxDelay[i.path] < Deadline
        /\ heardID = spokenID - 1 /\ V!SelfSender \in Scheduled(vPending) =>
              \A r \in Paths : LastSent + MaxDelay[r] < Deadline

\* The detection has no packets to deal with.
DetectionQueue == isAppActive = FALSE /\ IsQueue(dTimers, D!ContinuityTimers)

\* The inductive invariant.
CallInv == VoiceInv /\ DetectionQueue /\ NetworkInv /\ HeardInv /\ WaitInv

-----------------------------------------------------------------------------
\* The components have names of their own for what they extend.
LEMMA VoiceNames ==
  /\ \A q, d : VP!MayElapse(q, d) <=> MayElapse(q, d)
  /\ \A q, d : VP!Elapse(q, d) = Elapse(q, d)
  /\ \A q : VP!Scheduled(q) = Scheduled(q)
  /\ \A q, T : VP!IsQueue(q, T) <=> IsQueue(q, T)
  /\ VP!SelfSender = V!SelfSender /\ VP!SelfSource = V!SelfSource
BY DEF VP!MayElapse, VP!Elapse, VP!Scheduled, VP!IsQueue, VP!NotScheduled,
       MayElapse, Elapse, Scheduled, IsQueue, NotScheduled,
       VP!SelfSender, VP!SelfSource, V!SelfSender, V!SelfSource

\* The source of the call meets the hypotheses of its theorems.
LEMMA VoiceAssumptions ==
  VP!SenderAssumption /\ VP!PeriodsFit /\ VP!RoomForAPacket
<1>1. VP!SenderAssumption
  BY ComponentsAssumption DEF V!SenderAssumption, VP!SenderAssumption, V!Forever, VP!Forever
<1>2. ASSUME NEW d \in TalkspurtDurations PROVE d >= PacketizationInterval /\ d \in Nat
  BY CallAssumption, <1>1 DEF VP!SenderAssumption
<1>3. ASSUME NEW d \in TalkspurtDurations, NEW s \in SilenceDurations
      PROVE d + s >= PacketizationInterval
  BY <1>1, <1>2 DEF VP!SenderAssumption
<1>4. \A d \in TalkspurtDurations : VP!Packets(d) < UIntSize \div 2
  BY ComponentsAssumption DEF V!Packets, VP!Packets
<1>5. VP!PeriodsFit
  BY <1>3, <1>4, ComponentsAssumption DEF VP!PeriodsFit
<1>6. VP!RoomForAPacket
  BY <1>2 DEF VP!RoomForAPacket, VP!Forever
<1> QED BY <1>1, <1>5, <1>6

\* The steps of the source are those of the module the theorems are about.
LEMMA VoiceStepNames ==
  /\ V!Init => VP!Init
  /\ V!HandleSelfSource => VP!HandleSelfSource
  /\ V!HandleSelfSender => VP!HandleSelfSender
  /\ \A time : V!VoicePacket(time) = VP!VoicePacket(time)
<1>1. V!Init => VP!Init
  BY DEF V!Init, VP!Init, V!ScheduleAfter, VP!ScheduleAfter, V!EmptyQueue, VP!EmptyQueue,
         V!SenderTimers, VP!SenderTimers, V!SelfSource, VP!SelfSource, V!SelfSender, VP!SelfSender,
         V!Scheduled, VP!Scheduled, V!NotScheduled, VP!NotScheduled
<1>2. /\ \A q, t : V!Deliver(q, t) = VP!Deliver(q, t) /\ (V!IsNext(q, t) <=> VP!IsNext(q, t))
      /\ \A q, t, d : V!ScheduleAfter(q, t, d) = VP!ScheduleAfter(q, t, d)
      /\ \A q, t : V!Cancel(q, t) = VP!Cancel(q, t)
      /\ \A q : V!Scheduled(q) = VP!Scheduled(q)
      /\ V!SelfSender = VP!SelfSender /\ V!SelfSource = VP!SelfSource
  BY DEF V!Deliver, VP!Deliver, V!IsNext, VP!IsNext, V!Cancel, VP!Cancel, V!Elapse, VP!Elapse,
         V!ScheduleAfter, VP!ScheduleAfter, V!Scheduled, VP!Scheduled,
         V!NotScheduled, VP!NotScheduled, V!SelfSource, VP!SelfSource, V!SelfSender, VP!SelfSender
<1>3. /\ \A t, d : V!Capped(t, d) = VP!Capped(t, d)
      /\ \A t : V!Stopped(t) <=> VP!Stopped(t)
      /\ \A d : V!Packets(d) = VP!Packets(d)
      /\ \A n : V!UInt(n) = VP!UInt(n)
  BY DEF V!Capped, VP!Capped, V!Stopped, VP!Stopped, V!Packets, VP!Packets, V!UInt, VP!UInt,
         V!Forever, VP!Forever
<1>4. \A time : V!VoicePacket(time) = VP!VoicePacket(time)
  BY <1>3 DEF V!VoicePacket, VP!VoicePacket
<1>5. V!HandleSelfSender => VP!HandleSelfSender
  BY <1>2, <1>4 DEF V!HandleSelfSender, VP!HandleSelfSender, V!SendVoIPPacket, VP!SendVoIPPacket
<1>6. ASSUME NEW q PROVE V!SelectTalkOrSilenceInterval(q) => VP!SelectTalkOrSilenceInterval(q)
  <2>1. \A d : V!Talkspurt(q, d) => VP!Talkspurt(q, d)
    BY <1>2, <1>3 DEF V!Talkspurt, VP!Talkspurt, V!Overlap, VP!Overlap
  <2>2. V!BeginTalk(q) => VP!BeginTalk(q)
    BY <1>3, <2>1 DEF V!BeginTalk, VP!BeginTalk
  <2>3. V!BeginSilence(q) => VP!BeginSilence(q)
    BY <1>2, <1>3 DEF V!BeginSilence, VP!BeginSilence
  <2> QED BY <1>3, <2>2, <2>3 DEF V!SelectTalkOrSilenceInterval, VP!SelectTalkOrSilenceInterval
<1>7. V!HandleSelfSource => VP!HandleSelfSource
  BY <1>2, <1>6 DEF V!HandleSelfSource, VP!HandleSelfSource
<1> QED BY <1>1, <1>4, <1>5, <1>7

\* The source while it acts, and while others do.
LEMMA VoiceActs ==
  ASSUME VoiceInv, V!HandleSelfSource \/ V!HandleSelfSender
  PROVE  VoiceInv'
<1>1. [VP!Next]_(VP!vars)
  BY VoiceStepNames DEF VP!Next
<1>2. VP!SenderInv'
  BY <1>1, VoiceAssumptions, VP!StepSender DEF VoiceInv
<1>3. VP!FitInv' /\ VP!NumbersInv'
  BY <1>1, VoiceAssumptions, VP!StepFits DEF VoiceInv
<1>4. VP!TypeOK'
  BY <1>1, VoiceAssumptions, VP!StepType DEF VoiceInv
<1> QED BY <1>2, <1>3, <1>4 DEF VoiceInv

\* While others act the timers of the source run on.
LEMMA VoiceIdles ==
  ASSUME VoiceInv, now' - now \in Nat, now \in Nat, now' \in Nat, RunsOn(vPending, vPending'),
         UNCHANGED source
  PROVE  VoiceInv'
<1> DEFINE d == now' - now
<1>1. now' = now + d
  <2>1. \A a, b \in Nat : b = a + (b - a)
    BY SMT
  <2> QED BY <2>1
<1>2. /\ d \in Nat /\ VP!MayElapse(vPending, d) /\ vPending' = VP!Elapse(vPending, d)
      /\ UNCHANGED <<isTalk, spokenID, spokenNumPackets, packetID, sent>>
  BY VoiceNames DEF RunsOn, source
<1> HIDE DEF d
<1>3. VP!SenderInv' /\ VP!NumbersInv' /\ VP!FitInv'
  BY <1>1, <1>2, VoiceAssumptions, VP!IdleSource DEF VoiceInv
<1>4. VP!TypeOK'
  <2>1. now' \in Nat /\ isTalk' \in BOOLEAN /\ spokenID' \in Nat /\ packetID' \in Nat
        /\ VP!IsQueue(vPending', VP!SenderTimers)
    BY <1>3 DEF VP!SenderInv
  <2>2. spokenNumPackets' \in Int /\ sent' \subseteq VP!Packet
    BY <1>2 DEF VoiceInv, VP!TypeOK
  <2> QED BY <2>1, <2>2 DEF VP!TypeOK
<1> QED BY <1>3, <1>4 DEF VoiceInv

\* Some events change nothing of the source, nor the time.
LEMMA VoiceStutters ==
  ASSUME VoiceInv, UNCHANGED <<now, vPending, source>>
  PROVE  VoiceInv'
<1>1. VP!vars' = VP!vars
  BY DEF VP!vars, source
<1>2. [VP!Next]_(VP!vars)
  BY <1>1
<1>3. VP!SenderInv'
  BY <1>2, VoiceAssumptions, VP!StepSender DEF VoiceInv
<1>4. VP!FitInv' /\ VP!NumbersInv'
  BY <1>2, VoiceAssumptions, VP!StepFits DEF VoiceInv
<1>5. VP!TypeOK'
  BY <1>2, VoiceAssumptions, VP!StepType DEF VoiceInv
<1> QED BY <1>3, <1>4, <1>5 DEF VoiceInv

\* What is known of a packet that was sent, and of two of them.
LEMMA SentFacts ==
  ASSUME VoiceInv, NEW p \in sent
  PROVE  /\ p.talkspurtID \in Nat /\ spokenID \in Nat /\ p.talkspurtID < spokenID
         /\ p.talkspurtNumPackets \in Nat /\ p.packetID \in 0 .. p.talkspurtNumPackets - 1
         /\ p.voipTimestamp \in Int /\ now \in Nat
         /\ p.voipTimestamp + PacketizationInterval =< now
<1>1. p \in VP!Packet
  BY DEF VoiceInv, VP!TypeOK
<1>2. /\ p.talkspurtID \in Nat /\ p.voipTimestamp \in Int
      /\ p.talkspurtNumPackets \in 0 .. UIntSize - 1
  BY <1>1 DEF VP!Packet
<1>3. p.talkspurtNumPackets \in Nat
  BY <1>2
<1>4. VP!SentBefore(p) /\ spokenID \in Nat /\ now \in Nat
  BY DEF VoiceInv, VP!SenderInv
<1>5. p.talkspurtID < spokenID /\ p.voipTimestamp + PacketizationInterval =< now
  BY <1>2, <1>4 DEF VP!SentBefore
<1>6. p.packetID \in 0 .. p.talkspurtNumPackets - 1
  BY VoiceAssumptions DEF VoiceInv, VP!FitInv, VP!PacketIDInRange
<1> QED BY <1>2, <1>3, <1>4, <1>5, <1>6

\* Two packets of one talkspurt lie a multiple of the interval apart, two of different ones at least one.
LEMMA SentPairs ==
  ASSUME VoiceInv, NEW p \in sent, NEW q \in sent
  PROVE  /\ p.talkspurtID = q.talkspurtID =>
              /\ p.talkspurtNumPackets = q.talkspurtNumPackets
              /\ q.voipTimestamp = p.voipTimestamp
                                     + (q.packetID - p.packetID) * PacketizationInterval
         /\ p.talkspurtID < q.talkspurtID =>
              p.voipTimestamp + PacketizationInterval =< q.voipTimestamp
<1>1. p.talkspurtID = q.talkspurtID =>
         /\ p.talkspurtNumPackets = q.talkspurtNumPackets
         /\ q.voipTimestamp = p.voipTimestamp
                                + (q.packetID - p.packetID) * PacketizationInterval
  BY DEF VoiceInv, VP!NumbersInv, VP!RegularSpurts, VP!Span
<1>2. ASSUME p.talkspurtID < q.talkspurtID
      PROVE  p.voipTimestamp + PacketizationInterval =< q.voipTimestamp
  <2>1. /\ p.talkspurtID \in Nat /\ q.talkspurtID \in Nat
        /\ p.voipTimestamp \in Int /\ q.voipTimestamp \in Int
        /\ PacketizationInterval \in Nat
    BY SentFacts, VoiceAssumptions DEF VP!SenderAssumption
  <2>2. p # q
    BY <1>2, <2>1
  <2>3. p.voipTimestamp < q.voipTimestamp
    BY <1>2 DEF VoiceInv, VP!SenderInv, VP!NumberingFollowsVoice
  <2>4. \/ p.voipTimestamp + PacketizationInterval =< q.voipTimestamp
        \/ q.voipTimestamp + PacketizationInterval =< p.voipTimestamp
    BY <2>2 DEF VoiceInv, VP!SenderInv, VP!VoiceDoesNotOverlap
  <2> QED BY <2>1, <2>3, <2>4
<1> QED BY <1>1, <1>2

-----------------------------------------------------------------------------
\* The timers of a component that does not act keep their times of arrival.
LEMMA TimersRunOn ==
  ASSUME NEW T, NEW q, IsQueue(q, T), NEW r, now \in Nat, now' \in Nat, now' - now \in Nat,
         RunsOn(q, r)
  PROVE  /\ IsQueue(r, T) /\ Scheduled(r) = Scheduled(q)
         /\ \A t \in Scheduled(q) :
               /\ q.left[t] \in Nat /\ r.left[t] \in Nat
               /\ now' + r.left[t] = now + q.left[t] /\ now' =< now + q.left[t]
<1> DEFINE d == now' - now
<1>1. d \in Nat /\ MayElapse(q, d) /\ r = Elapse(q, d)
  BY DEF RunsOn
<1>2. \A a, b \in Nat : b = a + (b - a)
  BY SMT
<1>3. now' = now + d
  BY <1>2
<1> HIDE DEF d
<1>4. /\ IsQueue(r, T) /\ Scheduled(r) = Scheduled(q)
      /\ \A t \in Scheduled(q) : r.left[t] = q.left[t] - d
  BY <1>1, ElapseQueue
<1>5. ASSUME NEW t \in Scheduled(q)
      PROVE  /\ q.left[t] \in Nat /\ r.left[t] \in Nat
             /\ now' + r.left[t] = now + q.left[t] /\ now' =< now + q.left[t]
  <2>1. q.left[t] \in Nat
    BY DEF IsQueue, Scheduled
  <2>2. d =< q.left[t]
    BY <1>1 DEF MayElapse
  <2> QED BY <1>1, <1>3, <1>4, <2>1, <2>2
<1> QED BY <1>4, <1>5

\* The detection timer's queue has names of its own.
LEMMA DetectionNames ==
  /\ \A q, t : D!IsNext(q, t) <=> IsNext(q, t)
  /\ \A q, t : D!Deliver(q, t) = Deliver(q, t)
  /\ \A q, t, d : D!ScheduleAfter(q, t, d) = ScheduleAfter(q, t, d)
  /\ \A T : D!EmptyQueue(T) = EmptyQueue(T)
BY DEF D!IsNext, D!Deliver, D!Cancel, D!Elapse, D!ScheduleAfter, D!EmptyQueue, D!Scheduled,
       D!NotScheduled, IsNext, Deliver, Cancel, Elapse, ScheduleAfter, EmptyQueue, Scheduled,
       NotScheduled

\* At its first arrival the detection takes the time since the start of the
\* simulation for a pause in sending.
LEMMA DetectionActs ==
  ASSUME HandoverDetectionInterval > 2 * SendInterval, DetectionInv, now \in Nat,
         D!HandleDetectionTimer
  PROVE  /\ DetectionInv' /\ now' \in Nat /\ now' - now \in Nat
<1> DEFINE t == D!DetectionTimer
<1>1. /\ IsNext(dTimers, t) /\ now' = now + dTimers.left[t]
      /\ D!ProcessHandoverDetection
      /\ dTimers' = Deliver(dTimers, t)
      /\ UNCHANGED <<isAppActive, lastPacketSent>>
  BY DetectionNames DEF D!HandleDetectionTimer, D!numbering, DetectionInv
<1>2. /\ IsQueue(dTimers', D!ContinuityTimers) /\ dTimers.left[t] \in Nat
      /\ Scheduled(dTimers') = Scheduled(dTimers) \ {t}
  BY <1>1, DeliverQueue DEF DetectionInv, D!ContinuityTimers
<1>3. t \in Scheduled(dTimers)
  BY <1>1 DEF IsNext
<1>4. Scheduled(dTimers') = {} /\ handoverEvents = 0 /\ now' = HandoverDetectionInterval
  BY <1>1, <1>2, <1>3 DEF DetectionInv, OneReport
<1>5. D!IsHandoverInProgress(now')
  <2>1. HandoverDetectionInterval \in Nat /\ SendInterval \in Nat
    BY ComponentsAssumption DEF D!ContinuityAssumption
  <2> QED BY <1>4, <2>1 DEF DetectionInv, D!IsHandoverInProgress
<1>6. handoverEvents' = 1
  BY <1>1, <1>4, <1>5 DEF D!ProcessHandoverDetection
<1>7. OneReport'
  BY <1>4, <1>6 DEF OneReport
<1> QED BY <1>1, <1>2, <1>4, <1>7 DEF DetectionInv

\* The detection timer while another component acts.
LEMMA DetectionIdles ==
  ASSUME DetectionInv, now \in Nat, now' \in Nat, now' - now \in Nat, RunsOn(dTimers, dTimers'),
         UNCHANGED continuity
  PROVE  DetectionInv'
<1>1. /\ IsQueue(dTimers', D!ContinuityTimers) /\ Scheduled(dTimers') = Scheduled(dTimers)
      /\ \A t \in Scheduled(dTimers) : now' + dTimers'.left[t] = now + dTimers.left[t]
  BY TimersRunOn DEF DetectionInv
<1>2. OneReport'
  BY <1>1 DEF DetectionInv, OneReport, continuity
<1> QED BY <1>1, <1>2 DEF DetectionInv, continuity

-----------------------------------------------------------------------------
\* The receiver's own names, down to the fold of the evaluation.
LEMMA ReceiverNames ==
  /\ \A q, t : R!IsNext(q, t) <=> IsNext(q, t)
  /\ \A q, t : R!Deliver(q, t) = Deliver(q, t)
  /\ \A q, t : R!Cancel(q, t) = Cancel(q, t)
  /\ \A q, t, d : R!ScheduleAfter(q, t, d) = ScheduleAfter(q, t, d)
  /\ \A T : R!EmptyQueue(T) = EmptyQueue(T)
BY DEF R!IsNext, R!Deliver, R!Cancel, R!Elapse, R!ScheduleAfter, R!EmptyQueue, R!Scheduled,
       R!NotScheduled, IsNext, Deliver, Cancel, Elapse, ScheduleAfter, EmptyQueue, Scheduled,
       NotScheduled

\* It is the evaluation of which the losses and the lateness are known.
LEMMA EvaluationNames ==
  \A pks, n, delay, finish : R!Evaluation(pks, n, delay, finish) = TE!Evaluation(pks, n, delay, finish)
BY DEF R!Evaluation, R!FoldLeft, R!MapThenFoldSet, R!Place, R!Buffer, R!Max, R!PlayoutTime,
       R!Cardinality, R!UInt, R!ExpectedPackets, R!PacketIDs,
       TE!Evaluation, TE!FoldLeft, TE!MapThenFoldSet, TE!Place, TE!Buffer, TE!Max, TE!PlayoutTime,
       TE!Cardinality, TE!UInt, TE!ExpectedPackets, TE!PacketIDs

\* The playout delay stays a time whatever the evaluation finds.
LEMMA EvaluationAdapts ==
  ASSUME HeardInv, status = "ACTIVE", NEW cause, R!Evaluate(cause)
  PROVE  /\ playoutDelay' \in Nat
         /\ last'.talkspurtID = heardID /\ last'.cause = cause
<1> DEFINE finish == cause = "finish"
           late == R!Evaluation(packets, heardNumPackets, playoutDelay, finish).maxLateness
<1>1. /\ last'.talkspurtID = heardID /\ last'.cause = cause
      /\ playoutDelay' = R!Adapted(playoutDelay, late)
  BY DEF R!Evaluate
<1>2. finish \in BOOLEAN
  OBVIOUS
<1> HIDE DEF finish
<1>3. /\ packets \in Seq(TE!PacketInfo(heardNumPackets)) /\ packets # <<>>
      /\ heardNumPackets \in Nat /\ playoutDelay \in Nat
  BY DEF HeardInv
<1>4. TE!EvaluationAssumption
  BY ComponentsAssumption DEF R!EvaluationAssumption, TE!EvaluationAssumption
<1>5. TE!Evaluation(packets, heardNumPackets, playoutDelay, finish).maxLateness \in Int
  BY <1>2, <1>3, <1>4, TE!EvaluationFinds
<1>6. late \in Int
  BY <1>5, EvaluationNames
<1> HIDE DEF late
<1>7. playoutDelay + late \in Int
  BY <1>3, <1>6
<1>8. TE!Max({0, playoutDelay + late}) \in Nat
  <2> DEFINE s == playoutDelay + late
  <2>1. s \in Int /\ 0 \in Int
    BY <1>7
  <2> HIDE DEF s
  <2>2. TE!Max({0, s}) \in {0, s} /\ TE!Max({0, s}) >= 0
    BY <1>4, <2>1, TE!LargerOfTwo
  <2>3. TE!Max({0, s}) \in Nat
    BY <2>1, <2>2
  <2> QED BY <2>3 DEF s
<1>9. R!Max({0, playoutDelay + late}) = TE!Max({0, playoutDelay + late})
  BY DEF R!Max, TE!Max
<1>10. R!Adapted(playoutDelay, late) \in Nat
  BY <1>3, <1>8, <1>9 DEF R!Adapted
<1> QED BY <1>1, <1>10

\* The receiver's timer while another component acts.
LEMMA ReceiverIdles ==
  ASSUME HeardInv, now \in Nat, now' \in Nat, now' - now \in Nat, RunsOn(rPending, rPending'),
         UNCHANGED receiver, sent \subseteq sent', spokenID \in Int, spokenID' \in Int,
         spokenID =< spokenID'
  PROVE  HeardInv' /\ (status = "ACTIVE" => Deadline' = Deadline)
<1>1. /\ IsQueue(rPending', R!ReceiverTimers) /\ Scheduled(rPending') = Scheduled(rPending)
      /\ \A t \in Scheduled(rPending) : now' + rPending'.left[t] = now + rPending.left[t]
  BY TimersRunOn DEF HeardInv
<1>2. UNCHANGED <<status, heardID, heardNumPackets, packets, playoutDelay>>
  BY DEF receiver
<1>3. heardID < spokenID'
  BY DEF HeardInv
<1>4. HeardInv'
  BY <1>1, <1>2, <1>3 DEF HeardInv
<1>5. status = "ACTIVE" => Deadline' = Deadline
  BY <1>1 DEF HeardInv, Deadline
<1> QED BY <1>4, <1>5

\* startTalkspurt with its first packet p: the deadline is far enough away.
LEMMA ReceiverStarts ==
  ASSUME VoiceInv, NEW q, IsQueue(q, R!ReceiverTimers), NEW p \in sent, NEW delay \in Nat,
         now' \in Nat, R!StartTalkspurt(q, p, delay)
  PROVE  /\ IsQueue(rPending', R!ReceiverTimers) /\ R!TalkspurtFinished \in Scheduled(rPending')
         /\ status' = "ACTIVE" /\ heardID' = p.talkspurtID
         /\ heardNumPackets' = p.talkspurtNumPackets
         /\ packets' \in Seq(TE!PacketInfo(p.talkspurtNumPackets)) /\ packets' # <<>>
         /\ Deadline' \in Nat
         /\ Deadline' >= now' + (p.talkspurtNumPackets - p.packetID) * PacketizationInterval
                           + MosSpareTime
<1> DEFINE n == p.talkspurtNumPackets
           k == n - p.packetID
           span == k * PacketizationInterval
           wait == delay + span + MosSpareTime
<1>1. n \in Nat /\ p.packetID \in 0 .. n - 1 /\ k \in Nat /\ p.voipTimestamp \in Int
  BY SentFacts
<1>2. span \in Nat /\ MosSpareTime \in Nat
  <2>1. PacketizationInterval \in Nat /\ MosSpareTime \in Nat
    BY ComponentsAssumption DEF R!EvaluationAssumption, R!ReceiverAssumption
  <2> HIDE DEF k
  <2> QED BY <1>1, <2>1
<1>3. /\ packets' = <<R!Info(p, now')>> /\ heardNumPackets' = n /\ status' = "ACTIVE"
      /\ heardID' = p.talkspurtID
      /\ rPending' = ScheduleAfter(q, R!TalkspurtFinished, wait)
  BY ReceiverNames DEF R!StartTalkspurt
<1> HIDE DEF span
<1>4. wait \in Nat
  BY <1>2
<1> HIDE DEF wait
<1>5. /\ IsQueue(rPending', R!ReceiverTimers) /\ R!TalkspurtFinished \in Scheduled(rPending')
      /\ rPending'.left[R!TalkspurtFinished] = wait
  BY <1>3, <1>4, ScheduleAfterQueue DEF R!ReceiverTimers
<1>6. R!Info(p, now') \in TE!PacketInfo(n)
  BY <1>1 DEF R!Info, TE!PacketInfo
<1>7. packets' \in Seq(TE!PacketInfo(n)) /\ packets' # <<>>
  BY <1>3, <1>6
<1>8. Deadline' \in Nat /\ Deadline' >= now' + span + MosSpareTime
  <2>1. Deadline' = now' + wait
    BY <1>5 DEF Deadline
  <2>2. wait = delay + span + MosSpareTime
    BY DEF wait
  <2>3. \A a \in Nat : a + wait \in Nat /\ a + wait >= a + span + MosSpareTime
    BY <1>2, <1>4, <2>2
  <2> QED BY <2>1, <2>3
<1> QED BY <1>3, <1>5, <1>7, <1>8 DEF span

\* A packet arrives: it begins a talkspurt or leaves the deadline as it is.
LEMMA PacketArrives ==
  ASSUME VoiceInv, HeardInv, NetworkInv, NEW i \in inFlight, NEW time \in Nat, time >= now,
         Arrive(i, time)
  PROVE  /\ HeardInv'
         /\ \/ /\ status' = "ACTIVE" /\ heardID' = i.packet.talkspurtID /\ Deadline' \in Nat
               /\ Deadline' >= now' + (i.packet.talkspurtNumPackets - i.packet.packetID)
                                           * PacketizationInterval + MosSpareTime
            \/ /\ status' = status /\ heardID' = heardID
               /\ status = "ACTIVE" => Deadline' = Deadline
<1> DEFINE p == i.packet
           q == Elapse(rPending, time - now)
           n == heardNumPackets
<1>1. now \in Nat /\ time - now \in Nat /\ p \in sent /\ spokenID \in Nat
      /\ p.talkspurtID \in Nat /\ p.talkspurtID < spokenID
  <2>1. now \in Nat /\ spokenID \in Nat
    BY DEF VoiceInv, VP!SenderInv
  <2> QED BY <2>1, SentFacts DEF NetworkInv
<1>2. /\ now' = time /\ R!SocketDataArrived(q, p) /\ UNCHANGED <<sent, spokenID>>
      /\ RunsOn(rPending, q)
  BY DEF Arrive, source, RunsOn
<1> HIDE DEF q
<1>3. /\ IsQueue(q, R!ReceiverTimers) /\ Scheduled(q) = Scheduled(rPending)
      /\ \A t \in Scheduled(rPending) : now' + q.left[t] = now + rPending.left[t]
  BY <1>1, <1>2, TimersRunOn DEF HeardInv
<1>4. heardID \in Int /\ heardID < spokenID /\ playoutDelay \in Nat
  BY DEF HeardInv
<1>5. p.talkspurtNumPackets \in Nat
  BY <1>1, SentFacts
<1>6. ASSUME NEW r, IsQueue(r, R!ReceiverTimers), playoutDelay' \in Nat,
             R!StartTalkspurt(r, p, playoutDelay')
      PROVE  /\ HeardInv' /\ status' = "ACTIVE" /\ heardID' = p.talkspurtID /\ Deadline' \in Nat
             /\ Deadline' >= now' + (p.talkspurtNumPackets - p.packetID) * PacketizationInterval
                               + MosSpareTime
  <2>1. /\ IsQueue(rPending', R!ReceiverTimers) /\ R!TalkspurtFinished \in Scheduled(rPending')
        /\ status' = "ACTIVE" /\ heardID' = p.talkspurtID
        /\ heardNumPackets' = p.talkspurtNumPackets
        /\ packets' \in Seq(TE!PacketInfo(p.talkspurtNumPackets)) /\ packets' # <<>>
        /\ Deadline' \in Nat
        /\ Deadline' >= now' + (p.talkspurtNumPackets - p.packetID) * PacketizationInterval
                          + MosSpareTime
    BY <1>1, <1>2, <1>6, ReceiverStarts
  <2>2. HeardInv'
    BY <1>1, <1>2, <1>5, <1>6, <2>1 DEF HeardInv
  <2> QED BY <2>1, <2>2
<1>7. CASE R!FirstTalkspurt(q, p)
  BY <1>3, <1>4, <1>6, <1>7 DEF R!FirstTalkspurt
<1>8. CASE R!NewTalkspurt(q, p)
  <2>1. playoutDelay' \in Nat
    BY <1>4, <1>8, EvaluationAdapts DEF R!NewTalkspurt
  <2>2. R!StartTalkspurt(Cancel(q, R!TalkspurtFinished), p, playoutDelay')
    BY <1>8, ReceiverNames DEF R!NewTalkspurt
  <2>3. IsQueue(Cancel(q, R!TalkspurtFinished), R!ReceiverTimers)
    BY <1>3, CancelQueue DEF R!ReceiverTimers
  <2> QED BY <1>6, <2>1, <2>2, <2>3
<1>9. CASE R!ContinuedTalkspurt(q, p)
  <2>1. /\ status = "ACTIVE" /\ p.talkspurtID = heardID
        /\ packets' = Append(packets, R!Info(p, now')) /\ rPending' = q
        /\ UNCHANGED <<status, heardID, heardNumPackets, playoutDelay>>
    BY <1>9 DEF R!ContinuedTalkspurt
  <2>2. p.talkspurtNumPackets = n
    BY <1>1, <2>1, SentPairs DEF HeardInv
  <2>3. R!Info(p, now') \in TE!PacketInfo(n)
    BY <1>1, <1>2, <2>2, SentFacts DEF R!Info, TE!PacketInfo
  <2>4. packets' \in Seq(TE!PacketInfo(n)) /\ packets' # <<>>
    <3> DEFINE info == R!Info(p, now')
    <3>1. packets \in Seq(TE!PacketInfo(n)) /\ info \in TE!PacketInfo(n)
      BY <2>1, <2>3 DEF HeardInv
    <3> HIDE DEF info, n
    <3>2. Append(packets, info) \in Seq(TE!PacketInfo(n))
      BY <3>1
    <3>3. Append(packets, info) # <<>>
      <4>1. Len(packets) \in Nat /\ Len(Append(packets, info)) = Len(packets) + 1
        BY <3>1
      <4>2. Len(<<>>) = 0
        OBVIOUS
      <4> QED BY <4>1, <4>2
    <3> QED BY <2>1, <3>2, <3>3 DEF info
  <2>5. HeardInv'
    BY <1>2, <1>3, <2>1, <2>4 DEF HeardInv
  <2>6. Deadline' = Deadline
    BY <1>3, <2>1 DEF HeardInv, Deadline
  <2> QED BY <2>1, <2>5, <2>6
<1>10. CASE R!OlderTalkspurt(q, p)
  <2>1. /\ rPending' = q
        /\ UNCHANGED <<status, heardID, heardNumPackets, packets, playoutDelay>>
    BY <1>10 DEF R!OlderTalkspurt, R!talkspurt
  <2>2. HeardInv'
    BY <1>2, <1>3, <2>1 DEF HeardInv
  <2>3. status = "ACTIVE" => Deadline' = Deadline
    BY <1>3, <2>1 DEF HeardInv, Deadline
  <2> QED BY <2>1, <2>2, <2>3
<1> QED BY <1>2, <1>7, <1>8, <1>9, <1>10 DEF R!SocketDataArrived

-----------------------------------------------------------------------------
\* The times of arrival of a packet that is under way.
LEMMA UnderWay ==
  ASSUME VoiceInv, NetworkInv, NEW i \in inFlight
  PROVE  /\ i.packet \in sent /\ i.path \in Paths /\ i.sentAt \in Int
         /\ i.sentAt = i.packet.voipTimestamp + PacketizationInterval
         /\ MinDelay[i.path] \in Nat /\ MaxDelay[i.path] \in Nat
         /\ Max(Arrival(i)) = i.sentAt + MaxDelay[i.path]
         /\ \A time \in Arrival(i) : time \in Int /\ i.sentAt + MinDelay[i.path] =< time
<1>1. /\ i.packet \in sent /\ i.path \in Paths
      /\ i.sentAt = i.packet.voipTimestamp + PacketizationInterval
  BY DEF NetworkInv
<1>2. i.packet.voipTimestamp \in Int /\ PacketizationInterval \in Nat
  BY <1>1, SentFacts, VoiceAssumptions DEF VP!SenderAssumption
<1>3. i.sentAt \in Int
  BY <1>1, <1>2
<1>4. /\ MinDelay[i.path] \in Nat /\ MaxDelay[i.path] \in Nat
      /\ MinDelay[i.path] =< MaxDelay[i.path]
  BY <1>1, CallAssumption
<1> DEFINE a == i.sentAt + MinDelay[i.path]
           b == i.sentAt + MaxDelay[i.path]
<1>5. a \in Int /\ b \in Int /\ a =< b /\ Arrival(i) = a .. b
  BY <1>3, <1>4 DEF Arrival
<1> HIDE DEF a, b
<1>6. Max(a .. b) = b
  <2>1. b \in a .. b /\ \A y \in a .. b : b >= y
    BY <1>5
  <2>2. \A x \in a .. b : (\A y \in a .. b : x >= y) => x = b
    BY <1>5, <2>1
  <2> QED BY <2>1, <2>2 DEF Max
<1>7. \A time \in Arrival(i) : time \in Int /\ a =< time
  BY <1>5
<1> QED BY <1>1, <1>3, <1>4, <1>5, <1>6, <1>7 DEF a, b

\* Multiples of the packetization interval.
LEMMA Intervals ==
  ASSUME NEW a \in Int, NEW b \in Int
  PROVE  /\ a * PacketizationInterval \in Int /\ b * PacketizationInterval \in Int
         /\ (a + b) * PacketizationInterval
               = a * PacketizationInterval + b * PacketizationInterval
         /\ a >= 0 => a * PacketizationInterval >= 0
BY VoiceAssumptions, VP!SpanStep, VP!SpanSum DEF VP!Span

\* Packet k of n is there before the deadline set by packet id, which was spoken
\* at ts, whatever paths the two take.
LEMMA EnoughTime ==
  ASSUME NEW ts \in Int, NEW n \in Int, NEW k \in Int, NEW id \in Int, k =< n - 1,
         NEW time \in Int, NEW deadline \in Nat, NEW r \in Paths, NEW s \in Paths,
         time >= ts + PacketizationInterval + MinDelay[s],
         deadline >= time + (n - id) * PacketizationInterval + MosSpareTime
  PROVE  ts + (k - id) * PacketizationInterval + PacketizationInterval + MaxDelay[r] < deadline
<1> DEFINE x == (k - id) * PacketizationInterval
           y == (n - 1 - k) * PacketizationInterval
           z == (n - id) * PacketizationInterval
<1>1. /\ x \in Int /\ y \in Int /\ z \in Int /\ y >= 0
      /\ z = x + y + PacketizationInterval
  <2>1. k - id \in Int /\ n - 1 - k \in Int /\ n - 1 - k >= 0 /\ 1 \in Int
        /\ (k - id) + (n - 1 - k) \in Int
        /\ ((k - id) + (n - 1 - k)) + 1 = n - id
    OBVIOUS
  <2>2. PacketizationInterval \in Nat /\ 1 * PacketizationInterval = PacketizationInterval
    BY VoiceAssumptions DEF VP!SenderAssumption
  <2>3. /\ x \in Int /\ y \in Int /\ y >= 0
        /\ ((k - id) + (n - 1 - k)) * PacketizationInterval = x + y
    BY <2>1, Intervals
  <2>4. (((k - id) + (n - 1 - k)) + 1) * PacketizationInterval
            = ((k - id) + (n - 1 - k)) * PacketizationInterval + 1 * PacketizationInterval
    BY <2>1, Intervals
  <2>5. z = (((k - id) + (n - 1 - k)) + 1) * PacketizationInterval
    BY <2>1
  <2>6. z = x + y + PacketizationInterval
    BY <2>2, <2>3, <2>4, <2>5
  <2> HIDE DEF x, y, z
  <2> QED BY <2>2, <2>3, <2>6
<1> HIDE DEF x, y, z
<1>2. /\ MaxDelay[r] \in Nat /\ MinDelay[s] \in Nat
      /\ MaxDelay[r] - MinDelay[s] < PacketizationInterval + MosSpareTime
  BY CallAssumption
<1>3. PacketizationInterval \in Nat /\ MosSpareTime \in Nat
  BY ComponentsAssumption DEF R!EvaluationAssumption, R!ReceiverAssumption
<1>4. deadline >= time + z + MosSpareTime
  BY DEF z
<1>5. ts + x + PacketizationInterval + MaxDelay[r] < deadline
  BY <1>1, <1>2, <1>3, <1>4
<1> QED BY <1>5 DEF x

-----------------------------------------------------------------------------
\* What stays as it is while the source or the detection acts.
LEMMA OthersIdle ==
  ASSUME CallInv, now' \in Nat, now' - now \in Nat
  PROVE  /\ now \in Nat
         /\ RunsOn(dTimers, dTimers') /\ UNCHANGED continuity => DetectionQueue'
         /\ RunsOn(rPending, rPending') /\ UNCHANGED <<receiver, sent>>
               /\ (spokenID' = spokenID \/ spokenID' = spokenID + 1)
            => HeardInv' /\ (status = "ACTIVE" => Deadline' = Deadline)
         /\ RunsOn(vPending, vPending') /\ UNCHANGED source
            => /\ VoiceInv'
               /\ V!SelfSender \in Scheduled(vPending') =>
                     V!SelfSender \in Scheduled(vPending) /\ LastSent' = LastSent
<1>1. now \in Nat /\ spokenID \in Nat /\ IsQueue(vPending, VP!SenderTimers)
  BY VoiceNames DEF CallInv, VoiceInv, VP!SenderInv
<1>2. RunsOn(dTimers, dTimers') /\ UNCHANGED continuity => DetectionQueue'
  BY <1>1, TimersRunOn DEF CallInv, DetectionQueue, continuity
<1>3. ASSUME RunsOn(rPending, rPending') /\ UNCHANGED <<receiver, sent>>,
             spokenID' = spokenID \/ spokenID' = spokenID + 1
      PROVE  HeardInv' /\ (status = "ACTIVE" => Deadline' = Deadline)
  <2>1. spokenID \in Int /\ spokenID' \in Int /\ spokenID =< spokenID' /\ sent \subseteq sent'
    BY <1>1, <1>3
  <2> QED BY <1>1, <1>3, <2>1, ReceiverIdles DEF CallInv
<1>4. ASSUME RunsOn(vPending, vPending') /\ UNCHANGED source
      PROVE  /\ VoiceInv'
             /\ V!SelfSender \in Scheduled(vPending') =>
                   V!SelfSender \in Scheduled(vPending) /\ LastSent' = LastSent
  <2>1. VoiceInv'
    BY <1>1, <1>4, VoiceIdles DEF CallInv
  <2>2. /\ Scheduled(vPending') = Scheduled(vPending)
        /\ \A t \in Scheduled(vPending) : now' + vPending'.left[t] = now + vPending.left[t]
    BY <1>1, <1>4, TimersRunOn
  <2>3. UNCHANGED <<spokenNumPackets, packetID>>
    BY <1>4 DEF source
  <2> QED BY <2>1, <2>2, <2>3 DEF LastSent
<1> QED BY <1>1, <1>2, <1>3, <1>4

\* A handover only moves the packets to come.
LEMMA HandoverStep ==
  ASSUME CallInv, Handover
  PROVE  CallInv'
<1>1. /\ path' \in Paths
      /\ UNCHANGED <<now, vPending, source, dTimers, continuity, rPending, receiver, network>>
  BY DEF Handover, P!Begin, P!Commit, CallInv, NetworkInv
<1>2. VoiceInv'
  BY <1>1, VoiceStutters DEF CallInv
<1>3. DetectionQueue'
  BY <1>1 DEF CallInv, DetectionQueue, continuity
<1>4. NetworkInv'
  BY <1>1 DEF CallInv, NetworkInv, network, source, receiver
<1>5. HeardInv'
  BY <1>1 DEF CallInv, HeardInv, source, receiver
<1>6. WaitInv'
  BY <1>1 DEF CallInv, WaitInv, Deadline, LastSent, network, source, receiver
<1> QED BY <1>2, <1>3, <1>4, <1>5, <1>6 DEF CallInv

\* A new talkspurt is not the one the receiver collects.
LEMMA TalkOrSilenceStep ==
  ASSUME CallInv, TalkOrSilence
  PROVE  CallInv'
<1>1. /\ V!HandleSelfSource /\ RunsOn(dTimers, dTimers') /\ RunsOn(rPending, rPending')
      /\ UNCHANGED <<path, inFlight>> /\ UNCHANGED receiver /\ UNCHANGED continuity
  BY DEF TalkOrSilence, handover, network
<1>2. VoiceInv'
  BY <1>1, VoiceActs DEF CallInv
<1>3. /\ vPending.left[V!SelfSource] \in Nat /\ now' = now + vPending.left[V!SelfSource]
      /\ UNCHANGED sent
      /\ \/ spokenID' = spokenID + 1
         \/ /\ UNCHANGED <<spokenID, spokenNumPackets, packetID>>
            /\ V!SelfSender \in Scheduled(vPending') =>
                  /\ V!SelfSender \in Scheduled(vPending)
                  /\ now' + vPending'.left[V!SelfSender] = now + vPending.left[V!SelfSender]
  BY <1>1, VoiceAssumptions, VoiceStepNames, VoiceNames, VP!SourceKeeps DEF CallInv, VoiceInv
<1>4. now \in Nat /\ now' \in Nat /\ now' - now \in Nat /\ spokenID \in Nat
  BY <1>3 DEF CallInv, VoiceInv, VP!SenderInv
<1>5. DetectionQueue'
  BY <1>1, <1>4, OthersIdle
<1>6. HeardInv' /\ (status = "ACTIVE" => Deadline' = Deadline)
  BY <1>1, <1>3, <1>4, OthersIdle
<1>7. NetworkInv'
  BY <1>1, <1>3 DEF CallInv, NetworkInv, receiver
<1>8. WaitInv'
  <2> SUFFICES ASSUME status' = "ACTIVE" PROVE WaitInv'
    BY DEF WaitInv
  <2>1. status = "ACTIVE" /\ heardID' = heardID /\ Deadline' = Deadline
    BY <1>1, <1>6 DEF receiver
  <2>2. ASSUME heardID' = spokenID' - 1, V!SelfSender \in Scheduled(vPending'), NEW r \in Paths
        PROVE  LastSent' + MaxDelay[r] < Deadline'
    <3>1. spokenID' # spokenID + 1
      BY <1>4, <2>1, <2>2 DEF CallInv, HeardInv
    <3>2. LastSent' = LastSent /\ V!SelfSender \in Scheduled(vPending) /\ heardID = spokenID - 1
      BY <1>3, <2>1, <2>2, <3>1 DEF LastSent
    <3> QED BY <2>1, <3>2 DEF CallInv, WaitInv
  <2> QED BY <1>1, <2>1, <2>2 DEF CallInv, WaitInv
<1> QED BY <1>2, <1>5, <1>6, <1>7, <1>8 DEF CallInv

\* The detection changes nothing that matters to the call.
LEMMA DetectStep ==
  ASSUME CallInv, Detect
  PROVE  CallInv' /\ now' \in Nat /\ now' - now \in Nat
<1> DEFINE t == D!DetectionTimer
<1>1. /\ D!HandleDetectionTimer /\ RunsOn(vPending, vPending') /\ RunsOn(rPending, rPending')
      /\ UNCHANGED <<path, inFlight>> /\ UNCHANGED receiver /\ UNCHANGED source
  BY DEF Detect, handover, network
<1>2. /\ IsNext(dTimers, t) /\ now' = now + dTimers.left[t]
      /\ dTimers' = Deliver(dTimers, t) /\ isAppActive' = FALSE
  BY <1>1, DetectionNames DEF D!HandleDetectionTimer, D!numbering, CallInv, DetectionQueue
<1>3. IsQueue(dTimers', D!ContinuityTimers) /\ dTimers.left[t] \in Nat
  BY <1>2, DeliverQueue DEF CallInv, DetectionQueue, D!ContinuityTimers
<1>4. now \in Nat /\ now' \in Nat /\ now' - now \in Nat
  BY <1>2, <1>3 DEF CallInv, VoiceInv, VP!SenderInv
<1>5. /\ VoiceInv'
      /\ V!SelfSender \in Scheduled(vPending') =>
            V!SelfSender \in Scheduled(vPending) /\ LastSent' = LastSent
  BY <1>1, <1>4, OthersIdle
<1>6. UNCHANGED <<sent, spokenID>>
  BY <1>1 DEF source
<1>7. HeardInv' /\ (status = "ACTIVE" => Deadline' = Deadline)
  BY <1>1, <1>4, <1>6, OthersIdle
<1>8. NetworkInv'
  BY <1>1, <1>6 DEF CallInv, NetworkInv, receiver
<1>9. WaitInv'
  BY <1>1, <1>5, <1>6, <1>7 DEF CallInv, WaitInv, receiver
<1> QED BY <1>2, <1>3, <1>4, <1>5, <1>7, <1>8, <1>9 DEF CallInv, DetectionQueue

\* While a packet is to be sent the talkspurt is not complete.
LEMMA PacketsToCome ==
  ASSUME VoiceInv, V!SelfSender \in Scheduled(vPending)
  PROVE  /\ packetID \in Nat /\ spokenNumPackets \in Nat
         /\ spokenNumPackets - 1 - packetID \in Nat
<1>1. packetID \in Nat /\ (packetID = 0 \/ packetID < spokenNumPackets)
  BY VoiceNames DEF VoiceInv, VP!SenderInv, VP!NumbersInv, VP!SpurtInv
<1>2. spokenNumPackets \in Nat
  <2>1. UIntSize \div 2 \in Nat /\ spokenNumPackets \in 0 .. (UIntSize \div 2) - 1
    BY VoiceAssumptions, SMT DEF VoiceInv, VP!FitInv, VP!SenderAssumption
  <2> QED BY <2>1
<1>3. spokenNumPackets >= 1
  <2>1. spokenID >= 1
    BY VoiceNames DEF VoiceInv, VP!SenderInv
  <2> QED BY <2>1, VoiceAssumptions DEF VoiceInv, VP!FitInv
<1> QED BY <1>1, <1>2, <1>3

\* The packet that leaves takes no longer than the receiver waits for it.
LEMMA SendStep ==
  ASSUME CallInv, Send
  PROVE  CallInv'
<1> DEFINE l == vPending.left[V!SelfSender]
           n == spokenNumPackets
           k == packetID
           new == V!VoicePacket(now')
           i == [packet |-> new, path |-> path, sentAt |-> now']
<1>1. /\ V!HandleSelfSender /\ RunsOn(dTimers, dTimers') /\ RunsOn(rPending, rPending')
      /\ path' = path /\ UNCHANGED receiver /\ UNCHANGED continuity
      /\ inFlight' = inFlight \cup {i} \/ inFlight' = inFlight
  BY DEF Send, handover
<1>2. VoiceInv'
  BY <1>1, VoiceActs DEF CallInv
<1>3. /\ V!SelfSender \in Scheduled(vPending) /\ l \in Nat /\ now' = now + l
      /\ V!SelfSender \in Scheduled(vPending') <=> k + 1 < n
      /\ V!SelfSender \in Scheduled(vPending') =>
            vPending'.left[V!SelfSender] = PacketizationInterval
  BY <1>1, VoiceAssumptions, VoiceStepNames, VoiceNames, VP!SentQueue
     DEF CallInv, VoiceInv, VP!SenderInv
<1>4. /\ sent' = sent \cup {new} /\ packetID' = k + 1
      /\ UNCHANGED <<spokenID, spokenNumPackets>>
  BY <1>1 DEF V!HandleSelfSender, V!SendVoIPPacket
<1>5. /\ now \in Nat /\ now' \in Nat /\ now' - now \in Nat /\ spokenID \in Nat
      /\ k \in Nat /\ n \in Int /\ PacketizationInterval \in Nat
  BY <1>3, VoiceAssumptions DEF CallInv, VoiceInv, VP!SenderInv, VP!NumbersInv, VP!SpurtInv,
                                VP!SenderAssumption
<1>6. new.talkspurtID = spokenID - 1 /\ new.voipTimestamp = now' - PacketizationInterval
  BY DEF V!VoicePacket
<1>7. DetectionQueue'
  BY <1>1, <1>5, OthersIdle
<1>8. IsQueue(rPending', R!ReceiverTimers) /\ (status = "ACTIVE" => Deadline' = Deadline)
      /\ HeardInv'
  <2>1. /\ IsQueue(rPending', R!ReceiverTimers) /\ sent \subseteq sent' /\ spokenID' = spokenID
    BY <1>1, <1>4, <1>5, TimersRunOn DEF CallInv, HeardInv
  <2>2. spokenID \in Int /\ spokenID' \in Int /\ spokenID =< spokenID'
    BY <1>5, <2>1
  <2> QED BY <1>1, <1>5, <2>1, <2>2, ReceiverIdles DEF CallInv
<1>9. /\ i.packet = new /\ i.path = path /\ i.sentAt = now' /\ path \in Paths
      /\ i.sentAt = new.voipTimestamp + PacketizationInterval
  <2>1. now' = (now' - PacketizationInterval) + PacketizationInterval
    <3>1. \A a, b \in Nat : a = (a - b) + b
      OBVIOUS
    <3> QED BY <1>5, <3>1
  <2> QED BY <1>6, <2>1 DEF CallInv, NetworkInv
<1> HIDE DEF i, new
<1>10. NetworkInv'
  <2>1. \A j \in inFlight :
           /\ j.packet \in sent' /\ j.path \in Paths
           /\ j.sentAt = j.packet.voipTimestamp + PacketizationInterval
    BY <1>4 DEF CallInv, NetworkInv
  <2> QED BY <1>1, <1>4, <1>9, <2>1 DEF NetworkInv
<1> DEFINE m == n - 1 - k
           span == m * PacketizationInterval
<1>11. /\ m \in Int /\ m >= 0 /\ span \in Int /\ span >= 0
       /\ (n - 1 - (k + 1)) * PacketizationInterval = span - PacketizationInterval
  <2>1. m \in Int /\ m >= 0
    BY <1>3, PacketsToCome DEF CallInv
  <2>2. n - 1 - (k + 1) = m + (-1) /\ -1 \in Int
    BY <1>5
  <2>3. (-1) * PacketizationInterval = -PacketizationInterval
    BY <1>5
  <2>4. span \in Int /\ span >= 0
        /\ (m + (-1)) * PacketizationInterval = span + (-1) * PacketizationInterval
    <3> HIDE DEF m
    <3> QED BY <2>1, <2>2, Intervals
  <2>5. (n - 1 - (k + 1)) * PacketizationInterval = span + (-1) * PacketizationInterval
    BY <2>2, <2>4
  <2> HIDE DEF m, span
  <2> QED BY <1>5, <2>1, <2>3, <2>4, <2>5
<1>12. WaitInv'
  <2> SUFFICES ASSUME status' = "ACTIVE" PROVE WaitInv'
    BY DEF WaitInv
  <2>1. status = "ACTIVE" /\ heardID' = heardID /\ Deadline' = Deadline
    BY <1>1, <1>8 DEF receiver
  <2>2. ASSUME heardID = spokenID - 1, NEW r \in Paths
        PROVE  now + l + span + MaxDelay[r] < Deadline
    BY <1>3, <2>1, <2>2 DEF CallInv, WaitInv, LastSent
  <2>3. Deadline \in Nat
    <3>1. rPending.left[R!TalkspurtFinished] \in Nat
      BY <2>1 DEF CallInv, HeardInv, IsQueue, Scheduled
    <3> QED BY <1>5, <3>1 DEF Deadline
  <2>4. \A r \in Paths : MaxDelay[r] \in Nat
    BY CallAssumption
  <2> HIDE DEF m, span
  <2>5. ASSUME NEW j \in inFlight', j.packet.talkspurtID = heardID'
        PROVE  j.sentAt + MaxDelay[j.path] < Deadline'
    <3>1. CASE j \in inFlight
      BY <2>1, <2>5, <3>1 DEF CallInv, WaitInv
    <3>2. CASE j = i
      <4>1. heardID = spokenID - 1
        BY <1>6, <1>9, <2>1, <2>5, <3>2
      <4>2. now + l + span + MaxDelay[path] < Deadline
        BY <1>9, <2>2, <4>1
      <4>3. now + l + MaxDelay[path] < Deadline
        BY <1>3, <1>5, <1>9, <1>11, <2>3, <2>4, <4>2
      <4> QED BY <1>3, <1>9, <2>1, <3>2, <4>3
    <3> QED BY <1>1, <2>5, <3>1, <3>2
  <2>6. ASSUME heardID' = spokenID' - 1, V!SelfSender \in Scheduled(vPending'), NEW r \in Paths
        PROVE  LastSent' + MaxDelay[r] < Deadline'
    <3>1. LastSent' = (now + l) + PacketizationInterval + (span - PacketizationInterval)
      <4>1. LastSent' = now' + PacketizationInterval + (n - 1 - (k + 1)) * PacketizationInterval
        BY <1>3, <1>4, <2>6 DEF LastSent
      <4> QED BY <1>3, <1>11, <4>1
    <3>2. LastSent' = now + l + span
      BY <1>3, <1>5, <1>11, <3>1
    <3> QED BY <1>4, <2>1, <2>2, <2>6, <3>2
  <2> QED BY <2>5, <2>6 DEF WaitInv
<1> QED BY <1>2, <1>7, <1>8, <1>10, <1>12 DEF CallInv

\* The packet that begins a talkspurt sets a deadline no other can miss.
LEMMA ArriveStep ==
  ASSUME CallInv, NEW i \in inFlight, NEW time \in Arrival(i), time >= now, Arrive(i, time)
  PROVE  CallInv'
<1> DEFINE p == i.packet
           id == p.packetID
           n == p.talkspurtNumPackets
           ts == p.voipTimestamp
<1>1. VoiceInv /\ NetworkInv /\ HeardInv /\ WaitInv /\ DetectionQueue
  BY DEF CallInv
<1>2. now \in Nat /\ spokenID \in Nat /\ vPending \in {vPending}
      /\ IsQueue(vPending, VP!SenderTimers)
  BY <1>1, VoiceNames DEF VoiceInv, VP!SenderInv
<1>3. time \in Nat /\ now' = time /\ now' - now \in Nat
      /\ i.sentAt + MinDelay[i.path] =< time
      /\ i.sentAt = ts + PacketizationInterval
  <2>1. time \in Int /\ i.sentAt + MinDelay[i.path] =< time
        /\ i.sentAt = ts + PacketizationInterval
    BY <1>1, UnderWay
  <2> QED BY <1>2, <2>1 DEF Arrive
<1>4. /\ RunsOn(vPending, vPending') /\ RunsOn(dTimers, dTimers') /\ OnTime
      /\ inFlight' = inFlight \ {i}
      /\ UNCHANGED <<path, over>> /\ UNCHANGED continuity /\ UNCHANGED source
  BY DEF Arrive, handover
<1>5. DetectionQueue'
  BY <1>3, <1>4, OthersIdle
<1>6. /\ VoiceInv'
      /\ V!SelfSender \in Scheduled(vPending') =>
            V!SelfSender \in Scheduled(vPending) /\ LastSent' = LastSent
  BY <1>3, <1>4, OthersIdle
<1>7. /\ HeardInv'
      /\ \/ /\ status' = "ACTIVE" /\ heardID' = p.talkspurtID /\ Deadline' \in Nat
            /\ Deadline' >= now' + (n - id) * PacketizationInterval + MosSpareTime
         \/ /\ status' = status /\ heardID' = heardID
            /\ status = "ACTIVE" => Deadline' = Deadline
  BY <1>1, <1>3, PacketArrives
<1>8. UNCHANGED <<sent, spokenID, spokenNumPackets, packetID>>
  BY <1>4 DEF source
<1>9. heardID' \in Int /\ heardID \in Int /\ p \in sent
  BY <1>1, <1>7 DEF HeardInv, NetworkInv
<1>10. NetworkInv'
  BY <1>1, <1>4, <1>8 DEF NetworkInv
<1>11. CASE status' = status /\ heardID' = heardID /\ (status = "ACTIVE" => Deadline' = Deadline)
  <2>1. WaitInv'
    BY <1>1, <1>4, <1>6, <1>8, <1>11 DEF WaitInv
  <2> QED BY <1>5, <1>6, <1>7, <1>10, <2>1 DEF CallInv
<1>12. CASE /\ status' = "ACTIVE" /\ heardID' = p.talkspurtID /\ Deadline' \in Nat
            /\ Deadline' >= now' + (n - id) * PacketizationInterval + MosSpareTime
  <2>1. /\ n \in Nat /\ id \in Nat /\ id =< n - 1 /\ ts \in Int /\ p.talkspurtID \in Nat
        /\ i.path \in Paths /\ MinDelay[i.path] \in Nat /\ PacketizationInterval \in Nat
    BY <1>1, <1>9, SentFacts, UnderWay, VoiceAssumptions DEF VP!SenderAssumption
  <2>2. /\ time \in Int /\ time >= ts + PacketizationInterval + MinDelay[i.path]
        /\ Deadline' >= time + (n - id) * PacketizationInterval + MosSpareTime
    BY <1>3, <1>12
  <2> HIDE DEF p, id, n, ts
  <2>3. ASSUME NEW k \in Int, k =< n - 1, NEW r \in Paths
        PROVE  ts + (k - id) * PacketizationInterval + PacketizationInterval + MaxDelay[r]
                  < Deadline'
    <3> DEFINE deadline == Deadline'
    <3>1. deadline \in Nat /\ deadline >= time + (n - id) * PacketizationInterval + MosSpareTime
      BY <1>12, <2>2
    <3>2. n \in Int /\ id \in Int
      BY <2>1
    <3> HIDE DEF deadline
    <3>3. ts + (k - id) * PacketizationInterval + PacketizationInterval + MaxDelay[r] < deadline
      BY <2>1, <2>2, <2>3, <3>1, <3>2, EnoughTime
    <3> QED BY <3>3 DEF deadline
  <2>4. ASSUME NEW j \in inFlight', j.packet.talkspurtID = heardID'
        PROVE  j.sentAt + MaxDelay[j.path] < Deadline'
    <3> DEFINE k == j.packet.packetID
    <3>1. j \in inFlight /\ j.packet \in sent /\ j.path \in Paths
          /\ j.sentAt = j.packet.voipTimestamp + PacketizationInterval
      BY <1>1, <1>4, UnderWay
    <3>2. j.packet.talkspurtID = p.talkspurtID
      BY <1>12, <2>4
    <3>3. j.packet.talkspurtNumPackets = n
          /\ j.packet.voipTimestamp = ts + (k - id) * PacketizationInterval
      BY <1>1, <1>9, <3>1, <3>2, SentPairs DEF n, ts, id
    <3>4. k \in Int /\ k =< n - 1
      BY <1>1, <2>1, <3>1, <3>3, SentFacts
    <3> HIDE DEF k
    <3>5. ts + (k - id) * PacketizationInterval + PacketizationInterval + MaxDelay[j.path]
             < Deadline'
      BY <2>3, <3>1, <3>4
    <3> QED BY <3>1, <3>3, <3>5
  <2>5. ASSUME heardID' = spokenID' - 1, V!SelfSender \in Scheduled(vPending'), NEW r \in Paths
        PROVE  LastSent' + MaxDelay[r] < Deadline'
    <3> DEFINE l == vPending.left[V!SelfSender]
               k == packetID
    <3>1. V!SelfSender \in Scheduled(vPending) /\ LastSent' = LastSent
      BY <1>6, <2>5
    <3>2. p.talkspurtID = spokenID - 1
      BY <1>8, <1>12, <2>5
    <3>3. now + l - PacketizationInterval = ts + (k - id) * PacketizationInterval
          /\ n = VP!UInt(spokenNumPackets)
      BY <1>1, <1>9, <3>1, <3>2, VoiceNames
         DEF VoiceInv, VP!NumbersInv, VP!SpurtInv, VP!NewestSpurt, VP!Span, n, ts, id
    <3>4. spokenNumPackets = n
      <4>1. spokenNumPackets \in 0 .. (UIntSize \div 2) - 1
        BY <1>1 DEF VoiceInv, VP!FitInv
      <4>2. UIntSize \div 2 \in Nat
        BY VoiceAssumptions, SMT DEF VP!SenderAssumption
      <4>3. spokenNumPackets \in -(UIntSize \div 2) .. (UIntSize \div 2) - 1
            /\ spokenNumPackets >= 0
        BY <4>1, <4>2
      <4> QED BY <3>3, <4>3, VoiceAssumptions, VP!UIntOfInt
    <3>5. l \in Nat /\ k \in Int
      BY <1>1, <1>2, <3>1 DEF IsQueue, Scheduled, VoiceInv, VP!SenderInv
    <3> DEFINE x == (k - id) * PacketizationInterval
               y == (n - 1 - k) * PacketizationInterval
               z == (n - 1 - id) * PacketizationInterval
    <3>6. x \in Int /\ y \in Int /\ z = x + y
      <4>1. k - id \in Int /\ n - 1 - k \in Int /\ (k - id) + (n - 1 - k) = n - 1 - id
        BY <2>1, <3>5
      <4>2. /\ x \in Int /\ y \in Int
            /\ ((k - id) + (n - 1 - k)) * PacketizationInterval = x + y
        BY <4>1, Intervals
      <4> QED BY <4>1, <4>2
    <3>7. LastSent = now + l + y
      BY <3>4 DEF LastSent
    <3>8. now + l - PacketizationInterval = ts + x
      BY <3>3
    <3>9. ts + z + PacketizationInterval + MaxDelay[r] < Deadline'
      <4>1. n - 1 \in Int /\ n - 1 =< n - 1
        BY <2>1
      <4> QED BY <2>3, <4>1
    <3> HIDE DEF x, y, z, l, k
    <3>10. LastSent = ts + z + PacketizationInterval
      BY <1>2, <2>1, <3>5, <3>6, <3>7, <3>8
    <3> QED BY <3>1, <3>9, <3>10
  <2>6. WaitInv'
    BY <2>4, <2>5 DEF WaitInv
  <2> QED BY <1>5, <1>6, <1>7, <1>10, <2>6 DEF CallInv
<1> QED BY <1>7, <1>11, <1>12

\* The timer arrives: the talkspurt is over.
LEMMA TalkspurtFinishedStep ==
  ASSUME CallInv, TalkspurtFinished
  PROVE  /\ CallInv'
         /\ status = "ACTIVE" /\ now' = Deadline /\ now' \in Nat /\ now' - now \in Nat
         /\ last'.talkspurtID = heardID
<1> DEFINE t == R!TalkspurtFinished
<1>1. /\ IsNext(rPending, t) /\ now' = now + rPending.left[t] /\ rPending' = Deliver(rPending, t)
      /\ R!Evaluate("timer") /\ status' = "FINISHED" /\ UNCHANGED <<heardID, heardNumPackets>>
      /\ RunsOn(vPending, vPending') /\ RunsOn(dTimers, dTimers')
      /\ UNCHANGED <<path, inFlight>> /\ UNCHANGED source /\ UNCHANGED continuity
  BY ReceiverNames DEF TalkspurtFinished, R!HandleTalkspurtFinished, R!TimerArrives,
                       R!FinishTalkspurt, handover, network
<1>2. HeardInv /\ NetworkInv
  BY DEF CallInv
<1>3. /\ IsQueue(rPending', R!ReceiverTimers) /\ rPending.left[t] \in Nat
      /\ t \notin Scheduled(rPending')
  BY <1>1, <1>2, DeliverQueue DEF HeardInv, R!ReceiverTimers
<1>4. status = "ACTIVE"
  BY <1>1, <1>2 DEF IsNext, HeardInv
<1>5. now \in Nat /\ now' \in Nat /\ now' - now \in Nat
  BY <1>1, <1>3 DEF CallInv, VoiceInv, VP!SenderInv
<1>6. playoutDelay' \in Nat /\ last'.talkspurtID = heardID
  BY <1>1, <1>2, <1>4, EvaluationAdapts
<1>7. VoiceInv' /\ DetectionQueue'
  BY <1>1, <1>5, OthersIdle
<1>8. UNCHANGED <<sent, spokenID>>
  BY <1>1 DEF source
<1>9. HeardInv'
  BY <1>1, <1>2, <1>3, <1>6, <1>8 DEF HeardInv
<1>10. NetworkInv'
  BY <1>1, <1>2, <1>8 DEF NetworkInv
<1>11. WaitInv'
  BY <1>1 DEF WaitInv
<1> QED BY <1>1, <1>4, <1>5, <1>6, <1>7, <1>9, <1>10, <1>11 DEF CallInv, Deadline

\* The simulation ends: the talkspurt under way is evaluated as it is.
LEMMA FinishStep ==
  ASSUME CallInv, Finish
  PROVE  CallInv' /\ (last' # last => last'.cause = "finish")
<1> DEFINE t == R!TalkspurtFinished
<1>1. /\ rPending' = Cancel(rPending, t) /\ UNCHANGED <<now, heardID, path>>
      /\ \/ status = "ACTIVE" /\ R!Evaluate("finish") /\ status' = "FINISHED"
         \/ status # "ACTIVE" /\ UNCHANGED <<status, playoutDelay, last>>
      /\ UNCHANGED <<vPending, inFlight>> /\ UNCHANGED source
      /\ UNCHANGED dTimers /\ UNCHANGED continuity
  BY ReceiverNames DEF Finish, R!Finish, R!FinishTalkspurt, P!Stop, network
<1>2. HeardInv /\ NetworkInv
  BY DEF CallInv
<1>3. IsQueue(rPending', R!ReceiverTimers) /\ t \notin Scheduled(rPending')
  BY <1>1, <1>2, CancelQueue DEF HeardInv, R!ReceiverTimers
<1>4. status' # "ACTIVE" /\ playoutDelay' \in Nat /\ (last' # last => last'.cause = "finish")
  BY <1>1, <1>2, EvaluationAdapts DEF HeardInv
<1>5. VoiceInv'
  BY <1>1, VoiceStutters DEF CallInv
<1>6. DetectionQueue'
  BY <1>1 DEF CallInv, DetectionQueue, continuity
<1>7. UNCHANGED <<sent, spokenID>>
  BY <1>1 DEF source
<1>8. HeardInv'
  BY <1>1, <1>2, <1>3, <1>4, <1>7 DEF HeardInv
<1>9. NetworkInv'
  BY <1>1, <1>2, <1>7 DEF NetworkInv
<1>10. WaitInv'
  BY <1>4 DEF WaitInv
<1> QED BY <1>4, <1>5, <1>6, <1>8, <1>9, <1>10 DEF CallInv

\* Every event keeps the invariant.
LEMMA StepCall ==
  ASSUME CallInv, [Next]_vars
  PROVE  CallInv'
<1>1. CASE Handover
  BY <1>1, HandoverStep
<1>2. CASE TalkOrSilence
  BY <1>2, TalkOrSilenceStep
<1>3. CASE Send
  BY <1>3, SendStep
<1>4. CASE Detect
  BY <1>4, DetectStep
<1>5. CASE TalkspurtFinished
  BY <1>5, TalkspurtFinishedStep
<1>6. CASE Finish
  BY <1>6, FinishStep
<1>7. CASE \E i \in inFlight : \E time \in Arrival(i) : time >= now /\ Arrive(i, time)
  BY <1>7, ArriveStep
<1>8. CASE UNCHANGED vars
  <2>1. VoiceInv'
    BY <1>8, VoiceStutters DEF vars, CallInv
  <2>2. /\ UNCHANGED <<now, path, vPending, dTimers, rPending, inFlight>>
        /\ UNCHANGED source /\ UNCHANGED continuity /\ UNCHANGED receiver
    BY <1>8 DEF vars, handover, network
  <2>3. DetectionQueue' /\ NetworkInv' /\ HeardInv'
    BY <2>2 DEF CallInv, DetectionQueue, NetworkInv, HeardInv, source, continuity, receiver
  <2>4. WaitInv'
    BY <2>2 DEF CallInv, WaitInv, Deadline, LastSent, source, receiver
  <2> QED BY <2>1, <2>3, <2>4 DEF CallInv
<1> QED BY <1>1, <1>2, <1>3, <1>4, <1>5, <1>6, <1>7, <1>8 DEF Next

\* It holds before the call.
LEMMA InitCall == Init => CallInv
<1> SUFFICES ASSUME Init PROVE CallInv
  OBVIOUS
<1>1. VP!Init /\ P!Init /\ D!Init /\ R!Init /\ inFlight = {} /\ sent = {}
  BY VoiceStepNames DEF Init, V!Init
<1>2. VP!SenderInv /\ VP!NumbersInv /\ VP!FitInv
  BY <1>1, VoiceAssumptions, VP!InitSender, VP!InitNumbers, VP!InitFits
<1>3. VP!TypeOK
  <2>1. /\ now \in Nat /\ VP!IsQueue(vPending, VP!SenderTimers) /\ isTalk \in BOOLEAN
        /\ spokenID \in Nat /\ packetID \in Nat
    BY <1>2 DEF VP!SenderInv
  <2> QED BY <1>1, <2>1 DEF VP!Init, VP!TypeOK
<1>4. DetectionQueue
  <2>1. D!DetectionTimer \in D!ContinuityTimers /\ HandoverDetectionInterval \in Nat
    BY ComponentsAssumption DEF D!ContinuityTimers, D!ContinuityAssumption
  <2>2. IsQueue(EmptyQueue(D!ContinuityTimers), D!ContinuityTimers)
    BY DEF EmptyQueue, IsQueue
  <2>3. IsQueue(dTimers, D!ContinuityTimers)
    BY <1>1, <2>1, <2>2, DetectionNames, ScheduleAfterQueue DEF D!Init
  <2> QED BY <1>1, <2>3 DEF D!Init, DetectionQueue
<1>5. HeardInv
  <2>1. /\ IsQueue(EmptyQueue(R!ReceiverTimers), R!ReceiverTimers)
        /\ Scheduled(EmptyQueue(R!ReceiverTimers)) = {}
    BY DEF EmptyQueue, IsQueue, Scheduled
  <2>2. /\ rPending = EmptyQueue(R!ReceiverTimers) /\ status = "EMPTY" /\ heardID = -1
        /\ playoutDelay = InitialPlayoutDelay
    BY <1>1, ReceiverNames DEF R!Init
  <2>3. playoutDelay \in Nat /\ spokenID = 0
    BY <1>1, <2>2, ComponentsAssumption DEF R!ReceiverAssumption, VP!Init
  <2> QED BY <2>1, <2>2, <2>3 DEF HeardInv
<1>6. NetworkInv
  BY <1>1 DEF P!Init, NetworkInv
<1>7. WaitInv
  BY <1>1 DEF R!Init, WaitInv
<1> QED BY <1>2, <1>3, <1>4, <1>5, <1>6, <1>7 DEF CallInv, VoiceInv

-----------------------------------------------------------------------------
\* Source, network and receiver of one call, on any paths with any handovers: what was
\* sent, what is under way, and how long the receiver waits for it.
THEOREM CallInvariant == Spec => []CallInv
BY InitCall, StepCall, PTL DEF Spec

\* checkPacket never fails, and a packet's number says when its voice was spoken.
THEOREM SourceMeetsReceiver == Spec => []CallMeetsReceiver
<1>1. CallInv => CallMeetsReceiver
  <2> SUFFICES ASSUME CallInv, NEW p \in sent, NEW q \in sent
               PROVE  /\ p.packetID < p.talkspurtNumPackets
                      /\ p.talkspurtID = q.talkspurtID =>
                            /\ p.talkspurtNumPackets = q.talkspurtNumPackets
                            /\ q.voipTimestamp - p.voipTimestamp
                                  = (q.packetID - p.packetID) * PacketizationInterval
    BY DEF CallMeetsReceiver
  <2> DEFINE m == q.packetID - p.packetID
             span == m * PacketizationInterval
  <2>1. /\ p.talkspurtNumPackets \in Nat /\ p.packetID \in 0 .. p.talkspurtNumPackets - 1
        /\ q.packetID \in Int /\ p.voipTimestamp \in Int /\ q.voipTimestamp \in Int
    BY SentFacts DEF CallInv
  <2>2. m \in Int
    BY <2>1
  <2>3. span \in Int
    <3> HIDE DEF m
    <3> QED BY <2>2, Intervals
  <2>4. p.talkspurtID = q.talkspurtID =>
           /\ p.talkspurtNumPackets = q.talkspurtNumPackets
           /\ q.voipTimestamp = p.voipTimestamp + span
    BY SentPairs DEF CallInv
  <2> HIDE DEF span
  <2>5. p.talkspurtID = q.talkspurtID =>
           /\ p.talkspurtNumPackets = q.talkspurtNumPackets
           /\ q.voipTimestamp - p.voipTimestamp = span
    BY <2>1, <2>3, <2>4
  <2> QED BY <2>1, <2>5 DEF span
<1> QED BY <1>1, CallInvariant, PTL

\* Time does not run backwards.
LEMMA ClockRuns ==
  ASSUME CallInv, [Next]_vars
  PROVE  now \in Nat /\ now' \in Nat /\ now' - now \in Nat
<1>1. now \in Nat /\ VoiceInv /\ NetworkInv
  BY DEF CallInv, VoiceInv, VP!SenderInv
<1>2. CASE TalkOrSilence
  <2>1. vPending.left[V!SelfSource] \in Nat /\ now' = now + vPending.left[V!SelfSource]
    BY <1>1, <1>2, VoiceAssumptions, VoiceStepNames, VoiceNames, VP!SourceKeeps
       DEF TalkOrSilence, VoiceInv
  <2> QED BY <1>1, <2>1
<1>3. CASE Send
  <2>1. vPending.left[V!SelfSender] \in Nat /\ now' = now + vPending.left[V!SelfSender]
    BY <1>1, <1>3, VoiceAssumptions, VoiceStepNames, VoiceNames, VP!SentQueue
       DEF Send, VoiceInv, VP!SenderInv
  <2> QED BY <1>1, <2>1
<1>4. CASE Detect
  BY <1>1, <1>4, DetectStep
<1>5. CASE TalkspurtFinished
  BY <1>1, <1>5, TalkspurtFinishedStep
<1>6. CASE \E i \in inFlight : \E time \in Arrival(i) : time >= now /\ Arrive(i, time)
  <2>1. now' \in Int /\ now' >= now
    BY <1>1, <1>6, UnderWay DEF Arrive
  <2>2. \A a \in Nat : \A b \in Int : b >= a => b \in Nat /\ b - a \in Nat
    OBVIOUS
  <2> QED BY <1>1, <2>1, <2>2
<1>7. CASE Handover \/ Finish \/ UNCHANGED vars
  <2>1. now' = now
    BY <1>7 DEF Handover, Finish, R!Finish, vars
  <2> QED BY <1>1, <2>1
<1> QED BY <1>2, <1>3, <1>4, <1>5, <1>6, <1>7 DEF Next

\* With the detection interval longer than two sending intervals, as both are
\* by default (VoIPWithHandover.ned), the finding on detection is the rule: one
\* handover is reported in every call, whether there is one or not.
THEOREM OneReportPerCall ==
  ASSUME HandoverDetectionInterval > 2 * SendInterval
  PROVE  Spec => []OneReport
<1>1. Init => DetectionInv
  <2> SUFFICES ASSUME Init PROVE DetectionInv
    OBVIOUS
  <2> DEFINE t == D!DetectionTimer
             e == EmptyQueue(D!ContinuityTimers)
  <2>1. D!Init /\ now = 0
    BY DEF Init, V!Init
  <2>2. t \in D!ContinuityTimers /\ HandoverDetectionInterval \in Nat
    BY ComponentsAssumption DEF D!ContinuityTimers, D!ContinuityAssumption
  <2>3. IsQueue(e, D!ContinuityTimers) /\ Scheduled(e) = {}
    BY DEF EmptyQueue, IsQueue, Scheduled
  <2>4. dTimers = ScheduleAfter(e, t, HandoverDetectionInterval)
    BY <2>1, DetectionNames DEF D!Init
  <2> HIDE DEF e
  <2>5. /\ IsQueue(dTimers, D!ContinuityTimers) /\ Scheduled(dTimers) = {t}
        /\ dTimers.left[t] = HandoverDetectionInterval
    BY <2>2, <2>3, <2>4, ScheduleAfterQueue
  <2> QED BY <2>1, <2>2, <2>5 DEF D!Init, DetectionInv, OneReport
<1>2. ASSUME CallInv, DetectionInv, [Next]_vars
      PROVE  DetectionInv'
  <2>1. now \in Nat /\ now' \in Nat /\ now' - now \in Nat
    BY <1>2, ClockRuns
  <2>2. CASE Detect
    BY <1>2, <2>1, <2>2, DetectionActs DEF Detect
  <2>3. CASE /\ RunsOn(dTimers, dTimers') /\ UNCHANGED continuity
    BY <1>2, <2>1, <2>3, DetectionIdles
  <2>4. CASE UNCHANGED <<now, dTimers, continuity>>
    BY <1>2, <2>4 DEF DetectionInv, OneReport, continuity
  <2>5. CASE Handover \/ Finish \/ UNCHANGED vars
    <3>1. UNCHANGED <<now, dTimers, continuity>>
      BY <2>5 DEF Handover, Finish, R!Finish, vars
    <3> QED BY <2>4, <3>1
  <2>6. CASE TalkOrSilence \/ Send \/ TalkspurtFinished
    BY <2>3, <2>6 DEF TalkOrSilence, Send, TalkspurtFinished
  <2>7. CASE \E i \in inFlight : \E time \in Arrival(i) : time >= now /\ Arrive(i, time)
    BY <2>3, <2>7 DEF Arrive
  <2> QED BY <1>2, <2>2, <2>5, <2>6, <2>7 DEF Next
<1>3. DetectionInv => OneReport
  BY DEF DetectionInv
<1> QED BY <1>1, <1>2, <1>3, CallInvariant, PTL DEF Spec

\* When the timer of startTalkspurt gives a talkspurt up, none of its packets is
\* under way or yet to be sent, whatever path each of them takes.
THEOREM TimerWaitsForTheWholeTalkspurt == Spec => TimerWaitsForTheCall
<1> DEFINE Waits ==
        last' # last /\ last'.cause = "timer" =>
            /\ \A i \in inFlight : i.packet.talkspurtID # last'.talkspurtID
            /\ last'.talkspurtID = spokenID - 1 => V!SelfSender \notin Scheduled(vPending)
<1>1. ASSUME CallInv, Next PROVE Waits
  <2>1. CASE TalkspurtFinished
    <3>1. /\ status = "ACTIVE" /\ now' = Deadline /\ now \in Nat /\ now' \in Nat
          /\ now' - now \in Nat /\ last'.talkspurtID = heardID
      BY <1>1, <2>1, TalkspurtFinishedStep DEF CallInv, VoiceInv, VP!SenderInv
    <3>2. OnTime /\ RunsOn(vPending, vPending')
      BY <2>1 DEF TalkspurtFinished
    <3>3. ASSUME NEW i \in inFlight, i.packet.talkspurtID = heardID PROVE FALSE
      <4>1. i.sentAt + MaxDelay[i.path] < now'
        BY <1>1, <3>1, <3>3 DEF CallInv, WaitInv
      <4>2. now' =< i.sentAt + MaxDelay[i.path]
        BY <1>1, <3>2, UnderWay DEF CallInv, OnTime
      <4>3. i.sentAt \in Int /\ MaxDelay[i.path] \in Nat
        BY <1>1, UnderWay DEF CallInv
      <4> QED BY <3>1, <4>1, <4>2, <4>3
    <3>4. ASSUME heardID = spokenID - 1, V!SelfSender \in Scheduled(vPending) PROVE FALSE
      <4> DEFINE l == vPending.left[V!SelfSender]
                 m == spokenNumPackets - 1 - packetID
                 span == m * PacketizationInterval
      <4>1. LastSent + MaxDelay[path] < now' /\ path \in Paths
        BY <1>1, <3>1, <3>4 DEF CallInv, WaitInv, NetworkInv
      <4>2. l \in Nat /\ now' =< now + l
        <5>1. IsQueue(vPending, VP!SenderTimers)
          BY <1>1, VoiceNames DEF CallInv, VoiceInv, VP!SenderInv
        <5> QED BY <3>1, <3>2, <3>4, <5>1, TimersRunOn
      <4>3. m \in Int /\ m >= 0
        BY <1>1, <3>4, PacketsToCome DEF CallInv
      <4>4. span \in Int /\ span >= 0
        <5> HIDE DEF m
        <5> QED BY <4>3, Intervals
      <4>5. LastSent = now + l + span
        BY DEF LastSent
      <4>6. MaxDelay[path] \in Nat
        BY <4>1, CallAssumption
      <4> HIDE DEF l, span
      <4> QED BY <3>1, <4>1, <4>2, <4>4, <4>5, <4>6
    <3> QED BY <3>1, <3>3, <3>4
  <2>2. CASE Handover \/ TalkOrSilence \/ Send \/ Detect
    BY <2>2 DEF Handover, TalkOrSilence, Send, Detect, receiver
  <2>3. CASE Finish
    BY <1>1, <2>3, FinishStep
  <2>4. CASE \E i \in inFlight : \E time \in Arrival(i) : time >= now /\ Arrive(i, time)
    <3>0. PICK i \in inFlight : \E time : Arrive(i, time)
      BY <2>4
    <3>1. PICK time : Arrive(i, time)
      BY <3>0
    <3> DEFINE q == Elapse(rPending, time - now)
    <3>2. R!SocketDataArrived(q, i.packet)
      BY <3>1 DEF Arrive
    <3> HIDE DEF q
    <3>3. UNCHANGED last \/ (status = "ACTIVE" /\ R!Evaluate("newer"))
      BY <3>2 DEF R!SocketDataArrived, R!FirstTalkspurt, R!NewTalkspurt, R!ContinuedTalkspurt,
                  R!OlderTalkspurt
    <3>4. UNCHANGED last \/ last'.cause = "newer"
      BY <1>1, <3>3, EvaluationAdapts DEF CallInv
    <3> QED BY <3>4
  <2> QED BY <1>1, <2>1, <2>2, <2>3, <2>4 DEF Next
<1>2. CallInv /\ [Next]_vars => [Waits]_vars
  BY <1>1
<1> QED BY <1>2, CallInvariant, PTL DEF Spec, TimerWaitsForTheCall

-----------------------------------------------------------------------------
\* Where the packets of the talkspurts not yet evaluated are.
InTransit(p) == \E i \in inFlight : i.packet = p
HeardNumbers == {packets[k].packetID : k \in 1 .. Len(packets)}

\* Every packet is in one place: lost, under way, or with the receiver.
AccountInv ==
    /\ lost \subseteq sent
    /\ status = "EMPTY" => heardID = -1
    /\ \A i \in inFlight :
          i.packet \notin lost /\ \A j \in inFlight : i.packet = j.packet => i = j
    /\ \A p \in sent :
          p.talkspurtID > heardID \/ (p.talkspurtID = heardID /\ status = "ACTIVE") =>
              \/ p \in lost \/ InTransit(p)
              \/ p.talkspurtID = heardID /\ p.packetID \in HeardNumbers
    /\ status = "ACTIVE" =>
          /\ \A j, k \in 1 .. Len(packets) : packets[j].packetID = packets[k].packetID => j = k
          /\ \A m \in HeardNumbers :
                \E p \in sent : /\ p.talkspurtID = heardID /\ p.packetID = m
                               /\ p \notin lost /\ ~InTransit(p)
    /\ \A p \in sent : \A m \in 0 .. p.packetID - 1 :
          \E q \in sent : q.talkspurtID = p.talkspurtID /\ q.packetID = m

\* No two packets bear the same numbers.
LEMMA NumberedOnce ==
  ASSUME VoiceInv, NEW p \in sent, NEW q \in sent,
         p.talkspurtID = q.talkspurtID, p.packetID = q.packetID
  PROVE  p = q
<1> SUFFICES ASSUME p # q PROVE FALSE
  OBVIOUS
<1>1. /\ p.voipTimestamp \in Int /\ q.voipTimestamp \in Int /\ PacketizationInterval \in Nat \ {0}
      /\ p.talkspurtID \in Nat /\ p.packetID \in Nat
  BY SentFacts, VoiceAssumptions DEF VP!SenderAssumption
<1>2. \/ p.voipTimestamp + PacketizationInterval =< q.voipTimestamp
      \/ q.voipTimestamp + PacketizationInterval =< p.voipTimestamp
  BY DEF VoiceInv, VP!SenderInv, VP!VoiceDoesNotOverlap
<1>3. p.voipTimestamp < q.voipTimestamp \/ q.voipTimestamp < p.voipTimestamp
  BY <1>1, <1>2
<1>4. p.talkspurtID < q.talkspurtID \/ q.talkspurtID < p.talkspurtID
      \/ p.packetID < q.packetID \/ q.packetID < p.packetID
  BY <1>3 DEF VoiceInv, VP!SenderInv, VP!NumberingFollowsVoice
<1> QED BY <1>1, <1>4

\* While nothing is sent, lost or heard every packet stays where it is.
LEMMA NothingMoves ==
  AccountInv /\ UNCHANGED <<sent, lost, inFlight, status, heardID, packets>> => AccountInv'
BY DEF AccountInv, InTransit, HeardNumbers

\* A talkspurt that is over needs no account.
LEMMA AccountClosed ==
  ASSUME AccountInv, UNCHANGED <<sent, lost, inFlight, heardID>>, status' # "ACTIVE",
         status' = "EMPTY" => status = "EMPTY", HeardInv, VoiceInv
  PROVE  AccountInv'
<1>1. \A p \in sent : InTransit(p)' <=> InTransit(p)
  BY DEF InTransit
<1>2. ASSUME NEW p \in sent, p.talkspurtID > heardID
      PROVE  p \in lost \/ InTransit(p)
  <2>1. p.talkspurtID \in Nat /\ heardID \in Int
    BY SentFacts DEF HeardInv
  <2> QED BY <1>2, <2>1 DEF AccountInv
<1> QED BY <1>1, <1>2 DEF AccountInv

\* The packet that leaves is new.
LEMMA AccountSend ==
  ASSUME CallInv, AccountInv, Send
  PROVE  AccountInv'
<1> DEFINE new == V!VoicePacket(now')
           i == [packet |-> new, path |-> path, sentAt |-> now']
<1>1. /\ VoiceInv /\ NetworkInv /\ HeardInv
      /\ UNCHANGED <<status, heardID, packets, spokenID>>
      /\ sent' = sent \cup {new}
      /\ \/ inFlight' = inFlight \cup {i} /\ lost' = lost
         \/ lost' = lost \cup {new} /\ inFlight' = inFlight
  BY DEF CallInv, Send, receiver, V!HandleSelfSender, V!SendVoIPPacket
<1>2. new.talkspurtID = spokenID - 1 /\ new.packetID = packetID
  BY DEF V!VoicePacket
<1>3. i.packet = new
  OBVIOUS
<1> HIDE DEF i, new
<1>4. new \notin sent
  <2> SUFFICES ASSUME new \in sent PROVE FALSE
    OBVIOUS
  <2>1. VP!SentBefore(new) /\ spokenID \in Nat /\ packetID \in Nat
    BY <1>1 DEF VoiceInv, VP!SenderInv
  <2> QED BY <1>2, <2>1 DEF VP!SentBefore
<1>5. /\ lost' \subseteq sent' /\ (status' = "EMPTY" => heardID' = -1)
      /\ \A j \in inFlight' :
            j.packet \notin lost' /\ \A k \in inFlight' : j.packet = k.packet => j = k
  <2>1. \A j \in inFlight : j.packet \in sent /\ j.packet # new /\ j.packet \notin lost
    BY <1>1, <1>4 DEF NetworkInv, AccountInv
  <2>2. lost \subseteq sent /\ (status' = "EMPTY" => heardID' = -1)
        /\ \A j, k \in inFlight : j.packet = k.packet => j = k
    BY <1>1 DEF AccountInv
  <2>3. lost' \subseteq sent'
    BY <1>1, <2>2
  <2>4. ASSUME NEW j \in inFlight' PROVE j.packet \notin lost'
    BY <1>1, <1>3, <1>4, <2>1, <2>2
  <2>5. ASSUME NEW j \in inFlight', NEW k \in inFlight', j.packet = k.packet PROVE j = k
    <3>1. (j = i \/ j \in inFlight) /\ (k = i \/ k \in inFlight)
      BY <1>1
    <3> QED BY <1>3, <2>1, <2>2, <2>5, <3>1
  <2> QED BY <2>2, <2>3, <2>4, <2>5
<1>6. /\ new \in lost' \/ \E j \in inFlight' : j.packet = new
      /\ \A p \in sent : (InTransit(p)' <=> InTransit(p)) /\ (p \in lost' <=> p \in lost)
  <2>1. new \in lost' \/ \E j \in inFlight' : j.packet = new
    BY <1>1, <1>3
  <2>2. ASSUME NEW p \in sent PROVE (InTransit(p)' <=> InTransit(p)) /\ (p \in lost' <=> p \in lost)
    <3>1. p # new
      BY <1>4
    <3>2. p \in lost' <=> p \in lost
      BY <1>1, <3>1
    <3>3. InTransit(p)' <=> InTransit(p)
      BY <1>1, <1>3, <3>1 DEF InTransit
    <3> QED BY <3>2, <3>3
  <2> QED BY <2>1, <2>2
<1>7. HeardNumbers' = HeardNumbers
  BY <1>1 DEF HeardNumbers
<1>8. \A p \in sent' : \A m \in 0 .. p.packetID - 1 :
          \E q \in sent' : q.talkspurtID = p.talkspurtID /\ q.packetID = m
  <2>1. \A m \in 0 .. packetID - 1 : \E q \in sent :
            q.talkspurtID = spokenID - 1 /\ q.packetID = m
    BY <1>1 DEF VoiceInv, VP!NumbersInv, VP!SpurtInv, VP!NewestSpurt
  <2> QED BY <1>1, <1>2, <2>1 DEF AccountInv
<1>9. ASSUME NEW p \in sent',
             p.talkspurtID > heardID' \/ (p.talkspurtID = heardID' /\ status' = "ACTIVE")
      PROVE  \/ p \in lost' \/ InTransit(p)'
             \/ p.talkspurtID = heardID' /\ p.packetID \in HeardNumbers'
  <2>1. CASE p = new
    BY <1>6, <2>1 DEF InTransit
  <2>2. CASE p \in sent
    <3>1. \/ p \in lost \/ InTransit(p)
          \/ p.talkspurtID = heardID /\ p.packetID \in HeardNumbers
      BY <1>1, <1>9, <2>2 DEF AccountInv
    <3> QED BY <1>1, <1>6, <1>7, <2>2, <3>1
  <2> QED BY <1>1, <2>1, <2>2
<1>10. ASSUME status' = "ACTIVE"
       PROVE  /\ \A j, k \in 1 .. Len(packets') :
                    packets'[j].packetID = packets'[k].packetID => j = k
              /\ \A m \in HeardNumbers' :
                    \E p \in sent' : /\ p.talkspurtID = heardID' /\ p.packetID = m
                                    /\ p \notin lost' /\ ~InTransit(p)'
  <2>1. \A m \in HeardNumbers : \E p \in sent : /\ p.talkspurtID = heardID /\ p.packetID = m
                                               /\ p \notin lost /\ ~InTransit(p)
    BY <1>1, <1>10 DEF AccountInv
  <2>2. \A m \in HeardNumbers : \E p \in sent' : /\ p.talkspurtID = heardID /\ p.packetID = m
                                               /\ p \notin lost' /\ ~InTransit(p)'
    BY <1>1, <1>6, <2>1
  <2> QED BY <1>1, <1>7, <1>10, <2>2 DEF AccountInv
<1> QED BY <1>5, <1>8, <1>9, <1>10 DEF AccountInv

\* A packet that arrives is heard, if the receiver still collects its talkspurt.
LEMMA AccountArrive ==
  ASSUME CallInv, AccountInv, NEW i \in inFlight, NEW time, Arrive(i, time)
  PROVE  AccountInv'
<1> DEFINE p == i.packet
<1>1. /\ VoiceInv /\ NetworkInv /\ HeardInv
      /\ sent' = sent /\ lost' = lost /\ inFlight' = inFlight \ {i}
  BY DEF CallInv, Arrive, source
<1>2. /\ p \in sent /\ p.talkspurtID \in Nat /\ heardID \in Int
      /\ \A q \in sent : q.talkspurtID \in Nat /\ q.packetID \in Nat
  BY <1>1, SentFacts DEF NetworkInv, HeardInv
<1>3. \A q \in sent : InTransit(q)' <=> InTransit(q) /\ q # p
  BY <1>1 DEF AccountInv, InTransit
<1>4. p \notin lost /\ InTransit(p)
  BY DEF AccountInv, InTransit
<1>5. /\ lost' \subseteq sent'
      /\ \A j \in inFlight' :
            j.packet \notin lost' /\ \A k \in inFlight' : j.packet = k.packet => j = k
      /\ \A q \in sent' : \A m \in 0 .. q.packetID - 1 :
            \E r \in sent' : r.talkspurtID = q.talkspurtID /\ r.packetID = m
  BY <1>1 DEF AccountInv
<1>6. \/ /\ status' = "ACTIVE" /\ heardID' = p.talkspurtID /\ p.talkspurtID > heardID
         /\ packets' = <<R!Info(p, now')>>
      \/ /\ status = "ACTIVE" /\ heardID = p.talkspurtID
         /\ packets' = Append(packets, R!Info(p, now')) /\ UNCHANGED <<status, heardID>>
      \/ /\ p.talkspurtID < heardID \/ (p.talkspurtID = heardID /\ status # "ACTIVE")
         /\ status # "EMPTY"
         /\ UNCHANGED <<status, heardID, packets>>
  <2> DEFINE e == Elapse(rPending, time - now)
  <2>1. R!SocketDataArrived(e, p)
    BY DEF Arrive
  <2> HIDE DEF e, p
  <2>2. CASE R!FirstTalkspurt(e, p)
    BY <1>2, <2>2 DEF R!FirstTalkspurt, R!StartTalkspurt, AccountInv
  <2>3. CASE R!NewTalkspurt(e, p)
    BY <2>3 DEF R!NewTalkspurt, R!StartTalkspurt
  <2>4. CASE R!ContinuedTalkspurt(e, p)
    BY <2>4 DEF R!ContinuedTalkspurt
  <2>5. CASE R!OlderTalkspurt(e, p)
    BY <2>5 DEF R!OlderTalkspurt, R!talkspurt
  <2> QED BY <2>1, <2>2, <2>3, <2>4, <2>5 DEF R!SocketDataArrived
<1>7. R!Info(p, now').packetID = p.packetID
  BY DEF R!Info
<1> DEFINE info == R!Info(p, now')
<1> HIDE DEF info, p
<1>8. CASE /\ status' = "ACTIVE" /\ heardID' = p.talkspurtID /\ p.talkspurtID > heardID
           /\ packets' = <<info>>
  <2>1. HeardNumbers' = {p.packetID}
    <3>1. Len(packets') = 1 /\ packets'[1] = info
      BY <1>8
    <3>2. HeardNumbers' = {info.packetID}
      BY <3>1 DEF HeardNumbers
    <3> QED BY <1>7, <3>2 DEF info
  <2>2. \A j, k \in 1 .. Len(packets') : packets'[j].packetID = packets'[k].packetID => j = k
    <3>1. Len(packets') = 1
      BY <1>8
    <3> QED BY <3>1
  <2>3. ASSUME NEW q \in sent,
               q.talkspurtID > heardID' \/ (q.talkspurtID = heardID' /\ status' = "ACTIVE")
        PROVE  \/ q \in lost' \/ InTransit(q)'
               \/ q.talkspurtID = heardID' /\ q.packetID \in HeardNumbers'
    <3>1. q.talkspurtID > heardID
      BY <1>2, <1>8, <2>3
    <3>2. q \in lost \/ InTransit(q)
      BY <1>2, <3>1 DEF AccountInv
    <3>3. CASE q = p
      BY <1>8, <2>1, <3>3
    <3>4. CASE q # p
      BY <1>1, <1>3, <3>2, <3>4
    <3> QED BY <3>3, <3>4
  <2>4. \A m \in HeardNumbers' :
            \E q \in sent' : /\ q.talkspurtID = heardID' /\ q.packetID = m
                            /\ q \notin lost' /\ ~InTransit(q)'
    BY <1>1, <1>2, <1>3, <1>4, <1>8, <2>1
  <2> QED BY <1>1, <1>5, <1>8, <2>2, <2>3, <2>4 DEF AccountInv
<1>9. CASE /\ status = "ACTIVE" /\ heardID = p.talkspurtID
           /\ packets' = Append(packets, info) /\ UNCHANGED <<status, heardID>>
  <2>1. packets \in Seq(TE!PacketInfo(heardNumPackets))
    BY <1>1, <1>9 DEF HeardInv
  <2>2. /\ Len(packets) \in Nat /\ Len(packets') = Len(packets) + 1
        /\ packets'[Len(packets) + 1] = info
        /\ \A k \in 1 .. Len(packets) : packets'[k] = packets[k]
    BY <1>9, <2>1
  <2>3. 1 .. Len(packets') = 1 .. Len(packets) \cup {Len(packets) + 1}
    BY <2>2
  <2>4. HeardNumbers' = HeardNumbers \cup {p.packetID}
    <3>1. info.packetID = p.packetID
      BY <1>7 DEF info
    <3> QED BY <2>2, <2>3, <3>1 DEF HeardNumbers
  <2>5. p.packetID \notin HeardNumbers
    <3> SUFFICES ASSUME p.packetID \in HeardNumbers PROVE FALSE
      OBVIOUS
    <3>1. PICK q \in sent : q.talkspurtID = heardID /\ q.packetID = p.packetID /\ ~InTransit(q)
      BY <1>9 DEF AccountInv
    <3>2. q = p
      BY <1>1, <1>2, <1>9, <3>1, NumberedOnce
    <3> QED BY <1>4, <3>1, <3>2
  <2>6. \A j, k \in 1 .. Len(packets') : packets'[j].packetID = packets'[k].packetID => j = k
    <3>1. \A j, k \in 1 .. Len(packets) : packets[j].packetID = packets[k].packetID => j = k
      BY <1>9 DEF AccountInv
    <3>2. \A j \in 1 .. Len(packets) : packets[j].packetID # info.packetID
      BY <1>7, <2>5 DEF HeardNumbers, info
    <3>3. SUFFICES ASSUME NEW j \in 1 .. Len(packets'), NEW k \in 1 .. Len(packets'),
                          packets'[j].packetID = packets'[k].packetID
                   PROVE  j = k
      OBVIOUS
    <3>4. /\ j \in 1 .. Len(packets) \/ j = Len(packets) + 1
          /\ k \in 1 .. Len(packets) \/ k = Len(packets) + 1
      BY <2>3
    <3> QED BY <2>2, <3>1, <3>2, <3>3, <3>4
  <2>7. ASSUME NEW q \in sent, q.talkspurtID > heardID' \/ q.talkspurtID = heardID'
        PROVE  \/ q \in lost' \/ InTransit(q)'
               \/ q.talkspurtID = heardID' /\ q.packetID \in HeardNumbers'
    <3>1. CASE q = p
      BY <1>9, <2>4, <3>1
    <3>2. CASE q # p
      <4>1. \/ q \in lost \/ InTransit(q)
            \/ q.talkspurtID = heardID /\ q.packetID \in HeardNumbers
        BY <1>9, <2>7 DEF AccountInv
      <4> QED BY <1>1, <1>3, <1>9, <2>4, <3>2, <4>1
    <3> QED BY <3>1, <3>2
  <2>8. ASSUME NEW m \in HeardNumbers'
        PROVE  \E q \in sent' : /\ q.talkspurtID = heardID' /\ q.packetID = m
                               /\ q \notin lost' /\ ~InTransit(q)'
    <3>1. CASE m = p.packetID
      BY <1>1, <1>2, <1>3, <1>4, <1>9, <3>1
    <3>2. CASE m \in HeardNumbers
      <4>1. PICK q \in sent : /\ q.talkspurtID = heardID /\ q.packetID = m
                              /\ q \notin lost /\ ~InTransit(q)
        BY <1>9, <3>2 DEF AccountInv
      <4> QED BY <1>1, <1>3, <1>9, <4>1
    <3> QED BY <2>4, <3>1, <3>2
  <2> QED BY <1>1, <1>5, <1>9, <2>6, <2>7, <2>8 DEF AccountInv
<1>10. CASE /\ p.talkspurtID < heardID \/ (p.talkspurtID = heardID /\ status # "ACTIVE")
            /\ status # "EMPTY"
            /\ UNCHANGED <<status, heardID, packets>>
  <2>1. HeardNumbers' = HeardNumbers
    BY <1>10 DEF HeardNumbers
  <2>2. ASSUME NEW q \in sent,
               q.talkspurtID > heardID' \/ (q.talkspurtID = heardID' /\ status' = "ACTIVE")
        PROVE  \/ q \in lost' \/ InTransit(q)'
               \/ q.talkspurtID = heardID' /\ q.packetID \in HeardNumbers'
    <3>1. q # p
      BY <1>2, <1>10, <2>2
    <3>2. \/ q \in lost \/ InTransit(q)
          \/ q.talkspurtID = heardID /\ q.packetID \in HeardNumbers
      BY <1>10, <2>2 DEF AccountInv
    <3> QED BY <1>1, <1>3, <1>10, <2>1, <3>1, <3>2
  <2>3. ASSUME status' = "ACTIVE"
        PROVE  /\ \A j, k \in 1 .. Len(packets') :
                     packets'[j].packetID = packets'[k].packetID => j = k
               /\ \A m \in HeardNumbers' :
                     \E q \in sent' : /\ q.talkspurtID = heardID' /\ q.packetID = m
                                     /\ q \notin lost' /\ ~InTransit(q)'
    <3>1. \A j, k \in 1 .. Len(packets) : packets[j].packetID = packets[k].packetID => j = k
      BY <1>10, <2>3 DEF AccountInv
    <3>2. ASSUME NEW m \in HeardNumbers
          PROVE  \E q \in sent' : /\ q.talkspurtID = heardID' /\ q.packetID = m
                                 /\ q \notin lost' /\ ~InTransit(q)'
      <4>1. PICK q \in sent : /\ q.talkspurtID = heardID /\ q.packetID = m
                              /\ q \notin lost /\ ~InTransit(q)
        BY <1>10, <2>3, <3>2 DEF AccountInv
      <4> QED BY <1>1, <1>3, <1>10, <4>1
    <3> QED BY <1>10, <2>1, <3>1, <3>2
  <2>4. status' = "EMPTY" => heardID' = -1
    BY <1>10
  <2> QED BY <1>1, <1>5, <2>2, <2>3, <2>4 DEF AccountInv
<1> QED BY <1>6, <1>8, <1>9, <1>10 DEF info

\* Every packet stays accounted for.
LEMMA StepAccount ==
  ASSUME CallInv, AccountInv, [Next]_vars
  PROVE  AccountInv'
<1>1. CASE Send
  BY <1>1, AccountSend
<1>2. CASE \E i \in inFlight : \E time \in Arrival(i) : time >= now /\ Arrive(i, time)
  BY <1>2, AccountArrive
<1>3. CASE Handover \/ UNCHANGED vars
  <2>1. UNCHANGED <<sent, lost, inFlight, status, heardID, packets>>
    BY <1>3 DEF Handover, vars, source, receiver, network
  <2> QED BY <2>1, NothingMoves
<1>4. CASE Detect
  <2>1. UNCHANGED <<sent, lost, inFlight, status, heardID, packets>>
    BY <1>4 DEF Detect, source, receiver, network
  <2> QED BY <2>1, NothingMoves
<1>5. CASE TalkOrSilence
  <2>1. sent' = sent
    BY <1>5 DEF TalkOrSilence, V!HandleSelfSource
  <2>2. UNCHANGED <<lost, inFlight, status, heardID, packets>>
    BY <1>5 DEF TalkOrSilence, receiver, network
  <2> QED BY <2>1, <2>2, NothingMoves
<1>6. CASE TalkspurtFinished
  <2>1. UNCHANGED <<sent, lost, inFlight, heardID>> /\ status' = "FINISHED"
    BY <1>6 DEF TalkspurtFinished, R!HandleTalkspurtFinished, R!FinishTalkspurt, source, network
  <2>2. VoiceInv /\ HeardInv
    BY DEF CallInv
  <2> QED BY <2>1, <2>2, AccountClosed
<1>7. CASE Finish
  <2>1. UNCHANGED <<sent, lost, inFlight, heardID>>
    BY <1>7 DEF Finish, R!Finish, source, network
  <2>2. status' = "FINISHED" \/ UNCHANGED <<status, packets>>
    BY <1>7 DEF Finish, R!Finish, R!FinishTalkspurt
  <2>3. VoiceInv /\ HeardInv
    BY DEF CallInv
  <2> QED BY <2>1, <2>2, <2>3, AccountClosed, NothingMoves
<1> QED BY <1>1, <1>2, <1>3, <1>4, <1>5, <1>6, <1>7 DEF Next

\* At first there is no packet.
LEMMA InitAccount == Init => AccountInv
<1> SUFFICES ASSUME Init PROVE AccountInv
  OBVIOUS
<1>1. /\ lost = {} /\ sent = {} /\ inFlight = {} /\ status = "EMPTY" /\ heardID = -1
  BY DEF Init, V!Init, R!Init
<1> QED BY <1>1 DEF AccountInv

\* Of a talkspurt being collected every packet is lost, under way or heard, and
\* never two of these; a numbered packet comes after all smaller numbers.
THEOREM EveryPacketInOnePlace == Spec => []AccountInv
<1>1. CallInv /\ AccountInv /\ [Next]_vars => AccountInv'
  BY StepAccount
<1> QED BY <1>1, InitAccount, CallInvariant, PTL DEF Spec

-----------------------------------------------------------------------------
\* The numbers that packets bear.
Numbers(S) == {p.packetID : p \in S}

\* The packets of a talkspurt are as many as their numbers.
LEMMA CountedByNumber ==
  ASSUME VoiceInv, NEW n \in Nat, NEW id, NEW S, S \subseteq sent,
         \A p \in S : p.talkspurtID = id /\ p.packetID \in 0 .. n - 1
  PROVE  /\ IsFiniteSet(S) /\ IsFiniteSet(Numbers(S)) /\ Cardinality(S) \in Nat
         /\ Cardinality(Numbers(S)) = Cardinality(S)
<1> DEFINE N == Numbers(S)
           f == [m \in N |-> CHOOSE p \in S : p.packetID = m]
<1>1. IsFiniteSet(N)
  <2>1. N \in SUBSET (0 .. n - 1)
    BY DEF Numbers
  <2>2. IsFiniteSet(0 .. n - 1)
    BY FS_Interval
  <2> QED BY <2>1, <2>2, FS_Subset
<1>2. \A m \in N : f[m] \in S /\ f[m].packetID = m
  BY DEF Numbers
<1>3. \A p \in S : p.packetID \in N /\ f[p.packetID] = p
  <2> TAKE p \in S
  <2>1. p.packetID \in N
    BY DEF Numbers
  <2>2. f[p.packetID] \in S /\ f[p.packetID].packetID = p.packetID
    BY <1>2, <2>1
  <2> HIDE DEF f, N
  <2>3. f[p.packetID] = p
    BY <2>2, NumberedOnce
  <2> QED BY <2>1, <2>3
<1>4. f \in Bijection(N, S)
  <2>1. f \in [N -> S]
    BY <1>2
  <2> HIDE DEF f, N
  <2>2. \A a, b \in N : f[a] = f[b] => a = b
    BY <1>2
  <2>3. \A p \in S : \E m \in N : f[m] = p
    BY <1>3
  <2> QED BY <2>1, <2>2, <2>3 DEF Bijection, Injection, Surjection, IsInjective
<1> HIDE DEF f, N
<1>5. ExistsBijection(N, S)
  BY <1>4 DEF ExistsBijection
<1>6. IsFiniteSet(S) /\ Cardinality(S) = Cardinality(N)
  BY <1>1, <1>5, FS_Bijection
<1> QED BY <1>1, <1>6, FS_CardinalityType DEF N

\* The evaluation instantiated for the call counts with a name of its own.
LEMMA CountingNames == \A S : TE!Cardinality(S) = Cardinality(S)
BY DEF TE!Cardinality, Cardinality

\* It also has a name of its own for the largest number.
LEMMA LargestNames == \A S : TE!Max(S) = Max(S)
BY DEF TE!Max, Max

\* What the evaluation counts of the talkspurt being collected.
LEMMA WhatWasHeard ==
  ASSUME CallInv, AccountInv, status = "ACTIVE", NEW finish \in BOOLEAN
  PROVE  LET r == R!Evaluation(packets, heardNumPackets, playoutDelay, finish)
         IN  /\ heardNumPackets \in Nat /\ Len(packets) \in Nat
             /\ HeardNumbers = {packets[i].packetID : i \in DOMAIN packets}
             /\ HeardNumbers \subseteq 0 .. heardNumPackets - 1 /\ IsFiniteSet(HeardNumbers)
             /\ Cardinality(HeardNumbers) = Len(packets)
             /\ Max(HeardNumbers) \in HeardNumbers /\ \A m \in HeardNumbers : Max(HeardNumbers) >= m
             /\ r.channelLoss
                   = (IF finish THEN Max(HeardNumbers) + 1 ELSE heardNumPackets) - Len(packets)
<1> DEFINE pks == packets
           n == heardNumPackets
           e == TE!ExpectedPackets(pks, n, finish)
<1>1. /\ VoiceInv /\ HeardInv /\ n \in Nat /\ playoutDelay \in Nat
      /\ pks \in Seq(TE!PacketInfo(n)) /\ pks # <<>>
  BY DEF CallInv, HeardInv
<1>2. TE!EvaluationAssumption
  BY ComponentsAssumption DEF R!EvaluationAssumption, TE!EvaluationAssumption
<1>3. n < UIntSize
  <2>1. PICK p \in sent : p.talkspurtNumPackets = n
    BY <1>1 DEF HeardInv
  <2>2. p.talkspurtNumPackets \in 0 .. UIntSize - 1
    BY <1>1, <2>1 DEF VoiceInv, VP!TypeOK, VP!Packet
  <2>3. UIntSize \in Nat
    BY <1>2 DEF TE!EvaluationAssumption
  <2> QED BY <1>1, <2>1, <2>2, <2>3
<1>4. \A j, k \in 1 .. Len(pks) : pks[j].packetID = pks[k].packetID => j = k
  BY DEF AccountInv
<1>5. /\ TE!Cardinality(TE!PacketIDs(pks)) = Len(pks)
      /\ TE!Evaluation(pks, n, playoutDelay, finish).channelLoss = e - Len(pks)
  BY <1>1, <1>2, <1>3, <1>4, TE!NothingDoubled
<1>6. Len(pks) \in Nat /\ DOMAIN pks = 1 .. Len(pks)
  BY <1>1
<1>7. /\ HeardNumbers = TE!PacketIDs(pks)
      /\ HeardNumbers = {packets[i].packetID : i \in DOMAIN packets}
  BY <1>6 DEF HeardNumbers, TE!PacketIDs
<1>8. /\ TE!PacketIDs(pks) \in SUBSET (0 .. n - 1) /\ TE!Max(TE!PacketIDs(pks)) \in TE!PacketIDs(pks)
      /\ \A y \in TE!PacketIDs(pks) : TE!Max(TE!PacketIDs(pks)) >= y
  BY <1>1, <1>2, TE!PacketIDsRange
<1>9. /\ HeardNumbers \in SUBSET (0 .. n - 1) /\ Max(HeardNumbers) \in HeardNumbers
      /\ \A y \in HeardNumbers : Max(HeardNumbers) >= y
      /\ Cardinality(HeardNumbers) = Len(pks)
  BY <1>5, <1>7, <1>8, CountingNames, LargestNames
<1>10. IsFiniteSet(HeardNumbers)
  <2> HIDE DEF n
  <2>1. IsFiniteSet(0 .. n - 1)
    BY <1>1, FS_Interval
  <2> QED BY <1>9, <2>1, FS_Subset
<1>11. e = IF finish THEN Max(HeardNumbers) + 1 ELSE n
  BY <1>7, LargestNames DEF TE!ExpectedPackets
<1> HIDE DEF e
<1> QED BY <1>1, <1>5, <1>6, <1>7, <1>9, <1>10, <1>11, EvaluationNames

\* Every packet of the talkspurt was heard or is missing, and none both.
LEMMA LossIsReal ==
  ASSUME CallInv, AccountInv, status = "ACTIVE", NEW cause, R!Evaluate(cause),
         NEW missing, missing = {p \in sent : p.talkspurtID = heardID
                                             /\ (p \in lost \/ InTransit(p))}
  PROVE  LET spurt == {p \in sent : p.talkspurtID = heardID}
         IN  last'.result.channelLoss =
                IF cause = "finish"
                THEN Cardinality({p \in missing : p.packetID < Max(HeardNumbers)})
                ELSE Cardinality(missing) + heardNumPackets - Cardinality(spurt)
<1> DEFINE spurt == {p \in sent : p.talkspurtID = heardID}
           n == heardNumPackets
           finish == cause = "finish"
           H == HeardNumbers
           h == Max(H)
           loss == R!Evaluation(packets, n, playoutDelay, finish).channelLoss
           before == {p \in missing : p.packetID < h}
<1>1. last'.result.channelLoss = loss
  BY DEF R!Evaluate
<1>2. finish \in BOOLEAN
  OBVIOUS
<1> HIDE DEF finish
<1>3. /\ n \in Nat /\ Len(packets) \in Nat /\ H \subseteq 0 .. n - 1 /\ IsFiniteSet(H)
      /\ Cardinality(H) = Len(packets) /\ h \in H /\ \A m \in H : h >= m
      /\ loss = (IF finish THEN h + 1 ELSE n) - Len(packets)
  BY <1>2, WhatWasHeard
<1>4. VoiceInv /\ HeardInv
  BY DEF CallInv
<1>5. \A p \in spurt : p.talkspurtID = heardID /\ p.packetID \in 0 .. n - 1
  <2>1. PICK q \in sent : q.talkspurtID = heardID /\ q.talkspurtNumPackets = n
    BY <1>4 DEF HeardInv
  <2> TAKE p \in spurt
  <2>2. p.talkspurtNumPackets = n
    BY <1>4, <2>1, SentPairs
  <2> QED BY <1>4, <2>2, SentFacts
<1>6. missing \subseteq spurt /\ before \subseteq missing
  OBVIOUS
<1>7. Numbers(spurt) = Numbers(missing) \cup H
  <2>1. ASSUME NEW p \in spurt PROVE p.packetID \in Numbers(missing) \cup H
    BY DEF AccountInv, Numbers
  <2>2. Numbers(missing) \subseteq Numbers(spurt)
    BY <1>6 DEF Numbers
  <2>3. H \subseteq Numbers(spurt)
    BY DEF AccountInv, Numbers
  <2>4. Numbers(spurt) \subseteq Numbers(missing) \cup H
    BY <2>1 DEF Numbers
  <2> QED BY <2>2, <2>3, <2>4
<1>8. Numbers(missing) \cap H = {}
  <2> SUFFICES ASSUME NEW p \in missing, p.packetID \in H PROVE FALSE
    BY DEF Numbers
  <2>1. PICK q \in sent : /\ q.talkspurtID = heardID /\ q.packetID = p.packetID
                          /\ q \notin lost /\ ~InTransit(q)
    BY DEF AccountInv
  <2>2. p = q
    BY <1>4, <2>1, NumberedOnce
  <2> QED BY <2>1, <2>2
<1>9. /\ IsFiniteSet(Numbers(missing)) /\ IsFiniteSet(Numbers(before))
      /\ Cardinality(missing) \in Nat /\ Cardinality(before) \in Nat /\ Cardinality(spurt) \in Nat
      /\ Cardinality(Numbers(missing)) = Cardinality(missing)
      /\ Cardinality(Numbers(before)) = Cardinality(before)
      /\ Cardinality(Numbers(spurt)) = Cardinality(spurt)
  <2>1. spurt \subseteq sent /\ missing \subseteq sent /\ before \subseteq sent
    OBVIOUS
  <2>2. /\ \A p \in missing : p.talkspurtID = heardID /\ p.packetID \in 0 .. n - 1
        /\ \A p \in before : p.talkspurtID = heardID /\ p.packetID \in 0 .. n - 1
    BY <1>5, <1>6
  <2> HIDE DEF spurt, before, n
  <2> QED BY <1>3, <1>4, <1>5, <2>1, <2>2, CountedByNumber
<1>10. CASE finish
  <2>1. Numbers(before) \cup H = 0 .. h
    <3>1. \A m \in Numbers(before) \cup H : m \in 0 .. h
      <4>1. ASSUME NEW p \in before PROVE p.packetID \in 0 .. h
        <5>1. p.packetID \in 0 .. n - 1 /\ p.packetID < h
          BY <1>5, <1>6
        <5>2. h \in 0 .. n - 1
          BY <1>3
        <5> HIDE DEF h, n
        <5> QED BY <1>3, <5>1, <5>2
      <4>2. ASSUME NEW m \in H PROVE m \in 0 .. h
        <5> HIDE DEF h, n, H
        <5> QED BY <1>3
      <4>3. \A m \in Numbers(before) : \E p \in before : m = p.packetID
        BY DEF Numbers
      <4> HIDE DEF before, H, h
      <4> QED BY <4>1, <4>2, <4>3
    <3>2. ASSUME NEW m \in 0 .. h, m \notin H PROVE m \in Numbers(before)
      <4>1. m \in 0 .. h - 1 /\ m < h
        <5>1. h \in H /\ H \subseteq 0 .. n - 1
          BY <1>3
        <5> HIDE DEF h, H, n
        <5>2. m # h /\ h \in Int /\ m \in Int
          BY <1>3, <3>2, <5>1
        <5> QED BY <3>2, <5>2
      <4>2. PICK q \in sent : q.talkspurtID = heardID /\ q.packetID = h
        BY <1>3 DEF AccountInv
      <4>3. PICK p \in sent : p.talkspurtID = heardID /\ p.packetID = m
        BY <4>1, <4>2 DEF AccountInv
      <4>4. p \in missing
        BY <3>2, <4>3 DEF AccountInv
      <4> QED BY <4>1, <4>3, <4>4 DEF Numbers
    <3> QED BY <3>1, <3>2
  <2>2. Numbers(before) \cap H = {}
    BY <1>8 DEF Numbers
  <2> HIDE DEF before, H, h, loss
  <2>3. Cardinality(0 .. h) = Cardinality(before) + Len(packets)
    <3>1. Cardinality(Numbers(before) \cup H)
             = Cardinality(Numbers(before)) + Cardinality(H) - Cardinality({})
      BY <1>3, <1>9, <2>2, FS_Union
    <3>2. Cardinality({}) = 0
      BY FS_EmptySet
    <3>3. Cardinality(Numbers(before) \cup H) = Cardinality(0 .. h)
      BY <2>1
    <3> DEFINE a == Cardinality(Numbers(before))
               b == Cardinality(H)
    <3>4. a \in Nat /\ a = Cardinality(before) /\ b = Len(packets) /\ b \in Nat
      BY <1>3, <1>9
    <3> HIDE DEF a, b
    <3>5. Cardinality(0 .. h) = a + b
      <4>1. Cardinality(0 .. h) = a + b - 0
        BY <3>1, <3>2, <3>3 DEF a, b
      <4> QED BY <3>4, <4>1
    <3> QED BY <3>4, <3>5
  <2>4. h \in Nat
    BY <1>3
  <2>5. Cardinality(0 .. h) = h + 1
    BY <2>4, FS_Interval
  <2>6. loss = Cardinality(before)
    BY <1>3, <1>9, <1>10, <2>3, <2>4, <2>5
  <2> QED BY <1>1, <1>10, <2>6 DEF finish, before, h, H
<1>11. CASE ~finish
  <2> HIDE DEF H, h, loss, spurt, n
  <2>1. Cardinality(Numbers(missing) \cup H)
           = Cardinality(Numbers(missing)) + Cardinality(H) - Cardinality({})
    BY <1>3, <1>8, <1>9, FS_Union
  <2>2. Cardinality(spurt) = Cardinality(missing) + Len(packets)
    BY <1>3, <1>7, <1>9, <2>1, FS_EmptySet
  <2>3. loss = Cardinality(missing) + n - Cardinality(spurt)
    BY <1>3, <1>9, <1>11, <2>2
  <2> QED BY <1>1, <1>11, <2>3 DEF finish, spurt, n
<1> QED BY <1>10, <1>11

\* The channel loss of every evaluation is the packets lost on the way, the
\* overtaken ones and the one the source cut off.
THEOREM LossesAreReal == Spec => ReportedLossIsReal
<1> DEFINE Spurt == {p \in sent : p.talkspurtID = last'.talkspurtID}
           Missing == {p \in Spurt : p \in lost \/ \E i \in inFlight' : i.packet = p}
           Heard == {last'.packets[i].packetID : i \in DOMAIN last'.packets}
           Real == last' # last =>
                      last'.result.channelLoss =
                         IF last'.cause = "finish"
                         THEN Cardinality({p \in Missing : p.packetID < Max(Heard)})
                         ELSE Cardinality(Missing) + last'.numPackets - Cardinality(Spurt)
<1>1. ASSUME CallInv, AccountInv, status = "ACTIVE", NEW cause, R!Evaluate(cause),
             \A p \in sent : p.talkspurtID = heardID =>
                (InTransit(p) <=> \E i \in inFlight' : i.packet = p)
      PROVE  Real
  <2>1. /\ last'.talkspurtID = heardID /\ last'.numPackets = heardNumPackets
        /\ last'.packets = packets /\ last'.cause = cause
    BY <1>1 DEF R!Evaluate
  <2>2. Heard = HeardNumbers
    BY <1>1, <2>1, WhatWasHeard
  <2>3. Missing = {p \in sent : p.talkspurtID = heardID /\ (p \in lost \/ InTransit(p))}
    BY <1>1, <2>1
  <2>4. Spurt = {p \in sent : p.talkspurtID = heardID}
    BY <2>1
  <2> HIDE DEF Missing, Spurt, Heard
  <2> QED BY <1>1, <2>1, <2>2, <2>3, <2>4, LossIsReal
<1>2. ASSUME CallInv, AccountInv, Next PROVE Real
  <2>1. CASE TalkspurtFinished
    <3>1. /\ R!Evaluate("timer") /\ status = "ACTIVE" /\ inFlight' = inFlight
      BY <1>2, <2>1, TalkspurtFinishedStep DEF TalkspurtFinished, R!HandleTalkspurtFinished, network
    <3>2. \A p \in sent : InTransit(p) <=> \E i \in inFlight' : i.packet = p
      BY <3>1 DEF InTransit
    <3> HIDE DEF Real
    <3> QED BY <1>1, <1>2, <3>1, <3>2
  <2>2. CASE Finish
    <3>1. inFlight' = inFlight /\ (last' = last \/ (status = "ACTIVE" /\ R!Evaluate("finish")))
      BY <2>2 DEF Finish, R!Finish, network
    <3>2. \A p \in sent : InTransit(p) <=> \E i \in inFlight' : i.packet = p
      BY <3>1 DEF InTransit
    <3>3. CASE last' = last
      BY <3>3
    <3>4. CASE status = "ACTIVE" /\ R!Evaluate("finish")
      <4> HIDE DEF Real
      <4> QED BY <1>1, <1>2, <3>2, <3>4
    <3> QED BY <3>1, <3>3, <3>4
  <2>3. CASE \E i \in inFlight : \E time \in Arrival(i) : time >= now /\ Arrive(i, time)
    <3>0. PICK i \in inFlight : \E time : Arrive(i, time)
      BY <2>3
    <3>1. PICK time : Arrive(i, time)
      BY <3>0
    <3> DEFINE q == Elapse(rPending, time - now)
    <3>2. R!SocketDataArrived(q, i.packet) /\ inFlight' = inFlight \ {i}
      BY <3>1 DEF Arrive
    <3> HIDE DEF q
    <3>3. \/ last' = last
          \/ status = "ACTIVE" /\ R!Evaluate("newer") /\ i.packet.talkspurtID > heardID
      BY <3>2 DEF R!SocketDataArrived, R!FirstTalkspurt, R!NewTalkspurt, R!ContinuedTalkspurt,
                  R!OlderTalkspurt
    <3>4. CASE last' = last
      BY <3>4
    <3>5. CASE status = "ACTIVE" /\ R!Evaluate("newer") /\ i.packet.talkspurtID > heardID
      <4>1. heardID \in Int
        BY <1>2 DEF CallInv, HeardInv
      <4>2. \A p \in sent : p.talkspurtID = heardID => p # i.packet
        BY <3>5, <4>1
      <4>3. \A p \in sent : p.talkspurtID = heardID =>
               (InTransit(p) <=> \E j \in inFlight' : j.packet = p)
        BY <3>2, <4>2 DEF InTransit
      <4> HIDE DEF Real
      <4> QED BY <1>1, <1>2, <3>5, <4>3
    <3> QED BY <3>3, <3>4, <3>5
  <2>4. CASE Handover \/ TalkOrSilence \/ Send \/ Detect
    BY <2>4 DEF Handover, TalkOrSilence, Send, Detect, receiver
  <2> QED BY <1>2, <2>1, <2>2, <2>3, <2>4 DEF Next
<1>3. CallInv /\ AccountInv /\ [Next]_vars => [Real]_vars
  BY <1>2
<1> QED BY <1>3, CallInvariant, EveryPacketInOnePlace, PTL DEF Spec, ReportedLossIsReal
=============================================================================
