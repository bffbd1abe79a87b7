---------------------- MODULE CustomVoipReceiverProofs ----------------------
(***************************************************************************)
(* For every call and every network that the constants describe, with a    *)
(* fixed or an adaptive playout delay: the receiver's timer is pending     *)
(* exactly when it has something to evaluate, it waits for every timely    *)
(* packet, packets stay inside the array of the evaluation, talkspurts are *)
(* evaluated in order, and the losses of every evaluation add up.          *)
(***************************************************************************)
EXTENDS CustomVoipReceiver, TalkspurtEvaluationProofs, EventQueueProofs

\* When the timer of a talkspurt arrives.
Due(pks, numPackets, delay) ==
    pks[1].arrivalTime + delay + (numPackets - pks[1].packetID) * VoiceDuration + MosSpareTime

\* The call has a talkspurt of that number and length.
SpokenAs(id, numPackets) ==
    \E p \in Call : p.talkspurtID = id /\ p.talkspurtNumPackets = numPackets

\* The current talkspurt is one of the call, and when its timer arrives.
CurrentInv ==
    /\ status \in {"EMPTY", "ACTIVE", "FINISHED"}
    /\ talkspurtID \in Int /\ talkspurtNumPackets \in Nat
    /\ packets \in Seq(PacketInfo(talkspurtNumPackets))
    /\ status # "EMPTY" => SpokenAs(talkspurtID, talkspurtNumPackets)
    /\ status = "ACTIVE" =>
          now + pending.left[TalkspurtFinished] = Due(packets, talkspurtNumPackets, playoutDelay)

\* The last evaluation was of such a talkspurt, an older one than is collected now.
LastInv ==
    last # None =>
        /\ last.talkspurtID \in Int /\ last.numPackets \in Nat /\ last.delay \in Nat
        /\ last.talkspurtID =< talkspurtID /\ status # "EMPTY"
        /\ status = "ACTIVE" => last.talkspurtID < talkspurtID
        /\ SpokenAs(last.talkspurtID, last.numPackets)
        /\ last.packets # <<>> /\ last.packets \in Seq(PacketInfo(last.numPackets))
        /\ last.cause = "timer" => Due(last.packets, last.numPackets, last.delay) =< now

\* What the last evaluation found, and what became of it.
FoundInv ==
    last # None =>
        /\ last.result =
              Evaluation(last.packets, last.numPackets, last.delay, last.cause = "finish")
        /\ playoutDelay = Adapted(last.delay, last.result.maxLateness)

\* The inductive invariant.
ReceiverInv ==
    /\ now \in Nat /\ IsQueue(pending, ReceiverTimers)
    /\ playoutDelay \in Nat
    /\ over \in BOOLEAN
    /\ copies \in [Call -> 0 .. 2]
    /\ CurrentInv
    /\ TimerMatchesTalkspurt
    /\ LastInv
    /\ FoundInv
    /\ TimerWaitsForTimelyPackets

-----------------------------------------------------------------------------
\* A packet of the call.
LEMMA PacketOfCall ==
  ASSUME NEW p \in Call
  PROVE  /\ p.talkspurtID \in Nat /\ p.talkspurtNumPackets \in Nat
         /\ p.packetID \in 0 .. p.talkspurtNumPackets - 1 /\ p.voipTimestamp \in Int
         /\ SpokenAs(p.talkspurtID, p.talkspurtNumPackets)
BY CallAssumption DEF SpokenAs

\* All packets of a talkspurt announce the same number of packets.
LEMMA SpokenOnce ==
  ASSUME NEW p \in Call, NEW id, NEW n, SpokenAs(id, n), p.talkspurtID = id
  PROVE  p.talkspurtNumPackets = n
BY CallAssumption DEF SpokenAs

\* A packet is due before its talkspurt's timer.
LEMMA PlayoutBeforeDue ==
  ASSUME NEW n \in Nat, NEW pks \in Seq(PacketInfo(n)), pks # <<>>,
         NEW delay \in Nat, NEW id \in 0 .. n - 1
  PROVE  PlayoutTime(pks, delay, id) < Due(pks, n, delay)
<1>1. pks[1].arrivalTime \in Nat /\ pks[1].packetID \in 0 .. n - 1
  <2>1. pks[1] \in PacketInfo(n)
    OBVIOUS
  <2> QED BY <2>1 DEF PacketInfo
<1> DEFINE a == id - pks[1].packetID
           b == n - pks[1].packetID
<1>2. a \in Int /\ b \in Int /\ a < b
  BY <1>1
<1>3. a * VoiceDuration < b * VoiceDuration
  <2> HIDE DEF a, b
  <2> QED BY <1>2, EvaluationAssumption
<1>4. a * VoiceDuration \in Int /\ b * VoiceDuration \in Int
  <2> HIDE DEF a, b
  <2> QED BY <1>2, EvaluationAssumption
<1> QED BY <1>1, <1>3, <1>4, ReceiverAssumption DEF PlayoutTime, Due

\* The pending timer while time passes up to an arrival.
LEMMA ElapsedQueue ==
  ASSUME IsQueue(pending, ReceiverTimers), NEW d \in Nat, MayElapse(pending, d),
         NEW q, q = Elapse(pending, d)
  PROVE  /\ IsQueue(q, ReceiverTimers) /\ Scheduled(q) = Scheduled(pending)
         /\ TalkspurtFinished \in Scheduled(q) =>
               /\ pending.left[TalkspurtFinished] \in Nat
               /\ q.left[TalkspurtFinished] = pending.left[TalkspurtFinished] - d
<1>1. /\ IsQueue(q, ReceiverTimers) /\ Scheduled(q) = Scheduled(pending)
      /\ \A u \in Scheduled(pending) : q.left[u] = pending.left[u] - d
  BY ElapseQueue
<1>2. TalkspurtFinished \in Scheduled(pending) => pending.left[TalkspurtFinished] \in Nat
  BY DEF IsQueue, Scheduled
<1> QED BY <1>1, <1>2

\* startTalkspurt with its first packet p.
LEMMA Started ==
  ASSUME NEW q, IsQueue(q, ReceiverTimers), NEW p \in Call, NEW delay \in Nat, now' \in Nat,
         playoutDelay' = delay, StartTalkspurt(q, p, delay)
  PROVE  /\ IsQueue(pending', ReceiverTimers)
         /\ status' = "ACTIVE" /\ talkspurtID' = p.talkspurtID
         /\ TimerMatchesTalkspurt' /\ CurrentInv'
<1>1. TalkspurtFinished \in ReceiverTimers
  BY DEF ReceiverTimers
<1> DEFINE n == p.talkspurtNumPackets
           k == n - p.packetID
           wait == delay + k * VoiceDuration + MosSpareTime
<1>2. n \in Nat /\ p.packetID \in 0 .. n - 1 /\ k \in Nat /\ p.voipTimestamp \in Int
  BY PacketOfCall
<1>3. k * VoiceDuration \in Nat
  <2> HIDE DEF k
  <2> QED BY <1>2, EvaluationAssumption
<1>4. wait \in Nat
  BY <1>3, ReceiverAssumption
<1>5. /\ packets' = <<Info(p, now')>> /\ talkspurtNumPackets' = n /\ status' = "ACTIVE"
      /\ talkspurtID' = p.talkspurtID
      /\ pending' = ScheduleAfter(q, TalkspurtFinished, wait)
  BY DEF StartTalkspurt
<1> HIDE DEF wait
<1>6. /\ IsQueue(pending', ReceiverTimers) /\ TalkspurtFinished \in Scheduled(pending')
      /\ pending'.left[TalkspurtFinished] = wait
  BY <1>1, <1>4, <1>5, ScheduleAfterQueue
<1>7. /\ Info(p, now') \in PacketInfo(n)
      /\ Info(p, now').packetID = p.packetID /\ Info(p, now').arrivalTime = now'
  BY <1>2 DEF Info, PacketInfo
<1>8. /\ packets' \in Seq(PacketInfo(n)) /\ packets' # <<>>
      /\ packets'[1].packetID = p.packetID /\ packets'[1].arrivalTime = now'
  BY <1>5, <1>7
<1>9. now' + wait = Due(packets', n, delay)
  BY <1>2, <1>3, <1>8, ReceiverAssumption DEF Due, wait
<1>10. SpokenAs(p.talkspurtID, n) /\ p.talkspurtID \in Int
  BY PacketOfCall
<1>11. CurrentInv'
  BY <1>2, <1>5, <1>6, <1>8, <1>9, <1>10 DEF CurrentInv
<1>12. TimerMatchesTalkspurt'
  BY <1>5, <1>6, <1>8 DEF TimerMatchesTalkspurt
<1> QED BY <1>5, <1>6, <1>11, <1>12

\* The adapted delay is a time, and long enough for that lateness.
LEMMA AdaptedType ==
  ASSUME NEW delay \in Nat, NEW lateness \in Int
  PROVE  /\ Adapted(delay, lateness) \in Nat
         /\ AdaptivePlayoutDelay => Adapted(delay, lateness) >= delay + lateness
<1>1. delay + lateness \in Int
  OBVIOUS
<1>2. /\ Max({0, delay + lateness}) \in {0, delay + lateness}
      /\ Max({0, delay + lateness}) >= 0 /\ Max({0, delay + lateness}) >= delay + lateness
  BY <1>1, LargerOfTwo
<1>3. Max({0, delay + lateness}) \in Nat
  BY <1>1, <1>2
<1> QED BY <1>2, <1>3 DEF Adapted

\* evaluateTalkspurt on an active talkspurt, at the time of its timer if that is the cause.
LEMMA Evaluated ==
  ASSUME ReceiverInv, status = "ACTIVE", NEW cause, Evaluate(cause),
         now' \in Nat, now =< now',
         cause = "timer" => now' = now + pending.left[TalkspurtFinished],
         status' # "EMPTY", talkspurtID' \in Int, talkspurtID =< talkspurtID',
         status' = "ACTIVE" => talkspurtID < talkspurtID'
  PROVE  playoutDelay' \in Nat /\ LastInv' /\ FoundInv' /\ last'.talkspurtID = talkspurtID
<1>2. /\ last'.talkspurtID = talkspurtID /\ last'.numPackets = talkspurtNumPackets
      /\ last'.packets = packets /\ last'.delay = playoutDelay /\ last'.cause = cause
      /\ last'.result = Evaluation(packets, talkspurtNumPackets, playoutDelay, cause = "finish")
      /\ playoutDelay' = Adapted(playoutDelay, last'.result.maxLateness)
  BY DEF Evaluate
<1>3. packets # <<>> /\ TalkspurtFinished \in Scheduled(pending)
  BY DEF ReceiverInv, TimerMatchesTalkspurt
<1>4. last'.cause = "timer" => Due(last'.packets, last'.numPackets, last'.delay) = now'
  BY <1>2 DEF ReceiverInv, CurrentInv
<1>5. now' =< now'
  OBVIOUS
<1>1. playoutDelay' \in Nat
  <2> DEFINE finish == cause = "finish"
             result == Evaluation(packets, talkspurtNumPackets, playoutDelay, finish)
  <2>1. /\ packets \in Seq(PacketInfo(talkspurtNumPackets)) /\ talkspurtNumPackets \in Nat
        /\ playoutDelay \in Nat
    BY DEF ReceiverInv, CurrentInv
  <2>2. finish \in BOOLEAN /\ last'.result = result
    BY <1>2
  <2> HIDE DEF finish
  <2>3. result.maxLateness \in Int
    BY <1>3, <2>1, <2>2, EvaluationFinds
  <2> HIDE DEF result
  <2> QED BY <1>2, <2>1, <2>2, <2>3, AdaptedType
<1>6. LastInv'
  BY <1>2, <1>3, <1>4, <1>5 DEF ReceiverInv, CurrentInv, LastInv
<1>7. FoundInv'
  <2>1. (cause = "finish") = (last'.cause = "finish")
    BY <1>2
  <2>2. last'.result = Evaluation(last'.packets, last'.numPackets, last'.delay, last'.cause = "finish")
    BY <1>2, <2>1
  <2>3. playoutDelay' = Adapted(last'.delay, last'.result.maxLateness)
    BY <1>2
  <2> QED BY <2>2, <2>3 DEF FoundInv
<1> QED BY <1>1, <1>2, <1>6, <1>7

\* Without an evaluation what is known of the last one stays true.
LEMMA NotEvaluated ==
  ASSUME ReceiverInv, UNCHANGED <<last, playoutDelay>>, now' \in Nat, now =< now',
         talkspurtID' \in Int, talkspurtID =< talkspurtID',
         status # "EMPTY" => status' # "EMPTY",
         status' = "ACTIVE" => talkspurtID < talkspurtID' \/ status = "EMPTY"
                               \/ (status = "ACTIVE" /\ talkspurtID' = talkspurtID)
  PROVE  LastInv' /\ FoundInv'
<1>1. ASSUME last # None, last.cause = "timer"
      PROVE  Due(last.packets, last.numPackets, last.delay) =< now'
  <2>1. Due(last.packets, last.numPackets, last.delay) \in Int
    <3>1. last.packets[1] \in PacketInfo(last.numPackets)
      BY <1>1 DEF ReceiverInv, LastInv
    <3>2. /\ last.packets[1].arrivalTime \in Nat /\ last.numPackets - last.packets[1].packetID \in Int
      BY <1>1, <3>1 DEF ReceiverInv, LastInv, PacketInfo
    <3>3. (last.numPackets - last.packets[1].packetID) * VoiceDuration \in Int
      BY <3>2, EvaluationAssumption
    <3> QED BY <1>1, <3>2, <3>3, ReceiverAssumption DEF ReceiverInv, LastInv, Due
  <2> QED BY <1>1, <2>1 DEF ReceiverInv, LastInv
<1>2. LastInv'
  BY <1>1 DEF ReceiverInv, LastInv, CurrentInv
<1>3. FoundInv'
  BY DEF ReceiverInv, FoundInv
<1> QED BY <1>2, <1>3

-----------------------------------------------------------------------------
\* Before the first packet there is nothing to evaluate.
LEMMA InitReceiver == Init => ReceiverInv
<1> SUFFICES ASSUME Init PROVE ReceiverInv
  OBVIOUS
<1>1. /\ IsQueue(EmptyQueue(ReceiverTimers), ReceiverTimers)
      /\ Scheduled(EmptyQueue(ReceiverTimers)) = {}
  BY DEF EmptyQueue, IsQueue, Scheduled
<1>2. packets = <<>> /\ packets \in Seq(PacketInfo(talkspurtNumPackets))
  BY DEF Init
<1>3. TimerMatchesTalkspurt
  BY <1>1, <1>2 DEF Init, TimerMatchesTalkspurt
<1>4. CurrentInv
  BY <1>2 DEF Init, CurrentInv
<1>5. LastInv /\ FoundInv /\ TimerWaitsForTimelyPackets
  BY DEF Init, LastInv, FoundInv, TimerWaitsForTimelyPackets
<1>6. copies \in [Call -> 0 .. 2]
  BY DEF Init
<1>7. now \in Nat /\ playoutDelay \in Nat /\ over \in BOOLEAN /\ IsQueue(pending, ReceiverTimers)
  BY <1>1, ReceiverAssumption DEF Init
<1> QED BY <1>3, <1>4, <1>5, <1>6, <1>7 DEF ReceiverInv

\* A packet arrives: each branch of socketDataArrived.
LEMMA ArriveStep ==
  ASSUME ReceiverInv, NEW p \in Call, NEW d \in Nat, Arrive(p, d)
  PROVE  ReceiverInv'
<1> DEFINE q == Elapse(pending, d)
<1>1. /\ IsQueue(q, ReceiverTimers) /\ Scheduled(q) = Scheduled(pending)
      /\ TalkspurtFinished \in Scheduled(q) =>
            /\ pending.left[TalkspurtFinished] \in Nat
            /\ q.left[TalkspurtFinished] = pending.left[TalkspurtFinished] - d
  BY ElapsedQueue DEF ReceiverInv, Arrive
<1>2. /\ now' = now + d /\ now' \in Nat /\ now =< now' /\ UNCHANGED over
      /\ SocketDataArrived(q, p)
  BY DEF Arrive, ReceiverInv
<1>3. copies' \in [Call -> 0 .. 2]
  <2>1. copies[p] \in {0, 1} /\ copies' = [copies EXCEPT ![p] = @ + 1]
    BY DEF Arrive, MayCopy
  <2> QED BY <2>1 DEF ReceiverInv
<1>4. p.talkspurtID \in Int
  BY PacketOfCall
<1> HIDE DEF q
<1>5. CASE FirstTalkspurt(q, p)
  <2>1. /\ StartTalkspurt(q, p, playoutDelay) /\ status = "EMPTY"
        /\ ignored' = None /\ UNCHANGED <<playoutDelay, last>>
    BY <1>5 DEF FirstTalkspurt
  <2>2. last = None
    BY <2>1 DEF ReceiverInv, LastInv
  <2>3. /\ IsQueue(pending', ReceiverTimers) /\ TimerMatchesTalkspurt' /\ CurrentInv'
    BY <1>1, <1>2, <2>1, Started DEF ReceiverInv
  <2>4. LastInv' /\ FoundInv' /\ TimerWaitsForTimelyPackets'
    BY <2>1, <2>2 DEF LastInv, FoundInv, TimerWaitsForTimelyPackets
  <2> QED BY <1>2, <1>3, <2>1, <2>3, <2>4 DEF ReceiverInv
<1>6. CASE NewTalkspurt(q, p)
  <2>1. /\ StartTalkspurt(Cancel(q, TalkspurtFinished), p, playoutDelay')
        /\ status # "EMPTY" /\ p.talkspurtID > talkspurtID /\ ignored' = None
    BY <1>6 DEF NewTalkspurt
  <2>2. IsQueue(Cancel(q, TalkspurtFinished), ReceiverTimers)
    BY <1>1, CancelQueue DEF ReceiverTimers
  <2>3. status' = "ACTIVE" /\ talkspurtID' = p.talkspurtID /\ talkspurtID \in Int
    BY <2>1 DEF StartTalkspurt, ReceiverInv, CurrentInv
  <2>4. LastInv' /\ FoundInv' /\ playoutDelay' \in Nat
    <3>1. CASE status = "ACTIVE"
      <4>1. Evaluate("newer")
        BY <1>6, <3>1 DEF NewTalkspurt
      <4> QED BY <1>2, <1>4, <2>1, <2>3, <3>1, <4>1, Evaluated
    <3>2. CASE status # "ACTIVE"
      <4>1. UNCHANGED <<playoutDelay, last>>
        BY <1>6, <3>2 DEF NewTalkspurt
      <4> QED BY <1>2, <1>4, <2>1, <2>3, <4>1, NotEvaluated DEF ReceiverInv
    <3> QED BY <3>1, <3>2
  <2>5. /\ IsQueue(pending', ReceiverTimers) /\ TimerMatchesTalkspurt' /\ CurrentInv'
    BY <1>2, <2>1, <2>2, <2>4, Started DEF ReceiverInv
  <2>6. TimerWaitsForTimelyPackets'
    BY <2>1 DEF TimerWaitsForTimelyPackets
  <2> QED BY <1>2, <1>3, <2>4, <2>5, <2>6 DEF ReceiverInv
<1>7. CASE ContinuedTalkspurt(q, p)
  <2>1. /\ status = "ACTIVE" /\ p.talkspurtID = talkspurtID
        /\ packets' = Append(packets, Info(p, now')) /\ pending' = q /\ ignored' = None
        /\ UNCHANGED <<status, talkspurtID, talkspurtNumPackets, playoutDelay, last>>
    BY <1>7 DEF ContinuedTalkspurt
  <2>2. p.talkspurtNumPackets = talkspurtNumPackets
    BY <2>1, SpokenOnce DEF ReceiverInv, CurrentInv
  <2>3. Info(p, now') \in PacketInfo(talkspurtNumPackets)
    BY <1>2, <2>2, PacketOfCall DEF Info, PacketInfo
  <2>4. packets \in Seq(PacketInfo(talkspurtNumPackets)) /\ packets # <<>>
    BY <2>1 DEF ReceiverInv, CurrentInv, TimerMatchesTalkspurt
  <2>5. /\ packets' \in Seq(PacketInfo(talkspurtNumPackets)) /\ packets' # <<>>
        /\ packets'[1] = packets[1]
    <3> DEFINE i == Info(p, now')
    <3> HIDE DEF i
    <3>1. /\ Append(packets, i) \in Seq(PacketInfo(talkspurtNumPackets))
          /\ Append(packets, i) # <<>> /\ Append(packets, i)[1] = packets[1]
      BY <2>3, <2>4 DEF i
    <3> QED BY <2>1, <3>1 DEF i
  <2>6. TalkspurtFinished \in Scheduled(q)
    BY <1>1, <2>1 DEF ReceiverInv, TimerMatchesTalkspurt
  <2>7. now' + q.left[TalkspurtFinished] = now + pending.left[TalkspurtFinished]
    BY <1>1, <1>2, <2>6 DEF ReceiverInv
  <2>8. CurrentInv'
    BY <2>1, <2>5, <2>7 DEF ReceiverInv, CurrentInv, Due
  <2>9. TimerMatchesTalkspurt'
    BY <2>1, <2>5, <2>6 DEF TimerMatchesTalkspurt
  <2>10. LastInv' /\ FoundInv'
    BY <1>2, <2>1, NotEvaluated DEF ReceiverInv, CurrentInv
  <2>11. TimerWaitsForTimelyPackets'
    BY <2>1 DEF TimerWaitsForTimelyPackets
  <2> QED BY <1>1, <1>2, <1>3, <2>1, <2>8, <2>9, <2>10, <2>11 DEF ReceiverInv
<1>8. CASE OlderTalkspurt(q, p)
  <2>1. /\ status # "EMPTY" /\ pending' = q /\ UNCHANGED <<talkspurt, playoutDelay, last>>
        /\ ignored' = [talkspurtID |-> p.talkspurtID, packetID |-> p.packetID, time |-> now']
    BY <1>8 DEF OlderTalkspurt
  <2>2. TalkspurtFinished \in Scheduled(q) =>
           now' + q.left[TalkspurtFinished] = now + pending.left[TalkspurtFinished]
    BY <1>1, <1>2 DEF ReceiverInv
  <2>3. TimerMatchesTalkspurt'
    BY <1>1, <2>1 DEF ReceiverInv, TimerMatchesTalkspurt, talkspurt
  <2>4. CurrentInv'
    BY <1>1, <2>1, <2>2 DEF ReceiverInv, CurrentInv, TimerMatchesTalkspurt, talkspurt
  <2>5. LastInv' /\ FoundInv'
    BY <1>2, <2>1, NotEvaluated DEF ReceiverInv, CurrentInv, talkspurt
  <2>6. TimerWaitsForTimelyPackets'
    <3> SUFFICES ASSUME last # None, last.cause = "timer", p.talkspurtID = last.talkspurtID
                 PROVE  now' > PlayoutTime(last.packets, last.delay, p.packetID)
      BY <2>1 DEF TimerWaitsForTimelyPackets
    <3>1. p.talkspurtNumPackets = last.numPackets
      BY SpokenOnce DEF ReceiverInv, LastInv
    <3>2. p.packetID \in 0 .. last.numPackets - 1
      BY <3>1, PacketOfCall
    <3>3. PlayoutTime(last.packets, last.delay, p.packetID)
             < Due(last.packets, last.numPackets, last.delay)
      BY <3>2, PlayoutBeforeDue DEF ReceiverInv, LastInv
    <3>4. Due(last.packets, last.numPackets, last.delay) =< now'
      BY <2>1, <2>5 DEF LastInv
    <3>5. /\ PlayoutTime(last.packets, last.delay, p.packetID) \in Int
          /\ Due(last.packets, last.numPackets, last.delay) \in Int
      <4>1. last.packets[1] \in PacketInfo(last.numPackets)
        BY DEF ReceiverInv, LastInv
      <4> DEFINE f == last.packets[1]
                 a == p.packetID - f.packetID
                 b == last.numPackets - f.packetID
      <4>2. f.arrivalTime \in Int /\ a \in Int /\ b \in Int /\ last.delay \in Int
        <5>1. last.numPackets \in Nat /\ last.delay \in Nat
          BY DEF ReceiverInv, LastInv
        <5>2. f.arrivalTime \in Nat /\ f.packetID \in 0 .. last.numPackets - 1
          BY <4>1 DEF PacketInfo
        <5> QED BY <3>2, <5>1, <5>2
      <4>3. a * VoiceDuration \in Int /\ b * VoiceDuration \in Int
        <5> HIDE DEF a, b
        <5> QED BY <4>2, EvaluationAssumption
      <4> QED BY <4>2, <4>3, ReceiverAssumption DEF PlayoutTime, Due
    <3> QED BY <1>2, <3>3, <3>4, <3>5
  <2> QED BY <1>1, <1>2, <1>3, <2>1, <2>3, <2>4, <2>5, <2>6 DEF ReceiverInv
<1> QED BY <1>2, <1>5, <1>6, <1>7, <1>8 DEF SocketDataArrived

\* The timer arrives: when it was due.
LEMMA TimerStep ==
  ASSUME ReceiverInv, HandleTalkspurtFinished
  PROVE  ReceiverInv'
<1>1. TalkspurtFinished \in ReceiverTimers
  BY DEF ReceiverTimers
<1>2. /\ IsNext(pending, TalkspurtFinished) /\ now' = now + pending.left[TalkspurtFinished]
      /\ pending' = Deliver(pending, TalkspurtFinished) /\ UNCHANGED over
      /\ Evaluate("timer") /\ status' = "FINISHED" /\ packets' = <<>> /\ ignored' = None
      /\ UNCHANGED <<talkspurtID, talkspurtNumPackets, copies>>
  BY DEF HandleTalkspurtFinished, TimerArrives, FinishTalkspurt
<1>3. status = "ACTIVE"
  BY <1>2 DEF ReceiverInv, TimerMatchesTalkspurt, IsNext
<1>4. /\ IsQueue(pending', ReceiverTimers) /\ TalkspurtFinished \notin Scheduled(pending')
      /\ pending.left[TalkspurtFinished] \in Nat
  BY <1>1, <1>2, DeliverQueue DEF ReceiverInv
<1>5. now' \in Nat /\ now =< now'
  BY <1>2, <1>4 DEF ReceiverInv
<1>6. playoutDelay' \in Nat /\ LastInv' /\ FoundInv'
  BY <1>2, <1>3, <1>5, Evaluated DEF ReceiverInv, CurrentInv
<1>7. packets' \in Seq(PacketInfo(talkspurtNumPackets'))
  BY <1>2
<1>8. CurrentInv'
  BY <1>2, <1>3, <1>7 DEF ReceiverInv, CurrentInv
<1>9. TimerMatchesTalkspurt' /\ TimerWaitsForTimelyPackets'
  BY <1>2, <1>4 DEF TimerMatchesTalkspurt, TimerWaitsForTimelyPackets
<1> QED BY <1>2, <1>4, <1>5, <1>6, <1>8, <1>9 DEF ReceiverInv

\* finish() evaluates what is left, and the module's destructor drops the timer.
LEMMA FinishStep ==
  ASSUME ReceiverInv, Finish
  PROVE  ReceiverInv'
<1>1. TalkspurtFinished \in ReceiverTimers
  BY DEF ReceiverTimers
<1>2. /\ pending' = Cancel(pending, TalkspurtFinished) /\ over' = TRUE /\ ignored' = None
      /\ UNCHANGED <<now, talkspurtID, talkspurtNumPackets, copies>>
  BY DEF Finish
<1>3. IsQueue(pending', ReceiverTimers) /\ TalkspurtFinished \notin Scheduled(pending')
  BY <1>1, <1>2, CancelQueue DEF ReceiverInv
<1>4. now' \in Nat /\ now =< now' /\ talkspurtID' \in Int /\ talkspurtID =< talkspurtID'
  BY <1>2 DEF ReceiverInv, CurrentInv
<1>5. CASE status = "ACTIVE"
  <2>1. Evaluate("finish") /\ status' = "FINISHED" /\ packets' = <<>>
    BY <1>5 DEF Finish, FinishTalkspurt
  <2>2. playoutDelay' \in Nat /\ LastInv' /\ FoundInv'
    BY <1>4, <1>5, <2>1, Evaluated
  <2>3. packets' \in Seq(PacketInfo(talkspurtNumPackets'))
    BY <2>1
  <2>4. CurrentInv'
    BY <1>2, <1>5, <2>1, <2>3 DEF ReceiverInv, CurrentInv
  <2>5. TimerMatchesTalkspurt' /\ TimerWaitsForTimelyPackets'
    BY <1>2, <1>3, <2>1 DEF TimerMatchesTalkspurt, TimerWaitsForTimelyPackets
  <2> QED BY <1>2, <1>3, <2>2, <2>4, <2>5 DEF ReceiverInv
<1>6. CASE status # "ACTIVE"
  <2>1. UNCHANGED <<status, packets, playoutDelay, last>>
    BY <1>6 DEF Finish
  <2>2. LastInv' /\ FoundInv'
    BY <1>4, <1>6, <2>1, NotEvaluated
  <2>3. CurrentInv'
    BY <1>2, <1>6, <2>1 DEF ReceiverInv, CurrentInv
  <2>4. TimerMatchesTalkspurt' /\ TimerWaitsForTimelyPackets'
    BY <1>2, <1>3, <1>6, <2>1 DEF ReceiverInv, TimerMatchesTalkspurt, TimerWaitsForTimelyPackets
  <2> QED BY <1>2, <1>3, <2>1, <2>2, <2>3, <2>4 DEF ReceiverInv
<1> QED BY <1>5, <1>6

\* Every event keeps the invariant.
LEMMA StepReceiver ==
  ASSUME ReceiverInv, [Next]_vars
  PROVE  ReceiverInv'
<1>1. CASE \E p \in Call : \E d \in 0 .. Horizon - now : Arrive(p, d)
  <2>1. PICK p \in Call, d \in 0 .. Horizon - now : Arrive(p, d)
    BY <1>1
  <2>2. d \in Nat
    OBVIOUS
  <2> QED BY <2>1, <2>2, ArriveStep
<1>2. CASE HandleTalkspurtFinished
  BY <1>2, TimerStep
<1>3. CASE Finish
  BY <1>3, FinishStep
<1>4. CASE UNCHANGED vars
  <2>1. CurrentInv' /\ LastInv' /\ FoundInv' /\ TimerMatchesTalkspurt' /\ TimerWaitsForTimelyPackets'
    BY <1>4 DEF vars, talkspurt, ReceiverInv, CurrentInv, LastInv, FoundInv, Due, PacketInfo,
                TimerMatchesTalkspurt, TimerWaitsForTimelyPackets, PlayoutTime
  <2> QED BY <1>4, <2>1 DEF vars, ReceiverInv
<1> QED BY <1>1, <1>2, <1>3, <1>4 DEF Next

-----------------------------------------------------------------------------
\* Whether the playout delay is fixed or adapts: where the timer stands, what the
\* last evaluation was about, what it found, and what they imply.
THEOREM ReceiverInvariant ==
  Spec => []ReceiverInv
<1>1. ReceiverInv /\ [Next]_vars => ReceiverInv'
  BY StepReceiver
<1> QED BY <1>1, InitReceiver, PTL DEF Spec

\* What the last evaluation was given, for the theorems about its result.
LEMMA LastGiven ==
  ASSUME ReceiverInv, last # None
  PROVE  /\ last.numPackets \in Nat /\ last.numPackets < UIntSize /\ last.delay \in Nat
         /\ last.packets \in Seq(PacketInfo(last.numPackets)) /\ last.packets # <<>>
         /\ DOMAIN last.packets = 1 .. Len(last.packets)
<1>1. /\ last.numPackets \in Nat /\ last.delay \in Nat
      /\ last.packets \in Seq(PacketInfo(last.numPackets)) /\ last.packets # <<>>
      /\ SpokenAs(last.talkspurtID, last.numPackets)
  BY DEF ReceiverInv, LastInv
<1>2. last.numPackets < UIntSize
  BY <1>1, CallAssumption DEF SpokenAs
<1>3. DOMAIN last.packets = 1 .. Len(last.packets)
  BY <1>1
<1> QED BY <1>1, <1>2, <1>3

\* What is expected and not played is the sum of the three losses, modulo the
\* width of the counters, for every evaluation and whatever duplicates it has.
THEOREM LossesAccountedFor ==
  Spec => []LossesAddUp
<1>1. ReceiverInv => LossesAddUp
  <2> SUFFICES ASSUME ReceiverInv, last # None
               PROVE  LET r == last.result
                      IN  UInt(r.tailDropLoss + r.playoutLoss + r.channelLoss) =
                          ExpectedPackets(last.packets, last.numPackets, last.cause = "finish")
                              - Cardinality(r.played)
    BY DEF LossesAddUp
  <2> DEFINE finish == last.cause = "finish"
  <2>1. finish \in BOOLEAN
    OBVIOUS
  <2>2. last.result = Evaluation(last.packets, last.numPackets, last.delay, finish)
    BY DEF ReceiverInv, FoundInv
  <2> HIDE DEF finish
  <2>3. LET r == last.result
        IN  UInt(r.tailDropLoss + r.playoutLoss + r.channelLoss) =
            ExpectedPackets(last.packets, last.numPackets, finish) - Cardinality(r.played)
    BY <2>1, <2>2, LastGiven, EvaluationAccountsForEveryPacket
  <2> QED BY <2>3 DEF finish
<1> QED BY <1>1, ReceiverInvariant, PTL

\* A packet in time for its playout is played, or the buffer was full of
\* packets that were waiting for theirs.
THEOREM TimelyPacketsPlayed ==
  Spec => []NoNeedlessLoss
<1>1. ReceiverInv => NoNeedlessLoss
  <2> SUFFICES ASSUME ReceiverInv, last # None, NEW i \in 1 .. Len(last.packets),
                      last.packets[i].arrivalTime
                         =< PlayoutTime(last.packets, last.delay, last.packets[i].packetID)
               PROVE  \/ last.packets[i].packetID \in last.result.played
                      \/ Cardinality({id \in PacketIDs(SubSeq(last.packets, 1, i - 1))
                                               \cap last.result.played :
                              PlayoutTime(last.packets, last.delay, id)
                                 >= last.packets[i].arrivalTime}) >= BufferSpace
    BY LastGiven DEF NoNeedlessLoss
  <2> DEFINE finish == last.cause = "finish"
             pks == last.packets
             p == pks[i]
  <2>1. finish \in BOOLEAN
    OBVIOUS
  <2>2. last.result = Evaluation(pks, last.numPackets, last.delay, finish)
    BY DEF ReceiverInv, FoundInv
  <2> HIDE DEF finish, pks
  <2>3. /\ last.numPackets \in Nat /\ last.delay \in Nat
        /\ pks \in Seq(PacketInfo(last.numPackets)) /\ pks # <<>> /\ i \in 1 .. Len(pks)
    BY LastGiven DEF pks
  <2>4. PlayedUnlessFull(pks, last.delay, last.result.played, i)
    BY <2>1, <2>2, <2>3, EvaluationFinds
  <2>5. ~(Lateness(pks, last.delay, p) > 0)
    <3>1. p \in PacketInfo(last.numPackets)
      BY <2>3
    <3>2. p.packetID \in Int /\ p.arrivalTime \in Int
      BY <3>1 DEF PacketInfo
    <3>3. PlayoutTime(pks, last.delay, p.packetID) \in Int
      BY <2>3, <3>2, PlayoutTimeType
    <3>4. p.arrivalTime =< PlayoutTime(pks, last.delay, p.packetID)
      BY DEF pks
    <3> QED BY <3>2, <3>3, <3>4 DEF Lateness
  <2>6. PacketIDs(SubSeq(pks, 1, i - 1)) = {pks[j].packetID : j \in 1 .. i - 1}
    BY <2>3, FirstPacketIDs
  <2> QED BY <2>4, <2>5, <2>6 DEF PlayedUnlessFull, pks
<1> QED BY <1>1, ReceiverInvariant, PTL

\* With the adaptive playout delay, what the talkspurt taught is enough: the
\* delay chosen for the next one would have saved every packet of this one.
THEOREM AdaptedDelaySuffices ==
  Spec => []AdaptationSuffices
<1>1. ReceiverInv => AdaptationSuffices
  <2> SUFFICES ASSUME ReceiverInv, AdaptivePlayoutDelay, last # None,
                      NEW i \in 1 .. Len(last.packets)
               PROVE  last.packets[i].arrivalTime
                        =< PlayoutTime(last.packets, playoutDelay, last.packets[i].packetID)
    BY LastGiven DEF AdaptationSuffices
  <2> DEFINE finish == last.cause = "finish"
             pks == last.packets
             p == pks[i]
             gap == (p.packetID - pks[1].packetID) * VoiceDuration
             most == last.result.maxLateness
  <2>1. finish \in BOOLEAN
    OBVIOUS
  <2>2. /\ last.result = Evaluation(pks, last.numPackets, last.delay, finish)
        /\ playoutDelay = Adapted(last.delay, most)
    BY DEF ReceiverInv, FoundInv
  <2> HIDE DEF finish, pks
  <2>3. /\ last.numPackets \in Nat /\ last.delay \in Nat
        /\ pks \in Seq(PacketInfo(last.numPackets)) /\ pks # <<>> /\ i \in 1 .. Len(pks)
    BY LastGiven DEF pks
  <2>4. most \in Int /\ most >= Lateness(pks, last.delay, p)
    BY <2>1, <2>2, <2>3, EvaluationFinds
  <2>5. playoutDelay \in Nat /\ playoutDelay >= last.delay + most
    BY <2>2, <2>3, <2>4, AdaptedType
  <2>6. p \in PacketInfo(last.numPackets) /\ pks[1] \in PacketInfo(last.numPackets)
    BY <2>3
  <2>7. /\ p.packetID \in Int /\ p.arrivalTime \in Int
        /\ pks[1].packetID \in Int /\ pks[1].arrivalTime \in Int
    BY <2>6 DEF PacketInfo
  <2>8. gap \in Int
    <3>1. p.packetID - pks[1].packetID \in Int
      BY <2>7
    <3> QED BY <3>1, EvaluationAssumption
  <2> HIDE DEF p, most
  <2>9. /\ Lateness(pks, last.delay, p) = p.arrivalTime - (pks[1].arrivalTime + last.delay + gap)
        /\ PlayoutTime(pks, playoutDelay, p.packetID) = pks[1].arrivalTime + playoutDelay + gap
    BY DEF Lateness, PlayoutTime
  <2> HIDE DEF gap
  <2>10. p.arrivalTime =< PlayoutTime(pks, playoutDelay, p.packetID)
    BY <2>3, <2>4, <2>5, <2>7, <2>8, <2>9
  <2> QED BY <2>10 DEF p, pks
<1> QED BY <1>1, ReceiverInvariant, PTL

\* The assertions of evaluateTalkspurt hold whenever the timer, a newer
\* packet or finish() calls it.
THEOREM AssertionsHold ==
  Spec => []TimerMatchesTalkspurt
<1>1. ReceiverInv => TimerMatchesTalkspurt
  BY DEF ReceiverInv
<1> QED BY <1>1, ReceiverInvariant, PTL

\* What arrives after the timer, and is ignored for it, missed its playout
\* (startTalkspurt's end time is long enough), whatever packet came first.
THEOREM TimerLongEnough ==
  Spec => []TimerWaitsForTimelyPackets
<1>1. ReceiverInv => TimerWaitsForTimelyPackets
  BY DEF ReceiverInv
<1> QED BY <1>1, ReceiverInvariant, PTL

\* Every variable keeps its type; no packet collected lies outside the
\* isArrived array of evaluateTalkspurt.
THEOREM ReceiverTypeCorrect ==
  Spec => []TypeOK
<1>1. ReceiverInv => TypeOK
  <2> SUFFICES ASSUME ReceiverInv PROVE TypeOK
    OBVIOUS
  <2>1. ASSUME NEW p \in Range(packets) PROVE p.packetID \in 0 .. talkspurtNumPackets - 1
    <3>1. PICK i \in DOMAIN packets : p = packets[i]
      BY <2>1 DEF Range
    <3>2. packets[i] \in PacketInfo(talkspurtNumPackets)
      BY <3>1 DEF ReceiverInv, CurrentInv
    <3> QED BY <3>1, <3>2 DEF PacketInfo
  <2> QED BY <2>1 DEF TypeOK, ReceiverInv, CurrentInv
<1> QED BY <1>1, ReceiverInvariant, PTL

\* No talkspurt is evaluated twice or after a later one, however its packets
\* are delayed, doubled and reordered (socketDataArrived).
THEOREM InOrderEvaluation ==
  Spec => EvaluatedInOrder
<1>1. ReceiverInv /\ [Next]_vars
        => [last' # last /\ last # None => last'.talkspurtID > last.talkspurtID]_vars
  <2> SUFFICES ASSUME ReceiverInv, [Next]_vars, last' # last, last # None
               PROVE  last'.talkspurtID > last.talkspurtID
    OBVIOUS
  <2>1. PICK cause : Evaluate(cause) /\ status = "ACTIVE"
    <3>1. CASE \E p \in Call : \E d \in 0 .. Horizon - now : Arrive(p, d)
      BY <3>1 DEF Arrive, SocketDataArrived, FirstTalkspurt, NewTalkspurt,
                  ContinuedTalkspurt, OlderTalkspurt
    <3>2. CASE HandleTalkspurtFinished
      BY <3>2 DEF HandleTalkspurtFinished, TimerArrives, IsNext, ReceiverInv, TimerMatchesTalkspurt
    <3>3. CASE Finish
      BY <3>3 DEF Finish
    <3>4. CASE UNCHANGED vars
      BY <3>4 DEF vars
    <3> QED BY <3>1, <3>2, <3>3, <3>4 DEF Next
  <2>2. last'.talkspurtID = talkspurtID
    BY <2>1 DEF Evaluate
  <2> QED BY <2>1, <2>2 DEF ReceiverInv, CurrentInv, LastInv
<1> QED BY <1>1, ReceiverInvariant, PTL DEF Spec, EvaluatedInOrder
=============================================================================
