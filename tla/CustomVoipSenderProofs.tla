----------------------- MODULE CustomVoipSenderProofs -----------------------
(***************************************************************************)
(* For every value of the constants: the voice source sends no voice twice *)
(* and numbers it in the order in which it is spoken.  As long as an int   *)
(* holds the number of packets of a talkspurt, packet numbers stay below   *)
(* it, a talkspurt that is cut misses one packet, and no voice is taken    *)
(* from after the stop time.                                               *)
(***************************************************************************)
EXTENDS CustomVoipSender, EventQueueProofs

\* What is known of a packet that was sent: all its voice is spoken, and what
\* the next packet to leave will carry comes after it, in time and in number.
SentBefore(p) ==
    /\ p.talkspurtID \in Nat /\ p.packetID \in Nat /\ p.voipTimestamp \in Int
    /\ p.voipTimestamp + PacketizationInterval =< now
    /\ \/ p.talkspurtID < talkspurtID - 1
       \/ p.talkspurtID = talkspurtID - 1 /\ p.packetID < packetID
    /\ SelfSender \in Scheduled(pending) =>
          p.voipTimestamp + PacketizationInterval
              =< now + pending.left[SelfSender] - PacketizationInterval

\* The inductive invariant.
SenderInv ==
    /\ now \in Nat /\ IsQueue(pending, SenderTimers)
    /\ talkspurtID \in Nat /\ packetID \in Nat
    /\ isTalk \in BOOLEAN
    /\ SelfSender \in Scheduled(pending) => talkspurtID >= 1
    /\ \A p \in sent : SentBefore(p)
    /\ VoiceDoesNotOverlap
    /\ NumberingFollowsVoice

-----------------------------------------------------------------------------
\* The two numeric conversions yield numbers: the quotient of talkspurt() an
\* int, the unsigned field of the packet one of its values.
LEMMA PacketsType ==
  ASSUME NEW dur \in Int
  PROVE  Packets(dur) \in Int
BY SenderAssumption, SMT DEF Packets

LEMMA UIntType ==
  ASSUME NEW n \in Int
  PROVE  UInt(n) \in 0 .. UIntSize - 1
BY SenderAssumption, SMT DEF UInt

\* A period that is cut at the stop time still has a positive length.
LEMMA CappedPositive ==
  ASSUME NEW time \in Nat, NEW dur \in Nat \ {0}, ~Stopped(time)
  PROVE  Capped(time, dur) \in Nat \ {0}
BY SenderAssumption DEF Capped, Stopped, Forever

\* The packet timer while the talk/silence timer is handled.
LEMMA SourceQueue ==
  ASSUME IsQueue(pending, SenderTimers), IsNext(pending, SelfSource),
         NEW q, q = Deliver(pending, SelfSource)
  PROVE  /\ IsQueue(q, SenderTimers) /\ SelfSource \notin Scheduled(q)
         /\ pending.left[SelfSource] \in Nat
         /\ SelfSender \in Scheduled(q) <=> SelfSender \in Scheduled(pending)
         /\ SelfSender \in Scheduled(q) =>
               /\ q.left[SelfSender] \in Nat /\ pending.left[SelfSender] \in Nat
               /\ q.left[SelfSender] = pending.left[SelfSender] - pending.left[SelfSource]
<1>1. SelfSource \in SenderTimers /\ SelfSender \in SenderTimers /\ SelfSource # SelfSender
  BY DEF SenderTimers, SelfSource, SelfSender
<1>2. /\ IsQueue(q, SenderTimers) /\ pending.left[SelfSource] \in Nat
      /\ Scheduled(q) = Scheduled(pending) \ {SelfSource}
      /\ \A u \in Scheduled(pending) \ {SelfSource} :
            q.left[u] = pending.left[u] - pending.left[SelfSource]
  BY <1>1, DeliverQueue
<1>3. SelfSender \in Scheduled(q) =>
         q.left[SelfSender] \in Nat /\ pending.left[SelfSender] \in Nat
  BY <1>1, <1>2 DEF IsQueue, Scheduled
<1> QED BY <1>1, <1>2, <1>3

\* The queue after talkspurt(): the first packet leaves one interval after the
\* time a pending packet of the talkspurt before would have left.
LEMMA TalkspurtQueue ==
  ASSUME NEW q, IsQueue(q, SenderTimers), NEW dur \in Nat, Talkspurt(q, dur)
  PROVE  /\ IsQueue(pending', SenderTimers)
         /\ Overlap(q) \in Nat
         /\ SelfSender \in Scheduled(pending')
         /\ pending'.left[SelfSender] = Overlap(q) + PacketizationInterval
         /\ SelfSource \in Scheduled(pending') /\ pending'.left[SelfSource] = dur
<1>1. SelfSource \in SenderTimers /\ SelfSender \in SenderTimers /\ SelfSource # SelfSender
  BY DEF SenderTimers, SelfSource, SelfSender
<1>2. Overlap(q) \in Nat /\ Overlap(q) + PacketizationInterval \in Nat
  BY <1>1, SenderAssumption DEF IsQueue, Scheduled, Overlap
<1> DEFINE r == ScheduleAfter(Cancel(q, SelfSender), SelfSender, Overlap(q) + PacketizationInterval)
<1>3. /\ IsQueue(r, SenderTimers) /\ SelfSender \in Scheduled(r)
      /\ r.left[SelfSender] = Overlap(q) + PacketizationInterval
  <2> DEFINE c == Cancel(q, SelfSender)
             d == Overlap(q) + PacketizationInterval
  <2>1. IsQueue(c, SenderTimers) /\ d \in Nat
    BY <1>1, <1>2, CancelQueue
  <2> HIDE DEF c, d
  <2>2. /\ IsQueue(ScheduleAfter(c, SelfSender, d), SenderTimers)
        /\ Scheduled(ScheduleAfter(c, SelfSender, d)) = Scheduled(c) \cup {SelfSender}
        /\ ScheduleAfter(c, SelfSender, d).left[SelfSender] = d
    BY <1>1, <2>1, ScheduleAfterQueue
  <2> QED BY <2>2 DEF c, d
<1>4. pending' = ScheduleAfter(r, SelfSource, dur)
  BY DEF Talkspurt
<1> HIDE DEF r
<1>5. /\ IsQueue(pending', SenderTimers) /\ Scheduled(pending') = Scheduled(r) \cup {SelfSource}
      /\ \A u \in SenderTimers \ {SelfSource} : pending'.left[u] = r.left[u]
      /\ pending'.left[SelfSource] = dur
  BY <1>1, <1>3, <1>4, ScheduleAfterQueue
<1> QED BY <1>1, <1>2, <1>3, <1>5

-----------------------------------------------------------------------------
\* What was sent keeps its order while nothing is added to it.
LEMMA NothingSent ==
  VoiceDoesNotOverlap /\ NumberingFollowsVoice /\ UNCHANGED sent
    => VoiceDoesNotOverlap' /\ NumberingFollowsVoice'
BY DEF VoiceDoesNotOverlap, NumberingFollowsVoice

\* Nothing is sent at the start.
LEMMA InitSender == Init => SenderInv
<1> SUFFICES ASSUME Init PROVE SenderInv
  OBVIOUS
<1>1. SelfSource \in SenderTimers /\ SelfSender \in SenderTimers /\ SelfSource # SelfSender
  BY DEF SenderTimers, SelfSource, SelfSender
<1>2. /\ IsQueue(EmptyQueue(SenderTimers), SenderTimers)
      /\ Scheduled(EmptyQueue(SenderTimers)) = {}
  BY DEF EmptyQueue, IsQueue, Scheduled
<1>3. IsQueue(pending, SenderTimers) /\ Scheduled(pending) = {SelfSource}
  BY <1>1, <1>2, ScheduleAfterQueue, SenderAssumption DEF Init
<1> QED BY <1>1, <1>3 DEF Init, SenderInv, VoiceDoesNotOverlap, NumberingFollowsVoice

\* The talk/silence timer moves the next packet no nearer than it was.
LEMMA SourceStep == SenderInv /\ HandleSelfSource => SenderInv'
<1> SUFFICES ASSUME SenderInv, HandleSelfSource PROVE SenderInv'
  OBVIOUS
<1> DEFINE q == Deliver(pending, SelfSource)
<1>1. /\ IsQueue(q, SenderTimers) /\ SelfSource \notin Scheduled(q)
      /\ pending.left[SelfSource] \in Nat
      /\ SelfSender \in Scheduled(q) <=> SelfSender \in Scheduled(pending)
      /\ SelfSender \in Scheduled(q) =>
            /\ q.left[SelfSender] \in Nat /\ pending.left[SelfSender] \in Nat
            /\ q.left[SelfSender] = pending.left[SelfSender] - pending.left[SelfSource]
  BY SourceQueue DEF SenderInv, HandleSelfSource
<1>2. /\ now' = now + pending.left[SelfSource] /\ now' \in Nat
      /\ UNCHANGED sent /\ SelectTalkOrSilenceInterval(q)
  BY <1>1 DEF HandleSelfSource, SenderInv
<1>3. VoiceDoesNotOverlap' /\ NumberingFollowsVoice'
  BY <1>2, NothingSent DEF SenderInv
<1> HIDE DEF q
<1>4. ASSUME UNCHANGED <<talkspurtID, packetID>>, isTalk' \in BOOLEAN,
             IsQueue(pending', SenderTimers),
             SelfSender \in Scheduled(pending') <=> SelfSender \in Scheduled(q),
             pending'.left[SelfSender] = q.left[SelfSender]
      PROVE  SenderInv'
  <2>1. ASSUME NEW p \in sent PROVE SentBefore(p)'
    BY <1>1, <1>2, <1>4, <2>1, SenderAssumption DEF SenderInv, SentBefore
  <2> QED BY <1>1, <1>2, <1>3, <1>4, <2>1 DEF SenderInv
<1>5. CASE Stopped(now') /\ pending' = q /\ UNCHANGED <<isTalk, talkspurtID, packetID>>
  BY <1>1, <1>4, <1>5 DEF SenderInv
<1>6. CASE ~Stopped(now') /\ BeginSilence(q)
  <2>1. PICK dur \in SilenceDurations :
           pending' = ScheduleAfter(q, SelfSource, Capped(now', dur))
    BY <1>6 DEF BeginSilence
  <2>2. Capped(now', dur) \in Nat
    BY <1>2, <1>6, CappedPositive, SenderAssumption
  <2>3. SelfSource \in SenderTimers /\ SelfSender \in SenderTimers \ {SelfSource}
    BY DEF SenderTimers, SelfSource, SelfSender
  <2>4. /\ IsQueue(pending', SenderTimers) /\ Scheduled(pending') = Scheduled(q) \cup {SelfSource}
        /\ pending'.left[SelfSender] = q.left[SelfSender]
    BY <1>1, <2>1, <2>2, <2>3, ScheduleAfterQueue
  <2> QED BY <1>4, <1>6, <2>3, <2>4 DEF BeginSilence
<1>7. CASE ~Stopped(now') /\ BeginTalk(q)
  <2>1. PICK dur \in TalkspurtDurations : Talkspurt(q, Capped(now', dur))
    BY <1>7 DEF BeginTalk
  <2>2. Capped(now', dur) \in Nat
    BY <1>2, <1>7, CappedPositive, SenderAssumption
  <2>3. /\ IsQueue(pending', SenderTimers) /\ Overlap(q) \in Nat
        /\ pending'.left[SelfSender] = Overlap(q) + PacketizationInterval
    BY <1>1, <2>1, <2>2, TalkspurtQueue
  <2>4. talkspurtID' = talkspurtID + 1 /\ packetID' = 0 /\ isTalk' = TRUE
    BY <1>7, <2>1 DEF BeginTalk, Talkspurt
  <2>5. ASSUME NEW p \in sent PROVE SentBefore(p)'
    <3>1. p.voipTimestamp + PacketizationInterval =< now' + Overlap(q)
      BY <1>1, <1>2, <2>5, SenderAssumption DEF SenderInv, SentBefore, Overlap
    <3> QED BY <1>1, <1>2, <2>3, <2>4, <2>5, <3>1, SenderAssumption DEF SenderInv, SentBefore
  <2> QED BY <1>2, <1>3, <2>3, <2>4, <2>5 DEF SenderInv
<1> QED BY <1>2, <1>5, <1>6, <1>7 DEF SelectTalkOrSilenceInterval

\* A packet that leaves carries voice after all that was sent, and a higher number.
LEMMA SenderStep == SenderInv /\ HandleSelfSender => SenderInv'
<1> SUFFICES ASSUME SenderInv, HandleSelfSender PROVE SenderInv'
  OBVIOUS
<1> DEFINE q == Deliver(pending, SelfSender)
           new == VoicePacket(now')
<1>1. SelfSender \in SenderTimers
  BY DEF SenderTimers
<1>2. /\ IsQueue(q, SenderTimers) /\ pending.left[SelfSender] \in Nat
      /\ Scheduled(q) = Scheduled(pending) \ {SelfSender}
      /\ SelfSender \in Scheduled(pending)
  BY <1>1, DeliverQueue DEF SenderInv, HandleSelfSender, IsNext
<1>3. /\ now' = now + pending.left[SelfSender] /\ now' \in Nat
      /\ sent' = sent \cup {new} /\ packetID' = packetID + 1
      /\ UNCHANGED <<isTalk, talkspurtID>>
      /\ pending' \in {q, ScheduleAfter(q, SelfSender, PacketizationInterval)}
  BY <1>2 DEF HandleSelfSender, SendVoIPPacket, SenderInv
<1>4. /\ new.talkspurtID = talkspurtID - 1 /\ new.packetID = packetID
      /\ new.voipTimestamp = now' - PacketizationInterval
      /\ talkspurtID - 1 \in Nat /\ packetID \in Nat
  BY <1>2, SenderAssumption DEF VoicePacket, SenderInv
<1> HIDE DEF q, new
<1>5. /\ IsQueue(pending', SenderTimers)
      /\ SelfSender \in Scheduled(pending') => pending'.left[SelfSender] = PacketizationInterval
  BY <1>1, <1>2, <1>3, ScheduleAfterQueue, SenderAssumption
<1>6. ASSUME NEW p \in sent
      PROVE  /\ p.voipTimestamp + PacketizationInterval =< new.voipTimestamp
             /\ \/ p.talkspurtID < new.talkspurtID
                \/ p.talkspurtID = new.talkspurtID /\ p.packetID < new.packetID
             /\ p.voipTimestamp \in Int /\ p.talkspurtID \in Nat /\ p.packetID \in Nat
  BY <1>2, <1>3, <1>4, <1>6, SenderAssumption DEF SenderInv, SentBefore
<1>7. ASSUME NEW p \in sent' PROVE SentBefore(p)'
  <2>1. CASE p \in sent
    BY <1>2, <1>3, <1>4, <1>5, <1>6, <2>1, SenderAssumption DEF SenderInv, SentBefore
  <2>2. CASE p = new
    BY <1>3, <1>4, <1>5, <2>2, SenderAssumption DEF SenderInv, SentBefore
  <2> QED BY <1>3, <1>7, <2>1, <2>2
<1>8. VoiceDoesNotOverlap'
  BY <1>3, <1>6 DEF SenderInv, VoiceDoesNotOverlap
<1>9. NumberingFollowsVoice'
  <2> SUFFICES ASSUME NEW p \in sent', NEW r \in sent'
               PROVE  p.voipTimestamp < r.voipTimestamp <=>
                        \/ p.talkspurtID < r.talkspurtID
                        \/ p.talkspurtID = r.talkspurtID /\ p.packetID < r.packetID
    BY DEF NumberingFollowsVoice
  <2>1. CASE p \in sent /\ r \in sent
    BY <2>1 DEF SenderInv, NumberingFollowsVoice
  <2>2. CASE p = new \/ r = new
    BY <1>3, <1>4, <1>6, <2>2, SenderAssumption
  <2> QED BY <1>3, <2>1, <2>2
<1> QED BY <1>3, <1>5, <1>4, <1>7, <1>8, <1>9 DEF SenderInv

\* Either timer keeps the invariant.
LEMMA StepSender == SenderInv /\ [Next]_vars => SenderInv'
<1> SUFFICES ASSUME SenderInv, [Next]_vars PROVE SenderInv'
  OBVIOUS
<1>1. CASE HandleSelfSource
  BY <1>1, SourceStep
<1>2. CASE HandleSelfSender
  BY <1>2, SenderStep
<1>3. CASE UNCHANGED vars
  BY <1>3 DEF vars, SenderInv, SentBefore, VoiceDoesNotOverlap, NumberingFollowsVoice
<1> QED BY <1>1, <1>2, <1>3 DEF Next

\* The rest of TypeOK: the int and the fields of the packets sent.
LEMMA StepType == SenderInv /\ TypeOK /\ [Next]_vars => TypeOK'
<1> SUFFICES ASSUME SenderInv, TypeOK, [Next]_vars PROVE TypeOK'
  OBVIOUS
<1>1. SenderInv'
  BY StepSender
<1>2. ASSUME talkspurtNumPackets' \in Int, sent' \subseteq Packet PROVE TypeOK'
  BY <1>1, <1>2 DEF SenderInv, TypeOK
<1>3. CASE HandleSelfSource
  <2> DEFINE q == Deliver(pending, SelfSource)
  <2>1. UNCHANGED sent /\ SelectTalkOrSilenceInterval(q)
    BY <1>3 DEF HandleSelfSource
  <2>2. CASE UNCHANGED talkspurtNumPackets
    BY <1>2, <2>1, <2>2 DEF TypeOK
  <2>3. CASE ~Stopped(now') /\ BeginTalk(q)
    <3> HIDE DEF q
    <3>1. IsQueue(q, SenderTimers)
      BY <1>3, SourceQueue DEF q, SenderInv, HandleSelfSource
    <3>2. PICK dur \in TalkspurtDurations : Talkspurt(q, Capped(now', dur))
      BY <2>3 DEF BeginTalk
    <3>3. Capped(now', dur) \in Nat
      BY <1>1, <2>3, CappedPositive, SenderAssumption DEF SenderInv
    <3>4. Capped(now', dur) - Overlap(q) \in Int
      BY <3>1, <3>2, <3>3, TalkspurtQueue
    <3>5. talkspurtNumPackets' = Packets(Capped(now', dur) - Overlap(q))
      BY <3>2 DEF Talkspurt
    <3> QED BY <1>2, <2>1, <3>4, <3>5, PacketsType DEF TypeOK
  <2> QED BY <2>1, <2>2, <2>3 DEF SelectTalkOrSilenceInterval, BeginSilence
<1>4. CASE HandleSelfSender
  <2>1. /\ sent' = sent \cup {VoicePacket(now')}
        /\ UNCHANGED talkspurtNumPackets
    BY <1>4 DEF HandleSelfSender, SendVoIPPacket
  <2>2. talkspurtID - 1 \in Nat
    BY <1>4 DEF HandleSelfSender, IsNext, SenderInv
  <2>3. now' - PacketizationInterval \in Int
    BY <1>1, SenderAssumption DEF SenderInv
  <2>4. VoicePacket(now') \in Packet
    BY <2>2, <2>3, UIntType DEF VoicePacket, Packet, TypeOK
  <2> QED BY <1>2, <2>1, <2>4 DEF TypeOK
<1>5. CASE UNCHANGED vars
  BY <1>2, <1>5 DEF vars, TypeOK
<1> QED BY <1>3, <1>4, <1>5 DEF Next

-----------------------------------------------------------------------------
\* The number of packets is an int: what is computed for it stays in its range.
NumberFits ==
    talkspurtNumPackets \in -(UIntSize \div 2) .. (UIntSize \div 2) - 1

\* The voice of m packets.
Span(m) == m * PacketizationInterval

\* The packets of the talkspurt that was begun last.
NewestSpurt == {p \in sent : p.talkspurtID = talkspurtID - 1}

\* They bear its number of packets and all smaller packet numbers.
SpurtInv ==
    /\ talkspurtNumPackets \in Int
    /\ \A p \in NewestSpurt : p.talkspurtNumPackets = UInt(talkspurtNumPackets)
    /\ \A i \in 0 .. packetID - 1 : \E p \in NewestSpurt : p.packetID = i
    /\ SelfSender \in Scheduled(pending) =>
          /\ packetID = 0 \/ packetID < talkspurtNumPackets
          /\ \A p \in NewestSpurt : now + pending.left[SelfSender] - PacketizationInterval
                = p.voipTimestamp + Span(packetID - p.packetID)

\* Packets of one talkspurt tell the same about it, and start one interval apart.
RegularSpurts ==
    \A p, q \in sent :
        p.talkspurtID = q.talkspurtID =>
            /\ p.talkspurtNumPackets = q.talkspurtNumPackets
            /\ q.voipTimestamp = p.voipTimestamp + Span(q.packetID - p.packetID)

\* All but the last packet leave before the talk ends.
TalkInv ==
    /\ ~isTalk => packetID >= talkspurtNumPackets - 1
    /\ isTalk /\ SelfSource \in Scheduled(pending) /\ packetID < talkspurtNumPackets - 1 =>
          /\ SelfSender \in Scheduled(pending)
          /\ pending.left[SelfSender] + Span(talkspurtNumPackets - 2 - packetID)
                < pending.left[SelfSource]

\* The voice of the last packet begins before the stop time.
StopInv ==
    StopTime # Forever /\ SelfSender \in Scheduled(pending) /\ talkspurtNumPackets >= 1 =>
        now + pending.left[SelfSender] - PacketizationInterval
            + Span(talkspurtNumPackets - 1 - packetID) < StopTime

\* What is proved of the numbers in the packets as long as the int holds.
NumbersInv ==
    /\ SpurtInv /\ RegularSpurts /\ TalkInv /\ StopInv
    /\ OnlyLastPacketIsCut /\ NumberedWithinTalkspurt /\ OnePacketPastStop

\* Arithmetic of spans, of the quotient of talkspurt() and of the unsigned field.
LEMMA SpanStep ==
  ASSUME NEW m \in Int
  PROVE  /\ Span(m) \in Int /\ Span(m + 1) = Span(m) + PacketizationInterval
         /\ Span(m - 1) = Span(m) - PacketizationInterval
         /\ m >= 0 => Span(m) >= 0
         /\ Span(0) = 0
<1>1. m * PacketizationInterval \in Int
  BY SenderAssumption
<1>2. (m + 1) * PacketizationInterval = m * PacketizationInterval + PacketizationInterval
  BY SenderAssumption
<1>3. (m - 1) * PacketizationInterval = m * PacketizationInterval - PacketizationInterval
  BY SenderAssumption
<1>4. m >= 0 => m * PacketizationInterval >= 0
  BY SenderAssumption
<1>5. 0 * PacketizationInterval = 0
  BY SenderAssumption
<1> QED BY <1>1, <1>2, <1>3, <1>4, <1>5 DEF Span

\* Spans add up.
LEMMA SpanSum ==
  ASSUME NEW a \in Int, NEW b \in Int
  PROVE  Span(a + b) = Span(a) + Span(b) /\ Span(-a) = -Span(a)
<1>1. (a + b) * PacketizationInterval = a * PacketizationInterval + b * PacketizationInterval
  BY SenderAssumption
<1>2. (-a) * PacketizationInterval = -(a * PacketizationInterval)
  BY SenderAssumption
<1> QED BY <1>1, <1>2 DEF Span

\* The packets of a talk cover it, and one less would not.
LEMMA PacketsCover ==
  ASSUME NEW dur \in Int
  PROVE  /\ Packets(dur) \in Int
         /\ Span(Packets(dur) - 1) < dur /\ dur =< Span(Packets(dur))
<1> DEFINE k == (-dur) \div PacketizationInterval
<1>1. k \in Int /\ -dur \in Int
  BY SenderAssumption
<1>2. k * PacketizationInterval =< -dur /\ -dur < k * PacketizationInterval + PacketizationInterval
  BY SenderAssumption, SMTT(30)
<1> HIDE DEF k
<1>3. Span(k) =< -dur /\ -dur < Span(k) + PacketizationInterval
  BY <1>2 DEF Span
<1>4. Span(-k) = -Span(k) /\ Span(k) \in Int /\ Span(-k - 1) = Span(-k) - PacketizationInterval
  <2>1. -k \in Int
    BY <1>1
  <2> QED BY <1>1, <2>1, SpanSum, SpanStep
<1>5. dur =< Span(-k) /\ Span(-k - 1) < dur
  BY <1>3, <1>4, SenderAssumption
<1> QED BY <1>1, <1>5 DEF Packets, k

\* A nonnegative int is stored as it is, a negative one as a large number.
LEMMA UIntOfInt ==
  ASSUME NEW n \in -(UIntSize \div 2) .. (UIntSize \div 2) - 1
  PROVE  /\ n \in Int /\ UIntSize \div 2 \in Nat
         /\ n >= 0 => UInt(n) = n
         /\ n < 0 => UInt(n) >= UIntSize \div 2
<1> DEFINE h == UIntSize \div 2
<1>1. h \in Nat /\ h + h =< UIntSize
  BY SenderAssumption, SMT
<1>2. n \in Int /\ -h =< n /\ n < h
  BY <1>1
<1> HIDE DEF h
<1>3. n >= 0 => n % UIntSize = n
  BY <1>1, <1>2, SenderAssumption, SMT
<1>4. n < 0 => n % UIntSize = n + UIntSize
  <2> SUFFICES ASSUME n < 0 PROVE n % UIntSize = n + UIntSize
    OBVIOUS
  <2> DEFINE r == n + UIntSize
  <2>1. r \in 0 .. UIntSize - 1 /\ n = (-1) * UIntSize + r
    BY <1>1, <1>2, SenderAssumption
  <2> HIDE DEF r
  <2>2. n % UIntSize = r
    BY <2>1, SenderAssumption, SMTT(30)
  <2> QED BY <2>2 DEF r
<1>5. n < 0 => n + UIntSize >= h
  BY <1>1, <1>2, SenderAssumption
<1> QED BY <1>1, <1>2, <1>3, <1>4, <1>5 DEF UInt, h

\* The queue after a packet has left.
LEMMA SentQueue ==
  ASSUME IsQueue(pending, SenderTimers), HandleSelfSender
  PROVE  /\ IsQueue(pending', SenderTimers) /\ SelfSender \in Scheduled(pending)
         /\ pending.left[SelfSender] \in Nat /\ now' = now + pending.left[SelfSender]
         /\ SelfSender \in Scheduled(pending') <=> packetID + 1 < talkspurtNumPackets
         /\ SelfSender \in Scheduled(pending') => pending'.left[SelfSender] = PacketizationInterval
         /\ SelfSource \in Scheduled(pending') <=> SelfSource \in Scheduled(pending)
         /\ SelfSource \in Scheduled(pending) =>
               /\ pending.left[SelfSource] \in Nat
               /\ pending'.left[SelfSource] = pending.left[SelfSource] - pending.left[SelfSender]
<1> DEFINE q == Deliver(pending, SelfSender)
<1>1. SelfSource \in SenderTimers /\ SelfSender \in SenderTimers /\ SelfSource # SelfSender
  BY DEF SenderTimers, SelfSource, SelfSender
<1>2. /\ IsQueue(q, SenderTimers) /\ pending.left[SelfSender] \in Nat
      /\ Scheduled(q) = Scheduled(pending) \ {SelfSender}
      /\ SelfSender \in Scheduled(pending)
      /\ \A u \in Scheduled(pending) \ {SelfSender} :
            q.left[u] = pending.left[u] - pending.left[SelfSender]
  BY <1>1, DeliverQueue DEF HandleSelfSender, IsNext
<1>3. /\ now' = now + pending.left[SelfSender] /\ packetID' = packetID + 1
      /\ pending' = IF packetID' < talkspurtNumPackets
                    THEN ScheduleAfter(q, SelfSender, PacketizationInterval) ELSE q
  BY DEF HandleSelfSender, SendVoIPPacket
<1>4. SelfSource \in Scheduled(pending) => pending.left[SelfSource] \in Nat
  BY <1>1 DEF IsQueue, Scheduled
<1> HIDE DEF q
<1>5. CASE packetID + 1 < talkspurtNumPackets
  <2>1. pending' = ScheduleAfter(q, SelfSender, PacketizationInterval)
    BY <1>3, <1>5
  <2>2. /\ IsQueue(pending', SenderTimers)
        /\ Scheduled(pending') = Scheduled(q) \cup {SelfSender}
        /\ pending'.left[SelfSender] = PacketizationInterval
        /\ \A u \in SenderTimers \ {SelfSender} : pending'.left[u] = q.left[u]
    BY <1>1, <1>2, <2>1, ScheduleAfterQueue, SenderAssumption
  <2> QED BY <1>1, <1>2, <1>3, <1>4, <1>5, <2>2
<1>6. CASE ~(packetID + 1 < talkspurtNumPackets)
  BY <1>1, <1>2, <1>3, <1>4, <1>6
<1> QED BY <1>5, <1>6

\* A packet that leaves continues its talkspurt.
LEMMA SenderNumbers ==
  ASSUME SenderInv, NumberFits, NumbersInv, HandleSelfSender
  PROVE  NumbersInv'
<1> DEFINE l == pending.left[SelfSender]
           n == talkspurtNumPackets
           k == packetID
           new == VoicePacket(now')
<1>1. /\ l \in Nat /\ now' = now + l /\ SelfSender \in Scheduled(pending)
      /\ SelfSender \in Scheduled(pending') <=> k + 1 < n
      /\ SelfSender \in Scheduled(pending') => pending'.left[SelfSender] = PacketizationInterval
      /\ SelfSource \in Scheduled(pending') <=> SelfSource \in Scheduled(pending)
      /\ SelfSource \in Scheduled(pending) =>
            /\ pending.left[SelfSource] \in Nat
            /\ pending'.left[SelfSource] = pending.left[SelfSource] - l
  BY SentQueue DEF SenderInv
<1>2. /\ sent' = sent \cup {new} /\ packetID' = k + 1
      /\ UNCHANGED <<isTalk, talkspurtID, talkspurtNumPackets>>
  BY DEF HandleSelfSender, SendVoIPPacket
<1>3. /\ new.talkspurtID = talkspurtID - 1 /\ new.packetID = k
      /\ new.voipTimestamp = now' - PacketizationInterval
      /\ new.talkspurtNumPackets = UInt(n)
  BY DEF VoicePacket
<1>4. /\ now \in Nat /\ k \in Nat /\ n \in Int /\ talkspurtID \in Nat
      /\ PacketizationInterval \in Nat
  BY SenderAssumption DEF SenderInv, NumbersInv, SpurtInv
<1>5. \A p \in sent : p.packetID \in Nat /\ p.voipTimestamp \in Int /\ p.talkspurtID \in Nat
  BY DEF SenderInv, SentBefore
<1>6. k = 0 \/ k < n
  BY <1>1 DEF NumbersInv, SpurtInv
<1>7. \A p \in NewestSpurt : now' - PacketizationInterval = p.voipTimestamp + Span(k - p.packetID)
  <2>1. \A p \in NewestSpurt : now + l - PacketizationInterval = p.voipTimestamp + Span(k - p.packetID)
    BY <1>1 DEF NumbersInv, SpurtInv
  <2>2. now' - PacketizationInterval = now + l - PacketizationInterval
    <3> HIDE DEF l
    <3> QED BY <1>1, <1>4
  <2> QED BY <2>1, <2>2
<1>8. NewestSpurt' = NewestSpurt \cup {new}
  BY <1>2, <1>3 DEF NewestSpurt
<1> HIDE DEF new
<1>9. SpurtInv'
  <2>1. \A p \in NewestSpurt' : p.talkspurtNumPackets = UInt(n)
    BY <1>3, <1>8 DEF NumbersInv, SpurtInv
  <2>2. \A i \in 0 .. (k + 1) - 1 : \E p \in NewestSpurt' : p.packetID = i
    <3> TAKE i \in 0 .. (k + 1) - 1
    <3>1. i = k \/ i \in 0 .. k - 1
      BY <1>4
    <3> QED BY <1>3, <1>8, <3>1 DEF NumbersInv, SpurtInv
  <2>3. ASSUME NEW p \in NewestSpurt'
        PROVE  now' = p.voipTimestamp + Span((k + 1) - p.packetID)
    <3>1. CASE p \in NewestSpurt
      <4> DEFINE m == k - p.packetID
      <4>1. m \in Int /\ p.voipTimestamp \in Int /\ p.packetID \in Int
        BY <1>4, <1>5, <3>1 DEF NewestSpurt
      <4>2. (k + 1) - p.packetID = m + 1
        BY <1>4, <4>1
      <4>3. now' - PacketizationInterval = p.voipTimestamp + Span(m)
        BY <1>7, <3>1
      <4> HIDE DEF m
      <4>4. Span(m + 1) = Span(m) + PacketizationInterval /\ Span(m) \in Int
        BY <4>1, SpanStep
      <4>5. Span((k + 1) - p.packetID) = Span(m + 1)
        BY <4>2
      <4>6. now' \in Int
        BY <1>1, <1>4
      <4> QED BY <1>4, <4>1, <4>3, <4>4, <4>5, <4>6
    <3>2. CASE p = new
      <4>1. (k + 1) - k = 0 + 1 /\ Span(0 + 1) = PacketizationInterval
        BY <1>4, SpanStep
      <4>2. Span((k + 1) - p.packetID) = PacketizationInterval
        BY <1>3, <3>2, <4>1
      <4>3. p.voipTimestamp = now' - PacketizationInterval /\ now' \in Int
        BY <1>1, <1>3, <1>4, <3>2
      <4> QED BY <1>4, <4>2, <4>3
    <3> QED BY <1>8, <3>1, <3>2
  <2>4. SelfSender \in Scheduled(pending') =>
          /\ packetID' < talkspurtNumPackets'
          /\ \A p \in NewestSpurt' : now' + pending'.left[SelfSender] - PacketizationInterval
                = p.voipTimestamp + Span(packetID' - p.packetID)
    <3> SUFFICES ASSUME SelfSender \in Scheduled(pending'), NEW p \in NewestSpurt'
                 PROVE  now' + pending'.left[SelfSender] - PacketizationInterval
                           = p.voipTimestamp + Span(packetID' - p.packetID)
      BY <1>1, <1>2
    <3>1. pending'.left[SelfSender] = PacketizationInterval /\ now' \in Int
      BY <1>1, <1>4
    <3>2. now' + pending'.left[SelfSender] - PacketizationInterval = now'
      BY <1>4, <3>1
    <3> QED BY <1>2, <2>3, <3>2
  <2> QED BY <1>2, <1>4, <2>1, <2>2, <2>4 DEF SpurtInv
<1>10. RegularSpurts'
  <2> SUFFICES ASSUME NEW p \in sent', NEW r \in sent', p.talkspurtID = r.talkspurtID
               PROVE  /\ p.talkspurtNumPackets = r.talkspurtNumPackets
                      /\ r.voipTimestamp = p.voipTimestamp + Span(r.packetID - p.packetID)
    BY DEF RegularSpurts
  <2>1. CASE p \in sent /\ r \in sent
    BY <2>1 DEF NumbersInv, RegularSpurts
  <2>2. ASSUME NEW s \in sent, s.talkspurtID = new.talkspurtID
        PROVE  /\ s.talkspurtNumPackets = new.talkspurtNumPackets
               /\ new.voipTimestamp = s.voipTimestamp + Span(new.packetID - s.packetID)
               /\ s.voipTimestamp = new.voipTimestamp + Span(s.packetID - new.packetID)
    <3>1. s \in NewestSpurt
      BY <1>3, <2>2 DEF NewestSpurt
    <3>2. s.talkspurtNumPackets = new.talkspurtNumPackets
      BY <1>3, <3>1 DEF NumbersInv, SpurtInv
    <3>3. new.voipTimestamp = s.voipTimestamp + Span(new.packetID - s.packetID)
      BY <1>3, <1>7, <3>1
    <3> DEFINE m == k - s.packetID
    <3>4. m \in Int /\ s.packetID - k = -m
      BY <1>4, <1>5
    <3>5. Span(-m) = -Span(m) /\ Span(m) \in Int
      <4> HIDE DEF m
      <4> QED BY <3>4, SpanSum, SpanStep
    <3>6. s.voipTimestamp \in Int /\ new.voipTimestamp = s.voipTimestamp + Span(m)
      BY <1>3, <1>5, <3>3
    <3> HIDE DEF m
    <3>7. s.voipTimestamp = new.voipTimestamp + Span(-m)
      BY <3>5, <3>6
    <3> QED BY <1>3, <3>2, <3>3, <3>4, <3>7
  <2>3. CASE p = new /\ r = new
    <3>1. new.packetID - new.packetID = 0 /\ Span(0) = 0
      BY <1>3, <1>4, SpanStep
    <3>2. new.voipTimestamp \in Int
      BY <1>1, <1>3, <1>4
    <3> QED BY <2>3, <3>1, <3>2
  <2> QED BY <1>2, <2>1, <2>2, <2>3
<1>11. TalkInv'
  <2>1. ~isTalk' => packetID' >= talkspurtNumPackets' - 1
    BY <1>2, <1>4 DEF NumbersInv, TalkInv
  <2>2. ASSUME isTalk', SelfSource \in Scheduled(pending'), packetID' < talkspurtNumPackets' - 1
        PROVE  /\ SelfSender \in Scheduled(pending')
               /\ pending'.left[SelfSender] + Span(talkspurtNumPackets' - 2 - packetID')
                     < pending'.left[SelfSource]
    <3> DEFINE m == n - 2 - k
    <3>1. m \in Int /\ n - 2 - (k + 1) = m - 1 /\ k < n - 1 /\ k + 1 < n
      BY <1>2, <1>4, <2>2
    <3>2. l + Span(m) < pending.left[SelfSource]
      BY <1>1, <1>2, <2>2, <3>1 DEF NumbersInv, TalkInv
    <3> HIDE DEF m
    <3>3. Span(m) \in Int /\ Span(m - 1) = Span(m) - PacketizationInterval
      BY <3>1, SpanStep
    <3>4. PacketizationInterval + Span(m - 1) < pending.left[SelfSource] - l
      BY <1>1, <1>2, <1>4, <2>2, <3>2, <3>3
    <3>5. pending'.left[SelfSender] = PacketizationInterval /\ SelfSender \in Scheduled(pending')
      BY <1>1, <3>1
    <3>6. Span(talkspurtNumPackets' - 2 - packetID') = Span(m - 1)
      BY <1>2, <3>1
    <3>7. pending'.left[SelfSource] = pending.left[SelfSource] - l
      BY <1>1, <2>2
    <3> QED BY <3>4, <3>5, <3>6, <3>7
  <2> QED BY <2>1, <2>2 DEF TalkInv
<1>12. StopInv'
  <2> SUFFICES ASSUME StopTime # Forever, SelfSender \in Scheduled(pending')
               PROVE  now' + pending'.left[SelfSender] - PacketizationInterval
                        + Span(talkspurtNumPackets' - 1 - packetID') < StopTime
    BY DEF StopInv
  <2> DEFINE m == n - 1 - k
  <2>1. m \in Int /\ n - 1 - (k + 1) = m - 1 /\ n >= 1
    BY <1>1, <1>4
  <2>2. now + l - PacketizationInterval + Span(m) < StopTime
    BY <1>1, <2>1 DEF NumbersInv, StopInv
  <2>7. Span(talkspurtNumPackets' - 1 - packetID') = Span(m - 1)
    BY <1>2, <2>1
  <2> HIDE DEF m
  <2>3. Span(m) \in Int /\ Span(m - 1) = Span(m) - PacketizationInterval
    BY <2>1, SpanStep
  <2>4. pending'.left[SelfSender] = PacketizationInterval /\ now' \in Nat /\ StopTime \in Int
    BY <1>1, <1>4, SenderAssumption DEF Forever
  <2>5. now' + PacketizationInterval - PacketizationInterval + Span(m - 1) < StopTime
    BY <1>1, <1>4, <2>2, <2>3, <2>4
  <2> QED BY <2>4, <2>5, <2>7
<1>13. UInt(n) < UIntSize \div 2 => n >= 0
  <2>1. n < 0 => UInt(n) >= UIntSize \div 2
    BY UIntOfInt DEF NumberFits
  <2>2. UInt(n) \in Int /\ UIntSize \div 2 \in Int
    BY <1>4, UIntType, UIntOfInt, SenderAssumption DEF NumberFits
  <2> HIDE DEF n
  <2> QED BY <1>4, <2>1, <2>2
<1>14. n >= 0 => UInt(n) = n
  BY UIntOfInt DEF NumberFits
<1>15. OnlyLastPacketIsCut'
  <2> SUFFICES ASSUME NEW p \in sent', p.talkspurtID < talkspurtID - 1,
                      NEW i \in 0 .. p.talkspurtNumPackets - 2
               PROVE  \/ \E r \in sent' : r.talkspurtID = p.talkspurtID /\ r.packetID = i
                      \/ p.talkspurtNumPackets >= UIntSize \div 2
    BY <1>2 DEF OnlyLastPacketIsCut
  <2>1. p \in sent
    BY <1>2, <1>3, <1>4
  <2> QED BY <1>2, <2>1 DEF NumbersInv, OnlyLastPacketIsCut
<1>16. NumberedWithinTalkspurt'
  <2>1. new.packetID = 0 \/ new.packetID < new.talkspurtNumPackets
    BY <1>3, <1>4, <1>6, <1>14
  <2> QED BY <1>2, <2>1 DEF NumbersInv, NumberedWithinTalkspurt
<1>17. OnePacketPastStop'
  <2> SUFFICES ASSUME StopTime # Forever, new.voipTimestamp >= StopTime
               PROVE  k = 0 /\ (UInt(n) = 0 \/ UInt(n) >= UIntSize \div 2)
    BY <1>2, <1>3 DEF NumbersInv, OnePacketPastStop
  <2>1. n < 1
    <3> SUFFICES ASSUME n >= 1 PROVE FALSE
      BY <1>4
    <3> DEFINE m == n - 1 - k
    <3>1. m \in Int /\ m >= 0
      BY <1>4, <1>6
    <3>2. now + l - PacketizationInterval + Span(m) < StopTime
      BY <1>1 DEF NumbersInv, StopInv
    <3> HIDE DEF m
    <3>3. Span(m) \in Int /\ Span(m) >= 0
      BY <3>1, SpanStep
    <3>4. StopTime \in Int
      BY SenderAssumption DEF Forever
    <3> QED BY <1>1, <1>3, <1>4, <3>2, <3>3, <3>4
  <2>2. k = 0
    BY <1>4, <1>6, <2>1
  <2>3. n < 0 => UInt(n) >= UIntSize \div 2
    BY UIntOfInt DEF NumberFits
  <2> QED BY <1>4, <1>14, <2>1, <2>2, <2>3
<1> QED BY <1>9, <1>10, <1>11, <1>12, <1>15, <1>16, <1>17 DEF NumbersInv

\* A period ends no later than the stop time.
LEMMA CappedBefore ==
  ASSUME NEW time \in Nat, NEW dur \in Nat \ {0}, ~Stopped(time), StopTime # Forever
  PROVE  time + Capped(time, dur) =< StopTime
BY SenderAssumption DEF Capped, Stopped, Forever

\* Without a new talkspurt the numbers stay as they are; a talk that ends has
\* sent all packets but the last.
LEMMA SourceNumbers ==
  ASSUME SenderInv, NumberFits, NumbersInv, HandleSelfSource
  PROVE  NumbersInv'
<1> DEFINE q == Deliver(pending, SelfSource)
           e == pending.left[SelfSource]
           n == talkspurtNumPackets
           k == packetID
<1>1. /\ IsQueue(q, SenderTimers) /\ SelfSource \notin Scheduled(q) /\ e \in Nat
      /\ SelfSender \in Scheduled(q) <=> SelfSender \in Scheduled(pending)
      /\ SelfSender \in Scheduled(q) =>
            /\ q.left[SelfSender] \in Nat /\ pending.left[SelfSender] \in Nat
            /\ q.left[SelfSender] = pending.left[SelfSender] - e
  BY SourceQueue DEF SenderInv, HandleSelfSource
<1>2. /\ now' = now + e /\ now' \in Nat /\ now \in Nat
      /\ UNCHANGED sent /\ SelectTalkOrSilenceInterval(q)
      /\ SelfSource \in Scheduled(pending)
  BY <1>1 DEF HandleSelfSource, SenderInv, IsNext
<1>3. /\ k \in Nat /\ n \in Int /\ talkspurtID \in Nat /\ PacketizationInterval \in Nat
  BY SenderAssumption DEF SenderInv, NumbersInv, SpurtInv
<1>4. \A p \in sent : p.packetID \in Nat /\ p.voipTimestamp \in Int /\ p.talkspurtID \in Nat
  BY DEF SenderInv, SentBefore
<1>5. RegularSpurts' /\ NumberedWithinTalkspurt'
  BY <1>2 DEF NumbersInv, RegularSpurts, NumberedWithinTalkspurt
<1> HIDE DEF q
<1>6. ASSUME UNCHANGED <<talkspurtID, talkspurtNumPackets, packetID>>,
             SelfSender \in Scheduled(pending') <=> SelfSender \in Scheduled(q),
             pending'.left[SelfSender] = q.left[SelfSender],
             TalkInv'
      PROVE  NumbersInv'
  <2>1. NewestSpurt' = NewestSpurt
    BY <1>2, <1>6 DEF NewestSpurt
  <2>2. SelfSender \in Scheduled(pending') =>
           /\ SelfSender \in Scheduled(pending)
           /\ now' + pending'.left[SelfSender] - PacketizationInterval
                = now + pending.left[SelfSender] - PacketizationInterval
    <3> HIDE DEF e
    <3> QED BY <1>1, <1>2, <1>3, <1>6
  <2>3. SpurtInv'
    BY <1>6, <2>1, <2>2 DEF NumbersInv, SpurtInv
  <2>4. StopInv'
    BY <1>6, <2>2 DEF NumbersInv, StopInv
  <2>5. OnlyLastPacketIsCut' /\ OnePacketPastStop'
    BY <1>2, <1>6 DEF NumbersInv, OnlyLastPacketIsCut, OnePacketPastStop
  <2> QED BY <1>5, <1>6, <2>3, <2>4, <2>5 DEF NumbersInv
<1>7. CASE Stopped(now') /\ pending' = q
           /\ UNCHANGED <<isTalk, talkspurtID, talkspurtNumPackets, packetID>>
  <2>1. TalkInv'
    BY <1>1, <1>7 DEF NumbersInv, TalkInv
  <2> QED BY <1>6, <1>7, <2>1
<1>8. CASE ~Stopped(now') /\ BeginSilence(q)
  <2>1. PICK dur \in SilenceDurations :
           pending' = ScheduleAfter(q, SelfSource, Capped(now', dur))
    BY <1>8 DEF BeginSilence
  <2>2. Capped(now', dur) \in Nat
    BY <1>2, <1>8, CappedPositive, SenderAssumption
  <2>3. SelfSource \in SenderTimers /\ SelfSender \in SenderTimers \ {SelfSource}
    BY DEF SenderTimers, SelfSource, SelfSender
  <2>4. /\ Scheduled(pending') = Scheduled(q) \cup {SelfSource}
        /\ pending'.left[SelfSender] = q.left[SelfSender]
    BY <1>1, <2>1, <2>2, <2>3, ScheduleAfterQueue
  <2>5. ~isTalk' /\ isTalk /\ UNCHANGED <<talkspurtID, talkspurtNumPackets, packetID>>
    BY <1>8 DEF BeginSilence
  <2>6. k >= n - 1
    <3> SUFFICES ASSUME k < n - 1 PROVE FALSE
      BY <1>3
    <3> DEFINE m == n - 2 - k
    <3>1. m \in Int /\ m >= 0
      BY <1>3
    <3>2. SelfSender \in Scheduled(pending) /\ pending.left[SelfSender] + Span(m) < e
      BY <1>2, <2>5 DEF NumbersInv, TalkInv
    <3> HIDE DEF m
    <3>3. Span(m) \in Int /\ Span(m) >= 0
      BY <3>1, SpanStep
    <3> QED BY <1>1, <3>2, <3>3
  <2>7. TalkInv'
    BY <1>3, <2>5, <2>6 DEF TalkInv
  <2> QED BY <1>6, <2>3, <2>4, <2>5, <2>7
<1>9. CASE ~Stopped(now') /\ BeginTalk(q)
  <2>1. PICK d \in TalkspurtDurations : Talkspurt(q, Capped(now', d))
    BY <1>9 DEF BeginTalk
  <2> DEFINE dur == Capped(now', d)
             o == Overlap(q)
             m == Packets(dur - o)
  <2>2. dur \in Nat \ {0} /\ (StopTime # Forever => now' + dur =< StopTime)
    BY <1>2, <1>9, CappedPositive, CappedBefore, SenderAssumption
  <2>3. /\ SelfSender \in Scheduled(pending') /\ o \in Nat
        /\ pending'.left[SelfSender] = o + PacketizationInterval
        /\ pending'.left[SelfSource] = dur
    <3> HIDE DEF dur
    <3>1. Talkspurt(q, dur) /\ dur \in Nat
      BY <2>1, <2>2 DEF dur
    <3> QED BY <1>1, <3>1, TalkspurtQueue
  <2>4. /\ talkspurtID' = talkspurtID + 1 /\ packetID' = 0 /\ isTalk' = TRUE /\ ~isTalk
        /\ talkspurtNumPackets' = m
    BY <1>9, <2>1 DEF BeginTalk, Talkspurt
  <2> HIDE DEF dur, o
  <2>5. dur - o \in Int /\ m \in Int /\ Span(m - 1) < dur - o
    <3>1. dur - o \in Int
      BY <2>2, <2>3
    <3> QED BY <3>1, PacketsCover
  <2> HIDE DEF m
  <2>6. Span(m - 1) \in Int /\ Span((m - 1) - 1) = Span(m - 1) - PacketizationInterval
    <3>1. m - 1 \in Int
      BY <2>5
    <3> QED BY <3>1, SpanStep
  <2>7. NewestSpurt' = {}
    <3>1. \A p \in sent : p.talkspurtID =< talkspurtID - 1
      BY <1>3, <1>4 DEF SenderInv, SentBefore
    <3> QED BY <1>2, <1>3, <1>4, <2>4, <3>1 DEF NewestSpurt
  <2>8. SpurtInv'
    <3>1. \A i \in 0 .. packetID' - 1 : FALSE
      BY <2>4
    <3> QED BY <2>4, <2>5, <2>7, <3>1 DEF SpurtInv
  <2>9. TalkInv'
    <3>1. talkspurtNumPackets' - 2 - packetID' = (m - 1) - 1
      BY <2>4, <2>5
    <3>2. o + PacketizationInterval + Span((m - 1) - 1) < dur
      BY <1>3, <2>2, <2>3, <2>5, <2>6
    <3>3. pending'.left[SelfSender] + Span(talkspurtNumPackets' - 2 - packetID')
             < pending'.left[SelfSource]
      BY <2>3, <3>1, <3>2
    <3> QED BY <2>3, <2>4, <3>3 DEF TalkInv
  <2>10. StopInv'
    <3> SUFFICES ASSUME StopTime # Forever
                 PROVE  now' + pending'.left[SelfSender] - PacketizationInterval
                           + Span(talkspurtNumPackets' - 1 - packetID') < StopTime
      BY DEF StopInv
    <3>1. talkspurtNumPackets' - 1 - packetID' = m - 1
      BY <2>4, <2>5
    <3>2. StopTime \in Int
      BY SenderAssumption DEF Forever
    <3>3. now' + (o + PacketizationInterval) - PacketizationInterval + Span(m - 1) < StopTime
      BY <1>2, <1>3, <2>2, <2>3, <2>5, <2>6, <3>2
    <3> QED BY <2>3, <3>1, <3>3
  <2>11. OnlyLastPacketIsCut'
    <3> SUFFICES ASSUME NEW p \in sent, p.talkspurtID < talkspurtID,
                        NEW i \in 0 .. p.talkspurtNumPackets - 2
                 PROVE  \/ \E r \in sent : r.talkspurtID = p.talkspurtID /\ r.packetID = i
                        \/ p.talkspurtNumPackets >= UIntSize \div 2
      BY <1>2, <1>3, <2>4 DEF OnlyLastPacketIsCut
    <3>1. CASE p.talkspurtID < talkspurtID - 1
      BY <3>1 DEF NumbersInv, OnlyLastPacketIsCut
    <3>2. CASE ~(p.talkspurtID < talkspurtID - 1)
      <4>1. p \in NewestSpurt
        BY <1>3, <1>4, <3>2 DEF NewestSpurt
      <4>2. p.talkspurtNumPackets = UInt(n) /\ k >= n - 1
        BY <2>4, <4>1 DEF NumbersInv, SpurtInv, TalkInv
      <4>3. (n >= 0 => UInt(n) = n) /\ (n < 0 => UInt(n) >= UIntSize \div 2)
        BY UIntOfInt DEF NumberFits
      <4>4. CASE n >= 0
        <5>1. i \in 0 .. k - 1
          BY <1>3, <4>2, <4>3, <4>4
        <5>2. \E r \in NewestSpurt : r.packetID = i
          BY <5>1 DEF NumbersInv, SpurtInv
        <5> QED BY <4>1, <5>2 DEF NewestSpurt
      <4>5. CASE n < 0
        BY <4>2, <4>3, <4>5
      <4> QED BY <1>3, <4>4, <4>5
    <3> QED BY <3>1, <3>2
  <2>12. OnePacketPastStop'
    <3> SUFFICES ASSUME StopTime # Forever, NEW p \in sent, p.voipTimestamp >= StopTime
                 PROVE  FALSE
      BY <1>2 DEF OnePacketPastStop
    <3>1. p.voipTimestamp + PacketizationInterval =< now /\ p.voipTimestamp \in Int
      BY DEF SenderInv, SentBefore
    <3>2. now' < StopTime /\ StopTime \in Int
      BY <1>2, <1>9, SenderAssumption DEF Stopped, Forever
    <3> QED BY <1>1, <1>2, <1>3, <3>1, <3>2
  <2> QED BY <1>5, <2>8, <2>9, <2>10, <2>11, <2>12 DEF NumbersInv
<1> QED BY <1>2, <1>7, <1>8, <1>9 DEF SelectTalkOrSilenceInterval

\* There are no numbers at the start.
LEMMA InitNumbers == Init => NumbersInv
<1> SUFFICES ASSUME Init PROVE NumbersInv
  OBVIOUS
<1>1. SelfSource \in SenderTimers /\ SelfSender \in SenderTimers /\ SelfSource # SelfSender
  BY DEF SenderTimers, SelfSource, SelfSender
<1>2. /\ IsQueue(EmptyQueue(SenderTimers), SenderTimers)
      /\ Scheduled(EmptyQueue(SenderTimers)) = {}
  BY DEF EmptyQueue, IsQueue, Scheduled
<1>3. Scheduled(pending) = {SelfSource}
  BY <1>1, <1>2, ScheduleAfterQueue, SenderAssumption DEF Init
<1>4. sent = {} /\ NewestSpurt = {} /\ talkspurtNumPackets = 0 /\ packetID = 0 /\ ~isTalk
  BY DEF Init, NewestSpurt
<1>5. \A i \in 0 .. packetID - 1 : FALSE
  BY <1>4
<1>6. SpurtInv
  BY <1>1, <1>3, <1>4, <1>5 DEF SpurtInv
<1>7. TalkInv /\ StopInv
  BY <1>1, <1>3, <1>4 DEF TalkInv, StopInv
<1> QED BY <1>4, <1>6, <1>7 DEF NumbersInv, RegularSpurts, OnlyLastPacketIsCut,
                               NumberedWithinTalkspurt, OnePacketPastStop

\* Either timer keeps them, as long as the int holds the number of packets.
LEMMA StepNumbers == SenderInv /\ NumberFits /\ NumbersInv /\ [Next]_vars => NumbersInv'
<1> SUFFICES ASSUME SenderInv, NumberFits, NumbersInv, [Next]_vars PROVE NumbersInv'
  OBVIOUS
<1>1. CASE HandleSelfSource
  BY <1>1, SourceNumbers
<1>2. CASE HandleSelfSender
  BY <1>2, SenderNumbers
<1>3. CASE UNCHANGED vars
  BY <1>3 DEF vars, NumbersInv, SpurtInv, NewestSpurt, RegularSpurts, TalkInv, StopInv,
              OnlyLastPacketIsCut, NumberedWithinTalkspurt, OnePacketPastStop
<1> QED BY <1>1, <1>2, <1>3 DEF Next

-----------------------------------------------------------------------------
\* Periods for which the int is large enough: a talk and the silence after it
\* last for a packet, and no talk has too many packets.
PeriodsFit ==
    /\ UIntSize >= 2
    /\ \A d \in TalkspurtDurations, s \in SilenceDurations : d + s >= PacketizationInterval
    /\ \A d \in TalkspurtDurations : Packets(d) < UIntSize \div 2

\* Every talk lasts for a packet, and none is cut at the stop time.
RoomForAPacket ==
    /\ \A d \in TalkspurtDurations : d >= PacketizationInterval
    /\ StopTime = Forever

\* A pending packet of the talkspurt before takes less than one interval from
\* the next.
OverlapInv ==
    LET l == pending.left[SelfSender]
        e == pending.left[SelfSource]
    IN  /\ SelfSender \in Scheduled(pending) /\ SelfSource \in Scheduled(pending)
        /\ ~Stopped(now + e)
        => IF ~isTalk THEN l < e + PacketizationInterval
           ELSE IF packetID < talkspurtNumPackets
           THEN l + Span(talkspurtNumPackets - 1 - packetID) < e + PacketizationInterval
           ELSE \E d \in TalkspurtDurations :
                   l < e + PacketizationInterval + PacketizationInterval - d

\* The number of packets is neither negative nor too large.
FitInv ==
    /\ talkspurtNumPackets \in 0 .. (UIntSize \div 2) - 1
    /\ RoomForAPacket /\ talkspurtID >= 1 => talkspurtNumPackets >= 1
    /\ RoomForAPacket => PacketIDInRange
    /\ OverlapInv

\* A period that ends before the stop time was not cut.
LEMMA CappedNot ==
  ASSUME NEW time \in Nat, NEW dur \in Nat \ {0}, ~Stopped(time)
  PROVE  /\ Capped(time, dur) =< dur
         /\ ~Stopped(time + Capped(time, dur)) => Capped(time, dur) = dur
         /\ StopTime = Forever => Capped(time, dur) = dur
BY SenderAssumption DEF Capped, Stopped, Forever

\* How many packets a period has, from its length.
LEMMA PacketsBetween ==
  ASSUME NEW x \in Int, NEW y \in Int, x =< y, x > -PacketizationInterval
  PROVE  Packets(x) \in Nat /\ Packets(x) =< Packets(y) /\ (x > 0 => Packets(x) >= 1)
<1> DEFINE m == Packets(x)
           p == Packets(y)
<1>1. m \in Int /\ p \in Int /\ Span(m - 1) < x /\ x =< Span(m) /\ y =< Span(p)
  BY PacketsCover
<1> HIDE DEF m, p
<1>2. m >= 0
  <2> SUFFICES ASSUME m < 0 PROVE FALSE
    BY <1>1
  <2> DEFINE j == -(m + 1)
  <2>1. j \in Int /\ j >= 0 /\ m = -j - 1 /\ -j \in Int
    BY <1>1
  <2> HIDE DEF j
  <2>2. Span(j) >= 0 /\ Span(j) \in Int /\ Span(-j) = -Span(j)
        /\ Span(-j - 1) = Span(-j) - PacketizationInterval
    BY <2>1, SpanStep, SpanSum
  <2> QED BY <1>1, <2>1, <2>2, SenderAssumption
<1>3. m =< p
  <2> SUFFICES ASSUME m > p PROVE FALSE
    BY <1>1
  <2> DEFINE j == m - 1 - p
  <2>1. j \in Int /\ j >= 0 /\ m - 1 = p + j
    BY <1>1
  <2> HIDE DEF j
  <2>2. Span(j) >= 0 /\ Span(j) \in Int /\ Span(p) \in Int /\ Span(p + j) = Span(p) + Span(j)
    BY <1>1, <2>1, SpanStep, SpanSum
  <2>3. Span(m - 1) = Span(p) + Span(j)
    BY <2>1, <2>2
  <2> QED BY <1>1, <2>2, <2>3
<1>4. x > 0 => m >= 1
  <2> SUFFICES ASSUME x > 0, m = 0 PROVE FALSE
    BY <1>1, <1>2
  <2>1. Span(0) = 0
    BY SpanStep
  <2>2. Span(m) = 0
    BY <2>1
  <2> QED BY <1>1, <2>2
<1> QED BY <1>1, <1>2, <1>3, <1>4 DEF m, p

\* A packet that leaves is at least an interval ahead of the next.
LEMMA SenderFits ==
  ASSUME SenderInv, NumbersInv, FitInv, HandleSelfSender
  PROVE  FitInv'
<1> DEFINE l == pending.left[SelfSender]
           e == pending.left[SelfSource]
           n == talkspurtNumPackets
           k == packetID
<1>1. /\ l \in Nat /\ now' = now + l /\ SelfSender \in Scheduled(pending)
      /\ SelfSender \in Scheduled(pending') <=> k + 1 < n
      /\ SelfSender \in Scheduled(pending') => pending'.left[SelfSender] = PacketizationInterval
      /\ SelfSource \in Scheduled(pending') <=> SelfSource \in Scheduled(pending)
      /\ SelfSource \in Scheduled(pending) => e \in Nat /\ pending'.left[SelfSource] = e - l
  BY SentQueue DEF SenderInv
<1>2. packetID' = k + 1 /\ UNCHANGED <<isTalk, talkspurtID, talkspurtNumPackets>>
  BY DEF HandleSelfSender, SendVoIPPacket
<1>3. now \in Nat /\ k \in Nat /\ n \in Int /\ PacketizationInterval \in Nat
  BY SenderAssumption DEF SenderInv, NumbersInv, SpurtInv
<1>4. OverlapInv'
  <2> SUFFICES ASSUME SelfSender \in Scheduled(pending'), SelfSource \in Scheduled(pending'),
                      ~Stopped(now' + pending'.left[SelfSource])
               PROVE  /\ ~isTalk => PacketizationInterval < e - l + PacketizationInterval
                      /\ isTalk => PacketizationInterval + Span(n - 1 - (k + 1))
                                      < e - l + PacketizationInterval
    BY <1>1, <1>2, <1>3 DEF OverlapInv
  <2>1. now' + pending'.left[SelfSource] = now + e
    BY <1>1, <1>3
  <2>2. IF ~isTalk THEN l < e + PacketizationInterval
        ELSE l + Span(n - 1 - k) < e + PacketizationInterval
    BY <1>1, <1>2, <1>3, <2>1 DEF FitInv, OverlapInv
  <2>3. isTalk
    BY <1>1, <1>3 DEF NumbersInv, TalkInv
  <2> DEFINE m == n - 1 - k
  <2>4. m \in Int /\ n - 1 - (k + 1) = m - 1 /\ l + Span(m) < e + PacketizationInterval
    BY <1>3, <2>2, <2>3
  <2> HIDE DEF m
  <2>5. Span(m) \in Int /\ Span(m - 1) = Span(m) - PacketizationInterval
    BY <2>4, SpanStep
  <2>6. PacketizationInterval + Span(m - 1) < e - l + PacketizationInterval
    BY <1>1, <1>3, <2>4, <2>5
  <2> QED BY <2>3, <2>4, <2>6
<1>5. ASSUME RoomForAPacket PROVE PacketIDInRange'
  <2> DEFINE new == VoicePacket(now')
  <2>1. /\ sent' = sent \cup {new} /\ new.packetID = k
        /\ new.talkspurtNumPackets = UInt(n)
    BY DEF HandleSelfSender, SendVoIPPacket, VoicePacket
  <2>2. n >= 1 /\ (k = 0 \/ k < n)
    BY <1>1, <1>5 DEF FitInv, NumbersInv, SpurtInv, SenderInv
  <2>3. UInt(n) = n
    <3>1. UIntSize \div 2 \in Nat
      BY SenderAssumption, SMT
    <3>2. n \in -(UIntSize \div 2) .. (UIntSize \div 2) - 1
      BY <3>1 DEF FitInv
    <3> QED BY <1>3, <2>2, <3>2, UIntOfInt
  <2>4. new.packetID \in 0 .. new.talkspurtNumPackets - 1
    BY <1>3, <2>1, <2>2, <2>3
  <2> HIDE DEF new
  <2> QED BY <1>5, <2>1, <2>4 DEF FitInv, PacketIDInRange
<1> QED BY <1>2, <1>4, <1>5 DEF FitInv, RoomForAPacket

\* A period that begins.
LEMMA SourceFits ==
  ASSUME PeriodsFit, SenderInv, NumbersInv, NumbersInv', FitInv, HandleSelfSource
  PROVE  FitInv'
<1> DEFINE q == Deliver(pending, SelfSource)
           l == pending.left[SelfSender]
           e == pending.left[SelfSource]
           n == talkspurtNumPackets
           k == packetID
<1>1. /\ IsQueue(q, SenderTimers) /\ SelfSource \notin Scheduled(q) /\ e \in Nat
      /\ SelfSender \in Scheduled(q) <=> SelfSender \in Scheduled(pending)
      /\ SelfSender \in Scheduled(q) =>
            q.left[SelfSender] \in Nat /\ l \in Nat /\ q.left[SelfSender] = l - e
  BY SourceQueue DEF SenderInv, HandleSelfSource
<1>2. /\ now' = now + e /\ now' \in Nat /\ now \in Nat
      /\ UNCHANGED sent /\ SelectTalkOrSilenceInterval(q)
      /\ SelfSource \in Scheduled(pending)
  BY <1>1 DEF HandleSelfSource, SenderInv, IsNext
<1>3. /\ k \in Nat /\ n \in Int /\ talkspurtID \in Nat
      /\ PacketizationInterval \in Nat \ {0} /\ UIntSize \div 2 \in Int
  BY SenderAssumption DEF SenderInv, NumbersInv, SpurtInv
<1> HIDE DEF q
<1>7. RoomForAPacket => PacketIDInRange'
  BY <1>2 DEF FitInv, PacketIDInRange
<1>4. CASE Stopped(now') /\ pending' = q
           /\ UNCHANGED <<isTalk, talkspurtID, talkspurtNumPackets, packetID>>
  BY <1>1, <1>4, <1>7 DEF FitInv, OverlapInv, RoomForAPacket
<1>5. CASE ~Stopped(now') /\ BeginSilence(q)
  <2>1. PICK s \in SilenceDurations :
           pending' = ScheduleAfter(q, SelfSource, Capped(now', s))
    BY <1>5 DEF BeginSilence
  <2> DEFINE c == Capped(now', s)
  <2>2. c \in Nat /\ s \in Nat \ {0} /\ (~Stopped(now' + c) => c = s)
    BY <1>2, <1>5, CappedPositive, CappedNot, SenderAssumption
  <2>3. SelfSource \in SenderTimers /\ SelfSender \in SenderTimers \ {SelfSource}
    BY DEF SenderTimers, SelfSource, SelfSender
  <2>8. pending' = ScheduleAfter(q, SelfSource, c)
    BY <2>1
  <2>9. IsQueue(q, SenderTimers)
    BY <1>1
  <2> HIDE DEF c
  <2>4. /\ Scheduled(pending') = Scheduled(q) \cup {SelfSource}
        /\ pending'.left[SelfSource] = c
        /\ pending'.left[SelfSender] = q.left[SelfSender]
    BY <2>2, <2>3, <2>8, <2>9, ScheduleAfterQueue
  <2>5. isTalk /\ ~isTalk' /\ UNCHANGED <<talkspurtID, talkspurtNumPackets, packetID>>
    BY <1>5 DEF BeginSilence
  <2>6. k >= n - 1
    BY <2>5 DEF NumbersInv, TalkInv
  <2>7. ASSUME SelfSender \in Scheduled(pending'), ~Stopped(now' + c)
        PROVE  q.left[SelfSender] < c + PacketizationInterval
    <3>1. /\ SelfSender \in Scheduled(pending) /\ l \in Nat /\ q.left[SelfSender] = l - e
          /\ c = s /\ ~Stopped(now + e)
      BY <1>1, <1>2, <1>5, <2>2, <2>3, <2>4, <2>7
    <3>2. CASE k < n
      <4>1. n - 1 - k = 0 /\ Span(0) = 0
        BY <1>3, <2>6, <3>2, SpanStep
      <4>2. l + Span(n - 1 - k) < e + PacketizationInterval
        BY <1>2, <2>5, <3>1, <3>2 DEF FitInv, OverlapInv
      <4>3. l < e + PacketizationInterval
        BY <3>1, <4>1, <4>2
      <4> QED BY <1>1, <1>3, <2>2, <3>1, <4>3
    <3>3. CASE ~(k < n)
      <4>1. PICK d \in TalkspurtDurations :
               l < e + PacketizationInterval + PacketizationInterval - d
        BY <1>2, <2>5, <3>1, <3>3 DEF FitInv, OverlapInv
      <4>2. d \in Nat /\ d + s >= PacketizationInterval
        BY SenderAssumption DEF PeriodsFit
      <4> QED BY <1>1, <1>3, <2>2, <3>1, <4>1, <4>2
    <3> QED BY <3>2, <3>3
  <2>10. OverlapInv'
    BY <2>4, <2>5, <2>7 DEF OverlapInv
  <2> QED BY <1>7, <2>5, <2>10 DEF FitInv, RoomForAPacket
<1>6. CASE ~Stopped(now') /\ BeginTalk(q)
  <2>1. PICK d \in TalkspurtDurations : Talkspurt(q, Capped(now', d))
    BY <1>6 DEF BeginTalk
  <2> DEFINE dur == Capped(now', d)
             o == Overlap(q)
             m == Packets(dur - o)
  <2>2. /\ dur \in Nat \ {0} /\ d \in Nat \ {0} /\ dur =< d
        /\ ~Stopped(now' + dur) => dur = d
        /\ StopTime = Forever => dur = d
    BY <1>2, <1>6, CappedPositive, CappedNot, SenderAssumption
  <2>3. /\ o \in Nat
        /\ pending'.left[SelfSender] = o + PacketizationInterval
        /\ pending'.left[SelfSource] = dur
    <3> HIDE DEF dur
    <3>1. Talkspurt(q, dur) /\ dur \in Nat
      BY <2>1, <2>2 DEF dur
    <3> QED BY <1>1, <3>1, TalkspurtQueue
  <2>4. /\ talkspurtID' = talkspurtID + 1 /\ packetID' = 0 /\ isTalk' = TRUE /\ ~isTalk
        /\ talkspurtNumPackets' = m
    BY <1>6, <2>1 DEF BeginTalk, Talkspurt
  <2>5. o < PacketizationInterval
    <3>1. CASE SelfSender \in Scheduled(q)
      <4>1. o = l - e /\ l \in Nat /\ ~Stopped(now + e)
        BY <1>1, <1>2, <1>6, <3>1 DEF Overlap
      <4>2. l < e + PacketizationInterval
        BY <1>1, <1>2, <2>4, <3>1, <4>1 DEF FitInv, OverlapInv
      <4> HIDE DEF o
      <4> QED BY <1>1, <1>3, <4>1, <4>2
    <3>2. CASE SelfSender \notin Scheduled(q)
      BY <1>3, <3>2 DEF Overlap
    <3> QED BY <3>1, <3>2
  <2> HIDE DEF dur, o
  <2>6. /\ dur - o \in Int /\ dur - o =< d /\ dur - o > -PacketizationInterval
        /\ RoomForAPacket => dur - o > 0
    BY <1>3, <2>2, <2>3, <2>5 DEF RoomForAPacket
  <2>7. m \in Nat /\ m =< Packets(d) /\ (RoomForAPacket => m >= 1)
    BY <2>2, <2>6, PacketsBetween
  <2>8. m \in 0 .. (UIntSize \div 2) - 1
    <3>1. Packets(d) < UIntSize \div 2 /\ Packets(d) \in Int
      BY <2>2, PacketsCover DEF PeriodsFit
    <3> HIDE DEF m
    <3> QED BY <1>3, <2>7, <3>1
  <2>9. Span(m - 1) < dur - o /\ Span(m - 1) \in Int
    <3>1. Span(m - 1) < dur - o
      BY <2>6, PacketsCover
    <3>2. m - 1 \in Int
      BY <2>7
    <3> HIDE DEF m
    <3> QED BY <3>1, <3>2, SpanStep
  <2> HIDE DEF m
  <2>10. OverlapInv'
    <3> SUFFICES ASSUME ~Stopped(now' + dur)
                 PROVE  IF 0 < m
                        THEN o + PacketizationInterval + Span(m - 1) < dur + PacketizationInterval
                        ELSE \E c \in TalkspurtDurations : o + PacketizationInterval
                                < dur + PacketizationInterval + PacketizationInterval - c
      <4>1. m - 1 - 0 = m - 1
        BY <2>7
      <4> QED BY <2>3, <2>4, <4>1 DEF OverlapInv
    <3>1. o + PacketizationInterval + Span(m - 1) < dur + PacketizationInterval
      BY <1>3, <2>2, <2>3, <2>9
    <3>2. o + PacketizationInterval < dur + PacketizationInterval + PacketizationInterval - d
      BY <1>3, <2>2, <2>3, <2>5
    <3> QED BY <3>1, <3>2
  <2> QED BY <1>7, <2>4, <2>7, <2>8, <2>10 DEF FitInv, RoomForAPacket
<1> QED BY <1>2, <1>4, <1>5, <1>6 DEF SelectTalkOrSilenceInterval

\* It is zero at the start.
LEMMA InitFits ==
  ASSUME PeriodsFit, Init
  PROVE  FitInv
<1>1. talkspurtNumPackets = 0 /\ talkspurtID = 0
  BY DEF Init
<1>2. UIntSize \div 2 \in Int /\ UIntSize \div 2 >= 1
  BY SenderAssumption, SMT DEF PeriodsFit
<1>3. SelfSource \in SenderTimers /\ SelfSender \notin {SelfSource}
  BY DEF SenderTimers, SelfSource, SelfSender
<1>4. /\ IsQueue(EmptyQueue(SenderTimers), SenderTimers)
      /\ Scheduled(EmptyQueue(SenderTimers)) = {}
  BY DEF EmptyQueue, IsQueue, Scheduled
<1>5. Scheduled(pending) = {SelfSource}
  BY <1>3, <1>4, ScheduleAfterQueue, SenderAssumption DEF Init
<1>6. OverlapInv
  BY <1>3, <1>5 DEF OverlapInv
<1>7. talkspurtNumPackets \in 0 .. (UIntSize \div 2) - 1
  BY <1>1, <1>2
<1>8. PacketIDInRange
  BY DEF Init, PacketIDInRange
<1> QED BY <1>1, <1>6, <1>7, <1>8 DEF FitInv

\* It remains in range: what an overlap takes off a talk is less than the talk.
LEMMA StepFits ==
  ASSUME PeriodsFit, SenderInv, NumbersInv, FitInv, [Next]_vars
  PROVE  FitInv' /\ NumbersInv'
<1>1. UIntSize \div 2 \in Nat
  BY SenderAssumption, SMT
<1>2. NumberFits
  BY <1>1 DEF FitInv, NumberFits
<1>3. NumbersInv'
  BY <1>2, StepNumbers
<1>4. CASE HandleSelfSource
  BY <1>3, <1>4, SourceFits
<1>5. CASE HandleSelfSender
  BY <1>3, <1>5, SenderFits
<1>6. CASE UNCHANGED vars
  BY <1>3, <1>6 DEF vars, FitInv, OverlapInv, PacketIDInRange
<1> QED BY <1>4, <1>5, <1>6 DEF Next

-----------------------------------------------------------------------------
\* Time passes while the source has nothing to do, as in a system of several
\* modules: what is known of it is about the moments its timers arrive.
LEMMA IdleSource ==
  ASSUME SenderInv, NumbersInv, FitInv, NEW d \in Nat, MayElapse(pending, d),
         now' = now + d, pending' = Elapse(pending, d),
         UNCHANGED <<isTalk, talkspurtID, talkspurtNumPackets, packetID, sent>>
  PROVE  SenderInv' /\ NumbersInv' /\ FitInv'
<1> DEFINE l == pending.left[SelfSender]
           e == pending.left[SelfSource]
<1>1. /\ IsQueue(pending', SenderTimers) /\ Scheduled(pending') = Scheduled(pending)
      /\ \A u \in Scheduled(pending) : pending'.left[u] = pending.left[u] - d
  BY ElapseQueue DEF SenderInv
<1>2. /\ now \in Nat /\ now' \in Nat /\ PacketizationInterval \in Nat \ {0}
      /\ talkspurtNumPackets \in Int /\ packetID \in Nat /\ talkspurtID \in Nat
  BY SenderAssumption DEF SenderInv, NumbersInv, SpurtInv
<1>3. /\ SelfSender \in Scheduled(pending) => l \in Nat /\ pending'.left[SelfSender] = l - d
      /\ SelfSource \in Scheduled(pending) => e \in Nat /\ pending'.left[SelfSource] = e - d
  BY <1>1 DEF SenderInv, IsQueue, Scheduled
<1>4. /\ SelfSender \in Scheduled(pending) => now' + pending'.left[SelfSender] = now + l
      /\ SelfSource \in Scheduled(pending) => now' + pending'.left[SelfSource] = now + e
  BY <1>2, <1>3
<1>5. SenderInv'
  <2>1. ASSUME NEW p \in sent PROVE SentBefore(p)'
    <3>1. SentBefore(p)
      BY <2>1 DEF SenderInv
    <3>2. p.voipTimestamp + PacketizationInterval =< now'
      BY <1>2, <3>1, SenderAssumption DEF SentBefore
    <3>3. SelfSender \in Scheduled(pending) =>
             p.voipTimestamp + PacketizationInterval =< now' + pending'.left[SelfSender] - PacketizationInterval
      BY <1>2, <1>3, <3>1 DEF SentBefore
    <3> QED BY <1>1, <3>1, <3>2, <3>3 DEF SentBefore
  <2>2. VoiceDoesNotOverlap' /\ NumberingFollowsVoice'
    BY DEF SenderInv, VoiceDoesNotOverlap, NumberingFollowsVoice
  <2>3. isTalk' \in BOOLEAN
    BY DEF SenderInv
  <2> QED BY <1>1, <1>2, <2>1, <2>2, <2>3 DEF SenderInv
<1>6. SpurtInv'
  <2>1. NewestSpurt' = NewestSpurt
    BY DEF NewestSpurt
  <2>2. SpurtInv
    BY DEF NumbersInv
  <2>3. \A i \in 0 .. packetID' - 1 : \E p \in NewestSpurt' : p.packetID = i
    BY <2>1, <2>2 DEF SpurtInv
  <2>4. \A p \in NewestSpurt' : p.talkspurtNumPackets = UInt(talkspurtNumPackets')
    BY <2>1, <2>2 DEF SpurtInv
  <2>5. ASSUME SelfSender \in Scheduled(pending')
        PROVE  /\ packetID' = 0 \/ packetID' < talkspurtNumPackets'
               /\ \A p \in NewestSpurt' : now' + pending'.left[SelfSender] - PacketizationInterval
                     = p.voipTimestamp + Span(packetID' - p.packetID)
    <3>1. ASSUME NEW p \in NewestSpurt
          PROVE  now + l - PacketizationInterval = p.voipTimestamp + Span(packetID - p.packetID)
      BY <1>1, <2>2, <2>5 DEF SpurtInv
    <3>2. now' + pending'.left[SelfSender] - PacketizationInterval = now + l - PacketizationInterval
      BY <1>1, <1>2, <1>3, <2>5
    <3>3. packetID = 0 \/ packetID < talkspurtNumPackets
      BY <1>1, <2>2, <2>5 DEF SpurtInv
    <3> QED BY <2>1, <3>1, <3>2, <3>3
  <2> QED BY <1>2, <2>3, <2>4, <2>5 DEF SpurtInv
<1>7. TalkInv'
  <2>1. Span(talkspurtNumPackets - 2 - packetID) \in Int
    BY <1>2, SpanStep
  <2> QED BY <1>1, <1>2, <1>3, <2>1 DEF NumbersInv, TalkInv
<1>8. StopInv'
  <2>1. Span(talkspurtNumPackets - 1 - packetID) \in Int
    BY <1>2, SpanStep
  <2>2. SelfSender \in Scheduled(pending) =>
           now' + pending'.left[SelfSender] - PacketizationInterval = now + l - PacketizationInterval
    BY <1>2, <1>3
  <2> QED BY <1>1, <2>1, <2>2 DEF NumbersInv, StopInv
<1>9. NumbersInv'
  BY <1>6, <1>7, <1>8 DEF NumbersInv, RegularSpurts, OnlyLastPacketIsCut,
                          NumberedWithinTalkspurt, OnePacketPastStop
<1>10. OverlapInv'
  <2>1. Span(talkspurtNumPackets - 1 - packetID) \in Int
    BY <1>2, SpanStep
  <2> SUFFICES ASSUME SelfSender \in Scheduled(pending), SelfSource \in Scheduled(pending),
                      ~Stopped(now + e)
               PROVE  IF ~isTalk THEN l - d < e - d + PacketizationInterval
                      ELSE IF packetID < talkspurtNumPackets
                      THEN l - d + Span(talkspurtNumPackets - 1 - packetID)
                              < e - d + PacketizationInterval
                      ELSE \E dur \in TalkspurtDurations :
                              l - d < e - d + PacketizationInterval + PacketizationInterval - dur
    BY <1>1, <1>3, <1>4 DEF OverlapInv
  <2>2. CASE ~isTalk
    BY <1>2, <1>3, <2>2 DEF FitInv, OverlapInv
  <2>3. CASE isTalk /\ packetID < talkspurtNumPackets
    <3>1. l + Span(talkspurtNumPackets - 1 - packetID) < e + PacketizationInterval
      BY <2>3 DEF FitInv, OverlapInv
    <3> QED BY <1>2, <1>3, <2>1, <2>3, <3>1
  <2>4. CASE isTalk /\ ~(packetID < talkspurtNumPackets)
    <3>1. PICK dur \in TalkspurtDurations :
             l < e + PacketizationInterval + PacketizationInterval - dur
      BY <2>4 DEF FitInv, OverlapInv
    <3>2. dur \in Nat
      BY SenderAssumption
    <3> QED BY <1>2, <1>3, <2>4, <3>1, <3>2
  <2> QED BY <2>2, <2>3, <2>4
<1> QED BY <1>5, <1>9, <1>10 DEF FitInv, PacketIDInRange

\* The timer between talk and silence sends nothing; unless it begins the next
\* talkspurt it leaves the packet timer alone.
LEMMA SourceKeeps ==
  ASSUME SenderInv, HandleSelfSource
  PROVE  /\ pending.left[SelfSource] \in Nat /\ now' = now + pending.left[SelfSource]
         /\ UNCHANGED sent
         /\ \/ talkspurtID' = talkspurtID + 1
            \/ /\ UNCHANGED <<talkspurtID, talkspurtNumPackets, packetID>>
               /\ SelfSender \in Scheduled(pending') =>
                     /\ SelfSender \in Scheduled(pending)
                     /\ pending.left[SelfSender] \in Nat
                     /\ now' + pending'.left[SelfSender] = now + pending.left[SelfSender]
<1> DEFINE q == Deliver(pending, SelfSource)
           l == pending.left[SelfSender]
           e == pending.left[SelfSource]
<1>1. /\ IsQueue(q, SenderTimers) /\ e \in Nat
      /\ SelfSender \in Scheduled(q) =>
            /\ SelfSender \in Scheduled(pending) /\ l \in Nat
            /\ q.left[SelfSender] = l - e
  BY SourceQueue DEF SenderInv, HandleSelfSource
<1>2. /\ now' = now + e /\ now \in Nat /\ UNCHANGED sent /\ SelectTalkOrSilenceInterval(q)
  BY DEF HandleSelfSource, SenderInv
<1> HIDE DEF q
<1>3. /\ now' \in Nat
      /\ SelfSender \in Scheduled(q) => now' + q.left[SelfSender] = now + l
  BY <1>1, <1>2
<1>4. CASE Stopped(now') /\ pending' = q
           /\ UNCHANGED <<isTalk, talkspurtID, talkspurtNumPackets, packetID>>
  BY <1>1, <1>2, <1>3, <1>4
<1>5. CASE ~Stopped(now') /\ BeginSilence(q)
  <2>1. PICK dur \in SilenceDurations :
           pending' = ScheduleAfter(q, SelfSource, Capped(now', dur))
    BY <1>5 DEF BeginSilence
  <2>2. Capped(now', dur) \in Nat
    BY <1>3, <1>5, CappedPositive, SenderAssumption
  <2>3. SelfSource \in SenderTimers /\ SelfSender \in SenderTimers \ {SelfSource}
    BY DEF SenderTimers, SelfSource, SelfSender
  <2>4. /\ Scheduled(pending') = Scheduled(q) \cup {SelfSource}
        /\ pending'.left[SelfSender] = q.left[SelfSender]
    BY <1>1, <2>1, <2>2, <2>3, ScheduleAfterQueue
  <2>5. UNCHANGED <<talkspurtID, talkspurtNumPackets, packetID>>
    BY <1>5 DEF BeginSilence
  <2> QED BY <1>1, <1>2, <1>3, <2>3, <2>4, <2>5
<1>6. CASE ~Stopped(now') /\ BeginTalk(q)
  BY <1>1, <1>2, <1>6 DEF BeginTalk, Talkspurt
<1> QED BY <1>2, <1>4, <1>5, <1>6 DEF SelectTalkOrSilenceInterval

-----------------------------------------------------------------------------
\* Everything sent lies before the next packet, in time and in number
\* (talkspurt, sendVoIPPacket).
THEOREM SenderInvariant == Spec => []SenderInv
BY InitSender, StepSender, PTL DEF Spec

\* Every variable keeps its type; in particular the number of packets, which
\* may be negative, fits the unsigned field of the packet (CustomVoipPacket.msg).
THEOREM SenderTypeCorrect == Spec => []TypeOK
<1>1. Init => TypeOK
  <2> SUFFICES ASSUME Init PROVE TypeOK
    OBVIOUS
  <2>1. SenderInv
    BY InitSender
  <2> QED BY <2>1 DEF Init, SenderInv, TypeOK
<1> QED BY <1>1, StepType, SenderInvariant, PTL DEF Spec

\* Voice is never sent twice, also when talkspurts overlap (talkspurt takes
\* over the time slot of the packet it drops).
THEOREM VoiceSentOnce == Spec => []VoiceDoesNotOverlap
<1>1. SenderInv => VoiceDoesNotOverlap
  BY DEF SenderInv
<1> QED BY <1>1, SenderInvariant, PTL

\* Talkspurt and packet numbers order the packets as their voice was spoken,
\* and no pair of numbers is used twice.
THEOREM NumberedInOrder == Spec => []NumberingFollowsVoice
<1>1. SenderInv => NumberingFollowsVoice
  BY DEF SenderInv
<1> QED BY <1>1, SenderInvariant, PTL

\* As long as the int holds the number of packets, packet numbers, numbers of
\* packets and stop time are as the next three theorems say.
THEOREM NumbersInvariant == Spec /\ []NumberFits => []NumbersInv
BY InitNumbers, StepNumbers, SenderInvariant, PTL DEF Spec

\* A talkspurt that was cut short by the next misses its last packet at most
\* (talkspurt() cancels the pending packet).
THEOREM CutLosesOnePacket == Spec /\ []NumberFits => []OnlyLastPacketIsCut
<1>1. NumbersInv => OnlyLastPacketIsCut
  BY DEF NumbersInv
<1> QED BY <1>1, NumbersInvariant, PTL

\* But for the first one, no packet bears a number the receiver does not expect
\* (sendVoIPPacket).
THEOREM NumbersWithinTalkspurt == Spec /\ []NumberFits => []NumberedWithinTalkspurt
<1>1. NumbersInv => NumberedWithinTalkspurt
  BY DEF NumbersInv
<1> QED BY <1>1, NumbersInvariant, PTL

\* After the stop time sending ends with the voice of before it, and the first
\* packet of a last talkspurt that was eaten up (selectTalkOrSilenceInterval,
\* sendVoIPPacket).
THEOREM SendingEndsAfterStop == Spec /\ []NumberFits => []OnePacketPastStop
<1>1. NumbersInv => OnePacketPastStop
  BY DEF NumbersInv
<1> QED BY <1>1, NumbersInvariant, PTL

\* The int does hold it when no talk with its silence is shorter than a packet.
THEOREM IntHoldsNumber ==
  ASSUME PeriodsFit
  PROVE  Spec => [](FitInv /\ NumbersInv /\ NumberFits)
<1>1. FitInv => NumberFits
  <2>1. UIntSize \div 2 \in Nat
    BY SenderAssumption, SMT
  <2> QED BY <2>1 DEF FitInv, NumberFits
<1>2. SenderInv /\ FitInv /\ NumbersInv /\ [Next]_vars => FitInv' /\ NumbersInv'
  BY StepFits
<1>3. Init => FitInv /\ NumbersInv
  BY InitFits, InitNumbers
<1> QED BY <1>1, <1>2, <1>3, SenderInvariant, PTL DEF Spec

\* When every talk lasts for a packet the comment of CustomVoipPacket.msg is
\* true: the packet numbers are those of an array of talkspurtNumPackets.
THEOREM LongTalkspurtsStayInRange ==
  ASSUME PeriodsFit, RoomForAPacket
  PROVE  Spec => []PacketIDInRange
<1>1. FitInv => PacketIDInRange
  BY DEF FitInv
<1> QED BY <1>1, IntHoldsNumber, PTL
=============================================================================
