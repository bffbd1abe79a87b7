----------------------- MODULE SessionContinuityProofs -----------------------
(***************************************************************************)
(* Theorems about SessionContinuity, for every value of its parameters and *)
(* whatever the network does.  ContinuityInv is the inductive invariant:   *)
(* besides the types it ties each end's timer to the clock, what is        *)
(* acknowledged to what arrived, and the buffer to what was sent.          *)
(***************************************************************************)
EXTENDS SessionContinuity, EventQueueProofs, FiniteSetTheorems, WellFoundedInduction

\* Everything the receiver ever got.
Heard == receivedPackets \cup {played[i] : i \in DOMAIN played}

\* A packet that the sender has numbered.
Numbered(p) == p \in S!Packet /\ p.seqNum \in 1 .. nextSequenceNumber - 1

\* The variables of the sender.
SenderTypes ==
    /\ now \in Nat /\ lastPacketSent \in 0 .. now
    /\ isAppActive \in BOOLEAN
    /\ nextSequenceNumber \in Nat \ {0} /\ ackSequenceNumber \in 0 .. nextSequenceNumber - 1
    /\ packetsRetransmitted \in Nat /\ packetsLostDuringHandover \in Nat /\ handoverEvents \in Nat

\* While packets are sent the next one is due a send interval after the last.
SenderClock ==
    /\ IsQueue(sTimers, S!ContinuityTimers)
    /\ ~isAppActive => nextSequenceNumber = 1
    /\ S!SendTimer \in Scheduled(sTimers) /\ nextSequenceNumber > 1 =>
          now + sTimers.left[S!SendTimer] = lastPacketSent + SendInterval

\* The send buffer holds packets that were sent, each once.
SenderBuffer ==
    /\ IsFiniteSet(packetBuffer)
    /\ \A p \in packetBuffer \cup sOutput : Numbered(p)
    /\ \A p, q \in packetBuffer : p.seqNum = q.seqNum => p = q

\* The variables of the receiver.
ReceiverTypes ==
    /\ lastPacketReceived \in 0 .. now
    /\ receivedPackets \subseteq 1 .. nextSequenceNumber - 1
    /\ expectedSequenceNumber \in Nat \ {0}
    /\ duplicatePackets \in Nat /\ outOfOrderPackets \in Nat

\* The pending timeout expires handoverTimeout after the last arrival.
ReceiverClock ==
    /\ IsQueue(rTimers, {R!TimeoutTimer})
    /\ R!TimeoutTimer \in Scheduled(rTimers) =>
          now + rTimers.left[R!TimeoutTimer] = lastPacketReceived + HandoverTimeout

\* What was played lies below what is expected.
PlayedBelow ==
    /\ played \in Seq(Nat)
    /\ \A i \in DOMAIN played :
          played[i] \in 1 .. nextSequenceNumber - 1 /\ played[i] < expectedSequenceNumber

\* Only what the receiver got is acknowledged.
NetworkInv ==
    /\ \A p \in uplink \cup log : Numbered(p)
    /\ downlink \cup rOutput \cup {ackSequenceNumber} \subseteq Heard \cup {0}
    /\ 0 \notin downlink \cup rOutput
    /\ duplicates \in 0 .. MaxDuplicates /\ errors \in 0 .. MaxErrors

\* The buffer holds every recent packet that was not acknowledged.
BufferComplete ==
    EnableSessionContinuity =>
        \A p \in log : p.seqNum > ackSequenceNumber /\ lastPacketSent - p.sendTime =< BufferTime
                            => p \in packetBuffer

SenderInv   == SenderTypes /\ SenderClock /\ SenderBuffer
\* The receiver by itself.
ReceiverInv == ReceiverTypes /\ ReceiverClock /\ PlayedBelow /\ PlayedInOrder /\ NothingPlayableWaits

\* The inductive invariant.
ContinuityInv == SenderInv /\ ReceiverInv /\ NetworkInv /\ BufferComplete

-----------------------------------------------------------------------------

\* The two ends have names of their own for what they extend.
LEMMA SenderQueue ==
  /\ S!NotScheduled = NotScheduled
  /\ \A q, T : S!IsQueue(q, T) <=> IsQueue(q, T)
  /\ \A q : S!Scheduled(q) = Scheduled(q)
  /\ \A q, t : S!IsNext(q, t) <=> IsNext(q, t)
  /\ \A q, d : S!MayElapse(q, d) <=> MayElapse(q, d)
  /\ \A q, d : S!Elapse(q, d) = Elapse(q, d)
  /\ \A q, t : S!Deliver(q, t) = Deliver(q, t)
  /\ \A q, t, d : S!ScheduleAfter(q, t, d) = ScheduleAfter(q, t, d)
  /\ \A T : S!EmptyQueue(T) = EmptyQueue(T)
BY DEF S!NotScheduled, S!IsQueue, S!Scheduled, S!IsNext, S!MayElapse, S!Elapse, S!Deliver,
       S!Cancel, S!ScheduleAfter, S!EmptyQueue,
       NotScheduled, IsQueue, Scheduled, IsNext, MayElapse, Elapse, Deliver, Cancel,
       ScheduleAfter, EmptyQueue

\* The same for the receiver's copy of the queue.
LEMMA ReceiverQueue ==
  /\ R!NotScheduled = NotScheduled
  /\ \A q, T : R!IsQueue(q, T) <=> IsQueue(q, T)
  /\ \A q, t : R!IsNext(q, t) <=> IsNext(q, t)
  /\ \A q, d : R!MayElapse(q, d) <=> MayElapse(q, d)
  /\ \A q, d : R!Elapse(q, d) = Elapse(q, d)
  /\ \A q, t : R!Cancel(q, t) = Cancel(q, t)
  /\ \A q, t : R!Deliver(q, t) = Deliver(q, t)
  /\ \A q, t, d : R!ScheduleAfter(q, t, d) = ScheduleAfter(q, t, d)
  /\ \A T : R!EmptyQueue(T) = EmptyQueue(T)
BY DEF R!NotScheduled, R!IsQueue, R!Scheduled, R!IsNext, R!MayElapse, R!Elapse, R!Deliver,
       R!Cancel, R!ScheduleAfter, R!EmptyQueue,
       NotScheduled, IsQueue, Scheduled, IsNext, MayElapse, Elapse, Deliver, Cancel,
       ScheduleAfter, EmptyQueue

\* What the ends take from the community modules is what this module takes.
LEMMA OwnNames ==
  /\ \A X : R!Min(X) = Min(X)
  /\ \A X : R!Cardinality(X) = Cardinality(X)
  /\ \A X : S!Cardinality(X) = Cardinality(X)
<1>1. \A X : R!Min(X) = Min(X)
  BY DEF R!Min, Min
<1>2. \A X : R!Cardinality(X) = Cardinality(X)
  BY DEF R!Cardinality, Cardinality
<1>3. \A X : S!Cardinality(X) = Cardinality(X)
  BY DEF S!Cardinality, Cardinality
<1> QED BY <1>1, <1>2, <1>3

-----------------------------------------------------------------------------
\* A non-empty set of numbers has a least one.
LEMMA LeastNumber ==
  ASSUME NEW X, X \subseteq Nat, X # {}
  PROVE  Min(X) \in X /\ \A y \in X : Min(X) =< y
<1>1. PICK m \in X : \A y \in X : ~(<<y, m>> \in OpToRel(<, Nat))
  BY WFMin, NatLessThanWellFounded
<1>2. \A y \in X : ~(y < m)
  BY <1>1 DEF OpToRel
<1>3. \A y \in X : m =< y
  BY <1>2
<1> QED BY <1>3 DEF Min

\* A non-empty set of bounded numbers has a largest one.
LEMMA LargestNumber ==
  ASSUME NEW n \in Nat, NEW X \in SUBSET (0 .. n), X # {}
  PROVE  Max(X) \in X /\ \A y \in X : y =< Max(X)
<1> DEFINE T == {n - i : i \in X}
<1> HIDE DEF T
<1>1. \A i \in X : i \in 0 .. n /\ n - i \in Nat
  BY SMT
<1>2. T \in SUBSET Nat /\ T # {}
  BY <1>1 DEF T
<1>3. Min(T) \in T /\ \A k \in T : Min(T) =< k
  BY <1>2, LeastNumber
<1>4. PICK m \in X : Min(T) = n - m
  BY <1>3 DEF T
<1>5. \A y \in X : y =< m
  <2> SUFFICES ASSUME NEW y \in X PROVE y =< m
    OBVIOUS
  <2>1. n - y \in T
    BY DEF T
  <2> QED BY <2>1, <1>1, <1>3, <1>4
<1>6. \A y \in X : m >= y
  BY <1>5, <1>1
<1>7. Max(X) \in X /\ \A y \in X : Max(X) >= y
  BY <1>6 DEF Max
<1> QED BY <1>7, <1>1

\* FirstMissing finds its number: as many candidates as stored packets and
\* one more.
LEMMA FirstMissingFound ==
  ASSUME NEW N \in Nat, NEW stored \in SUBSET (1 .. N), NEW n \in Nat
  PROVE  LET m == R!FirstMissing(stored, n)
         IN  m \in Nat /\ n =< m /\ m \notin stored /\ n .. m - 1 \subseteq stored
<1> DEFINE c == Cardinality(stored)
           candidates == n .. n + c
<1>1. IsFiniteSet(stored) /\ c \in Nat
  <2>1. IsFiniteSet(1 .. N)
    BY FS_Interval
  <2>2. IsFiniteSet(stored)
    BY <2>1, FS_Subset
  <2> QED BY <2>2, FS_CardinalityType
<1> HIDE DEF c
<1>2. candidates \ stored # {}
  <2> SUFFICES ASSUME candidates \in SUBSET stored PROVE FALSE
    OBVIOUS
  <2>1. Cardinality(candidates) =< c
    BY <1>1, FS_Subset DEF c
  <2>2. Cardinality(candidates) = c + 1
    BY <1>1, FS_Interval
  <2> QED BY <2>1, <2>2, <1>1
<1> DEFINE m == Min(candidates \ stored)
<1>3. m \in candidates \ stored /\ \A y \in candidates \ stored : m =< y
  <2>1. candidates \ stored \in SUBSET Nat
    BY <1>1
  <2> QED BY <2>1, <1>2, LeastNumber
<1>4. R!FirstMissing(stored, n) = m
  BY OwnNames DEF R!FirstMissing, c
<1> HIDE DEF m
<1>5. n .. m - 1 \subseteq stored
  BY <1>1, <1>3
<1> QED BY <1>1, <1>3, <1>4, <1>5

-----------------------------------------------------------------------------
\* What TLAPS needs to know of a concatenation.
LEMMA Concatenation ==
  ASSUME NEW a \in Seq(Nat), NEW b \in Seq(Nat)
  PROVE  /\ a \o b \in Seq(Nat) /\ Len(a \o b) = Len(a) + Len(b)
         /\ Len(a) \in Nat /\ Len(b) \in Nat
         /\ DOMAIN a = 1 .. Len(a) /\ DOMAIN (a \o b) = 1 .. Len(a) + Len(b)
         /\ \A i \in 1 .. Len(a) : (a \o b)[i] = a[i]
         /\ \A i \in 1 .. Len(b) : (a \o b)[Len(a) + i] = b[i]
OBVIOUS

\* Playing from the number n on keeps the order, leaves nothing playable
\* behind, and loses no packet.
LEMMA Playing ==
  ASSUME ReceiverTypes, PlayedBelow, PlayedInOrder,
         nextSequenceNumber \in Nat, nextSequenceNumber' = nextSequenceNumber,
         NEW stored \in SUBSET (1 .. nextSequenceNumber - 1),
         NEW n \in Nat, n >= expectedSequenceNumber,
         R!ReorderAndPlayPackets(stored, n)
  PROVE  /\ expectedSequenceNumber' \in Nat \ {0}
         /\ receivedPackets' \subseteq 1 .. nextSequenceNumber - 1
         /\ PlayedBelow' /\ PlayedInOrder' /\ NothingPlayableWaits'
         /\ stored \cup {played[i] : i \in DOMAIN played} \subseteq Heard'
         /\ \A s \in n .. expectedSequenceNumber' - 1 : \E i \in DOMAIN played' : played'[i] = s
<1> DEFINE m == R!FirstMissing(stored, n)
           block == [i \in 1 .. m - n |-> n + i - 1]
<1>1. m \in Nat /\ n =< m /\ m \notin stored /\ n .. m - 1 \subseteq stored
  <2>1. nextSequenceNumber - 1 \in Nat \/ stored = {}
    OBVIOUS
  <2>2. \E N \in Nat : stored \in SUBSET (1 .. N)
    BY <2>1
  <2> QED BY <2>2, FirstMissingFound
<1>2. /\ expectedSequenceNumber' = m
      /\ receivedPackets' = stored \ (n .. m - 1)
      /\ played' = played \o block
  BY DEF R!ReorderAndPlayPackets
<1> HIDE DEF m
<1>3. played \in Seq(Nat) /\ n \in Nat \ {0}
  BY DEF PlayedBelow, ReceiverTypes
<1>4. block \in Seq(Nat) /\ Len(block) = m - n
  <2>1. \A i \in 1 .. m - n : n + i - 1 \in Nat
    BY <1>1, <1>3
  <2>2. m - n \in Nat
    BY <1>1
  <2> QED BY <2>1, <2>2
<1> DEFINE l == Len(played)
<1>5. /\ played' \in Seq(Nat) /\ DOMAIN played = 1 .. l /\ l \in Nat
      /\ DOMAIN played' = 1 .. l + (m - n)
      /\ \A i \in 1 .. l : played'[i] = played[i]
      /\ \A i \in l + 1 .. l + (m - n) : played'[i] = n + (i - l) - 1
  <2> HIDE DEF block
  <2>1. /\ played' \in Seq(Nat) /\ DOMAIN played = 1 .. l /\ l \in Nat
        /\ DOMAIN played' = 1 .. l + (m - n)
        /\ \A i \in 1 .. l : played'[i] = played[i]
        /\ \A i \in 1 .. m - n : played'[l + i] = block[i]
    BY <1>2, <1>3, <1>4, Concatenation
  <2>3. ASSUME NEW i \in l + 1 .. l + (m - n) PROVE played'[i] = n + (i - l) - 1
    <3>1. i - l \in 1 .. m - n
      BY <1>1, <2>1
    <3>2. l + (i - l) = i
      BY <2>1
    <3>3. played'[i] = block[i - l]
      BY <2>1, <3>1, <3>2
    <3> QED BY <3>1, <3>3 DEF block
  <2> QED BY <2>1, <2>3
<1> HIDE DEF block, l
<1>6. \A i \in 1 .. l : played[i] \in 1 .. nextSequenceNumber - 1 /\ played[i] < n
  <2>1. \A i \in 1 .. l : played[i] \in 1 .. nextSequenceNumber - 1 /\ played[i] < expectedSequenceNumber
    BY <1>5 DEF PlayedBelow
  <2>2. expectedSequenceNumber \in Nat
    BY DEF ReceiverTypes
  <2> QED BY <2>1, <2>2
<1>7. \A i \in l + 1 .. l + (m - n) :
         /\ played'[i] \in n .. m - 1 /\ played'[i] \in stored
         /\ played'[i] = n + (i - l) - 1
  <2> TAKE i \in l + 1 .. l + (m - n)
  <2>1. played'[i] = n + (i - l) - 1 /\ l \in Nat
    BY <1>5
  <2>2. played'[i] \in n .. m - 1
    BY <1>1, <2>1
  <2> QED BY <1>1, <2>1, <2>2
<1>8. PlayedBelow'
  <2> SUFFICES ASSUME NEW i \in DOMAIN played'
               PROVE  played'[i] \in 1 .. nextSequenceNumber - 1 /\ played'[i] < m
    BY <1>2, <1>5 DEF PlayedBelow
  <2>1. CASE i \in 1 .. l
    BY <2>1, <1>1, <1>5, <1>6
  <2>2. CASE i \in l + 1 .. l + (m - n)
    BY <2>2, <1>1, <1>7
  <2> QED BY <1>1, <1>5, <2>1, <2>2
<1>9. PlayedInOrder'
  <2> SUFFICES ASSUME NEW i \in DOMAIN played', NEW j \in DOMAIN played', i < j
               PROVE  played'[i] < played'[j]
    BY DEF PlayedInOrder
  <2>1. CASE j \in 1 .. l
    <3>1. i \in 1 .. l /\ played'[i] = played[i] /\ played'[j] = played[j]
      BY <2>1, <1>5
    <3> QED BY <2>1, <3>1, <1>5 DEF PlayedInOrder
  <2>2. CASE i \in 1 .. l /\ j \in l + 1 .. l + (m - n)
    BY <2>2, <1>1, <1>5, <1>6, <1>7
  <2>3. CASE i \in l + 1 .. l + (m - n) /\ j \in l + 1 .. l + (m - n)
    BY <2>3, <1>1, <1>5, <1>7
  <2> QED BY <1>1, <1>5, <2>1, <2>2, <2>3
<1>10. NothingPlayableWaits'
  BY <1>1, <1>2 DEF NothingPlayableWaits
<1>11. \A s \in n .. m - 1 : \E i \in DOMAIN played' : played'[i] = s
  <2> TAKE s \in n .. m - 1
  <2> DEFINE i == l + (s - n) + 1
  <2>1. i \in l + 1 .. l + (m - n) /\ i \in DOMAIN played' /\ n + (i - l) - 1 = s
    BY <1>1, <1>5
  <2> QED BY <2>1, <1>5
<1>12. stored \cup {played[i] : i \in DOMAIN played} \subseteq Heard'
  <2>1. ASSUME NEW s \in stored PROVE s \in Heard'
    BY <1>2, <1>11 DEF Heard
  <2>2. ASSUME NEW i \in DOMAIN played PROVE played[i] \in Heard'
    <3>1. i \in DOMAIN played' /\ played'[i] = played[i]
      BY <1>1, <1>5
    <3> QED BY <3>1 DEF Heard
  <2> QED BY <2>1, <2>2
<1>13. expectedSequenceNumber' \in Nat \ {0}
  BY <1>1, <1>2, <1>3
<1>14. receivedPackets' \subseteq 1 .. nextSequenceNumber - 1
  BY <1>2
<1> QED BY <1>2, <1>8, <1>9, <1>10, <1>11, <1>12, <1>13, <1>14

\* A packet that arrives restarts the timeout.
LEMMA TimeoutRestarted ==
  ASSUME now \in Nat, ReceiverClock, NEW d \in Nat, R!MayElapse(rTimers, d),
         rTimers' = R!RestartTimeout(R!Elapse(rTimers, d)),
         now' = now + d, lastPacketReceived' = now'
  PROVE  ReceiverClock'
<1> DEFINE T == {R!TimeoutTimer}
           elapsed   == Elapse(rTimers, d)
           cancelled == Cancel(elapsed, R!TimeoutTimer)
<1>1. R!TimeoutTimer \in T /\ HandoverTimeout \in Nat
  BY EndsAssumption DEF R!TimeoutAssumption
<1>2. rTimers' = ScheduleAfter(cancelled, R!TimeoutTimer, HandoverTimeout)
  BY ReceiverQueue DEF R!RestartTimeout
<1>3. IsQueue(elapsed, T)
  <2>1. IsQueue(rTimers, T) /\ MayElapse(rTimers, d)
    BY ReceiverQueue DEF ReceiverClock
  <2> HIDE DEF T
  <2> QED BY <2>1, ElapseQueue
<1> HIDE DEF elapsed
<1>4. IsQueue(cancelled, T)
  <2> HIDE DEF T
  <2> QED BY <1>1, <1>3, CancelQueue
<1> HIDE DEF cancelled
<1>5. IsQueue(rTimers', T) /\ rTimers'.left[R!TimeoutTimer] = HandoverTimeout
  <2> HIDE DEF T
  <2> QED BY <1>1, <1>2, <1>4, ScheduleAfterQueue
<1> QED BY <1>1, <1>5 DEF ReceiverClock

\* processReceivedPacket keeps the receiver's invariant, whichever branch it
\* takes, forgets nothing, and skips nothing.
LEMMA ReceiveStep ==
  ASSUME SenderTypes, ReceiverInv, nextSequenceNumber' = nextSequenceNumber,
         NEW s \in 1 .. nextSequenceNumber - 1, NEW d \in Nat,
         R!ProcessReceivedPacket(s, d)
  PROVE  /\ ReceiverInv' /\ now' \in Nat /\ now' = now + d
         /\ Heard \subseteq Heard' /\ rOutput' \subseteq Heard' /\ 0 \notin rOutput'
         /\ \A x \in expectedSequenceNumber .. expectedSequenceNumber' - 1 :
               \E i \in DOMAIN played' : played'[i] = x
<1>1. /\ now \in Nat /\ nextSequenceNumber \in Nat
      /\ now' = now + d /\ now' \in Nat /\ lastPacketReceived' = now'
  BY DEF SenderTypes, R!ProcessReceivedPacket
<1>2. ReceiverClock'
  BY <1>1, TimeoutRestarted DEF ReceiverInv, R!ProcessReceivedPacket
<1>3. lastPacketReceived' \in 0 .. now'
  BY <1>1
<1>4. CASE R!InOrder(s)
  <2> DEFINE stored == receivedPackets \cup {s}
  <2>1. stored \in SUBSET (1 .. nextSequenceNumber - 1)
    BY DEF ReceiverInv, ReceiverTypes
  <2>2. s = expectedSequenceNumber /\ s \in Nat /\ s >= expectedSequenceNumber
    BY <1>4 DEF R!InOrder
  <2>3. R!ReorderAndPlayPackets(stored, s)
    BY <1>4 DEF R!InOrder
  <2>4. rOutput' = {s} /\ UNCHANGED <<duplicatePackets, outOfOrderPackets>>
    BY <1>4 DEF R!InOrder
  <2> HIDE DEF stored
  <2>5. /\ expectedSequenceNumber' \in Nat \ {0}
        /\ receivedPackets' \subseteq 1 .. nextSequenceNumber - 1
        /\ PlayedBelow' /\ PlayedInOrder' /\ NothingPlayableWaits'
        /\ stored \cup {played[i] : i \in DOMAIN played} \subseteq Heard'
        /\ \A x \in s .. expectedSequenceNumber' - 1 : \E i \in DOMAIN played' : played'[i] = x
    BY <1>1, <2>1, <2>2, <2>3, Playing DEF ReceiverInv
  <2>6. ReceiverTypes'
    BY <1>3, <2>4, <2>5 DEF ReceiverInv, ReceiverTypes
  <2>7. Heard \cup {s} \subseteq Heard'
    BY <2>5 DEF Heard, stored
  <2>8. 0 \notin rOutput'
    BY <2>4
  <2> QED BY <1>1, <1>2, <2>2, <2>4, <2>5, <2>6, <2>7, <2>8 DEF ReceiverInv
<1>5. CASE R!Late(s) \/ R!OutOfOrder(s) \/ R!Duplicate(s)
  <2>1. /\ UNCHANGED <<expectedSequenceNumber, played>>
        /\ receivedPackets' = receivedPackets \cup {s}
        /\ s # expectedSequenceNumber
        /\ rOutput' \subseteq {s}
        /\ duplicatePackets' \in Nat /\ outOfOrderPackets' \in Nat
    <3>1. duplicatePackets \in Nat /\ outOfOrderPackets \in Nat
          /\ expectedSequenceNumber \in Nat /\ expectedSequenceNumber \notin receivedPackets
      BY DEF ReceiverInv, ReceiverTypes, NothingPlayableWaits
    <3> QED BY <1>5, <3>1 DEF R!Late, R!OutOfOrder, R!Duplicate
  <2>2. ReceiverTypes' /\ PlayedBelow' /\ PlayedInOrder' /\ NothingPlayableWaits'
    BY <1>3, <2>1 DEF ReceiverInv, ReceiverTypes, PlayedBelow, PlayedInOrder, NothingPlayableWaits
  <2>3. Heard \subseteq Heard' /\ rOutput' \subseteq Heard'
    BY <2>1 DEF Heard
  <2>4. 0 \notin rOutput'
    BY <2>1
  <2>5. expectedSequenceNumber .. expectedSequenceNumber' - 1 = {}
    BY <2>1 DEF ReceiverInv, ReceiverTypes
  <2> QED BY <1>1, <1>2, <2>2, <2>3, <2>4, <2>5 DEF ReceiverInv
<1> QED BY <1>4, <1>5 DEF R!ProcessReceivedPacket

\* handleHandoverTimeout keeps it as well, and runs after a silence.
LEMMA TimeoutStep ==
  ASSUME SenderTypes, ReceiverInv, nextSequenceNumber' = nextSequenceNumber,
         R!HandleHandoverTimeout
  PROVE  /\ ReceiverInv' /\ \E d \in Nat : now' = now + d
         /\ Heard \subseteq Heard' /\ rOutput' = {}
         /\ now' - lastPacketReceived >= HandoverTimeout
<1> DEFINE T == {R!TimeoutTimer}
<1>1. /\ IsQueue(rTimers, T) /\ R!TimeoutTimer \in T /\ IsNext(rTimers, R!TimeoutTimer)
      /\ now' = now + rTimers.left[R!TimeoutTimer]
      /\ rTimers' = Deliver(rTimers, R!TimeoutTimer)
      /\ rOutput' = {}
      /\ UNCHANGED <<lastPacketReceived, duplicatePackets, outOfOrderPackets>>
  BY ReceiverQueue DEF R!HandleHandoverTimeout, ReceiverInv, ReceiverClock
<1>2. /\ IsQueue(rTimers', T) /\ rTimers.left[R!TimeoutTimer] \in Nat
      /\ Scheduled(rTimers') = Scheduled(rTimers) \ {R!TimeoutTimer}
  <2> HIDE DEF T
  <2> QED BY <1>1, DeliverQueue
<1>3. /\ now \in Nat /\ now' \in Nat /\ nextSequenceNumber \in Nat
      /\ \E d \in Nat : now' = now + d
  BY <1>1, <1>2 DEF SenderTypes
<1>4. now' - lastPacketReceived >= HandoverTimeout /\ lastPacketReceived' \in 0 .. now'
  <2>1. HandoverTimeout \in Nat /\ lastPacketReceived \in 0 .. now
    BY EndsAssumption DEF R!TimeoutAssumption, ReceiverInv, ReceiverTypes
  <2>2. now + rTimers.left[R!TimeoutTimer] = lastPacketReceived + HandoverTimeout
    BY <1>1 DEF ReceiverInv, ReceiverClock, IsNext
  <2> QED BY <1>1, <1>3, <2>1, <2>2
<1>5. ReceiverClock'
  BY <1>2 DEF ReceiverClock
<1> DEFINE ahead == {x \in receivedPackets : x > expectedSequenceNumber}
<1>6. CASE ahead # {} /\ R!ReorderAndPlayPackets(receivedPackets, Min(ahead))
  <2>1. receivedPackets \in SUBSET (1 .. nextSequenceNumber - 1)
    BY DEF ReceiverInv, ReceiverTypes
  <2>2. Min(ahead) \in Nat /\ Min(ahead) >= expectedSequenceNumber
    <3>1. ahead \subseteq Nat /\ ahead # {}
      <4>1. receivedPackets \subseteq Nat
        BY <2>1
      <4> QED BY <1>6, <4>1
    <3>2. Min(ahead) \in ahead
      <4> HIDE DEF ahead
      <4> QED BY <3>1, LeastNumber
    <3>3. expectedSequenceNumber \in Nat
      BY DEF ReceiverInv, ReceiverTypes
    <3> QED BY <3>1, <3>2, <3>3
  <2> HIDE DEF ahead
  <2>3. /\ expectedSequenceNumber' \in Nat \ {0}
        /\ receivedPackets' \subseteq 1 .. nextSequenceNumber - 1
        /\ PlayedBelow' /\ PlayedInOrder' /\ NothingPlayableWaits'
        /\ receivedPackets \cup {played[i] : i \in DOMAIN played} \subseteq Heard'
    BY <1>3, <1>6, <2>1, <2>2, Playing DEF ReceiverInv
  <2>4. ReceiverTypes'
    BY <1>1, <1>4, <2>3 DEF ReceiverInv, ReceiverTypes
  <2> QED BY <1>1, <1>3, <1>4, <1>5, <2>3, <2>4 DEF ReceiverInv, Heard
<1>7. CASE UNCHANGED <<receivedPackets, expectedSequenceNumber, played>>
  <2>1. ReceiverTypes' /\ PlayedBelow' /\ PlayedInOrder' /\ NothingPlayableWaits'
    BY <1>1, <1>4, <1>7 DEF ReceiverInv, ReceiverTypes, PlayedBelow, PlayedInOrder, NothingPlayableWaits
  <2> QED BY <1>1, <1>3, <1>4, <1>5, <1>7, <2>1 DEF ReceiverInv, Heard
<1> QED BY <1>6, <1>7, OwnNames DEF R!HandleHandoverTimeout

\* While the other end acts the receiver only gets nearer to its timeout.
LEMMA ReceiverQuiet ==
  ASSUME SenderTypes, ReceiverInv,
         NEW d \in Nat, now' = now + d,
         NEW k \in Nat, nextSequenceNumber' = nextSequenceNumber + k,
         RunsOn(rTimers, rTimers'), UNCHANGED receiver
  PROVE  ReceiverInv' /\ Heard' = Heard
<1> DEFINE T == {R!TimeoutTimer}
<1>1. now \in Nat /\ now' \in Nat /\ now' - now = d
      /\ nextSequenceNumber \in Nat /\ nextSequenceNumber' \in Nat
  BY DEF SenderTypes
<1>2. IsQueue(rTimers, T) /\ MayElapse(rTimers, d) /\ rTimers' = Elapse(rTimers, d)
  BY <1>1 DEF RunsOn, ReceiverInv, ReceiverClock
<1>3. /\ IsQueue(rTimers', T) /\ Scheduled(rTimers') = Scheduled(rTimers)
      /\ \A t \in Scheduled(rTimers) : rTimers'.left[t] = rTimers.left[t] - d
  <2> HIDE DEF T
  <2> QED BY <1>1, <1>2, ElapseQueue
<1>4. /\ UNCHANGED <<receivedPackets, expectedSequenceNumber, lastPacketReceived>>
      /\ UNCHANGED <<duplicatePackets, outOfOrderPackets, played>>
  BY DEF receiver
<1>5. ReceiverClock'
  <2>1. \A t \in Scheduled(rTimers) : rTimers.left[t] \in Nat
    BY <1>2 DEF IsQueue, Scheduled
  <2>2. ASSUME R!TimeoutTimer \in Scheduled(rTimers)
        PROVE  now' + rTimers'.left[R!TimeoutTimer] = lastPacketReceived + HandoverTimeout
    <3>1. now + rTimers.left[R!TimeoutTimer] = lastPacketReceived + HandoverTimeout
      BY <2>2 DEF ReceiverInv, ReceiverClock
    <3> QED BY <1>1, <1>3, <2>1, <2>2, <3>1
  <2> QED BY <1>3, <1>4, <2>2 DEF ReceiverClock
<1>6. ReceiverTypes'
  <2>1. 1 .. nextSequenceNumber - 1 \subseteq 1 .. nextSequenceNumber' - 1
    BY <1>1
  <2>2. lastPacketReceived' \in 0 .. now'
    BY <1>1, <1>4 DEF ReceiverInv, ReceiverTypes
  <2> QED BY <1>4, <2>1, <2>2 DEF ReceiverInv, ReceiverTypes
<1>7. PlayedBelow'
  <2>1. \A x \in 1 .. nextSequenceNumber - 1 : x \in 1 .. nextSequenceNumber' - 1
    BY <1>1
  <2> QED BY <1>4, <2>1 DEF ReceiverInv, PlayedBelow
<1> QED BY <1>4, <1>5, <1>6, <1>7 DEF ReceiverInv, PlayedInOrder, NothingPlayableWaits, Heard

-----------------------------------------------------------------------------
\* The sender's two timers are different messages.
LEMMA ContinuityTimersDistinct ==
  /\ S!SendTimer \in S!ContinuityTimers /\ S!DetectionTimer \in S!ContinuityTimers
  /\ S!SendTimer # S!DetectionTimer
BY DEF S!ContinuityTimers, S!SendTimer, S!DetectionTimer

\* The parameters as the sender assumes them.
LEMMA ParameterTypes ==
  /\ SendInterval \in Nat /\ BufferTime \in Nat /\ HandoverDetectionInterval \in Nat \ {0}
  /\ EnableSessionContinuity \in BOOLEAN
BY EndsAssumption DEF S!ContinuityAssumption

\* A pending timer has some time left.
LEMMA PendingLeft ==
  ASSUME NEW T, NEW q, IsQueue(q, T), NEW t \in Scheduled(q)
  PROVE  q.left[t] \in Nat /\ t \in T
BY DEF IsQueue, Scheduled

\* While no packet is sent the packet timer only comes nearer.
LEMMA ClockRunsOn ==
  ASSUME SenderTypes, SenderClock, NEW d \in Nat, now' = now + d,
         IsQueue(sTimers', S!ContinuityTimers),
         S!SendTimer \in Scheduled(sTimers') =>
            /\ S!SendTimer \in Scheduled(sTimers)
            /\ sTimers'.left[S!SendTimer] = sTimers.left[S!SendTimer] - d,
         UNCHANGED <<isAppActive, nextSequenceNumber, lastPacketSent>>
  PROVE  SenderClock'
<1>1. now \in Nat
  BY DEF SenderTypes
<1>2. S!SendTimer \in Scheduled(sTimers) => sTimers.left[S!SendTimer] \in Nat
  BY PendingLeft DEF SenderClock
<1> QED BY <1>1, <1>2 DEF SenderClock

\* While the receiver acts, too.
LEMMA SenderQuiet ==
  ASSUME SenderInv, NEW d \in Nat, now' = now + d,
         RunsOn(sTimers, sTimers'), UNCHANGED sender, sOutput' = {}
  PROVE  SenderInv'
<1>1. now \in Nat /\ now' \in Nat /\ now' - now = d
  BY DEF SenderInv, SenderTypes
<1>2. IsQueue(sTimers, S!ContinuityTimers) /\ MayElapse(sTimers, d) /\ sTimers' = Elapse(sTimers, d)
  BY <1>1 DEF RunsOn, SenderInv, SenderClock
<1>3. /\ IsQueue(sTimers', S!ContinuityTimers) /\ Scheduled(sTimers') = Scheduled(sTimers)
      /\ \A t \in Scheduled(sTimers) : sTimers'.left[t] = sTimers.left[t] - d
  BY <1>2, ElapseQueue
<1>4. /\ UNCHANGED <<isAppActive, packetBuffer, nextSequenceNumber, ackSequenceNumber>>
      /\ UNCHANGED <<lastPacketSent, packetsRetransmitted, packetsLostDuringHandover, handoverEvents>>
  BY DEF sender
<1>5. SenderClock'
  BY <1>3, <1>4, ClockRunsOn DEF SenderInv
<1>6. SenderTypes'
  <2>1. lastPacketSent' \in 0 .. now'
    BY <1>1, <1>4 DEF SenderInv, SenderTypes
  <2> QED BY <1>1, <1>4, <2>1 DEF SenderInv, SenderTypes
<1>7. SenderBuffer'
  BY <1>4 DEF SenderInv, SenderBuffer, Numbered
<1> QED BY <1>5, <1>6, <1>7 DEF SenderInv

\* What is sent again carries the numbers of buffered packets.
LEMMA Retransmission ==
  ASSUME SenderTypes, SenderBuffer, nextSequenceNumber' = nextSequenceNumber,
         S!ProcessHandoverDetection
  PROVE  /\ \A p \in sOutput' : Numbered(p)'
         /\ packetsRetransmitted' \in Nat /\ packetsLostDuringHandover' \in Nat
         /\ handoverEvents' \in Nat
<1> DEFINE due     == {b \in packetBuffer : b.seqNum > ackSequenceNumber}
           copies  == {[p EXCEPT !.retransmissionCount = @ + 1] : p \in due}
           allowed == {p \in copies : p.retransmissionCount =< MaxRetransmissions}
           copy    == [p \in due |-> [p EXCEPT !.retransmissionCount = @ + 1]]
<1>1. IsFiniteSet(due)
  <2>1. due \in SUBSET packetBuffer
    OBVIOUS
  <2> HIDE DEF due
  <2> QED BY <2>1, FS_Subset DEF SenderBuffer
<1>2. \A p \in copies : Numbered(p)'
  <2> SUFFICES ASSUME NEW p \in packetBuffer
               PROVE  Numbered([p EXCEPT !.retransmissionCount = @ + 1])'
    OBVIOUS
  <2>1. p \in S!Packet /\ p.seqNum \in 1 .. nextSequenceNumber - 1
    BY DEF SenderBuffer, Numbered
  <2> QED BY <2>1 DEF Numbered, S!Packet
<1>3. IsFiniteSet(copies)
  <2>1. copy \in Surjection(due, copies)
    <3> HIDE DEF due
    <3> QED BY DEF Surjection
  <2> HIDE DEF copies, copy, due
  <2> QED BY <1>1, <2>1, FS_Surjection
<1>4. Cardinality(allowed) \in Nat /\ Cardinality(copies \ allowed) \in Nat
  <2>1. allowed \in SUBSET copies /\ copies \ allowed \in SUBSET copies
    OBVIOUS
  <2> HIDE DEF copies, allowed
  <2> QED BY <1>3, <2>1, FS_Subset, FS_CardinalityType
<1>5. CASE S!RetransmitLostPackets
  <2>1. /\ sOutput' = allowed
        /\ packetsRetransmitted' = packetsRetransmitted + Cardinality(allowed)
        /\ packetsLostDuringHandover' = packetsLostDuringHandover + Cardinality(copies \ allowed)
    BY <1>5, OwnNames DEF S!RetransmitLostPackets
  <2>2. handoverEvents' \in Nat
    BY DEF SenderTypes, S!ProcessHandoverDetection
  <2>3. \A p \in sOutput' : p \in copies
    BY <2>1
  <2> HIDE DEF copies, allowed
  <2> QED BY <1>2, <1>4, <2>1, <2>2, <2>3 DEF SenderTypes
<1>6. CASE S!NoRetransmission
  BY <1>6 DEF S!NoRetransmission, SenderTypes, S!ProcessHandoverDetection, S!repairs
<1> QED BY <1>5, <1>6 DEF S!ProcessHandoverDetection

\* A detection, by timer.
LEMMA DetectStep ==
  ASSUME SenderInv, S!HandleDetectionTimer
  PROVE  /\ SenderInv'
         /\ \E d \in Nat : now' = now + d
         /\ UNCHANGED <<packetBuffer, nextSequenceNumber, ackSequenceNumber, lastPacketSent>>
         /\ handoverEvents' # handoverEvents /\ nextSequenceNumber > 1
               => S!SendTimer \notin Scheduled(sTimers)
<1> DEFINE d == sTimers.left[S!DetectionTimer]
           rest == Deliver(sTimers, S!DetectionTimer)
<1>1. /\ IsNext(sTimers, S!DetectionTimer)
      /\ now' = now + d
      /\ S!ProcessHandoverDetection
      /\ \/ sTimers' = ScheduleAfter(rest, S!DetectionTimer, HandoverDetectionInterval)
         \/ sTimers' = rest
      /\ UNCHANGED <<isAppActive, packetBuffer, nextSequenceNumber, lastPacketSent, ackSequenceNumber>>
  BY SenderQueue DEF S!HandleDetectionTimer, S!numbering
<1>2. /\ IsQueue(rest, S!ContinuityTimers) /\ d \in Nat
      /\ Scheduled(rest) = Scheduled(sTimers) \ {S!DetectionTimer}
      /\ \A u \in Scheduled(rest) : rest.left[u] = sTimers.left[u] - d
  <2>1. IsQueue(sTimers, S!ContinuityTimers)
    BY DEF SenderInv, SenderClock
  <2> QED BY <1>1, <2>1, ContinuityTimersDistinct, DeliverQueue
<1> HIDE DEF rest
<1>3. /\ IsQueue(sTimers', S!ContinuityTimers)
      /\ S!SendTimer \in Scheduled(sTimers') =>
            /\ S!SendTimer \in Scheduled(sTimers)
            /\ sTimers'.left[S!SendTimer] = sTimers.left[S!SendTimer] - d
  <2>1. CASE sTimers' = rest
    BY <1>2, <2>1
  <2>2. CASE sTimers' = ScheduleAfter(rest, S!DetectionTimer, HandoverDetectionInterval)
    <3>1. /\ IsQueue(sTimers', S!ContinuityTimers)
          /\ Scheduled(sTimers') = Scheduled(rest) \cup {S!DetectionTimer}
          /\ \A u \in S!ContinuityTimers \ {S!DetectionTimer} : sTimers'.left[u] = rest.left[u]
      <4>1. HandoverDetectionInterval \in Nat
        BY ParameterTypes
      <4>2. S!DetectionTimer \in S!ContinuityTimers
        BY ContinuityTimersDistinct
      <4>3. IsQueue(rest, S!ContinuityTimers)
        BY <1>2
      <4> QED BY <2>2, <4>1, <4>2, <4>3, ScheduleAfterQueue
    <3> QED BY <1>2, <3>1, ContinuityTimersDistinct
  <2> QED BY <1>1, <2>1, <2>2
<1>4. SenderClock'
  <2> HIDE DEF d
  <2> QED BY <1>1, <1>2, <1>3, ClockRunsOn DEF SenderInv
<1>5. /\ \A p \in sOutput' : Numbered(p)'
      /\ packetsRetransmitted' \in Nat /\ packetsLostDuringHandover' \in Nat
      /\ handoverEvents' \in Nat
  BY <1>1, Retransmission DEF SenderInv
<1>6. SenderTypes'
  <2>1. now \in Nat /\ lastPacketSent \in 0 .. now
    BY DEF SenderInv, SenderTypes
  <2>2. now' \in Nat /\ lastPacketSent' \in 0 .. now'
    BY <1>1, <1>2, <2>1
  <2> QED BY <1>1, <1>5, <2>2 DEF SenderInv, SenderTypes
<1>7. SenderBuffer'
  <2>1. \A p \in packetBuffer' : Numbered(p)'
    BY <1>1 DEF SenderInv, SenderBuffer, Numbered
  <2> QED BY <1>1, <1>5, <2>1 DEF SenderInv, SenderBuffer
<1>8. handoverEvents' # handoverEvents /\ nextSequenceNumber > 1
        => S!SendTimer \notin Scheduled(sTimers)
  <2> SUFFICES ASSUME handoverEvents' # handoverEvents, nextSequenceNumber > 1,
                      S!SendTimer \in Scheduled(sTimers)
               PROVE  FALSE
    OBVIOUS
  <2>1. now + d - lastPacketSent > 2 * SendInterval
    <3>1. now' - lastPacketSent > 2 * SendInterval
      BY <1>1 DEF S!ProcessHandoverDetection, S!IsHandoverInProgress
    <3>2. now \in Nat /\ lastPacketSent \in Nat
      BY DEF SenderInv, SenderTypes
    <3> HIDE DEF d
    <3> QED BY <1>1, <1>2, <3>1, <3>2, ParameterTypes
  <2>2. now + sTimers.left[S!SendTimer] = lastPacketSent + SendInterval
    BY DEF SenderInv, SenderClock
  <2>3. d =< sTimers.left[S!SendTimer] /\ sTimers.left[S!SendTimer] \in Nat
    <3>1. sTimers.left[S!SendTimer] \in Nat
      BY PendingLeft DEF SenderInv, SenderClock
    <3>2. d < sTimers.left[S!SendTimer] \/ d = sTimers.left[S!SendTimer]
      BY <1>1, ContinuityTimersDistinct DEF IsNext
    <3> HIDE DEF d
    <3> QED BY <1>2, <3>1, <3>2
  <2>4. now \in Nat /\ lastPacketSent \in Nat
    BY DEF SenderInv, SenderTypes
  <2> HIDE DEF d
  <2> QED BY <1>2, <2>1, <2>2, <2>3, <2>4, ParameterTypes
<1> HIDE DEF d
<1> QED BY <1>1, <1>2, <1>4, <1>6, <1>7, <1>8 DEF SenderInv

\* A detection, by socket error.
LEMMA ErrorStep ==
  ASSUME SenderInv, NEW d \in Nat, S!HandleSocketError(d)
  PROVE  /\ SenderInv'
         /\ now' = now + d
         /\ UNCHANGED <<packetBuffer, nextSequenceNumber, ackSequenceNumber, lastPacketSent>>
         /\ handoverEvents' # handoverEvents /\ nextSequenceNumber > 1
               => S!SendTimer \notin Scheduled(sTimers)
<1>1. /\ MayElapse(sTimers, d) /\ now' = now + d /\ sTimers' = Elapse(sTimers, d)
      /\ UNCHANGED <<isAppActive, packetBuffer, nextSequenceNumber, lastPacketSent, ackSequenceNumber>>
  BY SenderQueue DEF S!HandleSocketError, S!Passes, S!numbering
<1>2. IsQueue(sTimers, S!ContinuityTimers)
  BY DEF SenderInv, SenderClock
<1>3. /\ IsQueue(sTimers', S!ContinuityTimers) /\ Scheduled(sTimers') = Scheduled(sTimers)
      /\ \A t \in Scheduled(sTimers) : sTimers'.left[t] = sTimers.left[t] - d
  BY <1>1, <1>2, ElapseQueue
<1>4. SenderClock'
  BY <1>1, <1>3, ClockRunsOn DEF SenderInv
<1>5. /\ \A p \in sOutput' : Numbered(p)'
      /\ packetsRetransmitted' \in Nat /\ packetsLostDuringHandover' \in Nat
      /\ handoverEvents' \in Nat
  <2>1. CASE S!ProcessHandoverDetection
    BY <1>1, <2>1, Retransmission DEF SenderInv
  <2>2. CASE S!NoRetransmission /\ UNCHANGED handoverEvents
    BY <2>2 DEF S!NoRetransmission, S!repairs, SenderInv, SenderTypes
  <2> QED BY <2>1, <2>2 DEF S!HandleSocketError
<1>6. SenderTypes'
  <2>1. now \in Nat /\ lastPacketSent \in 0 .. now
    BY DEF SenderInv, SenderTypes
  <2>2. now' \in Nat /\ lastPacketSent' \in 0 .. now'
    BY <1>1, <2>1
  <2> QED BY <1>1, <1>5, <2>2 DEF SenderInv, SenderTypes
<1>7. SenderBuffer'
  <2>1. \A p \in packetBuffer' : Numbered(p)'
    BY <1>1 DEF SenderInv, SenderBuffer, Numbered
  <2> QED BY <1>1, <1>5, <2>1 DEF SenderInv, SenderBuffer
<1>8. handoverEvents' # handoverEvents /\ nextSequenceNumber > 1
        => S!SendTimer \notin Scheduled(sTimers)
  <2> SUFFICES ASSUME handoverEvents' # handoverEvents, nextSequenceNumber > 1,
                      S!SendTimer \in Scheduled(sTimers)
               PROVE  FALSE
    OBVIOUS
  <2>1. now + d - lastPacketSent > 2 * SendInterval
    <3>1. now' - lastPacketSent > 2 * SendInterval
      BY DEF S!HandleSocketError, S!ProcessHandoverDetection, S!IsHandoverInProgress
    <3>2. now \in Nat /\ lastPacketSent \in Nat
      BY DEF SenderInv, SenderTypes
    <3> QED BY <1>1, <3>1, <3>2, ParameterTypes
  <2>2. now + sTimers.left[S!SendTimer] = lastPacketSent + SendInterval
    BY DEF SenderInv, SenderClock
  <2>3. d =< sTimers.left[S!SendTimer] /\ sTimers.left[S!SendTimer] \in Nat
    BY <1>1, <1>2, PendingLeft DEF MayElapse
  <2>4. now \in Nat /\ lastPacketSent \in Nat
    BY DEF SenderInv, SenderTypes
  <2> QED BY <2>1, <2>2, <2>3, <2>4, ParameterTypes
<1> QED BY <1>1, <1>4, <1>6, <1>7, <1>8 DEF SenderInv

\* An acknowledgement of a number that was sent.
LEMMA AckStep ==
  ASSUME SenderInv, NEW a \in 1 .. nextSequenceNumber - 1, NEW d \in Nat, S!HandleAck(a, d)
  PROVE  /\ SenderInv'
         /\ now' = now + d
         /\ UNCHANGED <<nextSequenceNumber, lastPacketSent, handoverEvents>>
         /\ ackSequenceNumber' \in {a, ackSequenceNumber} /\ ackSequenceNumber' >= ackSequenceNumber
         /\ \A p \in packetBuffer : p.seqNum > ackSequenceNumber' => p \in packetBuffer'
<1>1. /\ MayElapse(sTimers, d) /\ now' = now + d /\ sTimers' = Elapse(sTimers, d)
      /\ S!HandleAckPacket(a) /\ sOutput' = {}
      /\ UNCHANGED <<isAppActive, nextSequenceNumber, lastPacketSent, handoverEvents>>
      /\ UNCHANGED <<packetsRetransmitted, packetsLostDuringHandover>>
  BY SenderQueue DEF S!HandleAck, S!Passes, S!repairs
<1>2. IsQueue(sTimers, S!ContinuityTimers)
  BY DEF SenderInv, SenderClock
<1>3. /\ IsQueue(sTimers', S!ContinuityTimers) /\ Scheduled(sTimers') = Scheduled(sTimers)
      /\ \A t \in Scheduled(sTimers) : sTimers'.left[t] = sTimers.left[t] - d
  BY <1>1, <1>2, ElapseQueue
<1>4. SenderClock'
  BY <1>1, <1>3, ClockRunsOn DEF SenderInv
<1>5. ackSequenceNumber \in Int /\ nextSequenceNumber \in Nat
  BY DEF SenderInv, SenderTypes
<1>6. /\ ackSequenceNumber' \in {a, ackSequenceNumber} /\ ackSequenceNumber' >= ackSequenceNumber
      /\ packetBuffer' \in SUBSET packetBuffer
      /\ \A p \in packetBuffer : p.seqNum > ackSequenceNumber' => p \in packetBuffer'
  BY <1>1, <1>5 DEF S!HandleAckPacket
<1>7. SenderTypes'
  <2>1. now \in Nat /\ lastPacketSent \in 0 .. now /\ ackSequenceNumber \in 0 .. nextSequenceNumber - 1
    BY DEF SenderInv, SenderTypes
  <2>2. now' \in Nat /\ lastPacketSent' \in 0 .. now'
    BY <1>1, <2>1
  <2>3. ackSequenceNumber' \in 0 .. nextSequenceNumber - 1
    BY <1>5, <1>6, <2>1
  <2> QED BY <1>1, <2>2, <2>3 DEF SenderInv, SenderTypes
<1>8. SenderBuffer'
  <2>1. \A p \in packetBuffer' : Numbered(p)'
    BY <1>1, <1>6 DEF SenderInv, SenderBuffer, Numbered
  <2>2. IsFiniteSet(packetBuffer')
    BY <1>6, FS_Subset DEF SenderInv, SenderBuffer
  <2> QED BY <1>1, <1>6, <2>1, <2>2 DEF SenderInv, SenderBuffer
<1> QED BY <1>1, <1>4, <1>6, <1>7, <1>8 DEF SenderInv

\* A subclass starts the sender.
LEMMA StartStep ==
  ASSUME SenderInv, S!Start
  PROVE  /\ SenderInv'
         /\ now' = now + 0 /\ sOutput' = {}
         /\ UNCHANGED <<packetBuffer, nextSequenceNumber, ackSequenceNumber, lastPacketSent, handoverEvents>>
<1>1. /\ ~isAppActive /\ isAppActive' = TRUE /\ sOutput' = {}
      /\ sTimers' = ScheduleAfter(sTimers, S!SendTimer, 0)
      /\ UNCHANGED <<now, packetBuffer, nextSequenceNumber, lastPacketSent, ackSequenceNumber,
                     packetsRetransmitted, packetsLostDuringHandover, handoverEvents>>
  BY SenderQueue DEF S!Start, S!repairs
<1>2. IsQueue(sTimers, S!ContinuityTimers)
  BY DEF SenderInv, SenderClock
<1>3. IsQueue(sTimers', S!ContinuityTimers)
  BY <1>1, <1>2, ContinuityTimersDistinct, ScheduleAfterQueue
<1>4. nextSequenceNumber = 1
  BY <1>1 DEF SenderInv, SenderClock
<1>5. SenderClock'
  BY <1>1, <1>3, <1>4 DEF SenderClock
<1>6. SenderTypes' /\ SenderBuffer'
  BY <1>1 DEF SenderInv, SenderTypes, SenderBuffer, Numbered
<1>7. now' = now + 0
  BY <1>1 DEF SenderInv, SenderTypes
<1> QED BY <1>1, <1>5, <1>6, <1>7 DEF SenderInv

\* A packet is numbered, sent and kept; what is old leaves the buffer.
LEMMA SendStep ==
  ASSUME SenderInv, S!HandleSendTimer
  PROVE  /\ SenderInv'
         /\ \E d \in Nat : now' = now + d
         /\ \E k \in Nat : nextSequenceNumber' = nextSequenceNumber + k
         /\ UNCHANGED <<ackSequenceNumber, handoverEvents>>
         /\ lastPacketSent' >= lastPacketSent
         /\ EnableSessionContinuity =>
               \A p \in packetBuffer \cup sOutput' :
                  lastPacketSent' - p.sendTime =< BufferTime => p \in packetBuffer'
<1> DEFINE d == sTimers.left[S!SendTimer]
           rest == Deliver(sTimers, S!SendTimer)
<1>1. /\ IsNext(sTimers, S!SendTimer) /\ now' = now + d
      /\ S!SendVoIPPacket(rest)
      /\ UNCHANGED <<isAppActive, ackSequenceNumber, packetsRetransmitted,
                     packetsLostDuringHandover, handoverEvents>>
  BY SenderQueue DEF S!HandleSendTimer, S!repairs
<1>2. /\ IsQueue(rest, S!ContinuityTimers) /\ d \in Nat
      /\ S!SendTimer \notin Scheduled(rest)
  <2>1. IsQueue(sTimers, S!ContinuityTimers)
    BY DEF SenderInv, SenderClock
  <2> QED BY <1>1, <2>1, ContinuityTimersDistinct, DeliverQueue
<1> HIDE DEF rest, d
<1>3. /\ now \in Nat /\ now' \in Nat /\ lastPacketSent \in 0 .. now
      /\ lastPacketSent \in 0 .. now' /\ lastPacketSent \in Nat
  BY <1>1, <1>2 DEF SenderInv, SenderTypes
<1>4. nextSequenceNumber \in Nat \ {0} /\ ackSequenceNumber \in 0 .. nextSequenceNumber - 1
  BY DEF SenderInv, SenderTypes
<1>5. CASE S!SendNothing(rest)
  <2>1. /\ sTimers' = rest /\ sOutput' = {}
        /\ UNCHANGED <<packetBuffer, nextSequenceNumber, lastPacketSent>>
    BY <1>5 DEF S!SendNothing
  <2>2. SenderClock'
    BY <1>1, <1>2, <2>1 DEF SenderInv, SenderClock
  <2>3. SenderTypes' /\ SenderBuffer'
    BY <1>1, <1>3, <2>1 DEF SenderInv, SenderTypes, SenderBuffer, Numbered
  <2>4. nextSequenceNumber' = nextSequenceNumber + 0 /\ lastPacketSent' >= lastPacketSent
    BY <1>3, <1>4, <2>1
  <2> QED BY <1>1, <1>2, <2>1, <2>2, <2>3, <2>4 DEF SenderInv
<1>6. CASE isAppActive /\ ~S!SendNothing(rest)
  <2> DEFINE packet == [seqNum |-> nextSequenceNumber, sendTime |-> now', retransmissionCount |-> 0]
  <2>1. /\ IF EnableSessionContinuity THEN S!BufferPacket(packet) ELSE UNCHANGED packetBuffer
        /\ sOutput' = {packet}
        /\ lastPacketSent' = now'
        /\ nextSequenceNumber' = nextSequenceNumber + 1
        /\ \/ sTimers' = rest
           \/ sTimers' = ScheduleAfter(rest, S!SendTimer, SendInterval)
    BY <1>1, <1>6, SenderQueue DEF S!SendVoIPPacket, S!ScheduleNextPacket
  <2>2. SenderClock'
    <3>1. CASE sTimers' = rest
      BY <1>1, <1>2, <1>6, <3>1 DEF SenderClock
    <3>2. CASE sTimers' = ScheduleAfter(rest, S!SendTimer, SendInterval)
      <4>1. S!SendTimer \in S!ContinuityTimers /\ SendInterval \in Nat
        BY ContinuityTimersDistinct, ParameterTypes
      <4>2. IsQueue(sTimers', S!ContinuityTimers) /\ sTimers'.left[S!SendTimer] = SendInterval
        BY <1>2, <3>2, <4>1, ScheduleAfterQueue
      <4> QED BY <1>1, <1>6, <2>1, <4>2 DEF SenderClock
    <3> QED BY <2>1, <3>1, <3>2
  <2>3. SenderTypes'
    <3>1. ackSequenceNumber' \in 0 .. nextSequenceNumber' - 1 /\ nextSequenceNumber' \in Nat \ {0}
      BY <1>1, <1>4, <2>1
    <3>2. lastPacketSent' \in 0 .. now'
      BY <1>3, <2>1
    <3> QED BY <1>1, <1>3, <3>1, <3>2 DEF SenderInv, SenderTypes
  <2>4. /\ packet \in S!Packet /\ packet.seqNum \in 1 .. nextSequenceNumber' - 1
        /\ packet.seqNum = nextSequenceNumber
    <3>1. packet \in S!Packet
      BY <1>3, <1>4 DEF S!Packet
    <3>2. packet.seqNum \in 1 .. nextSequenceNumber' - 1
      BY <1>4, <2>1
    <3> QED BY <3>1, <3>2
  <2>5. \A p \in packetBuffer :
           /\ p \in S!Packet /\ p.seqNum \in 1 .. nextSequenceNumber' - 1
           /\ p.seqNum # nextSequenceNumber
    <3> TAKE p \in packetBuffer
    <3>1. p \in S!Packet /\ p.seqNum \in 1 .. nextSequenceNumber - 1
      BY DEF SenderInv, SenderBuffer, Numbered
    <3>2. p.seqNum \in 1 .. nextSequenceNumber' - 1 /\ p.seqNum # nextSequenceNumber
      BY <1>4, <2>1, <3>1
    <3> QED BY <3>1, <3>2
  <2>6. packetBuffer' \in SUBSET (packetBuffer \cup {packet})
    BY <2>1 DEF S!BufferPacket
  <2> HIDE DEF packet
  <2>7. SenderBuffer'
    <3>1. IsFiniteSet(packetBuffer')
      <4>1. IsFiniteSet(packetBuffer \cup {packet})
        BY FS_AddElement DEF SenderInv, SenderBuffer
      <4> QED BY <2>6, <4>1, FS_Subset
    <3>2. \A p \in packetBuffer' \cup sOutput' :
             p \in S!Packet /\ p.seqNum \in 1 .. nextSequenceNumber' - 1
      BY <2>1, <2>4, <2>5, <2>6
    <3>3. \A p, q \in packetBuffer' : p.seqNum = q.seqNum => p = q
      BY <2>4, <2>5, <2>6 DEF SenderInv, SenderBuffer
    <3> QED BY <3>1, <3>2, <3>3 DEF SenderBuffer, Numbered
  <2>8. ASSUME EnableSessionContinuity, NEW p \in packetBuffer \cup {packet},
               lastPacketSent' - p.sendTime =< BufferTime
        PROVE  p \in packetBuffer'
    BY <2>1, <2>8 DEF S!BufferPacket
  <2>9. lastPacketSent' >= lastPacketSent
    BY <1>3, <2>1
  <2> QED BY <1>1, <1>2, <2>1, <2>2, <2>3, <2>7, <2>8, <2>9 DEF SenderInv
<1> QED BY <1>1, <1>5, <1>6 DEF S!SendVoIPPacket

-----------------------------------------------------------------------------
\* What the network carries stays numbered and heard of while the sender acts.
LEMMA SenderActed ==
  ASSUME ContinuityInv, SenderInv',
         NEW d \in Nat, now' = now + d,
         NEW k \in Nat, nextSequenceNumber' = nextSequenceNumber + k,
         RunsOn(rTimers, rTimers'), rOutput' = {}, UNCHANGED receiver,
         uplink' \subseteq uplink \cup sOutput', log' \subseteq log \cup sOutput',
         downlink' \subseteq downlink,
         ackSequenceNumber' \in downlink \cup {ackSequenceNumber},
         duplicates' \in 0 .. MaxDuplicates, errors' \in 0 .. MaxErrors
  PROVE  ReceiverInv' /\ NetworkInv'
<1>1. ReceiverInv' /\ Heard' = Heard
  BY ReceiverQuiet DEF ContinuityInv, SenderInv
<1>2. \A p \in uplink \cup log \cup sOutput' : p \in S!Packet /\ p.seqNum \in 1 .. nextSequenceNumber' - 1
  <2>1. ASSUME NEW p \in uplink \cup log
        PROVE  p \in S!Packet /\ p.seqNum \in 1 .. nextSequenceNumber' - 1
    <3>1. p \in S!Packet /\ p.seqNum \in 1 .. nextSequenceNumber - 1
      BY DEF ContinuityInv, NetworkInv, Numbered
    <3>2. nextSequenceNumber \in Nat
      BY DEF ContinuityInv, SenderInv, SenderTypes
    <3> QED BY <3>1, <3>2
  <2>2. \A p \in sOutput' : p \in S!Packet /\ p.seqNum \in 1 .. nextSequenceNumber' - 1
    BY DEF SenderInv, SenderBuffer, Numbered
  <2> QED BY <2>1, <2>2
<1>3. \A p \in uplink' \cup log' : p \in S!Packet /\ p.seqNum \in 1 .. nextSequenceNumber' - 1
  BY <1>2
<1>4. /\ downlink' \cup rOutput' \cup {ackSequenceNumber'} \subseteq Heard \cup {0}
      /\ 0 \notin downlink' \cup rOutput'
  BY DEF ContinuityInv, NetworkInv
<1> QED BY <1>1, <1>3, <1>4 DEF NetworkInv, Numbered

\* The same while the receiver acts.
LEMMA ReceiverActed ==
  ASSUME ContinuityInv, ReceiverInv', NEW d \in Nat, now' = now + d,
         RunsOn(sTimers, sTimers'), sOutput' = {}, UNCHANGED sender,
         Heard \subseteq Heard', rOutput' \subseteq Heard', 0 \notin rOutput',
         uplink' \subseteq uplink, UNCHANGED log,
         downlink' \subseteq downlink \cup rOutput',
         duplicates' \in 0 .. MaxDuplicates, errors' \in 0 .. MaxErrors
  PROVE  ContinuityInv'
<1>1. SenderInv'
  BY SenderQuiet DEF ContinuityInv
<1>2. UNCHANGED <<packetBuffer, nextSequenceNumber, ackSequenceNumber, lastPacketSent>>
  BY DEF sender
<1>3. \A p \in uplink' \cup log' : Numbered(p)'
  BY <1>2 DEF ContinuityInv, NetworkInv, Numbered
<1>4. /\ downlink' \cup rOutput' \cup {ackSequenceNumber'} \subseteq Heard' \cup {0}
      /\ 0 \notin downlink' \cup rOutput'
  BY <1>2 DEF ContinuityInv, NetworkInv
<1>5. BufferComplete'
  BY <1>2 DEF ContinuityInv, BufferComplete
<1> QED BY <1>1, <1>3, <1>4, <1>5 DEF ContinuityInv, NetworkInv

\* A delivered message leaves the network or stays as a copy.
LEMMA DeliveredStays ==
  ASSUME NEW channel, NEW m, NEW channelAfter, Delivered(channel, m, channelAfter),
         duplicates \in 0 .. MaxDuplicates
  PROVE  channelAfter \subseteq channel /\ duplicates' \in 0 .. MaxDuplicates
<1>1. channelAfter \subseteq channel
  BY DEF Delivered
<1>2. MaxDuplicates \in Nat
  BY BoundAssumption
<1> QED BY <1>1, <1>2 DEF Delivered

\* The invariant holds before the first event.
LEMMA InitContinuity ==
  ASSUME Init
  PROVE  ContinuityInv
<1>1. /\ now = 0 /\ isAppActive = FALSE /\ packetBuffer = {} /\ sOutput = {}
      /\ nextSequenceNumber = 1 /\ ackSequenceNumber = 0 /\ lastPacketSent = 0
      /\ packetsRetransmitted = 0 /\ packetsLostDuringHandover = 0 /\ handoverEvents = 0
      /\ \/ sTimers = EmptyQueue(S!ContinuityTimers)
         \/ sTimers = ScheduleAfter(EmptyQueue(S!ContinuityTimers), S!DetectionTimer,
                                    HandoverDetectionInterval)
  BY SenderQueue DEF Init, S!Init
<1>2. /\ rTimers = EmptyQueue({R!TimeoutTimer}) /\ receivedPackets = {}
      /\ expectedSequenceNumber = 1 /\ lastPacketReceived = 0
      /\ duplicatePackets = 0 /\ outOfOrderPackets = 0 /\ played = <<>> /\ rOutput = {}
      /\ uplink = {} /\ downlink = {} /\ duplicates = 0 /\ errors = 0 /\ log = {}
  BY ReceiverQueue DEF Init, R!Init
<1>3. \A T : IsQueue(EmptyQueue(T), T) /\ Scheduled(EmptyQueue(T)) = {}
  BY DEF IsQueue, EmptyQueue, Scheduled, NotScheduled
<1>4. IsQueue(sTimers, S!ContinuityTimers)
  <2>1. HandoverDetectionInterval \in Nat /\ S!DetectionTimer \in S!ContinuityTimers
    BY ContinuityTimersDistinct, ParameterTypes
  <2> QED BY <1>1, <1>3, <2>1, ScheduleAfterQueue
<1>5. SenderInv
  <2>1. SenderBuffer
    BY <1>1, FS_EmptySet DEF SenderBuffer
  <2>2. SenderTypes
    <3>1. isAppActive \in BOOLEAN
      BY <1>1
    <3>2. /\ now = 0 /\ nextSequenceNumber = 1 /\ ackSequenceNumber = 0 /\ lastPacketSent = 0
          /\ packetsRetransmitted = 0 /\ packetsLostDuringHandover = 0 /\ handoverEvents = 0
      BY <1>1
    <3> QED BY <3>1, <3>2 DEF SenderTypes
  <2>3. SenderClock
    BY <1>1, <1>4 DEF SenderClock
  <2> QED BY <2>1, <2>2, <2>3 DEF SenderInv
<1>6. ReceiverInv
  <2>1. ReceiverClock
    BY <1>2, <1>3 DEF ReceiverClock
  <2> QED BY <1>1, <1>2, <2>1
          DEF ReceiverInv, ReceiverTypes, PlayedBelow, PlayedInOrder, NothingPlayableWaits
<1>7. NetworkInv /\ BufferComplete
  BY <1>1, <1>2, BoundAssumption DEF NetworkInv, BufferComplete
<1> QED BY <1>5, <1>6, <1>7 DEF ContinuityInv

\* What time may pass until a message arrives.
LEMMA DelayIsNat ==
  ASSUME SenderTypes, NEW d \in 0 .. SimTimeLimit - now
  PROVE  d \in Nat
BY BoundAssumption DEF SenderTypes

\* Every event at either end, and every fault of the network, preserves it.
LEMMA StepContinuity ==
  ASSUME ContinuityInv, [Next]_vars
  PROVE  ContinuityInv'
<1> USE DEF ContinuityInv
<1>1. CASE Start
  <2>1. /\ S!Start /\ RunsOn(rTimers, rTimers') /\ rOutput' = {} /\ UNCHANGED receiver
        /\ uplink' = uplink \cup sOutput'
        /\ UNCHANGED <<downlink, duplicates, errors, log>>
    BY <1>1 DEF Start, SenderActs
  <2>2. /\ SenderInv' /\ now' = now + 0 /\ sOutput' = {}
        /\ UNCHANGED <<packetBuffer, nextSequenceNumber, ackSequenceNumber, lastPacketSent>>
    BY <2>1, StartStep
  <2>3. nextSequenceNumber' = nextSequenceNumber + 0
    BY <2>2 DEF SenderInv, SenderTypes
  <2>4. ReceiverInv' /\ NetworkInv'
    BY <2>1, <2>2, <2>3, SenderActed DEF NetworkInv
  <2>5. BufferComplete'
    BY <2>1, <2>2 DEF BufferComplete
  <2> QED BY <2>2, <2>4, <2>5
<1>2. CASE SendNext
  <2>1. /\ S!HandleSendTimer /\ RunsOn(rTimers, rTimers') /\ rOutput' = {} /\ UNCHANGED receiver
        /\ uplink' = uplink \cup sOutput' /\ log' = log \cup sOutput'
        /\ UNCHANGED <<downlink, duplicates, errors>>
    BY <1>2 DEF SendNext, SenderActs
  <2>2. /\ SenderInv' /\ UNCHANGED ackSequenceNumber
        /\ lastPacketSent' >= lastPacketSent
        /\ EnableSessionContinuity =>
               \A p \in packetBuffer \cup sOutput' :
                  lastPacketSent' - p.sendTime =< BufferTime => p \in packetBuffer'
    BY <2>1, SendStep
  <2>3. PICK d \in Nat : now' = now + d
    BY <2>1, SendStep
  <2>4. PICK k \in Nat : nextSequenceNumber' = nextSequenceNumber + k
    BY <2>1, SendStep
  <2>5. ReceiverInv' /\ NetworkInv'
    BY <2>1, <2>2, <2>3, <2>4, SenderActed DEF NetworkInv
  <2>6. BufferComplete'
    <3> SUFFICES ASSUME EnableSessionContinuity, NEW p \in log', p.seqNum > ackSequenceNumber,
                        lastPacketSent' - p.sendTime =< BufferTime
                 PROVE  p \in packetBuffer'
      BY <2>2 DEF BufferComplete
    <3>1. CASE p \in log
      <4>1. p.sendTime \in Nat
        BY <3>1 DEF NetworkInv, Numbered, S!Packet
      <4>2. lastPacketSent \in Nat /\ lastPacketSent' \in Nat
        BY <2>2 DEF SenderInv, SenderTypes
      <4>3. lastPacketSent - p.sendTime =< BufferTime
        BY <2>2, <4>1, <4>2, ParameterTypes
      <4>4. p \in packetBuffer
        BY <3>1, <4>3 DEF BufferComplete
      <4> QED BY <2>2, <4>4
    <3>2. CASE p \in sOutput'
      BY <2>2, <3>2
    <3> QED BY <2>1, <3>1, <3>2
  <2> QED BY <2>2, <2>5, <2>6
<1>3. CASE Detect
  <2>1. /\ S!HandleDetectionTimer /\ RunsOn(rTimers, rTimers') /\ rOutput' = {}
        /\ UNCHANGED receiver
        /\ uplink' = uplink \cup sOutput'
        /\ UNCHANGED <<downlink, duplicates, errors, log>>
    BY <1>3 DEF Detect, SenderActs
  <2>2. /\ SenderInv'
        /\ UNCHANGED <<packetBuffer, nextSequenceNumber, ackSequenceNumber, lastPacketSent>>
    BY <2>1, DetectStep
  <2>3. PICK d \in Nat : now' = now + d
    BY <2>1, DetectStep
  <2>4. nextSequenceNumber' = nextSequenceNumber + 0
    BY <2>2 DEF SenderInv, SenderTypes
  <2>5. ReceiverInv' /\ NetworkInv'
    BY <2>1, <2>2, <2>3, <2>4, SenderActed DEF NetworkInv
  <2>6. BufferComplete'
    BY <2>1, <2>2 DEF BufferComplete
  <2> QED BY <2>2, <2>5, <2>6
<1>4. ASSUME NEW d \in 0 .. SimTimeLimit - now, Error(d) PROVE ContinuityInv'
  <2>1. /\ S!HandleSocketError(d) /\ RunsOn(rTimers, rTimers') /\ rOutput' = {}
        /\ UNCHANGED receiver
        /\ uplink' = uplink \cup sOutput'
        /\ errors < MaxErrors /\ errors' = errors + 1
        /\ UNCHANGED <<downlink, duplicates, log>>
    BY <1>4 DEF Error, SenderActs
  <2>2. d \in Nat
    BY DelayIsNat DEF SenderInv
  <2>3. /\ SenderInv' /\ now' = now + d
        /\ UNCHANGED <<packetBuffer, nextSequenceNumber, ackSequenceNumber, lastPacketSent>>
    BY <2>1, <2>2, ErrorStep
  <2>4. nextSequenceNumber' = nextSequenceNumber + 0
    BY <2>3 DEF SenderInv, SenderTypes
  <2>5. errors' \in 0 .. MaxErrors
    BY <2>1, BoundAssumption DEF NetworkInv
  <2>6. ReceiverInv' /\ NetworkInv'
    BY <2>1, <2>2, <2>3, <2>4, <2>5, SenderActed DEF NetworkInv
  <2>7. BufferComplete'
    BY <2>1, <2>3 DEF BufferComplete
  <2> QED BY <2>3, <2>6, <2>7
<1>5. ASSUME NEW d \in 0 .. SimTimeLimit - now, NEW a \in downlink, DeliverAck(a, d)
      PROVE  ContinuityInv'
  <2>1. /\ S!HandleAck(a, d) /\ RunsOn(rTimers, rTimers') /\ rOutput' = {}
        /\ UNCHANGED receiver
        /\ Delivered(downlink, a, downlink')
        /\ UNCHANGED <<uplink, errors, log>>
    BY <1>5 DEF DeliverAck
  <2>2. d \in Nat
    BY DelayIsNat DEF SenderInv
  <2>3. a \in 1 .. nextSequenceNumber - 1
    BY DEF NetworkInv, Heard, ReceiverInv, ReceiverTypes, PlayedBelow
  <2>4. /\ SenderInv' /\ now' = now + d
        /\ UNCHANGED <<nextSequenceNumber, lastPacketSent>>
        /\ ackSequenceNumber' \in {a, ackSequenceNumber} /\ ackSequenceNumber' >= ackSequenceNumber
        /\ \A p \in packetBuffer : p.seqNum > ackSequenceNumber' => p \in packetBuffer'
    BY <2>1, <2>2, <2>3, AckStep
  <2>5. nextSequenceNumber' = nextSequenceNumber + 0
    BY <2>4 DEF SenderInv, SenderTypes
  <2>6. downlink' \subseteq downlink /\ duplicates' \in 0 .. MaxDuplicates
    BY <2>1, DeliveredStays DEF NetworkInv
  <2>7. ReceiverInv' /\ NetworkInv'
    BY <2>1, <2>2, <2>4, <2>5, <2>6, SenderActed DEF NetworkInv
  <2>8. BufferComplete'
    <3> SUFFICES ASSUME EnableSessionContinuity, NEW p \in log, p.seqNum > ackSequenceNumber',
                        lastPacketSent - p.sendTime =< BufferTime
                 PROVE  p \in packetBuffer'
      BY <2>1, <2>4 DEF BufferComplete
    <3>1. p.seqNum \in Int /\ ackSequenceNumber \in Int
      BY DEF NetworkInv, Numbered, S!Packet, SenderInv, SenderTypes
    <3>2. ackSequenceNumber' \in Int
      BY <2>4 DEF SenderInv, SenderTypes
    <3>3. p.seqNum > ackSequenceNumber
      BY <2>4, <3>1, <3>2
    <3>4. p \in packetBuffer
      BY <3>3 DEF BufferComplete
    <3> QED BY <2>4, <3>4
  <2> QED BY <2>4, <2>7, <2>8
<1>6. ASSUME NEW d \in 0 .. SimTimeLimit - now, NEW p \in uplink, DeliverPacket(p, d)
      PROVE  ContinuityInv'
  <2>1. /\ R!ProcessReceivedPacket(p.seqNum, d) /\ RunsOn(sTimers, sTimers') /\ sOutput' = {}
        /\ UNCHANGED sender
        /\ Delivered(uplink, p, uplink')
        /\ downlink' = downlink \cup rOutput'
        /\ UNCHANGED <<errors, log>>
    BY <1>6 DEF DeliverPacket, ReceiverActs
  <2>2. d \in Nat
    BY DelayIsNat DEF SenderInv
  <2>3. p.seqNum \in 1 .. nextSequenceNumber - 1 /\ nextSequenceNumber' = nextSequenceNumber
    BY <2>1 DEF NetworkInv, Numbered, sender
  <2>4. /\ ReceiverInv' /\ now' = now + d
        /\ Heard \subseteq Heard' /\ rOutput' \subseteq Heard' /\ 0 \notin rOutput'
    BY <2>1, <2>2, <2>3, ReceiveStep DEF SenderInv
  <2>5. uplink' \subseteq uplink /\ duplicates' \in 0 .. MaxDuplicates
    BY <2>1, DeliveredStays DEF NetworkInv
  <2> QED BY <2>1, <2>2, <2>4, <2>5, ReceiverActed DEF NetworkInv
<1>7. CASE Timeout
  <2>1. /\ R!HandleHandoverTimeout /\ RunsOn(sTimers, sTimers') /\ sOutput' = {}
        /\ UNCHANGED sender /\ UNCHANGED <<uplink, downlink, duplicates, errors, log>>
    BY <1>7 DEF Timeout, ReceiverActs, network
  <2>2. nextSequenceNumber' = nextSequenceNumber
    BY <2>1 DEF sender
  <2>3. /\ ReceiverInv' /\ Heard \subseteq Heard' /\ rOutput' = {}
        /\ \E d \in Nat : now' = now + d
    BY <2>1, <2>2, TimeoutStep DEF SenderInv
  <2>4. PICK d \in Nat : now' = now + d
    BY <2>3
  <2> QED BY <2>1, <2>3, <2>4, ReceiverActed DEF NetworkInv
<1>8. CASE Lose
  <2>1. /\ uplink' \subseteq uplink /\ downlink' \subseteq downlink /\ sOutput' = {} /\ rOutput' = {}
        /\ UNCHANGED <<now, sTimers, rTimers, duplicates, errors, log>>
        /\ UNCHANGED sender /\ UNCHANGED receiver
    BY <1>8 DEF Lose
  <2>2. SenderInv'
    BY <2>1 DEF sender, SenderInv, SenderTypes, SenderClock, SenderBuffer, Numbered
  <2>3. ReceiverInv'
    BY <2>1 DEF sender, receiver, ReceiverInv, ReceiverTypes, ReceiverClock, PlayedBelow,
                PlayedInOrder, NothingPlayableWaits
  <2>4. NetworkInv'
    BY <2>1 DEF sender, receiver, NetworkInv, Numbered, Heard
  <2>5. BufferComplete'
    BY <2>1 DEF sender, BufferComplete
  <2> QED BY <2>2, <2>3, <2>4, <2>5
<1>9. CASE UNCHANGED vars
  BY <1>9 DEF vars, S!vars, R!vars, S!numbering, S!repairs, network,
              SenderInv, SenderTypes, SenderClock, SenderBuffer, Numbered,
              ReceiverInv, ReceiverTypes, ReceiverClock, PlayedBelow, PlayedInOrder,
              NothingPlayableWaits, NetworkInv, Heard, BufferComplete
<1> QED BY <1>1, <1>2, <1>3, <1>4, <1>5, <1>6, <1>7, <1>8, <1>9 DEF Next

-----------------------------------------------------------------------------
\* Every state of a call between the two ends satisfies the invariant.
THEOREM ContinuityInvariant == Spec => []ContinuityInv
BY InitContinuity, StepContinuity, PTL DEF Spec

\* Only numbers that were sent are ever buffered, in flight, stored by the
\* receiver or acknowledged, and the send buffer holds each of them once.
THEOREM ContinuityTypeCorrect == Spec => []TypeOK
<1>1. ContinuityInv => TypeOK
  <2> SUFFICES ASSUME ContinuityInv PROVE TypeOK
    OBVIOUS
  <2>1. packetBuffer \cup sOutput \subseteq S!Packet
    BY DEF ContinuityInv, SenderInv, SenderBuffer, Numbered
  <2>2. S!TypeOK
    BY <2>1, SenderQueue DEF S!TypeOK, ContinuityInv, SenderInv, SenderTypes, SenderClock, SenderBuffer
  <2>3. Heard \subseteq 1 .. nextSequenceNumber - 1
    BY DEF Heard, ContinuityInv, ReceiverInv, ReceiverTypes, PlayedBelow
  <2>4. downlink \cup rOutput \subseteq 1 .. nextSequenceNumber - 1
    BY <2>3 DEF ContinuityInv, NetworkInv
  <2>5. receivedPackets \subseteq Nat /\ rOutput \subseteq Nat
    BY <2>3, <2>4 DEF Heard
  <2>6. R!TypeOK
    <3>1. now \in Nat
      BY DEF ContinuityInv, SenderInv, SenderTypes
    <3>2. played \in Seq(Nat) /\ R!IsQueue(rTimers, {R!TimeoutTimer})
      BY ReceiverQueue DEF ContinuityInv, ReceiverInv, PlayedBelow, ReceiverClock
    <3> QED BY <2>5, <3>1, <3>2 DEF R!TypeOK, ContinuityInv, ReceiverInv, ReceiverTypes
  <2>7. uplink \subseteq S!Packet /\ log \subseteq S!Packet
    BY DEF ContinuityInv, NetworkInv, Numbered
  <2>8. \A p \in packetBuffer \cup uplink \cup log : p.seqNum \in 1 .. nextSequenceNumber - 1
    BY DEF ContinuityInv, NetworkInv, SenderInv, SenderBuffer, Numbered
  <2>9. receivedPackets \subseteq 1 .. nextSequenceNumber - 1
    BY DEF ContinuityInv, ReceiverInv, ReceiverTypes
  <2> QED BY <2>2, <2>4, <2>6, <2>7, <2>8, <2>9 DEF TypeOK, ContinuityInv, NetworkInv
<1> QED BY <1>1, ContinuityInvariant, PTL

\* Packets are played in the order they were sent in, and none twice.
THEOREM PlayoutInOrder == Spec => []PlayedInOrder
<1>1. ContinuityInv => PlayedInOrder
  BY DEF ContinuityInv, ReceiverInv
<1> QED BY <1>1, ContinuityInvariant, PTL

\* reorderAndPlayPackets leaves nothing behind that it could play.
THEOREM NothingWaits == Spec => []NothingPlayableWaits
<1>1. ContinuityInv => NothingPlayableWaits
  BY DEF ContinuityInv, ReceiverInv
<1> QED BY <1>1, ContinuityInvariant, PTL

\* With session continuity the recent packets above all that arrived are still
\* in the buffer and not acknowledged.
THEOREM TailKept ==
  ASSUME EnableSessionContinuity
  PROVE  Spec => []TailRepairable
<1>1. ContinuityInv => TailRepairable
  <2> SUFFICES ASSUME ContinuityInv,
                      NEW p \in log, p.seqNum > Max(Heard \cup {0}),
                      lastPacketSent - p.sendTime =< BufferTime
               PROVE  p \in packetBuffer /\ p.seqNum > ackSequenceNumber
    BY DEF TailRepairable, Heard
  <2>1. nextSequenceNumber \in Nat \ {0} /\ ackSequenceNumber \in Heard \cup {0}
    BY DEF ContinuityInv, SenderInv, SenderTypes, NetworkInv
  <2>2. Heard \cup {0} \in SUBSET (0 .. nextSequenceNumber - 1)
    <3>1. Heard \subseteq 1 .. nextSequenceNumber - 1
      BY DEF Heard, ContinuityInv, ReceiverInv, ReceiverTypes, PlayedBelow
    <3> HIDE DEF Heard
    <3> QED BY <2>1, <3>1
  <2>3. nextSequenceNumber - 1 \in Nat
    BY <2>1
  <2> HIDE DEF Heard
  <2>4. Max(Heard \cup {0}) \in Heard \cup {0} /\ ackSequenceNumber =< Max(Heard \cup {0})
    BY <2>1, <2>2, <2>3, LargestNumber
  <2>5. p.seqNum \in Int
    BY DEF ContinuityInv, NetworkInv, Numbered, S!Packet
  <2>6. p.seqNum > ackSequenceNumber
    <3>1. Max(Heard \cup {0}) \in Int /\ ackSequenceNumber \in Int
      BY <2>1, <2>2, <2>4
    <3> QED BY <2>4, <2>5, <3>1
  <2> QED BY <2>6 DEF ContinuityInv, BufferComplete
<1> QED BY <1>1, ContinuityInvariant, PTL

-----------------------------------------------------------------------------
\* A missing packet is skipped only by a timeout, and only when nothing has
\* arrived for handoverTimeout.
THEOREM SilenceBeforeSkip == Spec => SkipsOnlyAfterSilence
<1> DEFINE Skips == \E s \in expectedSequenceNumber .. expectedSequenceNumber' - 1 :
                       \A i \in DOMAIN played' : played'[i] # s
           Silent == now' - lastPacketReceived >= HandoverTimeout
<1>1. ContinuityInv /\ [Next]_vars => [Skips => Silent]_vars
  <2> SUFFICES ASSUME ContinuityInv, Next, Skips PROVE Silent
    OBVIOUS
  <2>1. expectedSequenceNumber' # expectedSequenceNumber
    <3>1. expectedSequenceNumber \in Nat
      BY DEF ContinuityInv, ReceiverInv, ReceiverTypes
    <3> QED BY <3>1
  <2>2. CASE Start \/ SendNext \/ Detect \/ Lose
    BY <2>1, <2>2 DEF Start, SendNext, Detect, Lose, SenderActs, receiver
  <2>3. ASSUME NEW d \in 0 .. SimTimeLimit - now, NEW a \in downlink,
               DeliverAck(a, d)
        PROVE  FALSE
    BY <2>1, <2>3 DEF DeliverAck, receiver
  <2>4. ASSUME NEW d \in 0 .. SimTimeLimit - now, Error(d)
        PROVE  FALSE
    BY <2>1, <2>4 DEF Error, SenderActs, receiver
  <2>5. ASSUME NEW d \in 0 .. SimTimeLimit - now, NEW p \in uplink, DeliverPacket(p, d)
        PROVE  FALSE
    <3>1. R!ProcessReceivedPacket(p.seqNum, d) /\ UNCHANGED sender
      BY <2>5 DEF DeliverPacket, ReceiverActs
    <3>2. d \in Nat
      BY DelayIsNat DEF ContinuityInv, SenderInv
    <3>3. p.seqNum \in 1 .. nextSequenceNumber - 1 /\ nextSequenceNumber' = nextSequenceNumber
      BY <3>1 DEF ContinuityInv, NetworkInv, Numbered, sender
    <3>4. \A x \in expectedSequenceNumber .. expectedSequenceNumber' - 1 :
             \E i \in DOMAIN played' : played'[i] = x
      BY <3>1, <3>2, <3>3, ReceiveStep DEF ContinuityInv, SenderInv
    <3> QED BY <3>4
  <2>6. CASE Timeout
    <3>1. R!HandleHandoverTimeout /\ nextSequenceNumber' = nextSequenceNumber
      BY <2>6 DEF Timeout, ReceiverActs, sender
    <3> QED BY <3>1, TimeoutStep DEF ContinuityInv, SenderInv
  <2> QED BY <2>2, <2>3, <2>4, <2>5, <2>6 DEF Next
<1> QED BY <1>1, ContinuityInvariant, PTL DEF Spec, SkipsOnlyAfterSilence

\* The finding on detection, for every parameter value: while packets are sent
\* no handover is detected, by timer or socket error, whatever ACKs are missing.
THEOREM DetectionIsPauseInSending ==
  Spec => [][handoverEvents' # handoverEvents /\ nextSequenceNumber > 1
                => S!SendTimer \notin Scheduled(sTimers)]_vars
<1> DEFINE Late == handoverEvents' # handoverEvents /\ nextSequenceNumber > 1
                     => S!SendTimer \notin Scheduled(sTimers)
<1>1. ContinuityInv /\ [Next]_vars => [Late]_vars
  <2> SUFFICES ASSUME ContinuityInv, Next, handoverEvents' # handoverEvents, nextSequenceNumber > 1
               PROVE  S!SendTimer \notin Scheduled(sTimers)
    OBVIOUS
  <2>1. SenderInv
    BY DEF ContinuityInv
  <2>2. CASE Detect
    BY <2>1, <2>2, DetectStep DEF Detect, SenderActs
  <2>3. ASSUME NEW d \in 0 .. SimTimeLimit - now, Error(d) PROVE S!SendTimer \notin Scheduled(sTimers)
    <3>1. d \in Nat
      BY <2>1, DelayIsNat DEF SenderInv
    <3> QED BY <2>1, <2>3, <3>1, ErrorStep DEF Error, SenderActs
  <2>4. CASE Start \/ SendNext
    BY <2>1, <2>4, StartStep, SendStep DEF Start, SendNext, SenderActs
  <2>5. CASE Timeout \/ Lose
    BY <2>5 DEF Timeout, Lose, ReceiverActs, sender
  <2>6. ASSUME NEW d \in 0 .. SimTimeLimit - now, NEW p \in uplink, DeliverPacket(p, d)
        PROVE  FALSE
    BY <2>6 DEF DeliverPacket, ReceiverActs, sender
  <2>7. ASSUME NEW d \in 0 .. SimTimeLimit - now, NEW a \in downlink, DeliverAck(a, d)
        PROVE  FALSE
    BY <2>7 DEF DeliverAck, S!HandleAck
  <2> QED BY <2>2, <2>3, <2>4, <2>5, <2>6, <2>7 DEF Next
<1> QED BY <1>1, ContinuityInvariant, PTL DEF Spec
=============================================================================
