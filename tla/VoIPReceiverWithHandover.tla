---------------------- MODULE VoIPReceiverWithHandover ----------------------
(***************************************************************************)
(* What VoIPReceiverWithHandover adds to CustomVoipReceiver: packets are   *)
(* acknowledged, put in order and played by handing them to the base       *)
(* class; after a pause of handoverTimeout missing packets are skipped.    *)
(***************************************************************************)
EXTENDS EventQueue, Sequences, FiniteSets, FiniteSetsExt

CONSTANT HandoverTimeout

\* Assumed by the modules that instantiate this one.
TimeoutAssumption == HandoverTimeout \in Nat \ {0}

TimeoutTimer == "handoverTimeout"

VARIABLES
    now, timers,
    receivedPackets,        \* the numbers stored, a std::map
    expectedSequenceNumber,
    lastPacketReceived,
    duplicatePackets, outOfOrderPackets,
    played,                 \* the numbers handed to the base class so far
    output                  \* the acknowledgements this step sent

vars == <<now, timers, receivedPackets, expectedSequenceNumber, lastPacketReceived,
          duplicatePackets, outOfOrderPackets, played, output>>

TypeOK ==
    /\ now \in Nat /\ lastPacketReceived \in 0 .. now
    /\ IsQueue(timers, {TimeoutTimer})
    /\ receivedPackets \subseteq Nat
    /\ expectedSequenceNumber \in Nat
    /\ duplicatePackets \in Nat /\ outOfOrderPackets \in Nat
    /\ played \in Seq(Nat)
    /\ output \subseteq Nat

Init ==
    /\ now = 0
    /\ timers = EmptyQueue({TimeoutTimer})
    /\ receivedPackets = {}
    /\ expectedSequenceNumber = 1
    /\ lastPacketReceived = 0
    /\ duplicatePackets = 0 /\ outOfOrderPackets = 0
    /\ played = <<>>
    /\ output = {}

-----------------------------------------------------------------------------
\* The first number from n on that is not stored.
FirstMissing(stored, n) == Min((n .. n + Cardinality(stored)) \ stored)

\* Fault: one packet is played and not those that waited for it.
PlayOne(stored, n) ==
    /\ expectedSequenceNumber' = n + 1
    /\ receivedPackets' = stored \ {n}
    /\ played' = Append(played, n)

\* reorderAndPlayPackets, once the packet expected, n, is stored.
ReorderAndPlayPackets(stored, n) ==
    LET next == FirstMissing(stored, n)
    IN  /\ expectedSequenceNumber' = next
        /\ receivedPackets' = stored \ (n .. next - 1)
        /\ played' = played \o [i \in 1 .. next - n |-> n + i - 1]

RestartTimeout(q) == ScheduleAfter(Cancel(q, TimeoutTimer), TimeoutTimer, HandoverTimeout)

\* The branches of processReceivedPacket; a duplicate is not acknowledged again.
Duplicate(seqNum) ==
    /\ seqNum \in receivedPackets
    /\ duplicatePackets' = duplicatePackets + 1
    /\ output' = {}
    /\ UNCHANGED <<receivedPackets, expectedSequenceNumber, outOfOrderPackets, played>>

InOrder(seqNum) ==
    /\ seqNum \notin receivedPackets /\ seqNum = expectedSequenceNumber
    /\ output' = {seqNum}
    /\ ReorderAndPlayPackets(receivedPackets \cup {seqNum}, seqNum)
    /\ UNCHANGED <<duplicatePackets, outOfOrderPackets>>

\* A late packet, played or skipped before, is stored and never looked at again.
Late(seqNum) ==
    /\ seqNum \notin receivedPackets /\ seqNum < expectedSequenceNumber
    /\ output' = {seqNum}
    /\ receivedPackets' = receivedPackets \cup {seqNum}
    /\ UNCHANGED <<expectedSequenceNumber, duplicatePackets, outOfOrderPackets, played>>

OutOfOrder(seqNum) ==
    /\ seqNum \notin receivedPackets /\ seqNum > expectedSequenceNumber
    /\ output' = {seqNum}
    /\ receivedPackets' = receivedPackets \cup {seqNum}
    /\ outOfOrderPackets' = outOfOrderPackets + 1
    /\ UNCHANGED <<expectedSequenceNumber, duplicatePackets, played>>

\* Fault: the pause is measured from the first packet that arrived out of order.
ProcessReceivedPacketKeepTimer(seqNum, d) ==
    /\ MayElapse(timers, d)
    /\ now' = now + d
    /\ lastPacketReceived' = now'
    /\ timers' = IF timers.left[TimeoutTimer] = NotScheduled THEN RestartTimeout(timers)
                                                              ELSE Elapse(timers, d)
    /\ Duplicate(seqNum) \/ InOrder(seqNum) \/ Late(seqNum) \/ OutOfOrder(seqNum)

ProcessReceivedPacket(seqNum, d) ==
    /\ MayElapse(timers, d)
    /\ now' = now + d
    /\ lastPacketReceived' = now'
    /\ timers' = RestartTimeout(Elapse(timers, d))
    /\ Duplicate(seqNum) \/ InOrder(seqNum) \/ Late(seqNum) \/ OutOfOrder(seqNum)

\* Fault: everything before the lowest number stored is skipped, late packets included.
HandleHandoverTimeoutLowest ==
    /\ IsNext(timers, TimeoutTimer)
    /\ now' = now + timers.left[TimeoutTimer]
    /\ timers' = Deliver(timers, TimeoutTimer)
    /\ output' = {}
    /\ \/ receivedPackets # {} /\ ReorderAndPlayPackets(receivedPackets, Min(receivedPackets))
       \/ receivedPackets = {} /\ UNCHANGED <<receivedPackets, expectedSequenceNumber, played>>
    /\ UNCHANGED <<lastPacketReceived, duplicatePackets, outOfOrderPackets>>

\* handleHandoverTimeout skips to the next number stored above the expected one.
HandleHandoverTimeout ==
    LET ahead == {s \in receivedPackets : s > expectedSequenceNumber}
    IN  /\ IsNext(timers, TimeoutTimer)
        /\ now' = now + timers.left[TimeoutTimer]
        /\ timers' = Deliver(timers, TimeoutTimer)
        /\ output' = {}
        /\ \/ ahead # {} /\ ReorderAndPlayPackets(receivedPackets, Min(ahead))
           \/ ahead = {} /\ UNCHANGED <<receivedPackets, expectedSequenceNumber, played>>
        /\ UNCHANGED <<lastPacketReceived, duplicatePackets, outOfOrderPackets>>
=============================================================================
