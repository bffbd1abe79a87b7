------------------------ MODULE TalkspurtEvaluation ------------------------
(***************************************************************************)
(* The evaluation of a received talkspurt: every packet, in the order of   *)
(* arrival, is a duplicate, late for its playout, inserted into the        *)
(* playout buffer or dropped because the buffer is full.                   *)
(***************************************************************************)
EXTENDS Integers, Sequences, FiniteSets, SequencesExt, FiniteSetsExt

CONSTANTS VoiceDuration,   \* of a packet, in ticks
          BufferSpace,     \* of the playout buffer, in packets
          UIntSize         \* 2^w of an unsigned int

ASSUME EvaluationAssumption ==
    /\ VoiceDuration \in Nat \ {0}
    /\ BufferSpace \in Nat
    /\ UIntSize \in Nat \ {0}

UInt(n) == n % UIntSize

\* When a packet is due, counted from the first one that arrived.
PlayoutTime(packets, delay, id) ==
    packets[1].arrivalTime + delay + (id - packets[1].packetID) * VoiceDuration

PacketIDs(packets) == {packets[i].packetID : i \in DOMAIN packets}

\* Fault: a talkspurt that ends with the simulation is taken as complete.
ExpectedPacketsAll(packets, numPackets, finish) == numPackets

\* The packets the sender is known to have sent: at the end of the
\* simulation only those up to the last one received.
ExpectedPackets(packets, numPackets, finish) ==
    IF finish THEN Max(PacketIDs(packets)) + 1 ELSE numPackets

\* Fault: packets already played keep their place in the buffer.
BufferNeverFreed(packets, delay, acc, p) ==
    IF Cardinality(acc.queue) < BufferSpace
    THEN [acc EXCEPT !.arrived = @ \cup {p.packetID}, !.queue = @ \cup {p.packetID}]
    ELSE [acc EXCEPT !.tailDropLoss = @ + 1]

\* A timely packet enters the playout buffer, which what was due before its
\* arrival has left.
Buffer(packets, delay, acc, p) ==
    LET queue == {i \in acc.queue : PlayoutTime(packets, delay, i) >= p.arrivalTime}
    IN  IF Cardinality(queue) < BufferSpace
        THEN [acc EXCEPT !.arrived = @ \cup {p.packetID}, !.queue = queue \cup {p.packetID}]
        ELSE [acc EXCEPT !.tailDropLoss = @ + 1, !.queue = queue]

\* Fault: a duplicate is not added to the channel loss it hid.
PlaceDuplicateIgnored(packets, delay, acc, p) ==
    LET late == p.arrivalTime - PlayoutTime(packets, delay, p.packetID)
        seen == [acc EXCEPT !.maxLateness = Max({@, late})]
    IN  IF p.packetID \in acc.arrived THEN seen
        ELSE IF late > 0 THEN [seen EXCEPT !.playoutLoss = @ + 1]
        ELSE Buffer(packets, delay, seen, p)

\* One packet of the loop in evaluateTalkspurt.
Place(packets, delay, acc, p) ==
    LET late == p.arrivalTime - PlayoutTime(packets, delay, p.packetID)
        seen == [acc EXCEPT !.maxLateness = Max({@, late})]
    IN  IF p.packetID \in acc.arrived THEN [seen EXCEPT !.channelLoss = UInt(@ + 1)]
        ELSE IF late > 0 THEN [seen EXCEPT !.playoutLoss = @ + 1]
        ELSE Buffer(packets, delay, seen, p)

\* The numerators of the emitted rates; emittedLoss is the one of the packet
\* loss rate, emitted before the loop.
Evaluation(packets, numPackets, delay, finish) ==
    LET loss  == UInt(ExpectedPackets(packets, numPackets, finish) - Len(packets))
        start == [channelLoss |-> loss, playoutLoss |-> 0, tailDropLoss |-> 0,
                  maxLateness |-> -delay, arrived |-> {}, queue |-> {}]
        end   == FoldLeft(LAMBDA acc, p : Place(packets, delay, acc, p), start, packets)
    IN  [emittedLoss  |-> loss,
         channelLoss  |-> end.channelLoss,
         playoutLoss  |-> end.playoutLoss,
         tailDropLoss |-> end.tailDropLoss,
         maxLateness  |-> end.maxLateness,
         played       |-> end.arrived]
=============================================================================
