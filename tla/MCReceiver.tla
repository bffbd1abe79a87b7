----------------------------- MODULE MCReceiver -----------------------------
(***************************************************************************)
(* A call of two talkspurts, the silence between them shorter than the     *)
(* network's longest delay, so that they overlap on arrival.               *)
(***************************************************************************)
EXTENDS CustomVoipReceiver

Spurt(id, numPackets, start) ==
    {[talkspurtID |-> id, talkspurtNumPackets |-> numPackets, packetID |-> i,
      voipTimestamp |-> start + i * VoiceDuration] : i \in 0 .. numPackets - 1}

TwoTalkspurts == Spurt(0, 3, 0) \cup Spurt(1, 2, 7)
=============================================================================
