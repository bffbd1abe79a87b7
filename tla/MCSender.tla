------------------------------ MODULE MCSender ------------------------------
(***************************************************************************)
(* A voice source with an interval of three ticks, so that periods end     *)
(* before, at and after the packets.                                       *)
(***************************************************************************)
EXTENDS CustomVoipSender

ShortAndLong  == {1, 2, 3, 7}
ShortSilences == {1, 3, 8}
=============================================================================
