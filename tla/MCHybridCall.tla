---------------------------- MODULE MCHybridCall ----------------------------
(***************************************************************************)
(* LTE is slower than WiFi by more than the gap between two talkspurts,    *)
(* and packets on WiFi can overtake each other by more than an interval.   *)
(***************************************************************************)
EXTENDS HybridCall

BothPaths == {"LTE", "WIFI"}
Fastest   == [LTE |-> 2, WIFI |-> 0]
Slowest   == [LTE |-> 5, WIFI |-> 4]

Durations == {4, 9}
Silences  == {1, 8}
=============================================================================
