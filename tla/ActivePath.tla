----------------------------- MODULE ActivePath -----------------------------
(***************************************************************************)
(* What the handover manager promises the rest of the UE: there is always  *)
(* exactly one path for outgoing packets, it changes only by a switch that *)
(* was begun, every switch that was begun takes effect (unless the         *)
(* simulation ends), and switches do not overlap.                          *)
(***************************************************************************)
CONSTANT Paths

VARIABLES path, switching, over

Init ==
    /\ path \in Paths
    /\ switching = FALSE
    /\ over = FALSE

Begin ==
    /\ ~over /\ ~switching
    /\ switching' = TRUE
    /\ UNCHANGED <<path, over>>

Commit ==
    /\ ~over /\ switching
    /\ path' \in Paths \ {path}
    /\ switching' = FALSE
    /\ UNCHANGED over

Stop ==
    /\ ~over
    /\ over' = TRUE
    /\ UNCHANGED <<path, switching>>

Next == Begin \/ Commit \/ Stop

Spec == Init /\ [][Next]_<<path, switching, over>>

\* A switch that was begun is not forgotten.
FairSpec == Spec /\ WF_<<path, switching, over>>(Commit)
=============================================================================
