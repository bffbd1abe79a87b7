--------------------------- MODULE HandoverHistory ---------------------------
(***************************************************************************)
(* The handover manager with a memory of the last decision to hand over:   *)
(* where to, and the signal levels it was taken on.                        *)
(***************************************************************************)
EXTENDS HandoverProperties

VARIABLE lastDecision

NoDecision == [to |-> "none", lte |-> 0, wifi |-> 0]
Decisions == [to : InterfaceType \cup {"none"}, lte : Int, wifi : Int]

Initiates == ~handoverInProgress /\ handoverInProgress'

DecisionTaken == [to   |-> targetActiveInterface',
                  lte  |-> measured'.lte,
                  wifi |-> measured'.wifi]

HistInit == Init /\ lastDecision = NoDecision

HistNext ==
    /\ Next
    /\ lastDecision' = IF Initiates THEN DecisionTaken ELSE lastDecision

HistSpec == HistInit /\ [][HistNext]_<<vars, lastDecision>>

\* With the fairness of FairSpec.
HistFairSpec == HistSpec /\ WF_vars(EventLoop)

\* The hysteresis works: two successive handovers lead in opposite
\* directions, and between the two decisions one signal has moved by more
\* than twice the hysteresis in the direction that favours the new
\* interface: the WiFi level if WiFi has the higher priority, else the LTE
\* level.
Rises(before, after) == after - before > 2 * Hysteresis

Swing(from, to) ==
    IF WifiPriority > LtePriority
    THEN \/ to.to = WIFI /\ Rises(from.wifi, to.wifi)
         \/ to.to = LTE  /\ Rises(to.wifi, from.wifi)
    ELSE \/ to.to = WIFI /\ Rises(to.lte, from.lte)
         \/ to.to = LTE  /\ Rises(from.lte, to.lte)

ReversalNeedsSwing ==
    [][Initiates /\ lastDecision.to # "none" =>
          /\ DecisionTaken.to = Other(lastDecision.to)
          /\ Swing(lastDecision, DecisionTaken)]_<<vars, lastDecision>>

\* The remembered decision is the one being executed or the last executed,
\* and the thresholds of that decision bound the level it was taken on.
LastDecisionJustified ==
    /\ lastDecision.to = "none" => ~handoverInProgress /\ currentActiveInterface = LTE
    /\ lastDecision.to # "none" =>
          lastDecision.to = IF handoverInProgress THEN targetActiveInterface
                                                  ELSE currentActiveInterface
    /\ lastDecision.to = WIFI =>
          IF WifiPriority > LtePriority
          THEN lastDecision.wifi > WifiThreshold(LTE)
          ELSE lastDecision.lte =< LteThreshold(LTE)
    /\ lastDecision.to = LTE =>
          IF WifiPriority > LtePriority
          THEN lastDecision.wifi =< WifiThreshold(WIFI)
          ELSE lastDecision.lte > LteThreshold(WIFI)

HistSafe == Safe /\ lastDecision \in Decisions /\ LastDecisionJustified
=============================================================================
