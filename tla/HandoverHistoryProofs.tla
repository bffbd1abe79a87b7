----------------------- MODULE HandoverHistoryProofs -----------------------
(***************************************************************************)
(* The hysteresis of the handover decision, for all thresholds, priorities *)
(* and enable flags and for any sequence of signal levels.                 *)
(***************************************************************************)
EXTENDS HandoverHistory, HandoverManagerProofs

\* A decision to leave an interface places one signal on the far side of its
\* threshold: the WiFi level if WiFi has the higher priority, else the LTE
\* level (makeHandoverDecision).
LEMMA DecisionThresholds ==
  ASSUME NEW lte \in Int, NEW wifi \in Int
  PROVE  /\ MakeHandoverDecision(LTE, lte, wifi) = WIFI =>
               IF WifiPriority > LtePriority THEN wifi > WifiThreshold(LTE)
                                             ELSE lte =< LteThreshold(LTE)
         /\ MakeHandoverDecision(WIFI, lte, wifi) = LTE =>
               IF WifiPriority > LtePriority THEN wifi =< WifiThreshold(WIFI)
                                             ELSE lte > LteThreshold(WIFI)
BY PolicyAssumption
   DEF MakeHandoverDecision, WifiThreshold, LteThreshold, LTE, WIFI

\* The step that initiates a handover is a measurement.
LEMMA InitiatingStep ==
  ASSUME Safe, [Next]_vars, Initiates
  PROVE  /\ measured' \in [lte : Int, wifi : Int]
         /\ currentActiveInterface \in InterfaceType
         /\ currentActiveInterface' = currentActiveInterface
         /\ targetActiveInterface' = Other(currentActiveInterface)
         /\ targetActiveInterface' =
               MakeHandoverDecision(currentActiveInterface, measured'.lte, measured'.wifi)
<1>1. HandleMeasurementTimer
  <2>1. ~HandleHandoverTimer
    BY DEF Initiates, HandleHandoverTimer, ExecuteHandover
  <2>2. ~Finish /\ ~UNCHANGED vars
    BY DEF Initiates, Finish, vars, decision
  <2> QED BY <2>1, <2>2 DEF Next, EventLoop
<1>2. PICK l \in LteProbes, w \in WifiProbes :
         PerformMeasurements(GetLteRsrp(l), GetWifiRssi(w))
  BY <1>1 DEF HandleMeasurementTimer
<1> DEFINE lte == GetLteRsrp(l)
           wifi == GetWifiRssi(w)
           target == MakeHandoverDecision(currentActiveInterface, lte, wifi)
<1>3. lte \in Int /\ wifi \in Int
  BY ProbeTypes
<1>4. currentActiveInterface \in InterfaceType
  BY DEF Safe, TypeOK
<1>5. target \in InterfaceType
  BY <1>3, <1>4, DecisionType
<1>6. /\ measured' = [lte |-> lte, wifi |-> wifi]
      /\ targetActiveInterface' = target
      /\ target # currentActiveInterface
  BY <1>2 DEF PerformMeasurements, InitiateHandover, Initiates
<1>7. currentActiveInterface' = currentActiveInterface
  BY <1>1 DEF HandleMeasurementTimer
<1>8. measured'.lte = lte /\ measured'.wifi = wifi
  BY <1>6
<1> HIDE DEF lte, wifi
<1> QED BY <1>3, <1>4, <1>5, <1>6, <1>7, <1>8, TwoTypes DEF target

\* There is no decision at the start.
LEMMA HistInitSafe == HistInit => HistSafe
<1>1. Init => Safe
  BY InitSafe
<1> QED BY <1>1
        DEF HistInit, HistSafe, NoDecision, Decisions, LastDecisionJustified, Init,
            InterfaceType, LTE, WIFI

\* Every event keeps what is known of the last decision.
LEMMA HistStepSafe == HistSafe /\ [HistNext]_<<vars, lastDecision>> => HistSafe'
<1> SUFFICES ASSUME HistSafe, [HistNext]_<<vars, lastDecision>>
             PROVE  HistSafe'
  OBVIOUS
<1>1. Safe /\ lastDecision \in Decisions /\ LastDecisionJustified /\ [Next]_vars
  BY DEF HistSafe, HistNext
<1>2. Safe'
  BY <1>1, StepSafe
<1>3. CASE Initiates
  <2>1. lastDecision' = DecisionTaken
    BY <1>3 DEF HistNext, Initiates, vars, decision
  <2>2. /\ measured' \in [lte : Int, wifi : Int]
        /\ currentActiveInterface \in InterfaceType
        /\ currentActiveInterface' = currentActiveInterface
        /\ targetActiveInterface' = Other(currentActiveInterface)
        /\ targetActiveInterface' =
              MakeHandoverDecision(currentActiveInterface, measured'.lte, measured'.wifi)
    BY <1>1, <1>3, InitiatingStep
  <2>3. measured'.lte \in Int /\ measured'.wifi \in Int
    BY <2>2
  <2>4. /\ lastDecision'.to = targetActiveInterface'
        /\ lastDecision'.lte = measured'.lte /\ lastDecision'.wifi = measured'.wifi
        /\ lastDecision' \in Decisions
    BY <2>1, <2>2, <2>3, TwoTypes DEF DecisionTaken, Decisions
  <2>5. /\ targetActiveInterface' = WIFI => currentActiveInterface = LTE
        /\ targetActiveInterface' = LTE => currentActiveInterface = WIFI
        /\ targetActiveInterface' # "none"
    BY <2>2 DEF Other, InterfaceType, LTE, WIFI
  <2>6. LastDecisionJustified'
    BY <1>3, <2>2, <2>3, <2>4, <2>5, DecisionThresholds DEF LastDecisionJustified, Initiates
  <2> QED BY <1>2, <2>4, <2>6 DEF HistSafe
<1>4. CASE ~Initiates
  <2>1. lastDecision' = lastDecision
    BY <1>4 DEF HistNext
  <2>2. CASE HandleHandoverTimer
    <3>1. /\ currentActiveInterface' = targetActiveInterface /\ ~handoverInProgress'
          /\ HandoverTimer \in Scheduled(fes)
      BY <2>2 DEF HandleHandoverTimer, ExecuteHandover, SetActiveInterface, IsNext
    <3>2. handoverInProgress
      BY <1>1, <3>1 DEF Safe, TimersConsistent
    <3>3. LastDecisionJustified'
      BY <1>1, <2>1, <3>1, <3>2 DEF LastDecisionJustified
    <3> QED BY <1>1, <1>2, <2>1, <3>3 DEF HistSafe
  <2>3. CASE ~HandleHandoverTimer
    <3>1. /\ currentActiveInterface' = currentActiveInterface
          /\ handoverInProgress' = handoverInProgress
          /\ targetActiveInterface' = targetActiveInterface
      <4>1. CASE HandleMeasurementTimer
        <5>1. PICK l \in LteProbes, w \in WifiProbes :
                 PerformMeasurements(GetLteRsrp(l), GetWifiRssi(w))
          BY <4>1 DEF HandleMeasurementTimer
        <5>2. UNCHANGED <<targetActiveInterface, handoverInProgress, handoverTimer>>
          BY <1>4, <5>1 DEF PerformMeasurements, InitiateHandover, Initiates
        <5> QED BY <4>1, <5>2 DEF HandleMeasurementTimer
      <4>2. CASE Finish \/ UNCHANGED vars
        BY <4>2 DEF Finish, vars, decision
      <4> QED BY <1>1, <2>3, <4>1, <4>2 DEF Next, EventLoop
    <3>2. LastDecisionJustified'
      BY <1>1, <2>1, <3>1 DEF LastDecisionJustified
    <3> QED BY <1>1, <1>2, <2>1, <3>2 DEF HistSafe
  <2> QED BY <2>2, <2>3
<1> QED BY <1>3, <1>4

\* The remembered decision and the safety properties, in every state.
THEOREM HistoryInvariant == HistSpec => []HistSafe
BY HistInitSafe, HistStepSafe, PTL DEF HistSpec

\* No ping-pong without a swing: two successive handovers have opposite
\* directions, and the deciding signal moved by more than twice the
\* hysteresis in between (makeHandoverDecision).
THEOREM NoPingPongWithoutSwing == HistSpec => ReversalNeedsSwing
<1>1. ASSUME HistSafe, [HistNext]_<<vars, lastDecision>>,
             Initiates, lastDecision.to # "none"
      PROVE  /\ DecisionTaken.to = Other(lastDecision.to)
             /\ Swing(lastDecision, DecisionTaken)
  <2>1. Safe /\ lastDecision \in Decisions /\ LastDecisionJustified /\ [Next]_vars
    BY <1>1 DEF HistSafe, HistNext
  <2>2. /\ measured' \in [lte : Int, wifi : Int]
        /\ currentActiveInterface \in InterfaceType
        /\ currentActiveInterface' = currentActiveInterface
        /\ targetActiveInterface' = Other(currentActiveInterface)
        /\ targetActiveInterface' =
              MakeHandoverDecision(currentActiveInterface, measured'.lte, measured'.wifi)
    BY <1>1, <2>1, InitiatingStep
  <2>3. /\ measured'.lte \in Int /\ measured'.wifi \in Int
        /\ lastDecision.lte \in Int /\ lastDecision.wifi \in Int
    BY <2>1, <2>2 DEF Decisions
  <2>4. lastDecision.to = currentActiveInterface
    BY <1>1, <2>1 DEF LastDecisionJustified, Initiates
  <2>5. /\ DecisionTaken.to = targetActiveInterface'
        /\ DecisionTaken.lte = measured'.lte /\ DecisionTaken.wifi = measured'.wifi
    BY DEF DecisionTaken
  <2>6. CASE currentActiveInterface = LTE
    <3>1. targetActiveInterface' = WIFI
      BY <2>2, <2>6 DEF Other
    <3>2. IF WifiPriority > LtePriority THEN measured'.wifi > WifiThreshold(LTE)
                                        ELSE measured'.lte =< LteThreshold(LTE)
      BY <2>2, <2>3, <2>6, <3>1, DecisionThresholds
    <3>3. IF WifiPriority > LtePriority THEN lastDecision.wifi =< WifiThreshold(WIFI)
                                        ELSE lastDecision.lte > LteThreshold(WIFI)
      BY <2>1, <2>4, <2>6 DEF LastDecisionJustified
    <3>4. IF WifiPriority > LtePriority THEN Rises(lastDecision.wifi, measured'.wifi)
                                        ELSE Rises(measured'.lte, lastDecision.lte)
      <4>1. /\ WifiThreshold(LTE) = WifiRssiThreshold + Hysteresis
            /\ WifiThreshold(WIFI) = WifiRssiThreshold - Hysteresis
            /\ LteThreshold(LTE) = LteRsrpThreshold - Hysteresis
            /\ LteThreshold(WIFI) = LteRsrpThreshold + Hysteresis
        BY DEF WifiThreshold, LteThreshold, LTE, WIFI
      <4> QED BY <2>3, <3>2, <3>3, <4>1, PolicyAssumption DEF Rises
    <3> QED BY <2>2, <2>4, <2>5, <2>6, <3>1, <3>4 DEF Swing
  <2>7. CASE currentActiveInterface = WIFI
    <3>1. targetActiveInterface' = LTE
      BY <2>2, <2>7 DEF Other, LTE, WIFI
    <3>2. IF WifiPriority > LtePriority THEN measured'.wifi =< WifiThreshold(WIFI)
                                        ELSE measured'.lte > LteThreshold(WIFI)
      BY <2>2, <2>3, <2>7, <3>1, DecisionThresholds
    <3>3. IF WifiPriority > LtePriority THEN lastDecision.wifi > WifiThreshold(LTE)
                                        ELSE lastDecision.lte =< LteThreshold(LTE)
      BY <2>1, <2>4, <2>7 DEF LastDecisionJustified
    <3>4. IF WifiPriority > LtePriority THEN Rises(measured'.wifi, lastDecision.wifi)
                                        ELSE Rises(lastDecision.lte, measured'.lte)
      <4>1. /\ WifiThreshold(LTE) = WifiRssiThreshold + Hysteresis
            /\ WifiThreshold(WIFI) = WifiRssiThreshold - Hysteresis
            /\ LteThreshold(LTE) = LteRsrpThreshold - Hysteresis
            /\ LteThreshold(WIFI) = LteRsrpThreshold + Hysteresis
        BY DEF WifiThreshold, LteThreshold, LTE, WIFI
      <4> QED BY <2>3, <3>2, <3>3, <4>1, PolicyAssumption DEF Rises
    <3> QED BY <2>2, <2>4, <2>5, <2>7, <3>1, <3>4 DEF Swing
  <2> QED BY <2>2, <2>6, <2>7 DEF InterfaceType
<1>2. HistSafe /\ [HistNext]_<<vars, lastDecision>> =>
        [Initiates /\ lastDecision.to # "none" =>
            /\ DecisionTaken.to = Other(lastDecision.to)
            /\ Swing(lastDecision, DecisionTaken)]_<<vars, lastDecision>>
  BY <1>1
<1> QED BY <1>2, HistoryInvariant, PTL DEF HistSpec, ReversalNeedsSwing
=============================================================================
