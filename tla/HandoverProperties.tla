------------------------- MODULE HandoverProperties -------------------------
(***************************************************************************)
(* What makes the handover manager correct.                                *)
(***************************************************************************)
EXTENDS HandoverManager

\* The measurement timer is pending as long as the simulation runs, and the
\* handover timer is pending exactly when a handover is in progress and its
\* pointer is set; finish() leaves no timer behind.
TimersConsistent ==
    /\ MeasurementTimer \in Scheduled(fes) <=> ~finished
    /\ HandoverTimer \in Scheduled(fes) <=> handoverInProgress /\ ~finished
    /\ handoverTimer = HandoverTimer <=> handoverInProgress

\* A pending handover leads away from the interface in use, so executing it
\* really switches, and the uninitialized target is never executed.
PendingTargetIsOther ==
    handoverInProgress => targetActiveInterface = Other(currentActiveInterface)

\* The data path follows currentActiveInterface, however many handovers have
\* taken routes and radios down: its radio is up and the other one down, and
\* the table is what the configurator routed over the active interface and one
\* default route, through that interface's gateway.
DataPathFollowsActive ==
    LET active == InterfaceOf(currentActiveInterface)
        inactive == InterfaceOf(Other(currentActiveInterface))
    IN  /\ ifState[active] = "UP" /\ ifState[inactive] = "DOWN"
        /\ routes = ConfiguredRoutes(active) \cup {DefaultRoute(active)}

\* Handovers alternate, so the two statistics differ by at most one and say
\* which interface is in use, also after the counters have wrapped around.
CountersMatchPath ==
    lteToWifiHandovers =
        IF currentActiveInterface = LTE THEN wifiToLteHandovers ELSE Inc(wifiToLteHandovers)

\* With a handover delay no longer than the measurement interval, a handover
\* in progress is always the one the latest measurement asks for: no newer
\* measurement comes between the decision and its execution, not even one
\* at the same instant.
ExecutionUsesLatestMeasurement ==
    HandoverDelay =< MeasurementInterval /\ handoverInProgress =>
        MakeHandoverDecision(currentActiveInterface, measured.lte, measured.wifi)
            = targetActiveInterface

\* While a handover is pending its timer arrives before the next measurement
\* (why ExecutionUsesLatestMeasurement holds).
HandoverArrivesFirst ==
    HandoverDelay =< MeasurementInterval /\ handoverInProgress /\ ~finished =>
        /\ fes.left[HandoverTimer] =< fes.left[MeasurementTimer]
        /\ <<MeasurementTimer, HandoverTimer>> \notin fes.before

\* The safety properties together; every step preserves them.
Safe ==
    /\ TypeOK
    /\ TimersConsistent
    /\ PendingTargetIsOther
    /\ DataPathFollowsActive
    /\ CountersMatchPath
    /\ HandoverArrivesFirst
    /\ ExecutionUsesLatestMeasurement

-----------------------------------------------------------------------------
WifiGood(m) == m.wifi > WifiRssiThreshold + Hysteresis

\* With WiFi preferred and allowed, a WiFi signal that stays above threshold
\* plus hysteresis is eventually used, and for good.
SettlesOnWifi ==
    WifiPriority > LtePriority /\ EnableLteToWifi /\ <>[]WifiGood(measured)
        => <>(finished \/ [](currentActiveInterface = WIFI))

\* Without changes of the signals there is no endless ping-pong.
NoPingPongOnConstantSignals ==
    <>[][measured' = measured]_vars => <>[](~handoverInProgress \/ finished)

\* The path packets take: what the default route of the table says.
RoutedPath == CHOOSE type \in InterfaceType : DefaultRoute(InterfaceOf(type)) \in routes

Active == INSTANCE ActivePath WITH
            Paths     <- InterfaceType,
            path      <- RoutedPath,
            switching <- handoverTimer # Null,
            over      <- finished

\* The routing table and the handover timer implement the single active path:
\* it switches only after a decision, and every decision takes effect.
ImplementsActivePath == Active!FairSpec

-----------------------------------------------------------------------------
\* A statement of the repository that the code does not keep.

\* HandoverManager.ned: enableLteToWifi "Allow switching from LTE to WiFi"
\* and enableWifiToLte "Allow switching from WiFi to LTE".
EnableFlagsRespected ==
    [][/\ currentActiveInterface = LTE /\ currentActiveInterface' = WIFI => EnableLteToWifi
       /\ currentActiveInterface = WIFI /\ currentActiveInterface' = LTE => EnableWifiToLte]_vars
=============================================================================
