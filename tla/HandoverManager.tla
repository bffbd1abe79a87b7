--------------------------- MODULE HandoverManager ---------------------------
(***************************************************************************)
(* The handover manager of a dual-interface UE: a measurement timer reads  *)
(* both signal levels and decides which interface to use, a handover timer *)
(* executes the decision later, and executing it switches the interfaces,  *)
(* the default route and the statistics.                                   *)
(***************************************************************************)
EXTENDS EventQueue, FiniteSets, Sequences

CONSTANTS
    MeasurementInterval,  \* ticks between two measurements
    HandoverDelay,        \* ticks between a decision and its execution
    LteRsrpThreshold, WifiRssiThreshold, Hysteresis,     \* dBm, dBm, dB
    LtePriority, WifiPriority,
    EnableLteToWifi, EnableWifiToLte,
    InterfaceKinds,       \* the interface table: what each name looks like
    StaticDestinations,   \* what the network configurator adds routes to
    LteProbes, WifiProbes,\* what a measurement may find in the NICs
    MaxInt                \* the largest int of the statistics counters

LTE  == "LTE"
WIFI == "WIFI"
InterfaceType == {LTE, WIFI}
Other(type) == IF type = LTE THEN WIFI ELSE LTE

MeasurementTimer == "measurementTimer"
HandoverTimer    == "handoverTimer"
Timers == {MeasurementTimer, HandoverTimer}
Null   == "nullptr"

-----------------------------------------------------------------------------
\* What getLteRsrp and getWifiRssi can find; "simulated" is the value of the
\* path loss formulas, which depend on the UE's position and on a random draw.
LteProbe  == [phy : {"none", "lteUe", "other"}, masterRssi : Int, simulated : Int]
WifiProbe == [wlan : BOOLEAN, radioRssi : Int,
              mgmt : {"associated", "unassociated", "none"},
              rxPower : Int, simulated : Int]

ASSUME TimingAssumption ==
    /\ MeasurementInterval \in Nat \ {0}
    /\ HandoverDelay \in Nat
ASSUME PolicyAssumption ==
    /\ LteRsrpThreshold \in Int /\ WifiRssiThreshold \in Int /\ Hysteresis \in Int
    /\ LtePriority \in Int /\ WifiPriority \in Int
    /\ EnableLteToWifi \in BOOLEAN /\ EnableWifiToLte \in BOOLEAN
ASSUME ProbeAssumption ==
    /\ LteProbes \subseteq LteProbe
    /\ WifiProbes \subseteq WifiProbe
ASSUME MaxIntAssumption == MaxInt \in Nat
\* initialize() throws unless it finds both interfaces.
ASSUME InterfaceAssumption ==
    /\ InterfaceKinds \in Seq({"loopback", "cellular", "wlan", "other"})
    /\ \E i \in DOMAIN InterfaceKinds : InterfaceKinds[i] = "cellular"
    /\ \E i \in DOMAIN InterfaceKinds : InterfaceKinds[i] = "wlan"
ASSUME DestinationAssumption == "default" \notin StaticDestinations

-----------------------------------------------------------------------------
\* The search of initialize(): the last name of each pattern wins.
Interfaces == DOMAIN InterfaceKinds
LastOfKind(kind) ==
    CHOOSE i \in Interfaces :
        /\ InterfaceKinds[i] = kind
        /\ \A j \in Interfaces : j > i => InterfaceKinds[j] # kind

lteInterface  == LastOfKind("cellular")
wifiInterface == LastOfKind("wlan")
InterfaceOf(type) == IF type = LTE THEN lteInterface ELSE wifiInterface

\* Routes of the UE's routing table, connected subnets left out.
Gateway(iface) == IF iface = lteInterface THEN "10.0.0.2" ELSE "192.168.1.1"
DefaultRoute(iface) == [dest |-> "default", iface |-> iface, gateway |-> Gateway(iface)]
StaticRoutes ==
    {[dest |-> d, iface |-> lteInterface, gateway |-> "10.0.4.1"] : d \in StaticDestinations}

\* A routing table drops every route of an interface that goes down.
WithoutInterface(table, iface) == {r \in table : r.iface # iface}

\* The node configurator adds the configurator's routes over an interface to
\* the table when the interface comes up.
ConfiguredRoutes(iface) == {r \in StaticRoutes : r.iface = iface}

-----------------------------------------------------------------------------
VARIABLES
    currentActiveInterface, targetActiveInterface, handoverInProgress,
    handoverTimer,        \* the pointer: HandoverTimer or Null
    lteToWifiHandovers, wifiToLteHandovers,
    ifState,              \* UP or DOWN of each interface of the table
    routes,               \* the UE's IPv4 routes
    announced,            \* the interface the last change notification named
    measured,             \* the levels last emitted as statistics
    fes,                  \* the kernel's pending timer messages
    finished              \* finish() has run

decision == <<currentActiveInterface, targetActiveInterface, handoverInProgress, handoverTimer>>
counters == <<lteToWifiHandovers, wifiToLteHandovers>>
dataPath == <<ifState, routes, announced>>
vars == <<decision, counters, dataPath, measured, fes, finished>>

Counter == (-MaxInt - 1) .. MaxInt
\* Fault: the counter is taken for an unbounded integer.
IncUnbounded(n) == n + 1

\* A signed int of the build wraps around.
Inc(n) == IF n = MaxInt THEN -MaxInt - 1 ELSE n + 1

Route == [dest : {"default"} \cup StaticDestinations, iface : Interfaces,
          gateway : {"10.0.0.2", "192.168.1.1", "10.0.4.1"}]

TypeOK ==
    /\ currentActiveInterface \in InterfaceType
    /\ targetActiveInterface \in InterfaceType
    /\ handoverInProgress \in BOOLEAN
    /\ handoverTimer \in {HandoverTimer, Null}
    /\ lteToWifiHandovers \in Counter /\ wifiToLteHandovers \in Counter
    /\ ifState \in [Interfaces -> {"UP", "DOWN"}]
    /\ routes \subseteq Route
    /\ announced \in InterfaceType
    /\ measured \in [lte : Int, wifi : Int]
    /\ IsQueue(fes, Timers)
    /\ finished \in BOOLEAN

-----------------------------------------------------------------------------
\* getLteRsrp: -150 without a cellular PHY, the master cell's level once one
\* was received (it starts at -999), the path loss formula otherwise.
GetLteRsrp(p) ==
    CASE p.phy = "none" -> -150
      [] p.phy = "lteUe" /\ p.masterRssi > -990 -> p.masterRssi
      [] OTHER -> p.simulated

\* getWifiRssi: of wlan[0], whichever wlan the routes are switched to.
GetWifiRssi(p) ==
    CASE ~p.wlan -> -100
      [] p.wlan /\ p.radioRssi # 0 -> p.radioRssi
      [] p.wlan /\ p.radioRssi = 0 /\ p.mgmt = "associated" -> p.rxPower
      [] p.wlan /\ p.radioRssi = 0 /\ p.mgmt = "unassociated" -> -95
      [] OTHER -> p.simulated

\* Faults: a threshold without its hysteresis; the two signs swapped.
LteThresholdBare(current) == LteRsrpThreshold
WifiThresholdBare(current) == WifiRssiThreshold
WifiThresholdSwapped(current) ==
    IF current = WIFI THEN WifiRssiThreshold + Hysteresis ELSE WifiRssiThreshold - Hysteresis

LteThreshold(current) ==
    IF current = LTE THEN LteRsrpThreshold - Hysteresis ELSE LteRsrpThreshold + Hysteresis
WifiThreshold(current) ==
    IF current = WIFI THEN WifiRssiThreshold - Hysteresis ELSE WifiRssiThreshold + Hysteresis

\* Fault: the smaller number is taken for the higher priority.
MakeHandoverDecisionLowest(current, lte, wifi) ==
    LET lteGood  == lte > LteThreshold(current)
        wifiGood == wifi > WifiThreshold(current)
    IN  CASE wifiGood /\ lteGood -> IF WifiPriority < LtePriority THEN WIFI ELSE LTE
          [] wifiGood /\ ~lteGood -> IF EnableLteToWifi THEN WIFI ELSE current
          [] ~wifiGood /\ lteGood -> IF EnableWifiToLte THEN LTE ELSE current
          [] OTHER -> current

\* The priorities decide last, so with two good signals the enable flags of
\* the first part have no effect.
MakeHandoverDecision(current, lte, wifi) ==
    LET lteGood  == lte > LteThreshold(current)
        wifiGood == wifi > WifiThreshold(current)
    IN  CASE wifiGood /\ lteGood -> IF WifiPriority > LtePriority THEN WIFI ELSE LTE
          [] wifiGood /\ ~lteGood -> IF EnableLteToWifi THEN WIFI ELSE current
          [] ~wifiGood /\ lteGood -> IF EnableWifiToLte THEN LTE ELSE current
          [] OTHER -> current

-----------------------------------------------------------------------------
\* The state initialize() and the network configurator leave behind.
Init ==
    /\ currentActiveInterface = LTE
    /\ targetActiveInterface \in InterfaceType   \* not initialized
    /\ handoverInProgress = FALSE
    /\ handoverTimer = Null
    /\ lteToWifiHandovers = 0 /\ wifiToLteHandovers = 0
    /\ ifState = [i \in Interfaces |-> IF i = wifiInterface THEN "DOWN" ELSE "UP"]
    /\ routes = {DefaultRoute(lteInterface)} \cup StaticRoutes
    /\ announced = LTE
    /\ measured = [lte |-> -150, wifi |-> -100]  \* nothing emitted yet
    /\ fes = ScheduleAfter(EmptyQueue(Timers), MeasurementTimer, MeasurementInterval)
    /\ finished = FALSE

\* Fault: the flag is forgotten.
InitiateHandoverUnmarked(target) ==
    /\ targetActiveInterface' = target
    /\ handoverTimer' = HandoverTimer
    /\ UNCHANGED handoverInProgress

InitiateHandover(target) ==
    /\ handoverInProgress' = TRUE
    /\ targetActiveInterface' = target
    /\ handoverTimer' = HandoverTimer

\* Faults: the measurement timer rescheduled first; the handover timer created
\* but not scheduled.
QueueMeasurementFirst(initiated) ==
    LET again == ScheduleAfter(Deliver(fes, MeasurementTimer), MeasurementTimer, MeasurementInterval)
    IN  IF initiated THEN ScheduleAfter(again, HandoverTimer, HandoverDelay) ELSE again
QueueWithoutHandover(initiated) ==
    ScheduleAfter(Deliver(fes, MeasurementTimer), MeasurementTimer, MeasurementInterval)

\* The event queue of a measurement: initiateHandover schedules first,
\* handleMessage reschedules the measurement timer after it.
QueueAfterMeasurements(initiated) ==
    LET running == Deliver(fes, MeasurementTimer)
        decided == IF initiated
                   THEN ScheduleAfter(running, HandoverTimer, HandoverDelay)
                   ELSE running
    IN  ScheduleAfter(decided, MeasurementTimer, MeasurementInterval)

\* Fault: a handover is initiated whatever interface the decision names.
PerformMeasurementsUnchecked(lte, wifi) ==
    LET target == MakeHandoverDecision(currentActiveInterface, lte, wifi)
    IN  /\ measured' = [lte |-> lte, wifi |-> wifi]
        /\ fes' = QueueAfterMeasurements(~handoverInProgress)
        /\ \/ ~handoverInProgress /\ InitiateHandover(target)
           \/ handoverInProgress /\ UNCHANGED <<targetActiveInterface, handoverInProgress, handoverTimer>>

PerformMeasurements(lte, wifi) ==
    LET target    == MakeHandoverDecision(currentActiveInterface, lte, wifi)
        initiated == target # currentActiveInterface /\ ~handoverInProgress
    IN  /\ measured' = [lte |-> lte, wifi |-> wifi]
        /\ fes' = QueueAfterMeasurements(initiated)
        /\ \/ initiated /\ InitiateHandover(target)
           \/ ~initiated /\ UNCHANGED <<targetActiveInterface, handoverInProgress, handoverTimer>>

HandleMeasurementTimer ==
    /\ ~finished
    /\ IsNext(fes, MeasurementTimer)
    /\ \E l \in LteProbes, w \in WifiProbes :
          PerformMeasurements(GetLteRsrp(l), GetWifiRssi(w))
    /\ UNCHANGED <<currentActiveInterface, counters, dataPath, finished>>

\* The table after the interface is set UP; setting it UP again is no change.
TableWithUp(iface) ==
    IF ifState[iface] = "UP" THEN routes ELSE routes \cup ConfiguredRoutes(iface)

\* Fault: the inactive radio is left up, with its routes.
UpdateRoutingRadioLeftUp(active, inactive) ==
    /\ ifState' = [ifState EXCEPT ![active] = "UP"]
    /\ routes' = {r \in TableWithUp(active) : r.dest # "default"} \cup {DefaultRoute(active)}
    /\ announced' = currentActiveInterface

\* updateRouting: one radio up, the other down, then the default route; the
\* notification is written before currentActiveInterface is assigned.
UpdateRouting(active, inactive) ==
    /\ ifState' = [ifState EXCEPT ![active] = "UP", ![inactive] = "DOWN"]
    /\ routes' = {r \in WithoutInterface(TableWithUp(active), inactive) : r.dest # "default"}
                    \cup {DefaultRoute(active)}
    /\ announced' = currentActiveInterface

SetActiveInterface(type) ==
    /\ UpdateRouting(InterfaceOf(type), InterfaceOf(Other(type)))
    /\ currentActiveInterface' = type

CountHandover(from, to) ==
    /\ lteToWifiHandovers' =
          IF from = LTE /\ to = WIFI THEN Inc(lteToWifiHandovers) ELSE lteToWifiHandovers
    /\ wifiToLteHandovers' =
          IF from = WIFI /\ to = LTE THEN Inc(wifiToLteHandovers) ELSE wifiToLteHandovers

\* Fault: counting after the switch.
ExecuteHandoverCountingLate ==
    /\ SetActiveInterface(targetActiveInterface)
    /\ CountHandover(currentActiveInterface', targetActiveInterface)
    /\ handoverInProgress' = FALSE

ExecuteHandover ==
    /\ CountHandover(currentActiveInterface, targetActiveInterface)
    /\ SetActiveInterface(targetActiveInterface)
    /\ handoverInProgress' = FALSE

\* The pointer is reset; the message it pointed to leaks.
HandleHandoverTimer ==
    /\ ~finished
    /\ IsNext(fes, HandoverTimer)
    /\ fes' = Deliver(fes, HandoverTimer)
    /\ ExecuteHandover
    /\ handoverTimer' = Null
    /\ UNCHANGED <<targetActiveInterface, measured, finished>>

\* finish(): the simulation ends, at any event.
Finish ==
    /\ ~finished
    /\ finished' = TRUE
    /\ fes' = IF handoverTimer = Null
              THEN Cancel(fes, MeasurementTimer)
              ELSE Cancel(Cancel(fes, MeasurementTimer), HandoverTimer)
    /\ UNCHANGED <<decision, counters, dataPath, measured>>

EventLoop == HandleMeasurementTimer \/ HandleHandoverTimer
Next == EventLoop \/ Finish

Spec == Init /\ [][Next]_vars

\* The kernel keeps delivering events until the simulation ends.
FairSpec == Spec /\ WF_vars(EventLoop)
=============================================================================
