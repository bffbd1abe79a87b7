----------------------- MODULE HandoverManagerProofs -----------------------
(***************************************************************************)
(* For every value of the constants: the safety properties of the handover *)
(* manager, and that it implements the single active path.                 *)
(***************************************************************************)
EXTENDS HandoverProperties, EventQueueProofs, WellFoundedInduction

\* A finite non-empty set of indices has a last one.
LEMMA LastIndex ==
  ASSUME NEW n \in Nat, NEW S \in SUBSET (1 .. n), S # {}
  PROVE  \E i \in S : \A j \in S : j =< i
<1>1. DEFINE T == {n - i : i \in S}
<1> HIDE DEF T
<1>2. T \subseteq Nat /\ T # {}
  <2>1. \A i \in S : i \in 1 .. n /\ n - i \in Nat
    BY SMT
  <2>2. T \subseteq Nat
    BY <2>1 DEF T
  <2> QED BY <2>2 DEF T
<1>3. PICK m \in T : \A k \in T : ~(<<k, m>> \in OpToRel(<, Nat))
  BY <1>2, WFMin, NatLessThanWellFounded
<1>4. \A k \in T : ~(k < m)
  BY <1>2, <1>3 DEF OpToRel
<1>5. PICK i \in S : m = n - i
  BY DEF T
<1>6. \A j \in S : j =< i
  <2> SUFFICES ASSUME NEW j \in S PROVE j =< i
    OBVIOUS
  <2>1. n - j \in T
    BY DEF T
  <2> QED BY <2>1, <1>4, <1>5
<1> QED BY <1>6

\* The search of initialize() yields two different interfaces of the table.
LEMMA InterfacesFound ==
  /\ lteInterface \in Interfaces /\ InterfaceKinds[lteInterface] = "cellular"
  /\ wifiInterface \in Interfaces /\ InterfaceKinds[wifiInterface] = "wlan"
  /\ lteInterface # wifiInterface
<1>1. ASSUME NEW kind, \E i \in Interfaces : InterfaceKinds[i] = kind
      PROVE  LastOfKind(kind) \in Interfaces /\ InterfaceKinds[LastOfKind(kind)] = kind
  <2>1. Interfaces = 1 .. Len(InterfaceKinds) /\ Len(InterfaceKinds) \in Nat
    BY InterfaceAssumption DEF Interfaces
  <2>2. PICK i \in {k \in Interfaces : InterfaceKinds[k] = kind} :
           \A j \in {k \in Interfaces : InterfaceKinds[k] = kind} : j =< i
    <3>1. {k \in Interfaces : InterfaceKinds[k] = kind} # {}
      BY <1>1
    <3>2. {k \in Interfaces : InterfaceKinds[k] = kind} \in SUBSET (1 .. Len(InterfaceKinds))
      BY <2>1
    <3> QED BY <2>1, <3>1, <3>2, LastIndex
  <2>3. \A j \in Interfaces : j > i => InterfaceKinds[j] # kind
    BY <2>1, <2>2
  <2> QED BY <2>2, <2>3 DEF LastOfKind
<1>2. \A kind \in {"cellular", "wlan"} : \E i \in Interfaces : InterfaceKinds[i] = kind
  BY InterfaceAssumption DEF Interfaces
<1> QED BY <1>1, <1>2 DEF lteInterface, wifiInterface

-----------------------------------------------------------------------------
\* The queue after a measurement: the measurement timer is rescheduled, a
\* newly scheduled handover timer was inserted before it, and a pending one
\* comes nearer.
LEMMA MeasurementQueue ==
  ASSUME IsQueue(fes, Timers), IsNext(fes, MeasurementTimer), NEW initiated \in BOOLEAN
  PROVE  LET q == QueueAfterMeasurements(initiated) IN
         /\ IsQueue(q, Timers)
         /\ Scheduled(q) = Scheduled(fes) \cup {MeasurementTimer}
                              \cup IF initiated THEN {HandoverTimer} ELSE {}
         /\ q.left[MeasurementTimer] = MeasurementInterval
         /\ initiated => q.left[HandoverTimer] = HandoverDelay
         /\ <<MeasurementTimer, HandoverTimer>> \notin q.before
<1> DEFINE running == Deliver(fes, MeasurementTimer)
           decided == IF initiated THEN ScheduleAfter(running, HandoverTimer, HandoverDelay)
                                   ELSE running
<1>1. /\ MeasurementTimer \in Timers /\ HandoverTimer \in Timers
      /\ MeasurementTimer # HandoverTimer
      /\ MeasurementInterval \in Nat /\ HandoverDelay \in Nat
  BY TimingAssumption DEF Timers, MeasurementTimer, HandoverTimer
<1>2. /\ IsQueue(running, Timers)
      /\ Scheduled(running) = Scheduled(fes) \ {MeasurementTimer}
      /\ <<MeasurementTimer, HandoverTimer>> \notin running.before
  BY <1>1, DeliverQueue
<1> HIDE DEF running
<1>3. /\ IsQueue(decided, Timers)
      /\ Scheduled(decided) = Scheduled(running)
                                \cup IF initiated THEN {HandoverTimer} ELSE {}
      /\ initiated => decided.left[HandoverTimer] = HandoverDelay
      /\ <<MeasurementTimer, HandoverTimer>> \notin decided.before
  <2>1. CASE initiated
    <3> DEFINE r == ScheduleAfter(running, HandoverTimer, HandoverDelay)
    <3>1. decided = r
      BY <2>1
    <3> HIDE DEF decided
    <3>2. /\ IsQueue(r, Timers)
          /\ Scheduled(r) = Scheduled(running) \cup {HandoverTimer}
          /\ r.left[HandoverTimer] = HandoverDelay
          /\ \A u \in Timers \ {HandoverTimer} : r.left[u] = running.left[u]
          /\ \A u \in Timers, v \in Timers :
                <<u, v>> \in r.before <=>
                   <<u, v>> \in running.before
                   \/ (v = HandoverTimer /\ u \in Scheduled(running) \ {HandoverTimer})
      BY <1>1, <1>2, ScheduleAfterQueue
    <3> HIDE DEF r
    <3>3. <<MeasurementTimer, HandoverTimer>> \notin r.before
      BY <1>1, <1>2, <3>2
    <3> QED BY <2>1, <3>1, <3>2, <3>3
  <2>2. CASE ~initiated
    BY <1>2, <2>2
  <2> QED BY <2>1, <2>2
<1> HIDE DEF decided
<1> DEFINE q == ScheduleAfter(decided, MeasurementTimer, MeasurementInterval)
<1>4. /\ IsQueue(q, Timers)
      /\ Scheduled(q) = Scheduled(decided) \cup {MeasurementTimer}
      /\ q.left[MeasurementTimer] = MeasurementInterval
      /\ \A u \in Timers \ {MeasurementTimer} : q.left[u] = decided.left[u]
      /\ \A u \in Timers, v \in Timers :
            <<u, v>> \in q.before <=>
               <<u, v>> \in decided.before
               \/ (v = MeasurementTimer /\ u \in Scheduled(decided) \ {MeasurementTimer})
  BY <1>1, <1>3, ScheduleAfterQueue
<1>5. QueueAfterMeasurements(initiated) = q
  BY DEF QueueAfterMeasurements, decided, running
<1> HIDE DEF q
<1>6. <<MeasurementTimer, HandoverTimer>> \notin q.before
  BY <1>1, <1>3, <1>4
<1>7. Scheduled(q) = Scheduled(fes) \cup {MeasurementTimer}
                        \cup IF initiated THEN {HandoverTimer} ELSE {}
  BY <1>2, <1>3, <1>4
<1>8. q.left[HandoverTimer] = decided.left[HandoverTimer]
  BY <1>1, <1>4
<1> QED BY <1>3, <1>4, <1>5, <1>6, <1>7, <1>8

\* Probes and the decision return what they should.
LEMMA ProbeTypes ==
  /\ \A l \in LteProbes : GetLteRsrp(l) \in Int
  /\ \A w \in WifiProbes : GetWifiRssi(w) \in Int
<1>1. ASSUME NEW l \in LteProbes PROVE GetLteRsrp(l) \in Int
  <2>1. l.masterRssi \in Int /\ l.simulated \in Int
    BY ProbeAssumption DEF LteProbe
  <2> QED BY <2>1 DEF GetLteRsrp
<1>2. ASSUME NEW w \in WifiProbes PROVE GetWifiRssi(w) \in Int
  <2>1. /\ w.wlan \in BOOLEAN /\ w.radioRssi \in Int
        /\ w.rxPower \in Int /\ w.simulated \in Int
    BY ProbeAssumption DEF WifiProbe
  <2> QED BY <2>1 DEF GetWifiRssi
<1> QED BY <1>1, <1>2

\* A decision is none or one of the interfaces.
LEMMA DecisionType ==
  ASSUME NEW current \in InterfaceType, NEW lte \in Int, NEW wifi \in Int
  PROVE  MakeHandoverDecision(current, lte, wifi) \in InterfaceType
BY DEF MakeHandoverDecision, InterfaceType

\* There are two interface types.
LEMMA TwoTypes ==
  ASSUME NEW a \in InterfaceType, NEW b \in InterfaceType
  PROVE  /\ Other(a) \in InterfaceType /\ Other(a) # a
         /\ a # b <=> b = Other(a)
BY DEF InterfaceType, Other, LTE, WIFI

\* The two interfaces found are different ones.
LEMMA InterfaceOfFacts ==
  ASSUME NEW type \in InterfaceType
  PROVE  /\ InterfaceOf(type) \in Interfaces
         /\ InterfaceOf(type) # InterfaceOf(Other(type))
         /\ DefaultRoute(InterfaceOf(type)) \in Route
BY InterfacesFound
   DEF InterfaceOf, Other, InterfaceType, LTE, WIFI, DefaultRoute, Route, Gateway

\* The configurator's routes over an interface are routes of the table, and no
\* default routes.
LEMMA ConfiguredRoutesFacts ==
  ASSUME NEW iface
  PROVE  /\ ConfiguredRoutes(iface) \subseteq Route
         /\ \A r \in ConfiguredRoutes(iface) : r.iface = iface /\ r.dest # "default"
BY InterfacesFound, DestinationAssumption DEF ConfiguredRoutes, StaticRoutes, Route

\* Counting modulo the width of an int stays in range.
LEMMA IncFacts ==
  ASSUME NEW n \in Counter
  PROVE  Inc(n) \in Counter
BY MaxIntAssumption DEF Counter, Inc

-----------------------------------------------------------------------------
\* The invariant holds after initialize.
LEMMA InitSafe == Init => Safe
<1> SUFFICES ASSUME Init PROVE Safe
  OBVIOUS
<1> USE DEF Init
<1>1. /\ IsQueue(fes, Timers)
      /\ Scheduled(fes) = {MeasurementTimer}
  <2> DEFINE e == EmptyQueue(Timers)
             r == ScheduleAfter(e, MeasurementTimer, MeasurementInterval)
  <2>1. IsQueue(e, Timers) /\ Scheduled(e) = {}
    BY DEF EmptyQueue, IsQueue, Scheduled, NotScheduled
  <2>2. MeasurementTimer \in Timers /\ MeasurementInterval \in Nat
    BY TimingAssumption DEF Timers
  <2> HIDE DEF e
  <2>3. /\ IsQueue(r, Timers)
        /\ Scheduled(r) = Scheduled(e) \cup {MeasurementTimer}
        /\ r.left[MeasurementTimer] = MeasurementInterval
        /\ \A u \in Timers \ {MeasurementTimer} : r.left[u] = e.left[u]
        /\ \A u \in Timers, v \in Timers :
              <<u, v>> \in r.before <=>
                 <<u, v>> \in e.before
                 \/ (v = MeasurementTimer /\ u \in Scheduled(e) \ {MeasurementTimer})
    BY <2>1, <2>2, ScheduleAfterQueue
  <2>4. fes = r
    BY DEF e
  <2> HIDE DEF r
  <2> QED BY <2>1, <2>3, <2>4
<1>2. TypeOK
  <2>1. routes \subseteq Route
    BY InterfacesFound DEF StaticRoutes, DefaultRoute, Route, Gateway
  <2>2. lteToWifiHandovers \in Counter /\ wifiToLteHandovers \in Counter
    BY MaxIntAssumption DEF Counter
  <2>3. ifState \in [Interfaces -> {"UP", "DOWN"}]
    OBVIOUS
  <2>4. measured \in [lte : Int, wifi : Int]
    OBVIOUS
  <2> QED BY <1>1, <2>1, <2>2, <2>3, <2>4 DEF TypeOK, InterfaceType
<1>3. TimersConsistent
  BY <1>1 DEF TimersConsistent, MeasurementTimer, HandoverTimer, Null
<1>4. DataPathFollowsActive
  <2>1. /\ InterfaceOf(currentActiveInterface) = lteInterface
        /\ InterfaceOf(Other(currentActiveInterface)) = wifiInterface
    BY DEF InterfaceOf, Other, LTE, WIFI
  <2>2. ifState[lteInterface] = "UP" /\ ifState[wifiInterface] = "DOWN"
    BY InterfacesFound
  <2>3. ConfiguredRoutes(lteInterface) = StaticRoutes
    BY DEF ConfiguredRoutes, StaticRoutes
  <2> QED BY <2>1, <2>2, <2>3 DEF DataPathFollowsActive
<1> QED BY <1>2, <1>3, <1>4
        DEF Safe, PendingTargetIsOther, CountersMatchPath,
            HandoverArrivesFirst, ExecutionUsesLatestMeasurement

\* A measurement keeps it.
LEMMA MeasurementSafe == Safe /\ HandleMeasurementTimer => Safe'
<1> SUFFICES ASSUME Safe, HandleMeasurementTimer PROVE Safe'
  OBVIOUS
<1> USE DEF Safe
<1>1. PICK l \in LteProbes, w \in WifiProbes :
         PerformMeasurements(GetLteRsrp(l), GetWifiRssi(w))
  BY DEF HandleMeasurementTimer
<1> DEFINE lte == GetLteRsrp(l)
           wifi == GetWifiRssi(w)
           target == MakeHandoverDecision(currentActiveInterface, lte, wifi)
           initiated == target # currentActiveInterface /\ ~handoverInProgress
<1>2. lte \in Int /\ wifi \in Int
  BY ProbeTypes
<1>3. currentActiveInterface \in InterfaceType /\ handoverInProgress \in BOOLEAN
  BY DEF TypeOK
<1>4. target \in InterfaceType
  BY <1>2, <1>3, DecisionType
<1>5. /\ measured' = [lte |-> lte, wifi |-> wifi]
      /\ fes' = QueueAfterMeasurements(initiated)
      /\ \/ initiated /\ InitiateHandover(target)
         \/ ~initiated /\ UNCHANGED <<targetActiveInterface, handoverInProgress, handoverTimer>>
  BY <1>1 DEF PerformMeasurements
<1>6. /\ ~finished /\ IsNext(fes, MeasurementTimer)
      /\ UNCHANGED <<currentActiveInterface, counters, dataPath, finished>>
  BY DEF HandleMeasurementTimer
<1> HIDE DEF lte, wifi, target
<1>7. /\ IsQueue(fes', Timers)
      /\ Scheduled(fes') = Scheduled(fes) \cup {MeasurementTimer}
                              \cup IF initiated THEN {HandoverTimer} ELSE {}
      /\ fes'.left[MeasurementTimer] = MeasurementInterval
      /\ initiated => fes'.left[HandoverTimer] = HandoverDelay
      /\ <<MeasurementTimer, HandoverTimer>> \notin fes'.before
  <2>1. IsQueue(fes, Timers)
    BY DEF TypeOK
  <2>2. initiated \in BOOLEAN
    OBVIOUS
  <2> HIDE DEF initiated
  <2> QED BY <1>5, <1>6, <2>1, <2>2, MeasurementQueue
<1>8. TypeOK'
  <2>1. /\ targetActiveInterface' \in InterfaceType /\ handoverInProgress' \in BOOLEAN
        /\ handoverTimer' \in {HandoverTimer, Null}
    BY <1>4, <1>5 DEF TypeOK, InitiateHandover
  <2> QED BY <1>2, <1>5, <1>6, <1>7, <2>1 DEF TypeOK, counters, dataPath
<1>9. TimersConsistent'
  BY <1>5, <1>6, <1>7
     DEF TimersConsistent, InitiateHandover, MeasurementTimer, HandoverTimer, Null
<1>10. PendingTargetIsOther'
  BY <1>3, <1>4, <1>5, <1>6, TwoTypes DEF PendingTargetIsOther, InitiateHandover
<1>11. DataPathFollowsActive' /\ CountersMatchPath'
  BY <1>6 DEF DataPathFollowsActive, CountersMatchPath, counters, dataPath
<1>12. ASSUME HandoverDelay =< MeasurementInterval, handoverInProgress'
       PROVE  initiated
  <2> SUFFICES ASSUME handoverInProgress PROVE FALSE
    BY <1>5, <1>12
  <2>1. HandoverTimer \in Scheduled(fes) /\ HandoverTimer # MeasurementTimer
    BY <1>6 DEF TimersConsistent, HandoverTimer, MeasurementTimer
  <2>2. fes.left[MeasurementTimer] \in Int /\ fes.left[HandoverTimer] \in Int
    BY DEF TypeOK, IsQueue, Timers, NotScheduled
  <2>3. /\ fes.left[HandoverTimer] =< fes.left[MeasurementTimer]
        /\ <<MeasurementTimer, HandoverTimer>> \notin fes.before
    BY <1>6, <1>12 DEF HandoverArrivesFirst
  <2> QED BY <1>6, <2>1, <2>2, <2>3 DEF IsNext
<1>13. HandoverArrivesFirst'
  BY <1>7, <1>12 DEF HandoverArrivesFirst
<1>14. ExecutionUsesLatestMeasurement'
  BY <1>5, <1>6, <1>12 DEF ExecutionUsesLatestMeasurement, InitiateHandover, target
<1> QED BY <1>8, <1>9, <1>10, <1>11, <1>13, <1>14

\* So does the execution of a handover.
LEMMA ExecutionSafe == Safe /\ HandleHandoverTimer => Safe'
<1> SUFFICES ASSUME Safe, HandleHandoverTimer PROVE Safe'
  OBVIOUS
<1> USE DEF Safe
<1>1. /\ ~finished /\ IsNext(fes, HandoverTimer)
      /\ fes' = Deliver(fes, HandoverTimer)
      /\ handoverTimer' = Null /\ handoverInProgress' = FALSE
      /\ UNCHANGED <<targetActiveInterface, measured, finished>>
      /\ CountHandover(currentActiveInterface, targetActiveInterface)
      /\ SetActiveInterface(targetActiveInterface)
  BY DEF HandleHandoverTimer, ExecuteHandover
<1>2. /\ HandoverTimer \in Timers /\ MeasurementTimer \in Timers
      /\ HandoverTimer # MeasurementTimer /\ HandoverTimer # Null
  BY DEF Timers, HandoverTimer, MeasurementTimer, Null
<1>3. handoverInProgress /\ targetActiveInterface = Other(currentActiveInterface)
  BY <1>1 DEF IsNext, TimersConsistent, PendingTargetIsOther
<1>4. /\ IsQueue(fes', Timers)
      /\ Scheduled(fes') = Scheduled(fes) \ {HandoverTimer}
  <2>1. IsQueue(fes, Timers)
    BY DEF TypeOK
  <2>2. /\ IsQueue(Deliver(fes, HandoverTimer), Timers)
        /\ fes.left[HandoverTimer] \in Nat
        /\ Scheduled(Deliver(fes, HandoverTimer)) = Scheduled(fes) \ {HandoverTimer}
        /\ \A u \in Scheduled(fes) \ {HandoverTimer} :
              Deliver(fes, HandoverTimer).left[u] = fes.left[u] - fes.left[HandoverTimer]
        /\ \A u \in Timers, v \in Timers :
              <<u, v>> \in Deliver(fes, HandoverTimer).before
                <=> <<u, v>> \in fes.before /\ u # HandoverTimer /\ v # HandoverTimer
    BY <1>1, <1>2, <2>1, DeliverQueue
  <2> QED BY <1>1, <2>2
<1> DEFINE active   == InterfaceOf(currentActiveInterface')
           inactive == InterfaceOf(Other(currentActiveInterface'))
<1>5. /\ currentActiveInterface \in InterfaceType /\ currentActiveInterface' \in InterfaceType
      /\ currentActiveInterface' = Other(currentActiveInterface)
      /\ Other(currentActiveInterface') = currentActiveInterface
      /\ currentActiveInterface' = targetActiveInterface
  BY <1>1, <1>3 DEF TypeOK, SetActiveInterface, Other, InterfaceType, LTE, WIFI
<1>6. /\ active \in Interfaces /\ inactive \in Interfaces /\ active # inactive
      /\ inactive = InterfaceOf(currentActiveInterface)
      /\ DefaultRoute(active) \in Route
  BY <1>5, InterfaceOfFacts
<1>7. /\ ifState' = [ifState EXCEPT ![active] = "UP", ![inactive] = "DOWN"]
      /\ routes' = {r \in WithoutInterface(TableWithUp(active), inactive) : r.dest # "default"}
                      \cup {DefaultRoute(active)}
      /\ announced' = currentActiveInterface
  BY <1>1, <1>5 DEF SetActiveInterface, UpdateRouting
<1> HIDE DEF active, inactive
<1>8. routes' = ConfiguredRoutes(active) \cup {DefaultRoute(active)}
  <2>1. /\ ifState[active] = "DOWN"
        /\ routes = ConfiguredRoutes(inactive) \cup {DefaultRoute(inactive)}
    BY <1>5, <1>6 DEF DataPathFollowsActive, active, inactive
  <2>2. TableWithUp(active) = routes \cup ConfiguredRoutes(active)
    BY <2>1 DEF TableWithUp
  <2>3. \A r \in routes : r.iface = inactive
    BY <2>1 DEF ConfiguredRoutes, DefaultRoute
  <2>4. \A r \in ConfiguredRoutes(active) : r.iface # inactive /\ r.dest # "default"
    BY <1>6, ConfiguredRoutesFacts
  <2>5. {r \in WithoutInterface(TableWithUp(active), inactive) : r.dest # "default"}
           = ConfiguredRoutes(active)
    BY <2>2, <2>3, <2>4 DEF WithoutInterface
  <2> QED BY <1>7, <2>5
<1>9. /\ ifState' \in [Interfaces -> {"UP", "DOWN"}]
      /\ ifState'[active] = "UP" /\ ifState'[inactive] = "DOWN"
  BY <1>6, <1>7 DEF TypeOK
<1>10. /\ lteToWifiHandovers' \in Counter /\ wifiToLteHandovers' \in Counter
       /\ CountersMatchPath'
  <2>1. lteToWifiHandovers \in Counter /\ wifiToLteHandovers \in Counter
    BY DEF TypeOK
  <2>2. CASE currentActiveInterface = LTE
    BY <1>1, <1>3, <1>5, <2>1, <2>2, IncFacts
       DEF CountHandover, CountersMatchPath, Other, LTE, WIFI
  <2>3. CASE currentActiveInterface = WIFI
    BY <1>1, <1>3, <1>5, <2>1, <2>3, IncFacts
       DEF CountHandover, CountersMatchPath, Other, LTE, WIFI
  <2> QED BY <1>5, <2>2, <2>3 DEF InterfaceType
<1>11. TypeOK'
  <2>1. routes' \subseteq Route
    BY <1>6, <1>8, ConfiguredRoutesFacts
  <2> QED BY <1>1, <1>4, <1>5, <1>7, <1>9, <1>10, <2>1 DEF TypeOK
<1>12. TimersConsistent'
  BY <1>1, <1>2, <1>4 DEF TimersConsistent
<1>13. DataPathFollowsActive'
  BY <1>8, <1>9 DEF DataPathFollowsActive, active, inactive
<1>14. PendingTargetIsOther' /\ HandoverArrivesFirst' /\ ExecutionUsesLatestMeasurement'
  BY <1>1 DEF PendingTargetIsOther, HandoverArrivesFirst, ExecutionUsesLatestMeasurement
<1> QED BY <1>10, <1>11, <1>12, <1>13, <1>14

\* So does finish().
LEMMA FinishSafe == Safe /\ Finish => Safe'
<1> SUFFICES ASSUME Safe, Finish PROVE Safe'
  OBVIOUS
<1> USE DEF Safe
<1>1. /\ finished' = TRUE
      /\ UNCHANGED <<decision, counters, dataPath, measured>>
      /\ fes' = IF handoverTimer = Null
                THEN Cancel(fes, MeasurementTimer)
                ELSE Cancel(Cancel(fes, MeasurementTimer), HandoverTimer)
      /\ ~finished
  BY DEF Finish
<1>2. /\ HandoverTimer \in Timers /\ MeasurementTimer \in Timers
      /\ HandoverTimer # MeasurementTimer /\ HandoverTimer # Null
  BY DEF Timers, HandoverTimer, MeasurementTimer, Null
<1> DEFINE c == Cancel(fes, MeasurementTimer)
<1>3. /\ IsQueue(c, Timers)
      /\ Scheduled(c) = Scheduled(fes) \ {MeasurementTimer}
      /\ \A u \in Timers \ {MeasurementTimer} : c.left[u] = fes.left[u]
      /\ \A u \in Timers, v \in Timers :
            <<u, v>> \in c.before
              <=> <<u, v>> \in fes.before /\ u # MeasurementTimer /\ v # MeasurementTimer
  <2>1. IsQueue(fes, Timers)
    BY DEF TypeOK
  <2> QED BY <1>2, <2>1, CancelQueue
<1> HIDE DEF c
<1>4. /\ IsQueue(Cancel(c, HandoverTimer), Timers)
      /\ Scheduled(Cancel(c, HandoverTimer)) = Scheduled(c) \ {HandoverTimer}
      /\ \A u \in Timers \ {HandoverTimer} : Cancel(c, HandoverTimer).left[u] = c.left[u]
      /\ \A u \in Timers, v \in Timers :
            <<u, v>> \in Cancel(c, HandoverTimer).before
              <=> <<u, v>> \in c.before /\ u # HandoverTimer /\ v # HandoverTimer
  BY <1>2, <1>3, CancelQueue
<1>5. fes' = IF handoverTimer = Null THEN c ELSE Cancel(c, HandoverTimer)
  BY <1>1 DEF c
<1>6. IsQueue(fes', Timers)
  BY <1>3, <1>4, <1>5
<1>7. MeasurementTimer \notin Scheduled(fes') /\ HandoverTimer \notin Scheduled(fes')
  BY <1>1, <1>2, <1>3, <1>4, <1>5 DEF TimersConsistent, TypeOK
<1>8. TypeOK'
  BY <1>1, <1>6 DEF TypeOK, decision, counters, dataPath
<1>9. TimersConsistent'
  BY <1>1, <1>7 DEF TimersConsistent, decision
<1> QED BY <1>1, <1>8, <1>9
        DEF PendingTargetIsOther, DataPathFollowsActive, CountersMatchPath,
            HandoverArrivesFirst, ExecutionUsesLatestMeasurement,
            decision, counters, dataPath

\* So does every event.
LEMMA StepSafe == Safe /\ [Next]_vars => Safe'
<1>1. Safe /\ UNCHANGED vars => Safe'
  BY DEF Safe, vars, decision, counters, dataPath, TypeOK, TimersConsistent,
         PendingTargetIsOther, DataPathFollowsActive, CountersMatchPath,
         HandoverArrivesFirst, ExecutionUsesLatestMeasurement
<1> QED BY <1>1, MeasurementSafe, ExecutionSafe, FinishSafe DEF Next, EventLoop

-----------------------------------------------------------------------------
\* The manager's safety: types, timers, the target of a pending handover, the
\* data path, the statistics, and that a handover no slower than the
\* measurements executes the latest decision.
THEOREM SafetyInvariant == Spec => []Safe
BY InitSafe, StepSafe, PTL DEF Spec

\* TypeOK and the single properties, as the runs check them.
THEOREM TypeCorrect == Spec => []TypeOK
<1>1. Safe => TypeOK
  BY DEF Safe
<1> QED BY <1>1, SafetyInvariant, PTL

\* Routes, radios and the active interface agree in every state
\* (setActiveInterface, updateRouting).
THEOREM DataPathCorrect == Spec => []DataPathFollowsActive
<1>1. Safe => DataPathFollowsActive
  BY DEF Safe
<1> QED BY <1>1, SafetyInvariant, PTL

\* The two statistics tell which interface is in use (executeHandover).
THEOREM CountersCorrect == Spec => []CountersMatchPath
<1>1. Safe => CountersMatchPath
  BY DEF Safe
<1> QED BY <1>1, SafetyInvariant, PTL

\* No measurement overtakes a pending handover if the delay is at most the
\* measurement interval, also when both timers arrive together
\* (handleMessage reschedules after performMeasurements).
THEOREM LatestMeasurementExecuted == Spec => []ExecutionUsesLatestMeasurement
<1>1. Safe => ExecutionUsesLatestMeasurement
  BY DEF Safe
<1> QED BY <1>1, SafetyInvariant, PTL

\* The flag, the pointer and the pending messages never contradict each other
\* (initiateHandover, executeHandover, finish).
THEOREM TimersAgree == Spec => []TimersConsistent
<1>1. Safe => TimersConsistent
  BY DEF Safe
<1> QED BY <1>1, SafetyInvariant, PTL

\* A handover that is executed was decided, and really switches: the target
\* initialize() leaves unset is never used.
THEOREM TargetIsOther == Spec => []PendingTargetIsOther
<1>1. Safe => PendingTargetIsOther
  BY DEF Safe
<1> QED BY <1>1, SafetyInvariant, PTL

-----------------------------------------------------------------------------
\* The default route names the active interface.
LEMMA RoutedPathIsActive ==
  TypeOK /\ DataPathFollowsActive => RoutedPath = currentActiveInterface
<1> SUFFICES ASSUME TypeOK, DataPathFollowsActive
             PROVE  RoutedPath = currentActiveInterface
  OBVIOUS
<1> DEFINE active == InterfaceOf(currentActiveInterface)
<1>1. currentActiveInterface \in InterfaceType
  BY DEF TypeOK
<1>2. {r \in routes : r.dest = "default"} = {DefaultRoute(active)}
  BY ConfiguredRoutesFacts DEF DataPathFollowsActive, DefaultRoute
<1>3. DefaultRoute(active) \in routes
  BY <1>2
<1>4. ASSUME NEW type \in InterfaceType, DefaultRoute(InterfaceOf(type)) \in routes
      PROVE  type = currentActiveInterface
  <2>1. DefaultRoute(InterfaceOf(type)).dest = "default"
    BY DEF DefaultRoute
  <2>2. DefaultRoute(InterfaceOf(type)) = DefaultRoute(active)
    BY <1>2, <1>4, <2>1
  <2>3. InterfaceOf(type) = active
    BY <2>2 DEF DefaultRoute
  <2> QED BY <1>1, <1>4, <2>3, InterfacesFound DEF InterfaceOf, InterfaceType
<1> QED BY <1>1, <1>3, <1>4 DEF RoutedPath

\* The routing table and the handover timer implement the single active
\* path: a step of the manager begins a switch, commits it, ends the run or
\* is not seen at all.
THEOREM Refinement == Spec => Active!Spec
<1>1. Init => Active!Init
  <2> SUFFICES ASSUME Init PROVE Active!Init
    OBVIOUS
  <2>1. RoutedPath = currentActiveInterface
    BY InitSafe, RoutedPathIsActive DEF Safe
  <2> QED BY <2>1 DEF Init, Active!Init, InterfaceType
<1> DEFINE Mapped == RoutedPath = currentActiveInterface
<1>2. Safe => Mapped
  BY RoutedPathIsActive DEF Safe
<1>3. Safe /\ Mapped /\ Mapped' /\ [Next]_vars
        => [Active!Next]_<<RoutedPath, handoverTimer # Null, finished>>
  <2> SUFFICES ASSUME Safe, Mapped, Mapped', [Next]_vars
               PROVE  [Active!Next]_<<RoutedPath, handoverTimer # Null, finished>>
    OBVIOUS
  <2>1. RoutedPath = currentActiveInterface
    OBVIOUS
  <2>2. RoutedPath' = currentActiveInterface'
    OBVIOUS
  <2>3. /\ handoverTimer \in {HandoverTimer, Null}
        /\ HandoverTimer # Null
        /\ handoverTimer = HandoverTimer <=> handoverInProgress
    BY DEF Safe, TypeOK, TimersConsistent, HandoverTimer, Null
  <2>4. CASE HandleMeasurementTimer
    <3>1. UNCHANGED <<currentActiveInterface, finished>> /\ ~finished
      BY <2>4 DEF HandleMeasurementTimer
    <3>2. CASE handoverTimer' = handoverTimer
      BY <2>1, <2>2, <3>1, <3>2
    <3>3. CASE handoverTimer' # handoverTimer
      <4>1. ~handoverInProgress /\ handoverTimer' = HandoverTimer
        BY <2>4, <3>3 DEF HandleMeasurementTimer, PerformMeasurements, InitiateHandover
      <4> QED BY <2>1, <2>2, <2>3, <3>1, <4>1 DEF Active!Next, Active!Begin
    <3> QED BY <3>2, <3>3
  <2>5. CASE HandleHandoverTimer
    <3>1. /\ ~finished /\ finished' = finished /\ handoverTimer' = Null
          /\ currentActiveInterface' = targetActiveInterface
          /\ HandoverTimer \in Scheduled(fes)
      BY <2>5 DEF HandleHandoverTimer, ExecuteHandover, SetActiveInterface, IsNext
    <3>2. handoverInProgress
      BY <3>1 DEF Safe, TimersConsistent
    <3>3. RoutedPath' \in InterfaceType \ {RoutedPath}
      BY <2>1, <2>2, <3>1, <3>2
         DEF Safe, TypeOK, PendingTargetIsOther, Other, InterfaceType, LTE, WIFI
    <3> QED BY <2>3, <3>1, <3>2, <3>3 DEF Active!Next, Active!Commit
  <2>6. CASE Finish
    BY <2>1, <2>2, <2>6 DEF Finish, decision, Active!Next, Active!Stop
  <2>7. CASE UNCHANGED vars
    BY <2>1, <2>2, <2>7 DEF vars, decision
  <2> QED BY <2>4, <2>5, <2>6, <2>7 DEF Next, EventLoop
<1> QED BY <1>1, <1>2, <1>3, SafetyInvariant, PTL DEF Spec, Active!Spec
=============================================================================
