SPECIFICATION HistFairSpec
CONSTANTS
    MeasurementInterval = 10
    HandoverDelay = 25
    LteRsrpThreshold <- DefaultLteThreshold
    WifiRssiThreshold <- DefaultWifiThreshold
    Hysteresis = 5
    LtePriority = 10
    WifiPriority = 20
    EnableLteToWifi = TRUE
    EnableWifiToLte = TRUE
    InterfaceKinds <- OneWlan
    StaticDestinations = {"10.0.0.0/21", "10.0.5.1/32"}
    LteProbes <- AllLteProbes
    WifiProbes <- AllWifiProbes
    MaxInt = 1
CHECK_DEADLOCK FALSE
INVARIANTS
    TypeOK
    TimersConsistent
    PendingTargetIsOther
    DataPathFollowsActive
    CountersMatchPath
PROPERTIES
    ReversalNeedsSwing
    SettlesOnWifi
    NoPingPongOnConstantSignals
    ImplementsActivePath
