SPECIFICATION HistSpec
CONSTANTS
    MeasurementInterval = 10
    HandoverDelay = 10
    LteRsrpThreshold <- DefaultLteThreshold
    WifiRssiThreshold <- DefaultWifiThreshold
    Hysteresis = 5
    LtePriority = 20
    WifiPriority = 20
    EnableLteToWifi = TRUE
    EnableWifiToLte = TRUE
    InterfaceKinds <- TwoWlans
    StaticDestinations = {"10.0.0.0/21", "10.0.5.1/32"}
    LteProbes <- AllLteProbes
    WifiProbes <- AllWifiProbes
    MaxInt = 1
CHECK_DEADLOCK FALSE
INVARIANTS
    ExecutionUsesLatestMeasurement
    HistSafe
PROPERTY ReversalNeedsSwing
