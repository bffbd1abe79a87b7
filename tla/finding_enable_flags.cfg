SPECIFICATION Spec
CONSTANTS
    MeasurementInterval = 10
    HandoverDelay = 1
    LteRsrpThreshold <- DefaultLteThreshold
    WifiRssiThreshold <- DefaultWifiThreshold
    Hysteresis = 5
    LtePriority = 10
    WifiPriority = 20
    EnableLteToWifi = FALSE
    EnableWifiToLte = TRUE
    InterfaceKinds <- OneWlan
    StaticDestinations = {"10.0.0.0/21", "10.0.5.1/32"}
    LteProbes <- FewLteProbes
    WifiProbes <- FewWifiProbes
    MaxInt = 1
CHECK_DEADLOCK FALSE
PROPERTY EnableFlagsRespected
