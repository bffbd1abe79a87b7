----------------------------- MODULE MCHandover -----------------------------
(***************************************************************************)
(* Small instances of the handover manager for TLC.                        *)
(***************************************************************************)
EXTENDS HandoverProperties

\* The thresholds of HandoverManager.ned.
DefaultLteThreshold  == -80
DefaultWifiThreshold == -70

\* Signal levels on, between and around the thresholds -80 -/+ 5 of LTE and
\* -70 -/+ 5 of WiFi.
LteLevels  == {-85, -84, -80, -75, -74}
WifiLevels == {-75, -74, -70, -65, -64}

\* A measurement finds a level in each of the ways the code can obtain one.
AllLteProbes ==
    {[phy |-> "none", masterRssi |-> 0, simulated |-> 0]}
    \cup {[phy |-> "lteUe", masterRssi |-> l, simulated |-> -74] : l \in LteLevels \cup {-999}}
    \cup {[phy |-> "other", masterRssi |-> 0, simulated |-> -85]}

WifiProbeOf(radio, mgmt, rx, sim) ==
    [wlan |-> TRUE, radioRssi |-> radio, mgmt |-> mgmt, rxPower |-> rx, simulated |-> sim]

AllWifiProbes ==
    {[WifiProbeOf(0, "none", 0, 0) EXCEPT !.wlan = FALSE]}
    \cup {WifiProbeOf(0, "associated", w, 0) : w \in WifiLevels}
    \cup {WifiProbeOf(0, "unassociated", 0, 0), WifiProbeOf(-64, "associated", -75, 0),
          WifiProbeOf(0, "none", 0, -75)}

\* For a finding: one level on each side of each hysteresis band and one inside.
FewLteProbes ==
    {[phy |-> "lteUe", masterRssi |-> l, simulated |-> 0] : l \in {-85, -80, -74}}
FewWifiProbes == {WifiProbeOf(0, "associated", w, 0) : w \in {-75, -70, -64}}

OneWlan  == <<"loopback", "cellular", "wlan">>
TwoWlans == <<"loopback", "cellular", "wlan", "wlan">>
=============================================================================
