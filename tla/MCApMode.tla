------------------------------ MODULE MCApMode ------------------------------
(***************************************************************************)
(* Small instances of ApMode: a 5 GHz and a 2.4 GHz network, one that      *)
(* wifiOpenAP rejects before and one that it rejects after writing the     *)
(* file, one without DHCP, and one that leaves the interface to its        *)
(* default.                                                                *)
(***************************************************************************)
EXTENDS ApMode, TLC

Home == [ssid |-> <<"h">>, interface |-> <<"wlan1">>, auth |-> "WPA-PSK", wpa |-> 4,
         psk |-> <<"k">>, vendorCode |-> 1, hw_mode |-> "b", channel |-> 157,
         serverAddress |-> <<"192.168.3.1">>, dhcpEnable |-> 1]
Guest == [Home EXCEPT !.auth = "other", !.hw_mode = "g", !.channel = 8]
NoKey == [Home EXCEPT !.psk = << >>]
Unaddressed == [Home EXCEPT !.serverAddress = << >>]
Static == [Guest EXCEPT !.dhcpEnable = 0]

Unnamed == [Guest EXCEPT !.interface = << >>]

MCApArgs == {Home, Guest, NoKey, Unaddressed, Static, Unnamed}
MCHome == {Home}
MCServed == {Home, Static}
MCConfigs == {HostapdConf(a) : a \in {b \in MCApArgs : ValidAP(b)}}
MCDaemons == {"hostapd", "udhcpd"}
MCExclusive == {"hostapd"}

PidSymmetry == Permutations(Pids)
PidCallerSymmetry == Permutations(Pids) \cup Permutations(Callers)

=============================================================================
