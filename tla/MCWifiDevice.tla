---------------------------- MODULE MCWifiDevice ----------------------------
(***************************************************************************)
(* A small instance of WifiDevice: two networks for each mode, one of the  *)
(* access points without DHCP.                                             *)
(***************************************************************************)
EXTENDS WifiDevice, TLC

StaText == INSTANCE StaConfig
ApText == INSTANCE ApConfig

Home == [ssid |-> <<"h">>, auth |-> "WPA-PSK", psk |-> <<"k">>]
Cafe == [ssid |-> <<"c">>, auth |-> "other", psk |-> << >>]
Shop == [ssid |-> <<"s">>, interface |-> <<"wlan0">>, auth |-> "WPA-PSK", wpa |-> 4,
         psk |-> <<"k">>, vendorCode |-> 1, hw_mode |-> "b", channel |-> 157,
         serverAddress |-> <<"192.168.3.1">>, dhcpEnable |-> 1]
Guest == [Shop EXCEPT !.auth = "other", !.hw_mode = "g", !.channel = 8]
Static == [Shop EXCEPT !.dhcpEnable = 0]

MCStaArgs == {Home, Cafe}
MCApArgs == {Shop, Guest, Static}
MCConfigs == {StaText!WpaConf(a) : a \in MCStaArgs} \cup {ApText!HostapdConf(a) : a \in MCApArgs}
MCDaemons == {"wpa_supplicant", "udhcpc", "hostapd", "udhcpd"}
MCExclusive == {"wpa_supplicant", "hostapd"}

PidSymmetry == Permutations(Pids)

=============================================================================
