----------------------------- MODULE MCStaMode ------------------------------
(***************************************************************************)
(* Small instances of StaMode: two networks to connect to, and one set of  *)
(* arguments that wifiOpenSTA rejects after it has opened the file.        *)
(***************************************************************************)
EXTENDS StaMode, TLC

Home == [ssid |-> <<"h">>, auth |-> "WPA-PSK", psk |-> <<"k">>]
Cafe == [ssid |-> <<"c">>, auth |-> "other", psk |-> << >>]
NoKey == [ssid |-> <<"h">>, auth |-> "WPA-PSK", psk |-> << >>]

MCStaArgs == {Home, Cafe, NoKey}
MCTwoArgs == {Home, NoKey}
MCConfigs == {WpaConf(a) : a \in {b \in MCStaArgs : ValidSTA(b)}}
MCDaemons == {"wpa_supplicant", "udhcpc"}
MCExclusive == {"wpa_supplicant"}

PidSymmetry == Permutations(Pids)

=============================================================================
