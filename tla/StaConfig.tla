----------------------------- MODULE StaConfig ------------------------------
(***************************************************************************)
(* The wpa_supplicant.conf that wifiOpenSTA writes for its arguments       *)
(* (src/src/wifi.c:23-63).  SSIDs and passphrases are sequences of         *)
(* characters.                                                             *)
(***************************************************************************)
EXTENDS Auth

(* The two ASSERTs on the content of the arguments. *)
ValidSTA(a) == a.ssid # << >> /\ (Secured(a) => a.psk # << >>)

Pairwise(a) == CASE a.auth = "WPA-PSK" -> "CCMP"
                 [] a.auth = "WPA-EAP" -> "TKIP CCMP"
                 [] OTHER -> "none"

(* The network block: psk and pairwise are left out of an open one. *)
WpaConf(a) ==
  [ssid |-> a.ssid,
   key_mgmt |-> IF Secured(a) THEN a.auth ELSE "NONE",
   psk |-> IF Secured(a) THEN a.psk ELSE << >>,
   pairwise |-> Pairwise(a)]

=============================================================================
