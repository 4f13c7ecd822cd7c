------------------------------ MODULE ApConfig ------------------------------
(***************************************************************************)
(* The hostapd.conf that wifiOpenAP writes for its arguments, with the     *)
(* defaults it falls back to (src/src/wifi.c:94-230).  Texts are sequences *)
(* of characters; hw_mode is a character.                                  *)
(***************************************************************************)
EXTENDS Auth, Integers

DefaultInterface == <<"wlan0">>
Channels5G == {36, 40, 44, 149, 157}
Channels24G == 1..7

(* The ASSERTs before the file is written. *)
ValidAP(a) == a.ssid # << >> /\ (Secured(a) => a.psk # << >>)

InterfaceOf(a) == IF a.interface = << >> THEN DefaultInterface ELSE a.interface

(* Only a number above 3 is replaced. *)
WpaOf(a) == IF a.wpa > 3 THEN 2 ELSE a.wpa

HwModeOf(a) == IF a.hw_mode \in {"a", "g"} THEN a.hw_mode ELSE "a"

ChannelOf(a) ==
  LET legal == IF HwModeOf(a) = "a" THEN Channels5G ELSE Channels24G
      default == IF HwModeOf(a) = "a" THEN 36 ELSE 1
  IN IF a.channel \in legal THEN a.channel ELSE default

(* The security lines (none for an open network), the vendor element 0xcf  *)
(* of four bytes, and the radio.                                           *)
HostapdConf(a) ==
  [ssid |-> a.ssid,
   interface |-> InterfaceOf(a),
   security |-> IF Secured(a) THEN {[auth |-> a.auth, wpa |-> WpaOf(a), psk |-> a.psk]}
                              ELSE {},
   vendor |-> <<207, 4, a.vendorCode>>,
   hw_mode |-> HwModeOf(a),
   channel |-> ChannelOf(a)]

(* What the call leaves in its caller's struct: the version and the        *)
(* hardware mode are corrected in place, up to the ASSERT that fails; the  *)
(* channel and the interface are not.                                      *)
Corrected(a) ==
  [a EXCEPT !.wpa = IF a.ssid # << >> /\ Secured(a) THEN WpaOf(a) ELSE @,
            !.hw_mode = IF ValidAP(a) THEN HwModeOf(a) ELSE @]

=============================================================================
