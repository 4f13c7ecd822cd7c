----------------------------- MODULE MCSettings -----------------------------
(***************************************************************************)
(* Small instances of StaSettings and ApSettings, for an application that  *)
(* uses one mode.  Names of ten characters and passphrases of nine, which  *)
(* is as many as wifiUtilsGetSTAConfig copies, and others; right and wrong *)
(* versions, modes and channels.  No text contains the character which     *)
(* ends a value, or ReadsBackSta and ReadsBackAp fail.                     *)
(***************************************************************************)
EXTENDS StaSettings, ApSettings

CONSTANT Modes

Times(x, n) == [k \in 1..n |-> x]

MCChars == {"a", "b", "h", "wlan0", DoubleQuote, "=",
            "I", "o", "T", "-", "l", "u", "c", "k", "e", "r", "1", "2", "3"}
MCSized ==
  [ssid: {<< >>} \cup {[Times("a", 10) EXCEPT ![k] = x] :
                         k \in {1, 5, 10}, x \in {"b", DoubleQuote}},
   psk: {<< >>} \cup {[Times("b", 9) EXCEPT ![k] = "a"] : k \in {1, 9}},
   auth: Auths]
MCShort == [ssid: {Times("a", 3)}, psk: {Times("b", 9)}, auth: Auths]
MCApArgs ==
  [ssid: {<< >>, <<"h">>}, psk: {<< >>, <<"k">>}, interface: {<< >>, <<"h">>},
   auth: {"WPA-PSK", "other"}, wpa: {0, 2, 4}, vendorCode: {1},
   vendor_elements: {<< >>}, hw_mode: {"a", "b", "g"}, channel: {7, 8, 40}]

VARIABLE mode

Init == InitSta /\ InitAp /\ mode \in Modes
Next ==
  \/ mode = "sta" /\ NextSta /\ UNCHANGED <<apVars, mode>>
  \/ mode = "ap" /\ NextAp /\ UNCHANGED <<staVars, mode>>

Spec == Init /\ [][Next]_<<staVars, apVars, mode>>

=============================================================================
