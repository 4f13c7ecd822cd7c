----------------------------- MODULE MCScanSelect -----------------------------
(***************************************************************************)
(* Small instances of ScanSelect: an access point with a vendor element at *)
(* two signal levels, one without of the same name, and one whose name     *)
(* begins with that and a `=`.                                             *)
(***************************************************************************)
EXTENDS ScanSelect

Lucker == [bssid |-> "b1", freq |-> 5180, level |-> -40, ssid |-> <<"l">>,
           ies |-> <<[id |-> 0, code |-> 5], [id |-> 207, code |-> 7]>>]
LuckerFar == [Lucker EXCEPT !.level = -70]
Other == [bssid |-> "b2", freq |-> 2412, level |-> -60, ssid |-> <<"l">>,
          ies |-> <<[id |-> 0, code |-> 5]>>]
Suffixed == [Other EXCEPT !.bssid = "b3", !.ssid = <<"l", "=", "x">>]

MCAPs == {Lucker, LuckerFar, Other, Suffixed}
MCTwoAPs == {Lucker, Other}
MCSsids == {<<"l">>, <<"o">>}
MCReused == -1..2
MCChanges == {"supplicant", "bss"}
MCBss == {"bss"}

=============================================================================
