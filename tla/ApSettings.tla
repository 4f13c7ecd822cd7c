----------------------------- MODULE ApSettings -----------------------------
(***************************************************************************)
(* The settings of access-point mode between an application's argument     *)
(* structure and hostapd.conf: wifiUtilsAPInit fills the structure,        *)
(* wifiOpenAP corrects it and writes the file (src/src/wifi.c:91-234), and *)
(* wifiUtilsGetAPConfig reads it back (src/src/utils.c:43-127).  The       *)
(* fields serverAddress and dhcpEnable are in no line of the file and are  *)
(* left out of WifiAPArgs.                                                 *)
(***************************************************************************)
EXTENDS ApConfig, ConfigText

CONSTANT
  ApArgs      (* the arguments applications pass                           *)

WifiAPArgs ==
  [ssid: Text, psk: Text, interface: Text, auth: Auths, wpa: Int,
   vendorCode: Int, vendor_elements: Seq(Int), hw_mode: {"", "a", "b", "g"},
   channel: Int]
ClearedAp ==
  [ssid |-> << >>, psk |-> << >>, interface |-> << >>, auth |-> "other", wpa |-> 0,
   vendorCode |-> 0, vendor_elements |-> << >>, hw_mode |-> "", channel |-> 0]

ASSUME ApSettingsAssumption == ApArgs \subseteq WifiAPArgs /\ "wlan0" \in Chars

VARIABLES
  apConf,     (* hostapd.conf                                              *)
  apStruct,   (* the application's structure                               *)
  apOrigin    (* history: where its content is from: "edited", "opened"    *)
              (* (what the last open has written), "read" (from the file)  *)

apVars == <<apConf, apStruct, apOrigin>>

InitAp ==
  /\ apConf = NoFile
  /\ apStruct = ClearedAp
  /\ apOrigin = "edited"

(* The application sets the fields. *)
EditAp ==
  /\ apStruct' \in ApArgs
  /\ apOrigin' = "edited"
  /\ UNCHANGED apConf

(* wifiUtilsAPInit leaves vendor_elements to what the memory held.         *)
DefaultSsidAp == <<"I", "o", "T", "-", "l", "u", "c", "k", "e", "r">>
DefaultPskAp == <<"l", "u", "c", "k", "e", "r", "1", "2", "3">>
DefaultVendorCode == 287454977
APInit ==
  /\ apStruct' =
       [ssid |-> DefaultSsidAp, psk |-> DefaultPskAp, interface |-> DefaultInterface,
        auth |-> "WPA-PSK", wpa |-> 2, vendorCode |-> DefaultVendorCode,
        vendor_elements |-> apStruct.vendor_elements, hw_mode |-> "a", channel |-> 157]
  /\ apOrigin' = "edited"
  /\ UNCHANGED apConf

(* wifiOpenAP, as far as the file and the structure go.                    *)
WrittenAp(a) == IF ValidAP(a) THEN HostapdConf(a) ELSE Empty
OpenAP ==
  /\ apConf' = WrittenAp(apStruct)
  /\ apStruct' = Corrected(apStruct)
  /\ apOrigin' = IF ValidAP(apStruct) THEN "opened" ELSE "edited"

(* Variant: strncmp(key, "wpa", 3) is true of wpa_key_mgmt and             *)
(* wpa_passphrase too, whose text is no number.                            *)
ReadApByPrefix(b, f) ==
  [b EXCEPT !.ssid = Value(f.ssid),
            !.interface = Value(f.interface),
            !.wpa = IF f.security = {} THEN @ ELSE 0,
            !.psk = IF f.security = {} THEN @ ELSE Value((CHOOSE s \in f.security : TRUE).psk),
            !.auth = IF f.security = {} THEN @ ELSE (CHOOSE s \in f.security : TRUE).auth,
            !.vendor_elements = f.vendor,
            !.hw_mode = f.hw_mode,
            !.channel = f.channel]

(* Each line overwrites its field; the lines on security are only there    *)
(* for a secured network.  The vendor element goes to vendor_elements, and *)
(* not to vendorCode, which is what an open writes.                        *)
ReadAp(b, f) ==
  LET radio == [b EXCEPT !.ssid = Value(f.ssid),
                         !.interface = Value(f.interface),
                         !.vendor_elements = f.vendor,
                         !.hw_mode = f.hw_mode,
                         !.channel = f.channel]
  IN IF f.security = {} THEN radio
     ELSE LET s == CHOOSE s \in f.security : TRUE
          IN [radio EXCEPT !.psk = Value(s.psk), !.wpa = s.wpa, !.auth = s.auth]

(* wifiUtilsGetAPConfig, into a cleared structure or the one at hand.  It  *)
(* returns -1 if there is no file, and 0 without a change if it is empty.  *)
(* An edited structure may keep the security of another network.           *)
GetAPConfig ==
  \E b \in {ClearedAp, apStruct} :
    /\ apConf # NoFile
    /\ apStruct' = IF apConf = Empty THEN b ELSE ReadAp(b, apConf)
    /\ apOrigin' = IF apOrigin = "edited" /\ b # ClearedAp THEN "edited" ELSE "read"
    /\ UNCHANGED apConf

NextAp == EditAp \/ APInit \/ OpenAP \/ GetAPConfig

SpecAp == InitAp /\ [][NextAp]_apVars

-----------------------------------------------------------------------------
SameButVendor(f, g) ==
  IF f = Empty \/ g = Empty THEN f = g ELSE f = [g EXCEPT !.vendor = f.vendor]

(* What the library reads back is what it wrote (utils.c:61-107;           *)
(* test/unittestsAP.c:37-67), but for the vendor code.                     *)
ReadsBackAp == apOrigin = "read" => SameButVendor(WrittenAp(apStruct), apConf)

(* Opening again with the structure that wifiOpenAP has corrected in place *)
(* writes the same file; with one that was read back, the same but for the *)
(* vendor code: the defaults that an open falls back to are kept by the    *)
(* next one (wifi.c:117-208), and the lines it writes are read into the    *)
(* fields they came from.                                                  *)
FileKeptAp ==
  /\ apOrigin = "opened" => apConf' = apConf
  /\ apOrigin = "read" => SameButVendor(apConf', apConf)
ReopenKeepsAp == [][OpenAP => FileKeptAp]_apVars

(* Why: the file can always be read back into a structure that stands for  *)
(* it.                                                                     *)
ReadableAp(f) ==
  LET a == ReadAp(ClearedAp, f)
  IN a \in WifiAPArgs /\ ValidAP(a) /\ SameButVendor(HostapdConf(a), f)
SettingsInvAp ==
  /\ apStruct \in WifiAPArgs
  /\ apOrigin \in {"edited", "opened", "read"}
  /\ apConf \notin {NoFile, Empty} => ReadableAp(apConf)
  /\ apOrigin # "edited" => apConf # NoFile
  /\ apOrigin = "opened" => apConf = WrittenAp(apStruct)
  /\ ReadsBackAp

=============================================================================
