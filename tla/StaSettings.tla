---------------------------- MODULE StaSettings -----------------------------
(***************************************************************************)
(* The settings of station mode between an application's argument          *)
(* structure and wpa_supplicant.conf: wifiUtilsSTAInit fills the           *)
(* structure, wifiOpenSTA writes the file (src/src/wifi.c:20-67), and      *)
(* wifiUtilsGetSTAConfig reads it back (src/src/utils.c:7-42, 128-135).    *)
(***************************************************************************)
EXTENDS StaConfig, ConfigText

CONSTANT
  StaArgs     (* the arguments applications pass                           *)

WifiSTAArgs == [ssid: Text, psk: Text, auth: Auths]
ClearedSta == [ssid |-> << >>, psk |-> << >>, auth |-> "other"]

ASSUME StaSettingsAssumption == StaArgs \subseteq WifiSTAArgs

VARIABLES
  staConf,    (* wpa_supplicant.conf                                       *)
  staStruct,  (* the application's structure                               *)
  staOrigin   (* history: where its content is from: "edited", "opened"    *)
              (* (what the last open has written), "read" (from the file)  *)

staVars == <<staConf, staStruct, staOrigin>>

InitSta ==
  /\ staConf = NoFile
  /\ staStruct = ClearedSta
  /\ staOrigin = "edited"

(* The application sets the fields. *)
EditSta ==
  /\ staStruct' \in StaArgs
  /\ staOrigin' = "edited"
  /\ UNCHANGED staConf

(* wifiUtilsSTAInit *)
DefaultSsidSta == <<"I", "o", "T", "-", "l", "u", "c", "k", "e", "r">>
DefaultPskSta == <<"l", "u", "c", "k", "e", "r", "1", "2", "3">>
STAInit ==
  /\ staStruct' = [ssid |-> DefaultSsidSta, psk |-> DefaultPskSta, auth |-> "WPA-PSK"]
  /\ staOrigin' = "edited"
  /\ UNCHANGED staConf

(* wifiOpenSTA, as far as the file goes. *)
WrittenSta(a) == IF ValidSTA(a) THEN WpaConf(a) ELSE Empty
OpenSTA ==
  /\ staConf' = WrittenSta(staStruct)
  /\ staOrigin' = IF ValidSTA(staStruct) THEN "opened" ELSE "edited"
  /\ UNCHANGED staStruct

DoubleQuote == "dquote"
Quoted(text) == <<DoubleQuote>> \o text \o <<DoubleQuote>>

(* Variant: nine characters of the name, as of the passphrase. *)
ReadStaNine(b, f) ==
  [ssid |-> AfterQuote(Value(Quoted(f.ssid)), 9),
   psk |-> IF f.key_mgmt = "NONE" THEN b.psk
                                  ELSE AfterQuote(Value(Quoted(f.psk)), 9),
   auth |-> IF f.key_mgmt = "NONE" THEN "other" ELSE f.key_mgmt]

(* The fields that have a line in the file; an open network has no psk.    *)
ReadSta(b, f) ==
  [ssid |-> AfterQuote(Value(Quoted(f.ssid)), 10),
   psk |-> IF f.key_mgmt = "NONE" THEN b.psk
                                  ELSE AfterQuote(Value(Quoted(f.psk)), 9),
   auth |-> IF f.key_mgmt = "NONE" THEN "other" ELSE f.key_mgmt]

(* wifiUtilsGetSTAConfig, into a cleared structure or the one at hand. It  *)
(* returns -1 if there is no file, and 0 without a change if it is empty.  *)
GetSTAConfig ==
  \E b \in {ClearedSta, staStruct} :
    /\ staConf # NoFile
    /\ staStruct' = IF staConf = Empty THEN b ELSE ReadSta(b, staConf)
    /\ staOrigin' = IF staConf = Empty /\ b # ClearedSta THEN staOrigin ELSE "read"
    /\ UNCHANGED staConf

NextSta == EditSta \/ STAInit \/ OpenSTA \/ GetSTAConfig

SpecSta == InitSta /\ [][NextSta]_staVars

-----------------------------------------------------------------------------
(* What the library reads back is what it wrote (utils.c:23-38;            *)
(* test/unittestsSTA.c:29-46).                                             *)
ReadsBackSta ==
  staOrigin = "read" /\ staConf # Empty => ValidSTA(staStruct) /\ WpaConf(staStruct) = staConf

(* An application that reads the settings back and opens with them, again  *)
(* and again, does not change the network it asked for.  For names and     *)
(* passphrases that fit.                                                   *)
ReopenKeepsSta == [][OpenSTA /\ staOrigin # "edited" => staConf' = staConf]_staVars

(* As many characters as wifiUtilsGetSTAConfig copies (utils.c:27, 32).    *)
Fits(a) == Len(a.ssid) \in {0, 10} /\ (Secured(a) => Len(a.psk) \in {0, 9})

(* Why: the file can always be read back into a structure that stands for  *)
(* it.                                                                     *)
ReadableSta(f) ==
  LET a == ReadSta(ClearedSta, f)
  IN a \in WifiSTAArgs /\ Fits(a) /\ ValidSTA(a) /\ WpaConf(a) = f
SettingsInvSta ==
  /\ staStruct \in WifiSTAArgs /\ Fits(staStruct)
  /\ staOrigin \in {"edited", "opened", "read"}
  /\ staConf \notin {NoFile, Empty} => ReadableSta(staConf)
  /\ staOrigin # "edited" => staConf = WrittenSta(staStruct)
  /\ ReadsBackSta

=============================================================================
