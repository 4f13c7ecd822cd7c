--------------------------- MODULE SettingsProofs ---------------------------
(***************************************************************************)
(* Reading settings back and opening with them.  In station mode, if every *)
(* name and passphrase is as long as wifiUtilsGetSTAConfig expects and     *)
(* contains no `=`, it changes nothing, whatever the characters are.  In   *)
(* access-point mode, if no name, passphrase or interface contains `=`,    *)
(* opening again with the structure that an open has corrected, or with    *)
(* one that was read back, writes the same file but for the vendor code,   *)
(* whatever versions, modes and channels were asked for.                   *)
(***************************************************************************)
EXTENDS StaSettings, ApSettings, KeyValueProofs

-----------------------------------------------------------------------------
(* What reading a line back preserves. *)

(* Between the quotes of a line are the n characters that were written.    *)
LEMMA QuotedText ==
  ASSUME NEW C, NEW t \in Seq(C), NEW q
  PROVE  AfterQuote(<<q>> \o t \o <<q>>, Len(t)) = t
<1> DEFINE v == <<q>> \o t \o <<q>>
<1>1. v \in Seq(C \cup {q}) /\ Len(v) = Len(t) + 2
  OBVIOUS
<1>2. \A k \in 1..Len(t) : v[k+1] = t[k]
  OBVIOUS
<1>3. AfterQuote(v, Len(t)) = SubSeq(v, 2, Len(t) + 1)
  BY <1>1 DEF AfterQuote
<1>4. /\ SubSeq(v, 2, Len(t) + 1) \in Seq(C \cup {q})
      /\ Len(SubSeq(v, 2, Len(t) + 1)) = Len(t)
      /\ \A k \in 1..Len(t) : SubSeq(v, 2, Len(t) + 1)[k] = v[k+1]
  BY <1>1
<1>5. t \in Seq(C \cup {q})
  OBVIOUS
<1> HIDE DEF v
<1> DEFINE u == SubSeq(v, 2, Len(t) + 1)
<1>6. Len(u) = Len(t) /\ u \in Seq(C \cup {q}) /\ \A k \in 1..Len(u) : u[k] = t[k]
  BY <1>2, <1>4
<1>7. u = t
  <2> HIDE DEF u
  <2> QED
    BY <1>5, <1>6, SeqEqual
<1> QED
  BY <1>3, <1>7 DEF v

-----------------------------------------------------------------------------
(* Station mode. *)

(* The precondition on what applications pass.                             *)
AllFit ==
  /\ "=" \notin Chars \cup {DoubleQuote}
  /\ {"I", "o", "T", "-", "l", "u", "c", "k", "e", "r", "1", "2", "3"} \subseteq Chars
  /\ NoFile # Empty
  /\ \A a \in WifiSTAArgs : WpaConf(a) \notin {NoFile, Empty}
  /\ \A a \in StaArgs : Fits(a)

(* A text of the expected length is read back as it was.                   *)
LEMMA ReadText ==
  ASSUME AllFit, NEW t \in Text
  PROVE  AfterQuote(Value(Quoted(t)), Len(t)) = t
<1> DEFINE C == Chars \cup {DoubleQuote}
<1>1. Quoted(t) \in Seq(C)
  <2>1. t \in Seq(C) /\ <<DoubleQuote>> \in Seq(C)
    BY DEF Text
  <2> QED
    BY <2>1 DEF Quoted
<1>2. Value(Quoted(t)) = Quoted(t)
  BY <1>1, ValuePlain DEF AllFit
<1>3. AfterQuote(Quoted(t), Len(t)) = t
  BY QuotedText DEF Quoted, Text
<1> QED
  BY <1>2, <1>3

(* Reading the file of a structure gives one that has the same file.       *)
LEMMA ReadWrittenSta ==
  ASSUME AllFit, NEW a \in WifiSTAArgs, Fits(a), ValidSTA(a), NEW b \in WifiSTAArgs, Fits(b)
  PROVE  LET r == ReadSta(b, WpaConf(a))
         IN /\ r \in WifiSTAArgs /\ Fits(r)
            /\ WrittenSta(r) = WpaConf(a)
<1> DEFINE f == WpaConf(a)
           r == ReadSta(b, f)
<1>1. Len(a.ssid) = 10 /\ AfterQuote(Value(Quoted(a.ssid)), 10) = a.ssid
  <2>1. a.ssid \in Text /\ Len(a.ssid) = 10
    BY DEF WifiSTAArgs, Fits, ValidSTA, Text
  <2> QED
    BY <2>1, ReadText
<1>2. f.ssid = a.ssid /\ (f.key_mgmt = "NONE" <=> ~ Secured(a))
  BY DEF WpaConf, Secured
<1>3. r.ssid = a.ssid
  BY <1>1, <1>2 DEF ReadSta
<1>4. CASE Secured(a)
  <2>1. a.psk \in Text /\ Len(a.psk) = 9
    BY <1>4 DEF WifiSTAArgs, Fits, ValidSTA, Text
  <2>2. AfterQuote(Value(Quoted(a.psk)), 9) = a.psk
    BY <2>1, ReadText
  <2>3. f.psk = a.psk /\ f.key_mgmt = a.auth
    BY <1>4 DEF WpaConf
  <2>4. r = a
    BY <1>2, <1>3, <1>4, <2>2, <2>3 DEF ReadSta, WifiSTAArgs
  <2> QED
    BY <2>4 DEF WrittenSta
<1>5. CASE ~ Secured(a)
  <2>1. r.psk = b.psk /\ r.auth = "other" /\ r \in [ssid: Text, psk: Text, auth: {"other"}]
    BY <1>2, <1>3, <1>5 DEF ReadSta, WifiSTAArgs
  <2>2. r \in WifiSTAArgs /\ ~ Secured(r)
    BY <2>1 DEF WifiSTAArgs, Auths, Secured
  <2>3. Fits(r) /\ ValidSTA(r)
    BY <1>1, <1>3, <2>2, <1>5 DEF Fits, ValidSTA
  <2>4. WpaConf(r) = WpaConf(a)
    <3>1. a.auth = "other"
      BY <1>5 DEF WifiSTAArgs, Auths, Secured
    <3> QED
      BY <1>3, <1>5, <2>1, <2>2, <3>1 DEF WpaConf, Pairwise
  <2> QED
    BY <2>2, <2>3, <2>4 DEF WrittenSta
<1> QED
  BY <1>4, <1>5

LEMMA ClearedFits == ClearedSta \in WifiSTAArgs /\ Fits(ClearedSta) /\ ~ ValidSTA(ClearedSta)
BY DEF ClearedSta, WifiSTAArgs, Text, Auths, Fits, Secured, ValidSTA

(* A file that a structure was written to can be read.                     *)
LEMMA WrittenReadable ==
  ASSUME AllFit, NEW a \in WifiSTAArgs, Fits(a), ValidSTA(a)
  PROVE  ReadableSta(WpaConf(a))
<1>1. WpaConf(a) \notin {NoFile, Empty}
  BY DEF AllFit
<1> QED
  BY <1>1, ReadWrittenSta, ClearedFits DEF ReadableSta, WrittenSta, AllFit

-----------------------------------------------------------------------------
(* The invariant holds in the first state and is kept by every step.       *)
LEMMA InitInvSta ==
  ASSUME AllFit, InitSta
  PROVE  SettingsInvSta
BY ClearedFits DEF InitSta, SettingsInvSta, ReadsBackSta

LEMMA GetKeepsSta ==
  ASSUME AllFit, SettingsInvSta, GetSTAConfig
  PROVE  SettingsInvSta'
<1>1. PICK b \in {ClearedSta, staStruct} :
        /\ staConf # NoFile
        /\ staStruct' = IF staConf = Empty THEN b ELSE ReadSta(b, staConf)
        /\ staOrigin' = IF staConf = Empty /\ b # ClearedSta THEN staOrigin ELSE "read"
        /\ UNCHANGED staConf
  BY DEF GetSTAConfig
<1>2. b \in WifiSTAArgs /\ Fits(b)
  BY ClearedFits DEF SettingsInvSta
<1>3. CASE staConf = Empty
  <2>1. staStruct' = b /\ staConf' = Empty
    BY <1>1, <1>3
  <2>2. b = ClearedSta => staOrigin' = "read" /\ WrittenSta(b) = Empty
    BY <1>1, <1>3, ClearedFits DEF WrittenSta
  <2>3. b # ClearedSta => staStruct' = staStruct /\ staOrigin' = staOrigin
    BY <1>1, <1>3, <2>1
  <2>4. staStruct' \in WifiSTAArgs /\ Fits(staStruct)' /\ staOrigin' \in {"edited", "opened", "read"}
    BY <1>2, <2>1, <2>2, <2>3 DEF SettingsInvSta
  <2>5. staOrigin' # "edited" => staConf' = WrittenSta(staStruct)'
    BY <1>3, <2>1, <2>2, <2>3 DEF SettingsInvSta
  <2> QED
    BY <2>1, <2>4, <2>5 DEF SettingsInvSta, ReadsBackSta
<1>4. CASE staConf # Empty
  <2> DEFINE a == ReadSta(ClearedSta, staConf)
  <2>1. a \in WifiSTAArgs /\ Fits(a) /\ ValidSTA(a) /\ WpaConf(a) = staConf
    BY <1>1, <1>4 DEF SettingsInvSta, ReadableSta
  <2> HIDE DEF a
  <2>2. staStruct' \in WifiSTAArgs /\ Fits(staStruct)' /\ WrittenSta(staStruct)' = staConf
    BY <1>1, <1>2, <1>4, <2>1, ReadWrittenSta
  <2>3. staOrigin' = "read" /\ staConf' = staConf
    BY <1>1, <1>4
  <2>4. ValidSTA(staStruct)' /\ WpaConf(staStruct)' = staConf
    BY <2>2, <1>4 DEF WrittenSta
  <2> QED
    BY <2>2, <2>3, <2>4 DEF SettingsInvSta, ReadsBackSta, ReadableSta
<1> QED
  BY <1>3, <1>4

LEMMA NextInvSta ==
  ASSUME AllFit, SettingsInvSta, [NextSta]_staVars
  PROVE  SettingsInvSta'
<1>1. ASSUME EditSta PROVE SettingsInvSta'
  <2>1. staStruct' \in WifiSTAArgs /\ Fits(staStruct)'
    BY <1>1, StaSettingsAssumption DEF EditSta, AllFit
  <2> QED
    BY <1>1, <2>1 DEF EditSta, SettingsInvSta, ReadsBackSta
<1>2. ASSUME STAInit PROVE SettingsInvSta'
  <2>1. DefaultSsidSta \in Text /\ DefaultPskSta \in Text
    BY DEF AllFit, DefaultSsidSta, DefaultPskSta, Text
  <2>2. Len(DefaultSsidSta) = 10 /\ Len(DefaultPskSta) = 9
    BY DEF DefaultSsidSta, DefaultPskSta
  <2>3. staStruct' \in WifiSTAArgs /\ Fits(staStruct)'
    BY <1>2, <2>1, <2>2 DEF STAInit, WifiSTAArgs, Auths, Fits
  <2> QED
    BY <1>2, <2>3 DEF STAInit, SettingsInvSta, ReadsBackSta
<1>3. ASSUME OpenSTA PROVE SettingsInvSta'
  <2>1. CASE ValidSTA(staStruct)
    <3>1. staConf' = WpaConf(staStruct) /\ staOrigin' = "opened" /\ staStruct' = staStruct
      BY <1>3, <2>1 DEF OpenSTA, WrittenSta
    <3>2. ReadableSta(staConf')
      BY <2>1, <3>1, WrittenReadable DEF SettingsInvSta
    <3>3. WrittenSta(staStruct) = staConf'
      BY <2>1, <3>1 DEF WrittenSta
    <3> QED
      BY <3>1, <3>2, <3>3 DEF SettingsInvSta, ReadsBackSta
  <2>2. CASE ~ ValidSTA(staStruct)
    BY <1>3, <2>2 DEF OpenSTA, WrittenSta, SettingsInvSta, ReadsBackSta
  <2> QED
    BY <2>1, <2>2
<1>4. ASSUME GetSTAConfig PROVE SettingsInvSta'
  BY <1>4, GetKeepsSta
<1>5. CASE UNCHANGED staVars
  BY <1>5 DEF staVars, SettingsInvSta, ReadsBackSta
<1> QED
  BY <1>1, <1>2, <1>3, <1>4, <1>5 DEF NextSta

(* What is read back is what was written, for every set of arguments that  *)
(* fit (utils.c:23-38).                                                    *)
THEOREM StaReadsBack ==
  ASSUME AllFit
  PROVE  SpecSta => []SettingsInvSta
<1>1. InitSta => SettingsInvSta
  BY InitInvSta
<1>2. SettingsInvSta /\ [NextSta]_staVars => SettingsInvSta'
  BY NextInvSta
<1> QED
  BY <1>1, <1>2, PTL DEF SpecSta

(* Reading the settings back and opening with them does not change the     *)
(* network, however often (wifi.c:23-66, utils.c:18-39).                   *)
THEOREM StaReopenKeeps ==
  ASSUME AllFit
  PROVE  SpecSta => ReopenKeepsSta
<1>1. SettingsInvSta => [OpenSTA /\ staOrigin # "edited" => staConf' = staConf]_staVars
  BY DEF SettingsInvSta, OpenSTA
<1> QED
  BY <1>1, StaReadsBack, PTL DEF ReopenKeepsSta

-----------------------------------------------------------------------------
(* Access-point mode. *)

(* The precondition on the characters, and what a file is not.             *)
AllPlain ==
  /\ "=" \notin Chars
  /\ {"I", "o", "T", "-", "l", "u", "c", "k", "e", "r", "1", "2", "3"} \subseteq Chars
  /\ NoFile # Empty
  /\ \A a \in WifiAPArgs : HostapdConf(a) \notin {NoFile, Empty}

(* A file that says what an open with a would write, but for the vendor.   *)
FileOf(f, a) ==
  /\ f \notin {NoFile, Empty} /\ f.vendor \in Seq(Int)
  /\ ValidAP(a) /\ SameButVendor(HostapdConf(a), f)

LEMMA SameParts ==
  ASSUME AllPlain, NEW a \in WifiAPArgs, NEW f, FileOf(f, a)
  PROVE  /\ f.ssid = a.ssid /\ f.interface = InterfaceOf(a)
         /\ f.hw_mode = HwModeOf(a) /\ f.channel = ChannelOf(a)
         /\ f.security = IF Secured(a)
                         THEN {[auth |-> a.auth, wpa |-> WpaOf(a), psk |-> a.psk]}
                         ELSE {}
         /\ \A x : [f EXCEPT !.vendor = x] = [HostapdConf(a) EXCEPT !.vendor = x]
<1>1. HostapdConf(a) # Empty
  BY DEF AllPlain
<1>2. HostapdConf(a) = [f EXCEPT !.vendor = HostapdConf(a).vendor]
  BY <1>1 DEF FileOf, SameButVendor
<1> QED
  BY <1>2 DEF HostapdConf

(* The defaults are defaults of themselves. *)
LEMMA Defaults ==
  ASSUME NEW a \in WifiAPArgs, NEW r \in WifiAPArgs,
         r.interface = InterfaceOf(a), r.hw_mode = HwModeOf(a),
         r.channel = ChannelOf(a)
  PROVE  /\ InterfaceOf(r) = InterfaceOf(a) /\ HwModeOf(r) = HwModeOf(a)
         /\ ChannelOf(r) = ChannelOf(a)
<1>1. InterfaceOf(r) = InterfaceOf(a)
  <2>1. DefaultInterface # << >>
    BY DEF DefaultInterface
  <2> QED
    BY <2>1 DEF InterfaceOf
<1>2. HwModeOf(a) \in {"a", "g"} /\ HwModeOf(r) = HwModeOf(a)
  BY DEF HwModeOf
<1>3. ChannelOf(r) = ChannelOf(a)
  BY <1>2 DEF ChannelOf, Channels5G, Channels24G
<1> QED
  BY <1>1, <1>2, <1>3

(* Structures that agree on what a file shows have the same file.          *)
LEMMA SameFile ==
  ASSUME NEW a \in WifiAPArgs, NEW r \in WifiAPArgs, ValidAP(a), r.ssid = a.ssid,
         InterfaceOf(r) = InterfaceOf(a), HwModeOf(r) = HwModeOf(a),
         ChannelOf(r) = ChannelOf(a), Secured(r) <=> Secured(a),
         Secured(a) => r.auth = a.auth /\ r.psk = a.psk /\ WpaOf(r) = WpaOf(a)
  PROVE  /\ ValidAP(r)
         /\ HostapdConf(r) = [HostapdConf(a) EXCEPT !.vendor = HostapdConf(r).vendor]
<1>1. ValidAP(r)
  BY DEF ValidAP
<1> DEFINE S(x) == IF Secured(x) THEN {[auth |-> x.auth, wpa |-> WpaOf(x), psk |-> x.psk]}
                                 ELSE {}
           H(x, y) == [ssid |-> x.ssid, interface |-> InterfaceOf(x), security |-> y,
                       vendor |-> <<207, 4, x.vendorCode>>,
                       hw_mode |-> HwModeOf(x), channel |-> ChannelOf(x)]
<1>2. S(r) = S(a)
  OBVIOUS
<1>3. HostapdConf(r) = H(r, S(r)) /\ HostapdConf(a) = H(a, S(a))
  BY DEF HostapdConf
<1> HIDE DEF S
<1>4. H(r, S(a)) = [H(a, S(a)) EXCEPT !.vendor = H(r, S(a)).vendor]
  OBVIOUS
<1> QED
  BY <1>1, <1>2, <1>3, <1>4

LEMMA TypesOf ==
  ASSUME AllPlain, NEW a \in WifiAPArgs
  PROVE  /\ InterfaceOf(a) \in Text /\ WpaOf(a) \in Int
         /\ HwModeOf(a) \in {"a", "g"} /\ ChannelOf(a) \in Int
<1>1. DefaultInterface \in Text
  BY ApSettingsAssumption DEF DefaultInterface, Text
<1>2. HwModeOf(a) \in {"a", "g"}
  BY DEF HwModeOf
<1>3. InterfaceOf(a) \in Text
  BY <1>1 DEF InterfaceOf, WifiAPArgs
<1>4. a.wpa \in Int /\ a.channel \in Int
  BY DEF WifiAPArgs
<1>5. WpaOf(a) \in Int
  BY <1>4 DEF WpaOf
<1>6. ChannelOf(a) \in Int
  BY <1>4 DEF ChannelOf
<1> QED
  BY <1>2, <1>3, <1>5, <1>6

(* Reading the file of a structure gives one that has the same file, unless *)
(* the file is of an open network and the structure read into is not.       *)
LEMMA ReadWrittenAp ==
  ASSUME AllPlain, NEW a \in WifiAPArgs, NEW f, FileOf(f, a),
         NEW b \in WifiAPArgs, Secured(b) => Secured(a)
  PROVE  LET r == ReadAp(b, f)
         IN r \in WifiAPArgs /\ FileOf(f, r)
<1> DEFINE r == ReadAp(b, f)
<1>1. a.ssid \in Text /\ a.psk \in Text /\ InterfaceOf(a) \in Text /\ a.auth \in Auths
  BY TypesOf DEF WifiAPArgs
<1>2. \A t \in Text : Value(t) = t
  BY ValuePlain DEF AllPlain, Text
<1>3. WpaOf(a) \in Int /\ HwModeOf(a) \in {"a", "g"} /\ ChannelOf(a) \in Int
  BY TypesOf
<1>4. /\ f.ssid = a.ssid /\ f.interface = InterfaceOf(a)
      /\ f.hw_mode = HwModeOf(a) /\ f.channel = ChannelOf(a)
      /\ f.vendor \in Seq(Int)
  BY SameParts DEF FileOf
<1>5. CASE Secured(a)
  <2> DEFINE s == [auth |-> a.auth, wpa |-> WpaOf(a), psk |-> a.psk]
  <2>1. f.security = {s}
    BY <1>5, SameParts
  <2>2. (CHOOSE x \in f.security : TRUE) = s /\ f.security # {}
    BY <2>1
  <2>3. r = [b EXCEPT !.ssid = a.ssid, !.interface = InterfaceOf(a),
                      !.vendor_elements = f.vendor, !.hw_mode = HwModeOf(a),
                      !.channel = ChannelOf(a), !.psk = a.psk, !.wpa = WpaOf(a),
                      !.auth = a.auth]
    <3>1. s.psk = a.psk /\ s.wpa = WpaOf(a) /\ s.auth = a.auth
      OBVIOUS
    <3> HIDE DEF s
    <3>2. Value(f.ssid) = a.ssid /\ Value(f.interface) = InterfaceOf(a) /\ Value(s.psk) = a.psk
      BY <1>1, <1>2, <1>4, <3>1
    <3> QED
      BY <1>4, <2>2, <3>1, <3>2 DEF ReadAp
  <2>4. /\ r \in WifiAPArgs /\ r.ssid = a.ssid /\ r.interface = InterfaceOf(a)
        /\ r.hw_mode = HwModeOf(a) /\ r.channel = ChannelOf(a)
        /\ r.psk = a.psk /\ r.wpa = WpaOf(a) /\ r.auth = a.auth
    BY <1>1, <1>3, <1>4, <2>3 DEF WifiAPArgs
  <2> HIDE DEF r
  <2>5. WpaOf(r) = WpaOf(a)
    BY <2>4 DEF WpaOf, WifiAPArgs
  <2>6. Secured(r)
    BY <1>5, <2>4 DEF Secured
  <2>7. ValidAP(r) /\ HostapdConf(r) = [HostapdConf(a) EXCEPT !.vendor = HostapdConf(r).vendor]
    BY <1>5, <2>4, <2>5, <2>6, Defaults, SameFile DEF FileOf
  <2>8. SameButVendor(HostapdConf(r), f)
    BY <2>4, <2>7, SameParts DEF SameButVendor, FileOf, AllPlain
  <2> QED
    BY <2>4, <2>7, <2>8 DEF FileOf, r
<1>6. CASE ~ Secured(a)
  <2>1. f.security = {}
    BY <1>6, SameParts
  <2>2. r = [b EXCEPT !.ssid = a.ssid, !.interface = InterfaceOf(a),
                      !.vendor_elements = f.vendor, !.hw_mode = HwModeOf(a),
                      !.channel = ChannelOf(a)]
    BY <1>1, <1>2, <1>4, <2>1 DEF ReadAp
  <2>3. /\ r \in WifiAPArgs /\ r.ssid = a.ssid /\ r.interface = InterfaceOf(a)
        /\ r.hw_mode = HwModeOf(a) /\ r.channel = ChannelOf(a) /\ r.auth = b.auth
    BY <1>1, <1>3, <1>4, <2>2 DEF WifiAPArgs
  <2> HIDE DEF r
  <2>4. ~ Secured(r)
    BY <1>6, <2>3 DEF Secured
  <2>5. ValidAP(r) /\ HostapdConf(r) = [HostapdConf(a) EXCEPT !.vendor = HostapdConf(r).vendor]
    BY <1>6, <2>3, <2>4, Defaults, SameFile DEF FileOf
  <2>6. SameButVendor(HostapdConf(r), f)
    BY <2>3, <2>5, SameParts DEF SameButVendor, FileOf, AllPlain
  <2> QED
    BY <2>3, <2>5, <2>6 DEF FileOf, r
<1> QED
  BY <1>5, <1>6

(* Whatever the structure read into.                                       *)
LEMMA ReadStruct ==
  ASSUME AllPlain, NEW a \in WifiAPArgs, NEW f, FileOf(f, a), NEW b \in WifiAPArgs
  PROVE  ReadAp(b, f) \in WifiAPArgs
<1>1. CASE Secured(b) => Secured(a)
  BY <1>1, ReadWrittenAp
<1>2. CASE ~ Secured(a)
  <2> DEFINE c == [b EXCEPT !.auth = "other"]
  <2>1. c \in WifiAPArgs /\ ~ Secured(c)
    BY DEF WifiAPArgs, Auths, Secured
  <2>2. ReadAp(c, f) \in WifiAPArgs
    BY <2>1, ReadWrittenAp
  <2>3. f.security = {}
    BY <1>2, SameParts
  <2>4. ReadAp(b, f) = [ReadAp(c, f) EXCEPT !.auth = b.auth]
    BY <2>3 DEF ReadAp, WifiAPArgs
  <2> QED
    BY <2>2, <2>4 DEF WifiAPArgs
<1> QED
  BY <1>1, <1>2

LEMMA ClearedOK == ClearedAp \in WifiAPArgs /\ ~ ValidAP(ClearedAp) /\ ~ Secured(ClearedAp)
BY DEF ClearedAp, WifiAPArgs, Text, Auths, ValidAP, Secured

LEMMA OwnFile ==
  ASSUME AllPlain, NEW a \in WifiAPArgs, ValidAP(a)
  PROVE  FileOf(HostapdConf(a), a)
<1>1. HostapdConf(a) \notin {NoFile, Empty}
  BY DEF AllPlain
<1>2. HostapdConf(a).vendor \in Seq(Int)
  <2>1. a.vendorCode \in Int
    BY DEF WifiAPArgs
  <2> QED
    BY <2>1 DEF HostapdConf
<1>3. HostapdConf(a) = [HostapdConf(a) EXCEPT !.vendor = HostapdConf(a).vendor]
  BY DEF HostapdConf
<1> QED
  BY <1>1, <1>2, <1>3 DEF FileOf, SameButVendor

(* A file that can be read back is one that a structure stands for.        *)
LEMMA ReadableFile ==
  ASSUME AllPlain, NEW f, f \notin {NoFile, Empty}
  PROVE  ReadableAp(f) <=> \E a \in WifiAPArgs : FileOf(f, a)
<1>1. ASSUME NEW a \in WifiAPArgs, FileOf(f, a) PROVE ReadableAp(f)
  BY <1>1, ReadWrittenAp, ClearedOK DEF ReadableAp, FileOf
<1>2. ASSUME ReadableAp(f) PROVE FileOf(f, ReadAp(ClearedAp, f)) /\ ReadAp(ClearedAp, f) \in WifiAPArgs
  <2>1. ReadAp(ClearedAp, f).vendor_elements = f.vendor
    BY DEF ReadAp, ClearedAp
  <2>2. f.vendor \in Seq(Int)
    BY <1>2, <2>1 DEF ReadableAp, WifiAPArgs
  <2> QED
    BY <1>2, <2>2 DEF ReadableAp, FileOf
<1> QED
  BY <1>1, <1>2

(* The corrections of an open change nothing that the file shows.          *)
LEMMA CorrectedFile ==
  ASSUME NEW a \in WifiAPArgs, ValidAP(a)
  PROVE  /\ Corrected(a) \in WifiAPArgs /\ ValidAP(Corrected(a))
         /\ HostapdConf(Corrected(a)) = HostapdConf(a)
<1> DEFINE r == Corrected(a)
<1>1. WpaOf(a) \in Int /\ HwModeOf(a) \in {"a", "g"}
  <2>1. a.wpa \in Int
    BY DEF WifiAPArgs
  <2> QED
    BY <2>1 DEF WpaOf, HwModeOf
<1>2. r = [a EXCEPT !.wpa = IF Secured(a) THEN WpaOf(a) ELSE @, !.hw_mode = HwModeOf(a)]
  BY DEF Corrected, ValidAP
<1>3. r \in WifiAPArgs
  BY <1>1, <1>2 DEF WifiAPArgs
<1>4. /\ r.ssid = a.ssid /\ r.psk = a.psk /\ r.auth = a.auth
      /\ r.interface = a.interface /\ r.channel = a.channel
      /\ r.vendorCode = a.vendorCode /\ r.hw_mode = HwModeOf(a)
      /\ r.wpa = IF Secured(a) THEN WpaOf(a) ELSE a.wpa
  BY <1>2 DEF WifiAPArgs
<1> HIDE DEF r
<1>5. Secured(r) <=> Secured(a)
  BY <1>4 DEF Secured
<1>6. InterfaceOf(r) = InterfaceOf(a) /\ HwModeOf(r) = HwModeOf(a)
  BY <1>1, <1>4 DEF InterfaceOf, HwModeOf
<1>7. ChannelOf(r) = ChannelOf(a)
  BY <1>4, <1>6 DEF ChannelOf
<1>8. Secured(a) => WpaOf(r) = WpaOf(a)
  <2>1. a.wpa \in Int
    BY DEF WifiAPArgs
  <2> QED
    BY <2>1, <1>4 DEF WpaOf
<1>9. /\ ValidAP(r)
      /\ HostapdConf(r) = [HostapdConf(a) EXCEPT !.vendor = HostapdConf(r).vendor]
  BY <1>3, <1>4, <1>5, <1>6, <1>7, <1>8, SameFile
<1>10. HostapdConf(r).vendor = HostapdConf(a).vendor
  BY <1>4 DEF HostapdConf
<1>11. [HostapdConf(a) EXCEPT !.vendor = HostapdConf(a).vendor] = HostapdConf(a)
  BY DEF HostapdConf
<1> QED
  BY <1>3, <1>9, <1>10, <1>11 DEF r

LEMMA CorrectedStruct ==
  ASSUME NEW a \in WifiAPArgs
  PROVE  Corrected(a) \in WifiAPArgs
<1>1. WpaOf(a) \in Int /\ HwModeOf(a) \in {"a", "g"}
  <2>1. a.wpa \in Int
    BY DEF WifiAPArgs
  <2>2. WpaOf(a) \in Int
    BY <2>1 DEF WpaOf
  <2> QED
    BY <2>2 DEF HwModeOf
<1> DEFINE w == IF a.ssid # << >> /\ Secured(a) THEN WpaOf(a) ELSE a.wpa
           h == IF ValidAP(a) THEN HwModeOf(a) ELSE a.hw_mode
<1>2. w \in Int /\ h \in {"", "a", "b", "g"}
  <2>1. a.wpa \in Int /\ a.hw_mode \in {"", "a", "b", "g"}
    BY DEF WifiAPArgs
  <2> QED
    BY <1>1, <2>1
<1>3. Corrected(a) = [a EXCEPT !.wpa = w, !.hw_mode = h]
  BY Zenon DEF Corrected
<1> HIDE DEF w, h
<1> QED
  BY <1>2, <1>3 DEF WifiAPArgs

-----------------------------------------------------------------------------
LEMMA OpenKeeps ==
  ASSUME AllPlain, SettingsInvAp, OpenAP
  PROVE  SettingsInvAp'
<1>1. apStruct \in WifiAPArgs /\ Corrected(apStruct) \in WifiAPArgs
  BY CorrectedStruct DEF SettingsInvAp
<1>2. CASE ValidAP(apStruct)
  <2>1. apConf' = HostapdConf(apStruct) /\ apOrigin' = "opened" /\ apStruct' = Corrected(apStruct)
    BY <1>2 DEF OpenAP, WrittenAp
  <2>2. ReadableAp(apConf') /\ apConf' \notin {NoFile, Empty}
    BY <1>1, <1>2, <2>1, OwnFile, ReadableFile DEF AllPlain
  <2>3. apConf' = WrittenAp(apStruct)'
    BY <1>1, <1>2, <2>1, CorrectedFile DEF WrittenAp
  <2> QED
    BY <1>1, <2>1, <2>2, <2>3 DEF SettingsInvAp, ReadsBackAp
<1>3. CASE ~ ValidAP(apStruct)
  <2>1. apConf' = Empty /\ apOrigin' = "edited" /\ apStruct' = Corrected(apStruct)
    BY <1>3 DEF OpenAP, WrittenAp
  <2> QED
    BY <1>1, <2>1 DEF SettingsInvAp, ReadsBackAp
<1> QED
  BY <1>2, <1>3

(* An open that nothing was edited for is of the file.                     *)
LEMMA OriginFile ==
  ASSUME AllPlain, SettingsInvAp, apOrigin # "edited", apConf # Empty
  PROVE  FileOf(apConf, apStruct)
<1>1. apConf \notin {NoFile, Empty} /\ ReadableAp(apConf) /\ apStruct \in WifiAPArgs
  BY DEF SettingsInvAp
<1>2. apConf.vendor \in Seq(Int)
  BY <1>1, ReadableFile DEF FileOf
<1>3. SameButVendor(WrittenAp(apStruct), apConf)
  <2>1. CASE apOrigin = "opened"
    <3>1. apConf = WrittenAp(apStruct)
      BY <2>1 DEF SettingsInvAp
    <3>2. apConf = HostapdConf(apStruct) /\ ValidAP(apStruct)
      BY <1>1, <3>1 DEF WrittenAp
    <3> QED
      BY <1>1, <3>1, <3>2, OwnFile DEF FileOf
  <2>2. CASE apOrigin = "read"
    BY <2>2 DEF SettingsInvAp, ReadsBackAp
  <2> QED
    BY <2>1, <2>2 DEF SettingsInvAp
<1>4. ValidAP(apStruct)
  BY <1>1, <1>3 DEF WrittenAp, SameButVendor
<1> QED
  BY <1>1, <1>2, <1>3, <1>4 DEF FileOf, WrittenAp

LEMMA GetKeepsAp ==
  ASSUME AllPlain, SettingsInvAp, GetAPConfig
  PROVE  SettingsInvAp'
<1>1. PICK b \in {ClearedAp, apStruct} :
        /\ apConf # NoFile
        /\ apStruct' = IF apConf = Empty THEN b ELSE ReadAp(b, apConf)
        /\ apOrigin' = IF apOrigin = "edited" /\ b # ClearedAp THEN "edited" ELSE "read"
        /\ UNCHANGED apConf
  BY DEF GetAPConfig
<1>2. b \in WifiAPArgs /\ apStruct \in WifiAPArgs
  BY ClearedOK DEF SettingsInvAp
<1>3. CASE apConf = Empty
  <2>1. apStruct' = b /\ apConf' = Empty
    BY <1>1, <1>3
  <2>2. b # ClearedAp /\ apOrigin # "edited" => ~ ValidAP(b)
    <3> SUFFICES ASSUME b = apStruct, apOrigin # "edited" PROVE ~ ValidAP(apStruct)
      OBVIOUS
    <3>1. SameButVendor(WrittenAp(apStruct), Empty)
      BY <1>3 DEF SettingsInvAp, ReadsBackAp, SameButVendor
    <3>2. WrittenAp(apStruct) = Empty
      BY <3>1 DEF SameButVendor
    <3> QED
      BY <1>2, <3>2 DEF WrittenAp, AllPlain
  <2>3. apOrigin' = "read" => WrittenAp(apStruct)' = Empty
    BY <1>1, <2>1, <2>2, ClearedOK DEF WrittenAp
  <2>4. ReadsBackAp'
    BY <2>1, <2>3 DEF ReadsBackAp, SameButVendor
  <2>5. apOrigin' \in {"edited", "read"}
    BY <1>1
  <2> QED
    BY <1>1, <1>2, <2>1, <2>4, <2>5 DEF SettingsInvAp
<1>4. CASE apConf # Empty
  <2>1. apConf \notin {NoFile, Empty} /\ ReadableAp(apConf)
    BY <1>1, <1>4 DEF SettingsInvAp
  <2>2. PICK a \in WifiAPArgs : FileOf(apConf, a)
    BY <2>1, ReadableFile
  <2>3. apStruct' = ReadAp(b, apConf) /\ apConf' = apConf /\ apOrigin' \in {"edited", "read"}
    BY <1>1, <1>4
  <2>4. CASE b = ClearedAp \/ apOrigin # "edited"
    <3>1. \E x \in WifiAPArgs : FileOf(apConf, x) /\ (Secured(b) => Secured(x))
      <4>1. CASE b = ClearedAp
        BY <2>2, <4>1, ClearedOK
      <4>2. CASE b # ClearedAp
        BY <1>1, <1>2, <1>4, <2>4, <4>2, OriginFile
      <4> QED
        BY <4>1, <4>2
    <3>2. ReadAp(b, apConf) \in WifiAPArgs /\ FileOf(apConf, ReadAp(b, apConf))
      BY <1>2, <3>1, ReadWrittenAp
    <3>3. SameButVendor(WrittenAp(apStruct), apConf)'
      BY <2>3, <3>2 DEF FileOf, WrittenAp, SameButVendor
    <3> QED
      BY <2>1, <2>3, <3>2, <3>3 DEF SettingsInvAp, ReadsBackAp, ReadableAp
  <2>5. CASE b # ClearedAp /\ apOrigin = "edited"
    <3>1. apOrigin' = "edited"
      BY <1>1, <2>5
    <3>2. ReadAp(b, apConf) \in WifiAPArgs
      BY <1>2, <2>2, ReadStruct
    <3> QED
      BY <2>1, <2>3, <3>1, <3>2 DEF SettingsInvAp, ReadsBackAp, ReadableAp
  <2> QED
    BY <2>4, <2>5
<1> QED
  BY <1>3, <1>4

-----------------------------------------------------------------------------
LEMMA InitInvAp ==
  ASSUME AllPlain, InitAp
  PROVE  SettingsInvAp
BY ClearedOK DEF InitAp, SettingsInvAp, ReadsBackAp

LEMMA NextInvAp ==
  ASSUME AllPlain, SettingsInvAp, [NextAp]_apVars
  PROVE  SettingsInvAp'
<1>1. ASSUME EditAp PROVE SettingsInvAp'
  <2>1. apStruct' \in WifiAPArgs
    BY <1>1, ApSettingsAssumption DEF EditAp
  <2> QED
    BY <1>1, <2>1 DEF EditAp, SettingsInvAp, ReadsBackAp
<1>2. ASSUME APInit PROVE SettingsInvAp'
  <2>1. DefaultSsidAp \in Text /\ DefaultPskAp \in Text /\ DefaultInterface \in Text
    BY ApSettingsAssumption DEF AllPlain, DefaultSsidAp, DefaultPskAp, DefaultInterface, Text
  <2>2. DefaultVendorCode \in Int
    BY SMT DEF DefaultVendorCode
  <2>3. apStruct.vendor_elements \in Seq(Int)
    BY DEF SettingsInvAp, WifiAPArgs
  <2>4. apStruct' \in WifiAPArgs
    BY <1>2, <2>1, <2>2, <2>3 DEF APInit, WifiAPArgs, Auths
  <2> QED
    BY <1>2, <2>4 DEF APInit, SettingsInvAp, ReadsBackAp
<1>3. ASSUME OpenAP PROVE SettingsInvAp'
  BY <1>3, OpenKeeps
<1>4. ASSUME GetAPConfig PROVE SettingsInvAp'
  BY <1>4, GetKeepsAp
<1>5. CASE UNCHANGED apVars
  BY <1>5 DEF apVars, SettingsInvAp, ReadsBackAp
<1> QED
  BY <1>1, <1>2, <1>3, <1>4, <1>5 DEF NextAp

(* What is read back is what was written, for every set of arguments       *)
(* without a `=` (utils.c:54-108).                                         *)
THEOREM ApReadsBack ==
  ASSUME AllPlain
  PROVE  SpecAp => []SettingsInvAp
<1>1. InitAp => SettingsInvAp
  BY InitInvAp
<1>2. SettingsInvAp /\ [NextAp]_apVars => SettingsInvAp'
  BY NextInvAp
<1> QED
  BY <1>1, <1>2, PTL DEF SpecAp

(* Opening again with corrected arguments, or with what was read back,     *)
(* writes the same file (wifi.c:94-234).                                   *)
THEOREM ApReopenKeeps ==
  ASSUME AllPlain
  PROVE  SpecAp => ReopenKeepsAp
<1>1. SettingsInvAp => [OpenAP => FileKeptAp]_apVars
  BY DEF SettingsInvAp, ReadsBackAp, OpenAP, FileKeptAp
<1> QED
  BY <1>1, ApReadsBack, PTL DEF ReopenKeepsAp

=============================================================================
