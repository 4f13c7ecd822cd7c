------------------------------ MODULE ScanList ------------------------------
(***************************************************************************)
(* wifiGetAPList (src/src/wifi.c:353-459): ask wpa_supplicant for a scan,  *)
(* count the lines of its list of access points, query them one by one by  *)
(* their index in that list, and parse the answers.                        *)
(*                                                                         *)
(* The list is the supplicant's and changes as access points come and go,  *)
(* between any two commands; a scan that was asked for shows when it is    *)
(* finished, as such changes.  One process scans at a time: the two files  *)
(* under /tmp are the same for all, and none locks them.  The result       *)
(* structure is the caller's: it comes with what its memory held, or with  *)
(* the results of the call before.                                         *)
(***************************************************************************)
EXTENDS Integers, FiniteSets, SequencesExt, KeyValue

CONSTANTS
  Callers,    (* the process that links the library, if any                *)
  APs,        (* what the supplicant can know of an access point           *)
  MaxTable,   (* bound: how many it knows at once                          *)
  MaxResults, (* entries of a result structure (MAX_WIFI_SCAN_RESULT_SIZE) *)
  MaxFds,     (* streams a process may have open at once                   *)
  Reused,     (* bound: the counts with which a structure is used again    *)
  Garbage,    (* the counts a new structure may come with                  *)
  Changes,    (* subset of {"supplicant", "bss"}: what changes by itself   *)
  DebugLevel  (* LIBWIFI_DEBUG_LEVEL the library was built with            *)

ASSUME ScanAssumption ==
  /\ MaxTable \in Nat /\ MaxResults \in Nat \ {0} /\ MaxFds \in Nat
  /\ Garbage \subseteq Int /\ Changes \subseteq {"supplicant", "bss"}
  /\ DebugLevel \in Nat

ASSUME OneCaller == \A b, c \in Callers : b = c

ASSUME NamesAssumption == \A a \in APs : a.ssid \in Seq(Range(a.ssid))

VARIABLES
  up,         (* a supplicant answers on wlan0                             *)
  table,      (* its access points, in the order it numbers them           *)
  listing,    (* lines of AP_LIST_PATH                                     *)
  bssFile,    (* the answers in BSS_LIST_PATH: each is what the supplicant *)
              (* knew of an access point, and Lines many lines long        *)
  pc,         (* Callers -> next step of the call                          *)
  results,    (* Callers -> [count, entries]                               *)
  i,          (* Callers -> index of the next query                        *)
  unread,     (* Callers -> the answers the parse has still to read        *)
  field,      (* Callers -> the next line of the first of them             *)
  number,     (* Callers -> the entry in work                              *)
  fds,        (* Callers -> streams open                                   *)
  ret,        (* Callers -> "none", "ok" for 0, "fail" for -1              *)
  entry,      (* history: count and open streams on entry, whether the     *)
              (* structure was all zero then, lines listed                 *)
  disturbed   (* history: the supplicant or its list changed since entry   *)

supplicant == <<up, table, disturbed>>
parse == <<unread, field, number>>
vars == <<supplicant, listing, bssFile, pc, results, i, parse, fds, ret, entry>>

VENDOR_ELEMENT_ID == 207

(* The lines `wpa_cli bss` prints that the parse looks at, in their order. *)
Lines == <<"bssid", "freq", "level", "ie", "ssid">>

Blank == [bssid |-> "", freq |-> 0, rssi |-> 0, vendorCode |-> 0, ssid |-> << >>]

(* A structure the caller has just declared: zeroed, or with what its      *)
(* memory held.                                                            *)
NewResults(n) ==
  [count |-> n, entries |-> [k \in 0..MaxResults-1 |-> [Blank EXCEPT !.vendorCode = n]]]

(* The code in the last vendor element among an access point's elements.   *)
VendorElements(ies) == {n \in DOMAIN ies : ies[n].id = VENDOR_ELEMENT_ID}
LastCode(ies) == ies[Max(VendorElements(ies))].code

(* Variant: the id of an element is not looked at. *)
CodeOfAnyElement(old, ies) == IF ies = << >> THEN old ELSE Last(ies).code

(* Each vendor element overwrites the code of the entry; if there is none  *)
(* it stays what it was.                                                   *)
VendorCode(old, ies) == IF VendorElements(ies) = {} THEN old ELSE LastCode(ies)

Init ==
  /\ up = TRUE /\ table = << >>
  /\ listing = 0 /\ bssFile = << >>
  /\ pc = [c \in Callers |-> "idle"]
  /\ \E n \in Garbage : results = [c \in Callers |-> NewResults(n)]
  /\ i = [c \in Callers |-> 0]
  /\ unread = [c \in Callers |-> << >>]
  /\ field = [c \in Callers |-> 1]
  /\ number = [c \in Callers |-> 0]
  /\ fds = [c \in Callers |-> 0]
  /\ ret = [c \in Callers |-> "none"]
  /\ entry = [c \in Callers |-> [count |-> 0, fds |-> 0, listed |-> 0, zeroed |-> FALSE]]
  /\ disturbed = [c \in Callers |-> FALSE]

-----------------------------------------------------------------------------
(* The supplicant.  One access point has one place in its list; a new one  *)
(* goes to the end.                                                        *)

Disturb == disturbed' = [c \in Callers |-> TRUE]

BssSeen(a) ==
  /\ "bss" \in Changes /\ up
  /\ IF \E k \in DOMAIN table : table[k].bssid = a.bssid
     THEN table' = [k \in DOMAIN table |->
                      IF table[k].bssid = a.bssid THEN a ELSE table[k]]
     ELSE Len(table) < MaxTable /\ table' = Append(table, a)
  /\ Disturb
  /\ UNCHANGED <<up, listing, bssFile, pc, results, i, parse, fds, ret, entry>>

BssLost(k) ==
  /\ "bss" \in Changes
  /\ table' = RemoveAt(table, k)
  /\ Disturb
  /\ UNCHANGED <<up, listing, bssFile, pc, results, i, parse, fds, ret, entry>>

SupplicantComesOrGoes ==
  /\ "supplicant" \in Changes
  /\ up' = ~ up
  /\ table' = << >>
  /\ Disturb
  /\ UNCHANGED <<listing, bssFile, pc, results, i, parse, fds, ret, entry>>

-----------------------------------------------------------------------------
Goto(c, to) == pc' = [pc EXCEPT ![c] = to]

Return(c, r) == Goto(c, "idle") /\ ret' = [ret EXCEPT ![c] = r]

(* The caller hands in a new structure, the one of its last call, or NULL. *)
(* It may have opened streams of its own since.                            *)
GetAPList(c) ==
  /\ pc[c] = "idle"
  /\ \/ results[c].count \in Reused /\ UNCHANGED results
     \/ \E n \in Garbage : results' = [results EXCEPT ![c] = NewResults(n)]
  /\ \E n \in fds[c]..MaxFds : fds' = [fds EXCEPT ![c] = n]
  /\ Goto(c, "scan")
  /\ ret' = [ret EXCEPT ![c] = "none"]
  /\ entry' = [entry EXCEPT ![c] = [count |-> results'[c].count, fds |-> fds'[c], listed |-> 0,
                                    zeroed |-> results'[c] = NewResults(0)]]
  /\ disturbed' = [disturbed EXCEPT ![c] = FALSE]
  /\ UNCHANGED <<up, table, listing, bssFile, i, parse>>

RejectNull(c) ==
  /\ pc[c] = "idle"
  /\ Return(c, "fail")
  /\ entry' = [entry EXCEPT ![c].fds = fds[c]]
  /\ UNCHANGED <<supplicant, listing, bssFile, results, i, parse, fds>>

(* `wpa_cli scan` only asks for it; `scan_result` answers at once, with a  *)
(* header and one line for each access point known by now, or nothing.     *)
ScanResult(c) ==
  /\ pc[c] = "scan"
  /\ listing' = IF up THEN Len(table) + 1 ELSE 0
  /\ entry' = [entry EXCEPT ![c].listed = IF up THEN Len(table) ELSE 0]
  /\ Goto(c, "fopen")
  /\ UNCHANGED <<supplicant, bssFile, results, i, parse, fds, ret>>

FopenList(c) ==
  /\ pc[c] = "fopen"
  /\ IF fds[c] < MaxFds
     THEN /\ fds' = [fds EXCEPT ![c] = @ + 1]
          /\ Goto(c, "fopen_bss")
          /\ UNCHANGED ret
     ELSE Return(c, "fail") /\ UNCHANGED fds
  /\ UNCHANGED <<supplicant, listing, bssFile, results, i, parse, entry>>

(* Variant: opened for appending, which keeps what is in it. *)
FopenBssAppend(c) ==
  /\ pc[c] = "fopen_bss"
  /\ IF fds[c] < MaxFds
     THEN /\ fds' = [fds EXCEPT ![c] = @ + 1]
          /\ results' = [results EXCEPT ![c].entries[0].bssid = ""]
          /\ Goto(c, "count")
          /\ UNCHANGED <<ret, bssFile>>
     ELSE Return(c, "fail") /\ UNCHANGED <<fds, bssFile, results>>
  /\ UNCHANGED <<supplicant, listing, i, parse, entry>>

(* Variant: the structure is cleared before the file is opened. *)
FopenBssClearFirst(c) ==
  /\ pc[c] = "fopen_bss"
  /\ results' = [results EXCEPT ![c].entries[0].bssid = ""]
  /\ IF fds[c] < MaxFds
     THEN /\ fds' = [fds EXCEPT ![c] = @ + 1]
          /\ bssFile' = << >>
          /\ Goto(c, "count")
          /\ UNCHANGED ret
     ELSE Return(c, "fail") /\ UNCHANGED <<fds, bssFile>>
  /\ UNCHANGED <<supplicant, listing, i, parse, entry>>

(* "w+r" empties the file.  memset(results, 0, sizeof(results)) clears as  *)
(* many bytes as a pointer has, the first ones of the first bssid.  If     *)
(* fopen fails the other stream stays open.                                *)
FopenBss(c) ==
  /\ pc[c] = "fopen_bss"
  /\ IF fds[c] < MaxFds
     THEN /\ fds' = [fds EXCEPT ![c] = @ + 1]
          /\ bssFile' = << >>
          /\ results' = [results EXCEPT ![c].entries[0].bssid = ""]
          /\ Goto(c, "count")
          /\ UNCHANGED ret
     ELSE Return(c, "fail") /\ UNCHANGED <<fds, bssFile, results>>
  /\ UNCHANGED <<supplicant, listing, i, parse, entry>>

(* Variant: without the fclose (wifi.c:388). *)
CountLinesKeepOpen(c) ==
  /\ pc[c] = "count"
  /\ results' = [results EXCEPT ![c].count =
                   @ + listing - (IF DebugLevel >= 1 THEN 1 ELSE 0)]
  /\ i' = [i EXCEPT ![c] = 0]
  /\ Goto(c, "query")
  /\ UNCHANGED <<supplicant, listing, bssFile, parse, fds, ret, entry>>

(* One for each line on top of what the count was; and one less for the    *)
(* header, in a statement that is an argument of LIBWIFI_WARN_PRINT.       *)
CountLines(c) ==
  /\ pc[c] = "count"
  /\ results' = [results EXCEPT ![c].count =
                   @ + listing - (IF DebugLevel >= 1 THEN 1 ELSE 0)]
  /\ fds' = [fds EXCEPT ![c] = @ - 1]
  /\ i' = [i EXCEPT ![c] = 0]
  /\ Goto(c, "query")
  /\ UNCHANGED <<supplicant, listing, bssFile, parse, ret, entry>>

(* `wpa_cli bss i` appends what the supplicant knows of the i-th access    *)
(* point by now, or nothing when there is none.                            *)
QueryBss(c) ==
  /\ pc[c] = "query"
  /\ i[c] < results[c].count
  /\ bssFile' = IF i[c] + 1 \in DOMAIN table THEN Append(bssFile, table[i[c] + 1])
                                             ELSE bssFile
  /\ i' = [i EXCEPT ![c] = @ + 1]
  /\ UNCHANGED <<supplicant, listing, pc, results, parse, fds, ret, entry>>

(* The file is read from its beginning in one go: fgets reads it piece by  *)
(* piece, and looks for more at its end, but while one process scans       *)
(* nobody else writes it.                                                  *)
ReadBss(c) ==
  /\ pc[c] = "query"
  /\ i[c] >= results[c].count
  /\ unread' = [unread EXCEPT ![c] = bssFile]
  /\ number' = [number EXCEPT ![c] = 0]
  /\ field' = [field EXCEPT ![c] = 1]
  /\ Goto(c, "parse")
  /\ UNCHANGED <<supplicant, listing, bssFile, results, i, fds, ret, entry>>

(* What a line of the answer for a changes in the entry in work.  A name   *)
(* is cut at its first `=`.                                                *)
Take(e, line, a) ==
  CASE line = "bssid" -> [e EXCEPT !.bssid = a.bssid]
    [] line = "freq"  -> [e EXCEPT !.freq = a.freq]
    [] line = "level" -> [e EXCEPT !.rssi = a.level]
    [] line = "ie"    -> [e EXCEPT !.vendorCode = VendorCode(@, a.ies)]
    [] line = "ssid"  -> [e EXCEPT !.ssid = Value(a.ssid)]

(* Variant: the next entry begins at each bssid. *)
CompletesEarly(line) == line = "bssid"

(* The line after which the next entry begins. *)
Completes(line) == line = "ssid"

ParseLine(c) ==
  LET a == Head(unread[c])
      line == Lines[field[c]]
  IN
  /\ pc[c] = "parse"
  /\ unread[c] # << >>
  /\ results' = [results EXCEPT ![c].entries[number[c]] = Take(@, line, a)]
  /\ number' = [number EXCEPT ![c] = IF Completes(line) THEN @ + 1 ELSE @]
  /\ IF field[c] = Len(Lines)
     THEN /\ unread' = [unread EXCEPT ![c] = Tail(@)]
          /\ field' = [field EXCEPT ![c] = 1]
     ELSE /\ field' = [field EXCEPT ![c] = @ + 1]
          /\ UNCHANGED unread
  /\ UNCHANGED <<supplicant, listing, bssFile, pc, i, fds, ret, entry>>

(* Variant: the first stream, which is closed by now, is closed again. *)
FcloseBoth(c) ==
  /\ pc[c] = "parse"
  /\ unread[c] = << >>
  /\ fds' = [fds EXCEPT ![c] = @ - 2]
  /\ Return(c, "ok")
  /\ UNCHANGED <<supplicant, listing, bssFile, results, i, parse, entry>>

(* The end of the file: close it and return 0. *)
FcloseBss(c) ==
  /\ pc[c] = "parse"
  /\ unread[c] = << >>
  /\ fds' = [fds EXCEPT ![c] = @ - 1]
  /\ Return(c, "ok")
  /\ UNCHANGED <<supplicant, listing, bssFile, results, i, parse, entry>>

-----------------------------------------------------------------------------
CallerStep(c) ==
  \/ ScanResult(c) \/ FopenList(c) \/ FopenBss(c) \/ CountLines(c)
  \/ QueryBss(c) \/ ReadBss(c) \/ ParseLine(c) \/ FcloseBss(c)

SupplicantStep ==
  \/ \E a \in APs : BssSeen(a)
  \/ \E k \in DOMAIN table : BssLost(k)
  \/ SupplicantComesOrGoes

Next ==
  \/ \E c \in Callers : GetAPList(c) \/ RejectNull(c) \/ CallerStep(c)
  \/ SupplicantStep

Spec == Init /\ [][Next]_vars

-----------------------------------------------------------------------------
Labels == {"idle", "scan", "fopen", "fopen_bss", "count", "query", "parse"}
VendorCodes ==
  {0} \cup Garbage \cup {LastCode(a.ies) : a \in {b \in APs : VendorElements(b.ies) # {}}}
Entry == [bssid: {a.bssid : a \in APs} \cup {""}, freq: {a.freq : a \in APs} \cup {0},
          rssi: {a.level : a \in APs} \cup {0}, vendorCode: VendorCodes,
          ssid: {Value(a.ssid) : a \in APs} \cup {<< >>}]
Structure == [count: Int, entries: [0..MaxResults-1 -> Entry]]
EntryState == [count: Int, fds: 0..MaxFds, listed: 0..MaxTable, zeroed: BOOLEAN]

(* Types of the state of a scan. *)
TypeOK ==
  /\ up \in BOOLEAN /\ table \in Seq(APs) /\ Len(table) <= MaxTable
  /\ listing \in 0..MaxTable+1
  /\ bssFile \in Seq(APs)
  /\ pc \in [Callers -> Labels]
  /\ results \in [Callers -> Structure]
  /\ i \in [Callers -> Nat]
  /\ unread \in [Callers -> Seq(APs)]
  /\ field \in [Callers -> 1..Len(Lines)]
  /\ number \in [Callers -> Nat]
  /\ fds \in [Callers -> 0..MaxFds]
  /\ ret \in [Callers -> {"none", "ok", "fail"}]
  /\ entry \in [Callers -> EntryState]
  /\ disturbed \in [Callers -> BOOLEAN]

Done(c) == pc[c] = "idle" /\ ret[c] = "ok"
Shows(e, a) ==
  e.bssid = a.bssid /\ e.freq = a.freq /\ e.rssi = a.level /\ e.ssid = Value(a.ssid)
Plain(name) == \A k \in DOMAIN name : name[k] # "="
Written(c) == {k \in 0..MaxResults-1 : k < number[c]}

(* When nothing changes meanwhile, and the count was 0 on entry, the call  *)
(* returns exactly the supplicant's list (wifi.c:383-449), the names that  *)
(* have a `=` in them as far as that (wifi.c:404).                         *)
QuietScanExact ==
  \A c \in Callers : Done(c) /\ ~ disturbed[c] /\ up /\ entry[c].count = 0 =>
    /\ results[c].count = Len(table)
    /\ \A k \in DOMAIN table : 
         /\ Shows(results[c].entries[k - 1], table[k])
         /\ Plain(table[k].ssid) => results[c].entries[k - 1].ssid = table[k].ssid

(* Whatever the supplicant's list does meanwhile, no entry mixes two       *)
(* access points: the lines of one answer all go to the same entry         *)
(* (wifi.c:406-449).                                                       *)
EntriesWhole ==
  \A c \in Callers : Done(c) =>
    \A k \in Written(c) : \E a \in APs : Shows(results[c].entries[k], a)

(* In a structure that was zeroed, the vendor code of an entry is that of  *)
(* the same access point: only the call that fills an entry for the first  *)
(* time starts from 0 (wifi.c:426).                                        *)
OwnCode(a) == IF VendorElements(a.ies) = {} THEN 0 ELSE LastCode(a.ies)
VendorOwn ==
  \A c \in Callers : Done(c) /\ entry[c].zeroed =>
    \A k \in Written(c) : \E a \in APs :
       /\ Shows(results[c].entries[k], a)
       /\ results[c].entries[k].vendorCode = OwnCode(a)

(* Nothing is written beyond the count the caller is told (wifi.c:393-411).*)
WithinCount ==
  \A c \in Callers : Done(c) => number[c] = 0 \/ number[c] <= results[c].count

(* Nothing is written beyond the array (wifi.c:386, 408-447), as long as   *)
(* the supplicant knows no more access points than the array has entries.  *)
WithinArray ==
  \A c \in Callers : pc[c] = "parse" /\ unread[c] # << >> => number[c] < MaxResults

(* A call that returns 0 has closed its two streams, and one that returns  *)
(* -1 has lost at most one (wifi.c:376-380, 388, 450).                     *)
ListStreams ==
  \A c \in Callers : pc[c] = "idle" /\ ret[c] # "none" =>
    fds[c] - entry[c].fds \in 0..(IF ret[c] = "fail" THEN 1 ELSE 0)

(* count is the number of scanned access points (includes/wifi.h:202).     *)
CountIsListed ==
  \A c \in Callers : Done(c) => results[c].count = entry[c].listed

=============================================================================
