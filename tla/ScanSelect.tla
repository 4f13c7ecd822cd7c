----------------------------- MODULE ScanSelect -----------------------------
(***************************************************************************)
(* What an application does with a scan: wifiGetAPInformation              *)
(* (src/src/wifi.c:461-485) on the structure that wifiGetAPList filled.    *)
(* It returns a pointer into that structure, which the application keeps   *)
(* while it scans again.  The loop is one step here, for it reads nothing  *)
(* but the structure, and that is its caller's.                            *)
(***************************************************************************)
EXTENDS ScanList

CONSTANTS
  Ssids,      (* names an application asks for                             *)
  NULL

ASSUME ScanSelectAssumption ==
  /\ NULL \notin 0..MaxResults-1
  /\ << >> \notin Ssids
  /\ \A a \in APs : a.level \in Int

VARIABLE
  pick        (* Callers -> [ssid, at, shows]: the name last asked for,    *)
              (* the index of the entry the pointer is to, or NULL, and    *)
              (* what that entry showed then                               *)

selectVars == <<vars, pick>>

NoPick == [ssid |-> << >>, at |-> NULL, shows |-> Blank]

Abs(n) == IF n < 0 THEN -n ELSE n

(* The loop, over the first n entries: the index of the entry it is at,    *)
(* and the level to beat.                                                  *)
Search(r, name) ==
  LET from[n \in 0..MaxResults] ==
        IF n = 0 THEN [at |-> NULL, level |-> -1000]
        ELSE LET e == r.entries[n - 1] IN
             IF e.ssid = name /\ Abs(e.rssi) < Abs(from[n - 1].level)
             THEN [at |-> n - 1, level |-> e.rssi] ELSE from[n - 1]
  IN  from

(* Variant: the bound of the loop is one too low. *)
FoundButLast(r, name) == Search(r, name)[IF r.count < 1 THEN 0 ELSE r.count - 1].at

Found(r, name) == Search(r, name)[IF r.count < 0 THEN 0 ELSE r.count].at

(* An application looks at a structure after a scan that returned 0.  With *)
(* a count beyond the array, to which a structure used again can get, the  *)
(* loop would read outside of it.                                          *)
GetAPInformation(c) ==
  /\ pc[c] = "idle" /\ ret[c] = "ok"
  /\ results[c].count <= MaxResults
  /\ \E name \in Ssids :
       LET at == Found(results[c], name) IN
       pick' = [pick EXCEPT ![c] =
                  [ssid |-> name, at |-> at,
                   shows |-> IF at = NULL THEN Blank ELSE results[c].entries[at]]]
  /\ UNCHANGED vars

(* A pointer is good until its structure is filled again; the application  *)
(* forgets it when a scan has returned 0, or with the structure.           *)
Gone(c) == \/ pc[c] = "parse" /\ pc'[c] = "idle"
           \/ pc[c] = "idle" /\ results'[c] # results[c]
Forget(c) == pick' = IF Gone(c) THEN [pick EXCEPT ![c] = NoPick] ELSE pick

SelectInit == Init /\ pick = [c \in Callers |-> NoPick]

SelectNext ==
  \/ \E c \in Callers : GetAPInformation(c)
  \/ \E c \in Callers : (GetAPList(c) \/ RejectNull(c) \/ CallerStep(c)) /\ Forget(c)
  \/ SupplicantStep /\ UNCHANGED pick

SelectSpec == SelectInit /\ [][SelectNext]_selectVars

-----------------------------------------------------------------------------
(* From the air to the application: after a scan that nothing disturbed    *)
(* the entry found is that of the strongest access point of that name the  *)
(* supplicant knows, and none is found only if it knows none               *)
(* (includes/wifi.h:212-215).  The code does so for levels of a magnitude  *)
(* below 1000 (wifi.c:464), and if no name has a `=` in it, where the scan *)
(* cuts it (wifi.c:404).                                                   *)
Candidates(name) == {k \in DOMAIN table : table[k].ssid = name}
InRange(name) ==
  /\ \A k \in DOMAIN table : Plain(table[k].ssid)
  /\ \A k \in Candidates(name) : Abs(table[k].level) < 1000
StrongestInRange ==
  \A c \in Callers :
    LET name == pick[c].ssid
        at == pick[c].at
    IN
    Done(c) /\ ~ disturbed[c] /\ up /\ entry[c].count = 0 /\ name # << >> /\ InRange(name) =>
      IF Candidates(name) = {} THEN at = NULL
      ELSE /\ at # NULL
           /\ \E k \in Candidates(name) :
                /\ Shows(results[c].entries[at], table[k])
                /\ \A l \in Candidates(name) : Abs(table[k].level) <= Abs(table[l].level)

(* A pointer shows what it was returned for until a scan has filled the    *)
(* structure again: a scan that fails leaves every entry as it was         *)
(* (wifi.c:377-382, 479).                                                  *)
PointerKept ==
  \A c \in Callers : pc[c] = "idle" /\ pick[c].at # NULL =>
     results[c].entries[pick[c].at] = pick[c].shows

=============================================================================
