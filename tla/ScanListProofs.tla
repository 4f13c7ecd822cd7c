--------------------------- MODULE ScanListProofs ---------------------------
(***************************************************************************)
(* What ScanList promises, for every set of access points, table size and  *)
(* result size; and at the end what ScanSelect promises of a pointer, and  *)
(* of the access point it is to.                                           *)
(***************************************************************************)
EXTENDS ScanSelect, KeyValueProofs, FiniteSetTheorems

USE DEF VENDOR_ELEMENT_ID

-----------------------------------------------------------------------------
(* Types, and the streams a call has open at each of its steps. *)

StreamsAt(c) ==
  LET own == fds[c] - entry[c].fds IN
  /\ pc[c] \in {"scan", "fopen"} => own = 0
  /\ pc[c] \in {"fopen_bss", "query", "parse"} => own = 1
  /\ pc[c] = "count" => own = 2
  /\ pc[c] # "idle" => ret[c] = "none"
  /\ pc[c] = "idle" /\ ret[c] = "ok" => own = 0
  /\ pc[c] = "idle" /\ ret[c] = "fail" => own \in {0, 1}

IInv == TypeOK /\ \A c \in Callers : StreamsAt(c)

LEMMA LinesOK ==
  /\ Len(Lines) = 5
  /\ Lines[1] = "bssid" /\ Lines[2] = "freq" /\ Lines[3] = "level"
  /\ Lines[4] = "ie" /\ Lines[5] = "ssid"
BY DEF Lines

LEMMA EmptyOK == Len(<< >>) = 0
OBVIOUS

LEMMA Shift == \A m, l \in Nat : (m + 1) + (l - 1) = m + l
OBVIOUS

LEMMA BlankOK ==
  ASSUME NEW n \in Garbage \cup {0}
  PROVE  NewResults(n) \in Structure
<1>1. [Blank EXCEPT !.vendorCode = n] \in Entry
  BY DEF Blank, Entry, VendorCodes
<1>2. QED
  BY <1>1, ScanAssumption DEF NewResults, Structure

(* The entry a line goes to stays an entry. *)
LEMMA TakeOK ==
  ASSUME NEW e \in Entry, NEW a \in APs, NEW f \in 1..Len(Lines)
  PROVE  Take(e, Lines[f], a) \in Entry
<1>1. f \in 1..5
  BY LinesOK
<1>2. CASE f = 1
  BY <1>2, LinesOK DEF Take, Entry
<1>3. CASE f = 2
  BY <1>3, LinesOK DEF Take, Entry
<1>4. CASE f = 3
  BY <1>4, LinesOK DEF Take, Entry
<1>5. CASE f = 4
  <2>1. VendorCode(e.vendorCode, a.ies) \in VendorCodes
    BY DEF VendorCode, VendorCodes, Entry
  <2>2. QED
    BY <1>5, <2>1, LinesOK DEF Take, Entry
<1>6. CASE f = 5
  BY <1>6, LinesOK DEF Take, Entry
<1>7. QED
  BY <1>1, <1>2, <1>3, <1>4, <1>5, <1>6

LEMMA ClearOK ==
  ASSUME NEW e \in Entry PROVE [e EXCEPT !.bssid = ""] \in Entry
BY DEF Entry

LEMMA InitOK == Init => IInv
<1> SUFFICES ASSUME Init PROVE IInv
  OBVIOUS
<1>1. PICK n \in Garbage : results = [c \in Callers |-> NewResults(n)]
  BY DEF Init
<1>2. results \in [Callers -> Structure]
  BY <1>1, BlankOK
<1>3. QED
  BY <1>2, ScanAssumption, LinesOK DEF Init, IInv, TypeOK, StreamsAt, Labels, EntryState

(* The supplicant's table keeps its type and its bound. *)
LEMMA SupplicantTypes ==
  ASSUME IInv, SupplicantStep
  PROVE  /\ up' \in BOOLEAN /\ table' \in Seq(APs) /\ Len(table') <= MaxTable
         /\ disturbed' \in [Callers -> BOOLEAN]
         /\ UNCHANGED <<listing, bssFile, pc, results, i, parse, fds, ret, entry>>
<1> USE ScanAssumption DEF IInv, TypeOK
<1>1. ASSUME NEW a \in APs, BssSeen(a)
      PROVE  table' \in Seq(APs) /\ Len(table') <= MaxTable
  <2>1. CASE \E k \in DOMAIN table : table[k].bssid = a.bssid
    <3>1. table' = [k \in 1..Len(table) |-> IF table[k].bssid = a.bssid THEN a ELSE table[k]]
      BY <1>1, <2>1 DEF BssSeen
    <3>2. \A k \in 1..Len(table) : table[k] \in APs
      OBVIOUS
    <3>3. table' \in [1..Len(table) -> APs] /\ Len(table) \in Nat
      BY <3>1, <3>2
    <3>4. table' \in Seq(APs) /\ Len(table') = Len(table)
      BY <3>1, <3>2, <3>3
    <3>5. QED
      BY <3>4
  <2>2. CASE ~ \E k \in DOMAIN table : table[k].bssid = a.bssid
    <3>1. table' = Append(table, a) /\ Len(table) < MaxTable
      BY <1>1, <2>2 DEF BssSeen
    <3>2. QED
      BY <3>1
  <2>3. QED
    BY <2>1, <2>2
<1>2. ASSUME NEW k \in DOMAIN table, BssLost(k)
      PROVE  table' \in Seq(APs) /\ Len(table') <= MaxTable
  BY <1>2 DEF BssLost, RemoveAt
<1>3. CASE SupplicantComesOrGoes
  BY <1>3 DEF SupplicantComesOrGoes, Disturb
<1>4. QED
  BY <1>1, <1>2, <1>3 DEF SupplicantStep, BssSeen, BssLost, Disturb

(* A step of one caller leaves what the others have alone. *)
Others(c) ==
  \A b \in Callers \ {c} :
    /\ pc'[b] = pc[b] /\ results'[b] = results[b] /\ i'[b] = i[b]
    /\ unread'[b] = unread[b] /\ field'[b] = field[b] /\ number'[b] = number[b]
    /\ fds'[b] = fds[b] /\ ret'[b] = ret[b] /\ entry'[b] = entry[b]
    /\ disturbed'[b] = disturbed[b]

CallerActs(c) == GetAPList(c) \/ RejectNull(c) \/ CallerStep(c)

LEMMA OthersOK ==
  ASSUME IInv, NEW c \in Callers, CallerActs(c)
  PROVE  Others(c)
<1> USE DEF IInv, TypeOK, Others, supplicant, parse, Goto, Return
<1>1. CASE GetAPList(c)
  BY <1>1 DEF GetAPList
<1>2. CASE RejectNull(c) \/ ScanResult(c) \/ FopenList(c)
  BY <1>2 DEF RejectNull, ScanResult, FopenList
<1>3. CASE FopenBss(c) \/ CountLines(c) \/ QueryBss(c)
  BY <1>3 DEF FopenBss, CountLines, QueryBss
<1>4. CASE ReadBss(c) \/ FcloseBss(c)
  BY <1>4 DEF ReadBss, FcloseBss
<1>5. CASE ParseLine(c)
  BY <1>5 DEF ParseLine
<1>6. QED
  BY <1>1, <1>2, <1>3, <1>4, <1>5 DEF CallerActs, CallerStep

(* The streams of a call, and the steps it takes. *)
LEMMA CallerStreams ==
  ASSUME NEW c \in Callers, CallerActs(c), StreamsAt(c),
         pc \in [Callers -> Labels],
         ret \in [Callers -> {"none", "ok", "fail"}],
         fds \in [Callers -> 0..MaxFds],
         entry \in [Callers -> EntryState]
  PROVE  /\ StreamsAt(c)'
         /\ pc' \in [Callers -> Labels]
         /\ ret' \in [Callers -> {"none", "ok", "fail"}]
         /\ fds' \in [Callers -> 0..MaxFds]
<1> USE ScanAssumption DEF StreamsAt, Labels, EntryState, Goto, Return
<1>1. CASE GetAPList(c)
  BY <1>1 DEF GetAPList
<1>2. CASE RejectNull(c)
  BY <1>2 DEF RejectNull
<1>3. CASE ScanResult(c)
  BY <1>3 DEF ScanResult
<1>4. CASE FopenList(c)
  BY <1>4 DEF FopenList
<1>5. CASE FopenBss(c)
  <2>1. /\ pc[c] = "fopen_bss" /\ entry' = entry
        /\ IF fds[c] < MaxFds
           THEN fds' = [fds EXCEPT ![c] = @ + 1] /\ Goto(c, "count") /\ ret' = ret
           ELSE Return(c, "fail") /\ fds' = fds
    BY <1>5 DEF FopenBss
  <2>2. CASE fds[c] < MaxFds
    BY <2>1, <2>2
  <2>3. CASE ~ fds[c] < MaxFds
    BY <2>1, <2>3
  <2>4. QED
    BY <2>2, <2>3
<1>6. CASE CountLines(c)
  <2>1. /\ pc[c] = "count" /\ entry' = entry /\ ret' = ret
        /\ fds' = [fds EXCEPT ![c] = @ - 1] /\ Goto(c, "query")
    BY <1>6 DEF CountLines
  <2>2. QED
    BY <2>1
<1>7. CASE QueryBss(c)
  BY <1>7 DEF QueryBss
<1>8. CASE ReadBss(c)
  BY <1>8 DEF ReadBss
<1>9. CASE ParseLine(c)
  BY <1>9 DEF ParseLine
<1>10. CASE FcloseBss(c)
  BY <1>10 DEF FcloseBss
<1>11. QED
  BY <1>1, <1>2, <1>3, <1>4, <1>5, <1>6, <1>7, <1>8, <1>9, <1>10
  DEF CallerActs, CallerStep

(* What a caller leaves alone, and what it does to the files. *)
LEMMA CallerFiles ==
  ASSUME NEW c \in Callers, CallerActs(c),
         table \in Seq(APs), Len(table) <= MaxTable, bssFile \in Seq(APs),
         listing \in 0..MaxTable+1
  PROVE  /\ up' = up /\ table' = table
         /\ disturbed' \in {disturbed, [disturbed EXCEPT ![c] = FALSE]}
         /\ listing' \in 0..MaxTable+1
         /\ bssFile' \in Seq(APs)
<1>1. CASE ScanResult(c)
  <2>1. /\ up' = up /\ table' = table /\ disturbed' = disturbed /\ bssFile' = bssFile
        /\ listing' = IF up THEN Len(table) + 1 ELSE 0
    BY <1>1 DEF ScanResult, supplicant
  <2>2. Len(table) \in Nat
    OBVIOUS
  <2>3. QED
    BY <2>1, <2>2, ScanAssumption
<1>2. CASE QueryBss(c)
  <2>1. /\ up' = up /\ table' = table /\ disturbed' = disturbed /\ listing' = listing
        /\ \/ bssFile' = bssFile
           \/ \E k \in DOMAIN table : bssFile' = Append(bssFile, table[k])
    BY <1>2 DEF QueryBss, supplicant
  <2>2. \A k \in DOMAIN table : table[k] \in APs
    OBVIOUS
  <2>3. \A a \in APs : Append(bssFile, a) \in Seq(APs)
    OBVIOUS
  <2>4. bssFile' \in Seq(APs)
    BY <2>1, <2>2, <2>3
  <2>5. QED
    BY <2>1, <2>4
<1>3. CASE FopenBss(c)
  <2>1. /\ up' = up /\ table' = table /\ disturbed' = disturbed /\ listing' = listing
        /\ bssFile' = bssFile \/ bssFile' = << >>
    BY <1>3 DEF FopenBss, supplicant
  <2>2. << >> \in Seq(APs)
    OBVIOUS
  <2>3. QED
    BY <2>1, <2>2
<1>4. CASE GetAPList(c)
  BY <1>4 DEF GetAPList
<1>5. CASE ParseLine(c) \/ FcloseBss(c) \/ RejectNull(c) \/ FopenList(c) \/ CountLines(c) \/ ReadBss(c)
  BY <1>5 DEF ParseLine, FcloseBss, RejectNull, FopenList, CountLines, ReadBss, supplicant
<1>6. QED
  BY <1>1, <1>2, <1>3, <1>4, <1>5 DEF CallerActs, CallerStep

LEMMA EntryFields ==
  ASSUME NEW e \in EntryState, NEW n \in 0..MaxFds, NEW l \in 0..MaxTable
  PROVE  [e EXCEPT !.fds = n] \in EntryState /\ [e EXCEPT !.listed = l] \in EntryState
BY DEF EntryState

LEMMA CallerEntry ==
  ASSUME NEW c \in Callers, CallerActs(c),
         table \in Seq(APs), Len(table) <= MaxTable,
         entry \in [Callers -> EntryState], fds \in [Callers -> 0..MaxFds],
         fds' \in [Callers -> 0..MaxFds],
         results' \in [Callers -> Structure], i \in [Callers -> Nat]
  PROVE  entry' \in [Callers -> EntryState] /\ i' \in [Callers -> Nat]
<1>1. CASE GetAPList(c)
  <2> DEFINE e == [count |-> results'[c].count, fds |-> fds'[c], listed |-> 0,
                   zeroed |-> results'[c] = NewResults(0)]
  <2>1. results'[c].count \in Int
    BY DEF Structure
  <2>2. e \in EntryState
    BY <2>1, ScanAssumption DEF EntryState
  <2>3. entry' = [entry EXCEPT ![c] = e] /\ i' = i
    BY <1>1 DEF GetAPList
  <2> HIDE DEF e
  <2>4. QED
    BY <2>2, <2>3
<1>2. CASE RejectNull(c)
  <2>1. entry' = [entry EXCEPT ![c] = [entry[c] EXCEPT !.fds = fds[c]]] /\ i' = i
    BY <1>2 DEF RejectNull
  <2>2. [entry[c] EXCEPT !.fds = fds[c]] \in EntryState
    <3>1. fds[c] \in 0..MaxFds /\ 0 \in 0..MaxTable /\ entry[c] \in EntryState
      BY ScanAssumption
    <3>2. QED
      BY <3>1, EntryFields
  <2>3. QED
    BY <2>1, <2>2
<1>3. CASE ScanResult(c)
  <2> DEFINE l == IF up THEN Len(table) ELSE 0
  <2>1. l \in 0..MaxTable
    BY ScanAssumption
  <2>2. entry' = [entry EXCEPT ![c] = [entry[c] EXCEPT !.listed = l]] /\ i' = i
    BY <1>3 DEF ScanResult
  <2> HIDE DEF l
  <2>3. [entry[c] EXCEPT !.listed = l] \in EntryState
    BY <2>1, EntryFields, ScanAssumption
  <2>4. QED
    BY <2>2, <2>3
<1>4. CASE CountLines(c) \/ QueryBss(c)
  <2>1. /\ entry' = entry
        /\ \/ i' = [i EXCEPT ![c] = 0]
           \/ i' = [i EXCEPT ![c] = i[c] + 1]
    BY <1>4 DEF CountLines, QueryBss
  <2>2. i' \in [Callers -> Nat]
    <3>1. i[c] + 1 \in Nat /\ 0 \in Nat
      OBVIOUS
    <3>2. \A n \in Nat : [i EXCEPT ![c] = n] \in [Callers -> Nat]
      OBVIOUS
    <3>3. QED
      BY <2>1, <3>1, <3>2
  <2>3. entry' \in [Callers -> EntryState]
    BY <2>1
  <2>4. QED
    BY <2>2, <2>3
<1>5. CASE FopenList(c) \/ FopenBss(c) \/ ReadBss(c) \/ ParseLine(c) \/ FcloseBss(c)
  BY <1>5 DEF FopenList, FopenBss, ReadBss, ParseLine, FcloseBss
<1>6. QED
  BY <1>1, <1>2, <1>3, <1>4, <1>5 DEF CallerActs, CallerStep

(* The structure, and what is left to read. *)
LEMMA CallerResults ==
  ASSUME NEW c \in Callers, CallerActs(c), results \in [Callers -> Structure],
         listing \in 0..MaxTable+1, unread \in [Callers -> Seq(APs)],
         field \in [Callers -> 1..Len(Lines)], number \in [Callers -> Nat]
  PROVE  results' \in [Callers -> Structure]
<1>0. /\ results[c] \in Structure /\ results[c].count \in Int
      /\ results[c].entries \in [0..MaxResults-1 -> Entry]
  BY DEF Structure
<1>1. CASE GetAPList(c)
  <2>1. \/ results' = results
        \/ \E n \in Garbage : results' = [results EXCEPT ![c] = NewResults(n)]
    BY <1>1 DEF GetAPList
  <2>2. QED
    BY <2>1, BlankOK
<1>2. CASE RejectNull(c) \/ ScanResult(c) \/ FopenList(c) \/ QueryBss(c) \/ FcloseBss(c) \/ ReadBss(c)
  BY <1>2 DEF RejectNull, ScanResult, FopenList, QueryBss, FcloseBss, ReadBss
<1>3. ASSUME NEW k, NEW e \in Entry PROVE [results[c] EXCEPT !.entries[k] = e] \in Structure
  BY <1>0 DEF Structure
<1>4. CASE FopenBss(c)
  <2>1. results[c].entries[0] \in Entry
    BY <1>0, ScanAssumption
  <2>2. [results[c].entries[0] EXCEPT !.bssid = ""] \in Entry
    BY <2>1, ClearOK
  <2>3. \/ results' = results
        \/ results' = [results EXCEPT ![c] = [results[c] EXCEPT !.entries[0] =
                          [results[c].entries[0] EXCEPT !.bssid = ""]]]
    BY <1>4 DEF FopenBss
  <2>4. [results[c] EXCEPT !.entries[0] = [results[c].entries[0] EXCEPT !.bssid = ""]]
          \in Structure
    BY <1>3, <2>2
  <2>5. QED
    BY <2>3, <2>4
<1>5. CASE CountLines(c)
  <2>1. PICK n \in Int : results' = [results EXCEPT ![c] = [results[c] EXCEPT !.count = n]]
    <3> DEFINE n == results[c].count + listing - (IF DebugLevel >= 1 THEN 1 ELSE 0)
    <3>1. n \in Int
      BY <1>0, ScanAssumption
    <3>2. results' = [results EXCEPT ![c] = [results[c] EXCEPT !.count = n]]
      BY <1>5 DEF CountLines
    <3>3. QED
      BY <3>1, <3>2
  <2>2. [results[c] EXCEPT !.count = n] \in Structure
    BY <1>0 DEF Structure
  <2>3. QED
    BY <2>1, <2>2
<1>6. CASE ParseLine(c)
  <2> DEFINE a == Head(unread[c])
             e == Take(results[c].entries[number[c]], Lines[field[c]], a)
  <2>1. a \in APs
    BY <1>6 DEF ParseLine
  <2>2. results' = [results EXCEPT ![c] = [results[c] EXCEPT !.entries[number[c]] = e]]
    BY <1>6 DEF ParseLine
  <2>3. number[c] \in 0..MaxResults-1 => e \in Entry
    BY <1>0, <2>1, TakeOK
  <2> HIDE DEF e
  <2>4. CASE number[c] \in 0..MaxResults-1
    BY <1>3, <2>2, <2>3, <2>4
  <2>5. CASE number[c] \notin 0..MaxResults-1
    <3>1. [results[c] EXCEPT !.entries[number[c]] = e] = results[c]
      BY <1>0, <2>5 DEF Structure
    <3>2. QED
      BY <2>2, <3>1
  <2>6. QED
    BY <2>4, <2>5
<1>7. QED
  BY <1>1, <1>2, <1>4, <1>5, <1>6 DEF CallerActs, CallerStep

LEMMA CallerParse ==
  ASSUME NEW c \in Callers, CallerActs(c), bssFile \in Seq(APs),
         unread \in [Callers -> Seq(APs)],
         field \in [Callers -> 1..5], number \in [Callers -> Nat]
  PROVE  /\ unread' \in [Callers -> Seq(APs)]
         /\ field' \in [Callers -> 1..5]
         /\ number' \in [Callers -> Nat]
<1>1. CASE ReadBss(c)
  <2>1. /\ unread' = [unread EXCEPT ![c] = bssFile] /\ field' = [field EXCEPT ![c] = 1]
        /\ number' = [number EXCEPT ![c] = 0]
    BY <1>1 DEF ReadBss
  <2>2. QED
    BY <2>1
<1>2. CASE ParseLine(c)
  <2>1. unread[c] \in Seq(APs) /\ unread[c] # << >>
    BY <1>2 DEF ParseLine
  <2>2. Tail(unread[c]) \in Seq(APs)
    BY <2>1
  <2>3. number' = number \/ number' = [number EXCEPT ![c] = number[c] + 1]
    BY <1>2 DEF ParseLine
  <2>4. \/ unread' = [unread EXCEPT ![c] = Tail(unread[c])]
        \/ unread' = unread
    BY <1>2 DEF ParseLine
  <2>5. \/ field' = [field EXCEPT ![c] = 1]
        \/ field[c] + 1 \in 1..5 /\ field' = [field EXCEPT ![c] = field[c] + 1]
    <3>1. field[c] \in 1..5
      OBVIOUS
    <3>2. field[c] # 5 => field[c] + 1 \in 1..5
      BY <3>1
    <3>3. QED
      BY <1>2, <3>2, LinesOK DEF ParseLine
  <2>6. unread' \in [Callers -> Seq(APs)]
    BY <2>2, <2>4
  <2>7. number' \in [Callers -> Nat]
    BY <2>3
  <2>8. field' \in [Callers -> 1..5]
    BY <2>5
  <2>9. QED
    BY <2>6, <2>7, <2>8
<1>3. CASE \/ GetAPList(c) \/ RejectNull(c) \/ ScanResult(c) \/ FopenList(c) \/ FopenBss(c)
           \/ CountLines(c) \/ QueryBss(c) \/ FcloseBss(c)
  BY <1>3 DEF GetAPList, RejectNull, ScanResult, FopenList, FopenBss, CountLines, QueryBss,
              FcloseBss, parse
<1>4. QED
  BY <1>1, <1>2, <1>3 DEF CallerActs, CallerStep

LEMMA CallerTypes ==
  ASSUME IInv, NEW c \in Callers, CallerActs(c)
  PROVE  TypeOK' /\ StreamsAt(c)'
<1>1. /\ TypeOK /\ StreamsAt(c)
  BY DEF IInv
<1>2. results' \in [Callers -> Structure]
  BY <1>1, CallerResults DEF TypeOK
<1>3. /\ unread' \in [Callers -> Seq(APs)] /\ field' \in [Callers -> 1..Len(Lines)]
      /\ number' \in [Callers -> Nat]
  BY <1>1, CallerParse, LinesOK DEF TypeOK
<1>4. /\ StreamsAt(c)' /\ pc' \in [Callers -> Labels]
      /\ ret' \in [Callers -> {"none", "ok", "fail"}] /\ fds' \in [Callers -> 0..MaxFds]
  BY <1>1, CallerStreams DEF TypeOK
<1>5. entry' \in [Callers -> EntryState] /\ i' \in [Callers -> Nat]
  BY <1>1, <1>2, <1>4, CallerEntry DEF TypeOK
<1>6. /\ up' = up /\ table' = table
      /\ disturbed' \in {disturbed, [disturbed EXCEPT ![c] = FALSE]}
      /\ listing' \in 0..MaxTable+1 /\ bssFile' \in Seq(APs)
  BY <1>1, CallerFiles DEF TypeOK
<1>7. up' \in BOOLEAN /\ table' \in Seq(APs) /\ Len(table') <= MaxTable
  BY <1>1, <1>6 DEF TypeOK
<1>8. disturbed' \in [Callers -> BOOLEAN]
  BY <1>1, <1>6 DEF TypeOK
<1>9. QED
  BY <1>2, <1>3, <1>4, <1>5, <1>6, <1>7, <1>8 DEF TypeOK

LEMMA Inductive == IInv /\ [Next]_vars => IInv'
<1> SUFFICES ASSUME IInv, [Next]_vars PROVE IInv'
  OBVIOUS
<1>1. ASSUME NEW c \in Callers, CallerActs(c) PROVE IInv'
  <2>1. TypeOK' /\ StreamsAt(c)' /\ Others(c)
    BY <1>1, CallerTypes, OthersOK
  <2>2. ASSUME NEW b \in Callers \ {c} PROVE StreamsAt(b)'
    BY <2>1, <2>2 DEF IInv, StreamsAt, Others
  <2>3. QED
    BY <2>1, <2>2 DEF IInv
<1>2. CASE SupplicantStep
  BY <1>2, SupplicantTypes DEF IInv, TypeOK, StreamsAt, parse
<1>3. CASE UNCHANGED vars
  BY <1>3 DEF IInv, TypeOK, StreamsAt, vars, supplicant, parse
<1>4. QED
  BY <1>1, <1>2, <1>3 DEF Next, CallerActs

(* The state of a scan keeps its types, whatever the supplicant does and   *)
(* whatever structure the caller hands in (wifi.c:353-459).                *)
THEOREM ScanTypes == Spec => []TypeOK
<1>1. IInv => TypeOK
  BY DEF IInv
<1>2. QED
  BY <1>1, InitOK, Inductive, PTL DEF Spec

(* A call closes its streams, but for the one it loses when the second     *)
(* fopen fails (wifi.c:376-380, 388, 450).                                 *)
THEOREM ScanStreams == Spec => []ListStreams
<1>1. IInv => ListStreams
  <2> SUFFICES ASSUME IInv, NEW c \in Callers, pc[c] = "idle", ret[c] # "none"
               PROVE  fds[c] - entry[c].fds \in 0..(IF ret[c] = "fail" THEN 1 ELSE 0)
    BY DEF ListStreams
  <2>1. StreamsAt(c) /\ ret[c] \in {"ok", "fail"}
    BY DEF IInv, TypeOK
  <2>2. QED
    BY <2>1 DEF StreamsAt
<1>2. QED
  BY <1>1, InitOK, Inductive, PTL DEF Spec

-----------------------------------------------------------------------------
(* The entries: they do not depend on what the list does meanwhile. *)

(* What the lines before line f of the answer for a have left in an entry. *)
PartOf(e, a, f, zeroed) ==
  /\ f > 1 => e.bssid = a.bssid
  /\ f > 2 => e.freq = a.freq
  /\ f > 3 => e.rssi = a.level
  /\ f > 4 /\ zeroed => e.vendorCode = OwnCode(a)

WholeOf(e, a, zeroed) ==
  Shows(e, a) /\ (zeroed => e.vendorCode = OwnCode(a))

EntriesAt(c) ==
  /\ pc[c] = "parse" \/ Done(c) =>
       \A k \in Written(c) : \E a \in APs :
          WholeOf(results[c].entries[k], a, entry[c].zeroed)
  /\ pc[c] = "parse" =>
       /\ field[c] > 1 => unread[c] # << >>
       /\ number[c] \in 0..MaxResults-1 /\ unread[c] # << >> =>
            PartOf(results[c].entries[number[c]], Head(unread[c]), field[c], entry[c].zeroed)
  /\ pc[c] # "idle" /\ entry[c].zeroed =>
       \A k \in 0..MaxResults-1 :
          \/ pc[c] # "parse" \/ k > number[c] \/ (k = number[c] /\ field[c] < 5)
          => results[c].entries[k].vendorCode = 0

LEMMA TakeFields ==
  ASSUME NEW e \in Entry, NEW a, NEW line \in {"bssid", "freq", "level", "ie", "ssid"}
  PROVE  LET t == Take(e, line, a) IN
         /\ t.bssid = IF line = "bssid" THEN a.bssid ELSE e.bssid
         /\ t.freq = IF line = "freq" THEN a.freq ELSE e.freq
         /\ t.rssi = IF line = "level" THEN a.level ELSE e.rssi
         /\ t.vendorCode = IF line = "ie" THEN VendorCode(e.vendorCode, a.ies) ELSE e.vendorCode
         /\ t.ssid = IF line = "ssid" THEN Value(a.ssid) ELSE e.ssid
<1> DEFINE name == Value(a.ssid)
<1> HIDE DEF name
<1>1. Take(e, line, a) =
        CASE line = "bssid" -> [e EXCEPT !.bssid = a.bssid]
          [] line = "freq"  -> [e EXCEPT !.freq = a.freq]
          [] line = "level" -> [e EXCEPT !.rssi = a.level]
          [] line = "ie"    -> [e EXCEPT !.vendorCode = VendorCode(@, a.ies)]
          [] line = "ssid"  -> [e EXCEPT !.ssid = name]
  BY DEF Take, name
<1>2. QED
  BY <1>1 DEF Entry, name

LEMMA TakeStep ==
  ASSUME NEW e \in Entry, NEW a \in APs, NEW f \in 1..5, NEW z \in BOOLEAN,
         PartOf(e, a, f, z), z /\ f < 5 => e.vendorCode = 0
  PROVE  /\ f < 5 => PartOf(Take(e, Lines[f], a), a, f + 1, z)
         /\ f < 4 /\ z => Take(e, Lines[f], a).vendorCode = 0
         /\ f = 5 => WholeOf(Take(e, Lines[f], a), a, z)
<1> DEFINE t == Take(e, Lines[f], a)
<1> USE DEF PartOf, WholeOf, Shows
<1>1. Lines[f] \in {"bssid", "freq", "level", "ie", "ssid"}
  BY LinesOK
<1>2. /\ t.bssid = IF Lines[f] = "bssid" THEN a.bssid ELSE e.bssid
      /\ t.freq = IF Lines[f] = "freq" THEN a.freq ELSE e.freq
      /\ t.rssi = IF Lines[f] = "level" THEN a.level ELSE e.rssi
      /\ t.vendorCode = IF Lines[f] = "ie" THEN VendorCode(e.vendorCode, a.ies) ELSE e.vendorCode
      /\ t.ssid = IF Lines[f] = "ssid" THEN Value(a.ssid) ELSE e.ssid
  BY <1>1, TakeFields
<1> HIDE DEF t
<1>3. /\ f = 1 => Lines[f] = "bssid"
      /\ f = 2 => Lines[f] = "freq"
      /\ f = 3 => Lines[f] = "level"
      /\ f = 4 => Lines[f] = "ie"
      /\ f = 5 => Lines[f] = "ssid"
  BY LinesOK
<1>4. f < 4 /\ z => t.vendorCode = 0
  BY <1>2, <1>3
<1>5. f < 5 => PartOf(t, a, f + 1, z)
  <2>1. VendorCode(0, a.ies) = OwnCode(a)
    BY DEF VendorCode, OwnCode
  <2>2. QED
    BY <1>2, <1>3, <2>1
<1>6. f = 5 => WholeOf(t, a, z)
  BY <1>2, <1>3
<1>7. QED
  BY <1>4, <1>5, <1>6 DEF t

(* One line: the entry it goes to, and no other. *)
LEMMA ParseLineStep ==
  ASSUME TypeOK, NEW c \in Callers, ParseLine(c)
  PROVE  LET a == Head(unread[c])
             e == results[c].entries
             k == number[c]
         IN
         /\ a \in APs /\ pc[c] = "parse" /\ pc'[c] = "parse" /\ entry' = entry
         /\ unread[c] # << >>
         /\ results'[c].count = results[c].count
         /\ results'[c].entries = [e EXCEPT ![k] = Take(e[k], Lines[field[c]], a)]
         /\ field[c] < 5 => /\ field'[c] = field[c] + 1 /\ unread'[c] = unread[c]
                            /\ number'[c] = k
         /\ field[c] = 5 => /\ field'[c] = 1 /\ unread'[c] = Tail(unread[c])
                            /\ number'[c] = k + 1
<1>1. results[c] \in Structure /\ unread[c] \in Seq(APs) /\ field[c] \in 1..5
  BY LinesOK DEF TypeOK
<1>2. /\ Head(unread[c]) \in APs /\ pc[c] = "parse" /\ pc' = pc /\ entry' = entry
      /\ unread[c] # << >>
  BY <1>1 DEF ParseLine
<1>3. results' = [results EXCEPT ![c] = [results[c] EXCEPT !.entries[number[c]] =
         Take(results[c].entries[number[c]], Lines[field[c]], Head(unread[c]))]]
  BY DEF ParseLine
<1>4. /\ results'[c].count = results[c].count
      /\ results'[c].entries = [results[c].entries EXCEPT ![number[c]] =
           Take(results[c].entries[number[c]], Lines[field[c]], Head(unread[c]))]
  BY <1>1, <1>3 DEF TypeOK, Structure
<1>5. CASE field[c] < 5
  <2>1. ~ Completes(Lines[field[c]]) /\ field[c] # Len(Lines)
    BY <1>1, <1>5, LinesOK DEF Completes
  <2>2. /\ number' = [number EXCEPT ![c] = number[c]]
        /\ field' = [field EXCEPT ![c] = field[c] + 1] /\ unread' = unread
    BY <2>1 DEF ParseLine
  <2>3. QED
    BY <1>2, <1>4, <1>5, <2>2 DEF TypeOK
<1>6. CASE field[c] = 5
  <2>1. Completes(Lines[field[c]]) /\ field[c] = Len(Lines)
    BY <1>6, LinesOK DEF Completes
  <2>2. /\ number' = [number EXCEPT ![c] = number[c] + 1]
        /\ field' = [field EXCEPT ![c] = 1] /\ unread' = [unread EXCEPT ![c] = Tail(unread[c])]
    BY <2>1 DEF ParseLine
  <2>3. QED
    BY <1>2, <1>4, <1>6, <2>2 DEF TypeOK
<1>7. QED
  BY <1>1, <1>5, <1>6

LEMMA ParseEntries ==
  ASSUME IInv, NEW c \in Callers, EntriesAt(c), ParseLine(c)
  PROVE  EntriesAt(c)'
<1> DEFINE a == Head(unread[c])
           e == results[c].entries
           k == number[c]
           f == field[c]
           z == entry[c].zeroed
           t == Take(e[k], Lines[f], a)
<1>1. /\ a \in APs /\ pc[c] = "parse" /\ pc'[c] = "parse" /\ entry' = entry /\ unread[c] # << >>
      /\ results'[c].entries = [e EXCEPT ![k] = t]
      /\ f < 5 => field'[c] = f + 1 /\ unread'[c] = unread[c] /\ number'[c] = k
      /\ f = 5 => field'[c] = 1 /\ number'[c] = k + 1
  BY ParseLineStep DEF IInv
<1>2. /\ f \in 1..5 /\ z \in BOOLEAN /\ k \in Nat /\ e \in [0..MaxResults-1 -> Entry]
      /\ MaxResults \in Nat /\ number'[c] \in Nat
  <2>1. number'[c] \in Nat
    BY Inductive DEF IInv, TypeOK, Next, CallerStep, ParseLine
  <2>2. QED
    BY <2>1, LinesOK, ScanAssumption DEF IInv, TypeOK, Structure, EntryState
<1>3. /\ \A j \in Written(c) : \E b \in APs : WholeOf(e[j], b, z)
      /\ k \in 0..MaxResults-1 => PartOf(e[k], a, f, z)
      /\ z => \A j \in 0..MaxResults-1 : j > k \/ (j = k /\ f < 5) => e[j].vendorCode = 0
  BY <1>1 DEF EntriesAt
<1>4. k \in 0..MaxResults-1 =>
        /\ f < 5 => PartOf(t, a, f + 1, z)
        /\ f < 4 /\ z => t.vendorCode = 0
        /\ f = 5 => WholeOf(t, a, z)
  <2>1. SUFFICES ASSUME k \in 0..MaxResults-1
                 PROVE  /\ f < 5 => PartOf(t, a, f + 1, z)
                        /\ f < 4 /\ z => t.vendorCode = 0
                        /\ f = 5 => WholeOf(t, a, z)
    OBVIOUS
  <2>2. e[k] \in Entry /\ PartOf(e[k], a, f, z) /\ (z /\ f < 5 => e[k].vendorCode = 0)
    BY <1>2, <1>3, <2>1
  <2>3. QED
    BY <1>1, <1>2, <2>2, TakeStep
<1> HIDE DEF a, e, k, f, z, t
<1>5. \A j \in 0..MaxResults-1 : results'[c].entries[j] = IF j = k THEN t ELSE e[j]
  BY <1>1, <1>2
<1>6. \A j \in Written(c)' : \E b \in APs : WholeOf(results'[c].entries[j], b, entry'[c].zeroed)
  <2>1. SUFFICES ASSUME NEW j \in 0..MaxResults-1, j < number'[c]
                 PROVE  \E b \in APs : WholeOf(results'[c].entries[j], b, z)
    BY <1>1 DEF Written, z
  <2>2. CASE j = k
    BY <1>1, <1>2, <1>4, <1>5, <2>1, <2>2
  <2>3. CASE j # k
    <3>1. j \in Written(c)
      BY <1>1, <1>2, <2>1, <2>3 DEF Written, k
    <3>2. QED
      BY <1>3, <1>5, <2>1, <2>3, <3>1
  <2>4. QED
    BY <2>2, <2>3
<1>7. field'[c] > 1 => unread'[c] # << >>
  BY <1>1, <1>2
<1>8. number'[c] \in 0..MaxResults-1 /\ unread'[c] # << >> =>
        PartOf(results'[c].entries[number'[c]], Head(unread'[c]), field'[c], entry'[c].zeroed)
  <2>1. CASE f < 5
    BY <1>1, <1>4, <1>5, <2>1 DEF a, z
  <2>2. CASE f = 5
    BY <1>1, <2>2 DEF PartOf
  <2>3. QED
    BY <1>2, <2>1, <2>2
<1>9. entry'[c].zeroed =>
        \A j \in 0..MaxResults-1 :
          j > number'[c] \/ (j = number'[c] /\ field'[c] < 5) => results'[c].entries[j].vendorCode = 0
  <2>1. SUFFICES ASSUME z, NEW j \in 0..MaxResults-1,
                        j > number'[c] \/ (j = number'[c] /\ field'[c] < 5)
                 PROVE  results'[c].entries[j].vendorCode = 0
    BY <1>1 DEF z
  <2>2. CASE f < 5
    <3>1. CASE j = k
      <4>1. f < 4
        BY <1>1, <1>2, <2>1, <2>2, <3>1
      <4>2. QED
        BY <1>4, <1>5, <2>1, <3>1, <4>1
    <3>2. CASE j # k
      <4>1. j > k
        BY <1>1, <1>2, <2>1, <2>2, <3>2
      <4>2. QED
        BY <1>3, <1>5, <2>1, <3>2, <4>1
    <3>3. QED
      BY <3>1, <3>2
  <2>3. CASE f = 5
    <3>1. j > k /\ j # k
      BY <1>1, <1>2, <2>1, <2>3
    <3>2. QED
      BY <1>3, <1>5, <2>1, <3>1
  <2>4. QED
    BY <1>2, <2>2, <2>3
<1>10. QED
  BY <1>1, <1>6, <1>7, <1>8, <1>9 DEF EntriesAt

(* The other steps of a call keep the entries, but for the first bytes of  *)
(* the first one.                                                          *)
LEMMA OtherEntries ==
  ASSUME IInv, NEW c \in Callers, EntriesAt(c), CallerActs(c), ~ ParseLine(c)
  PROVE  EntriesAt(c)'
<1>0. /\ results[c] \in Structure /\ field[c] \in 1..5 /\ number[c] \in Nat
      /\ MaxResults \in Nat
  BY LinesOK, ScanAssumption DEF IInv, TypeOK
<1>1. CASE GetAPList(c)
  <2>1. /\ pc'[c] = "scan" /\ entry'[c].zeroed = (results'[c] = NewResults(0))
    BY <1>1 DEF GetAPList, Goto, IInv, TypeOK
  <2>2. entry'[c].zeroed =>
          \A k \in 0..MaxResults-1 : results'[c].entries[k].vendorCode = 0
    <3>1. \A k \in 0..MaxResults-1 : NewResults(0).entries[k].vendorCode = 0
      BY DEF NewResults, Blank
    <3>2. QED
      BY <2>1, <3>1
  <2>3. QED
    BY <2>1, <2>2 DEF EntriesAt, Done
<1>2. CASE RejectNull(c)
  BY <1>2 DEF RejectNull, Return, Goto, EntriesAt, Done, IInv, TypeOK
<1>3. CASE ReadBss(c)
  <2>1. /\ pc[c] = "query" /\ pc'[c] = "parse" /\ results' = results /\ entry' = entry
        /\ field'[c] = 1 /\ number'[c] = 0
    BY <1>3 DEF ReadBss, Goto, IInv, TypeOK
  <2>2. Written(c)' = {}
    BY <2>1 DEF Written
  <2>3. QED
    BY <2>1, <2>2 DEF EntriesAt, PartOf
<1>4. CASE FcloseBss(c)
  <2>1. /\ pc[c] = "parse" /\ pc'[c] = "idle" /\ results' = results /\ entry' = entry
        /\ number' = number
    BY <1>4 DEF FcloseBss, Return, Goto, IInv, TypeOK, parse
  <2>2. QED
    BY <2>1 DEF EntriesAt, Written
<1>5. CASE ScanResult(c) \/ FopenList(c) \/ CountLines(c) \/ QueryBss(c) \/ FopenBss(c)
  <2>1. /\ pc[c] \in {"scan", "fopen", "count", "query", "fopen_bss"}
        /\ pc'[c] # "parse" /\ ~ Done(c)'
    BY <1>5 DEF ScanResult, FopenList, CountLines, QueryBss, FopenBss, Goto, Return, Done,
                IInv, TypeOK, StreamsAt
  <2>2. entry'[c].zeroed = entry[c].zeroed
    <3>1. CASE ScanResult(c)
      <4>1. entry' = [entry EXCEPT ![c] = [entry[c] EXCEPT !.listed = IF up THEN Len(table) ELSE 0]]
        BY <3>1 DEF ScanResult
      <4>2. entry[c] \in EntryState
        BY DEF IInv, TypeOK
      <4>3. QED
        BY <4>1, <4>2 DEF EntryState, IInv, TypeOK
    <3>2. CASE ~ ScanResult(c)
      BY <1>5, <3>2 DEF FopenList, CountLines, QueryBss, FopenBss
    <3>3. QED
      BY <3>1, <3>2
  <2>3. \A k \in 0..MaxResults-1 :
          results'[c].entries[k].vendorCode = results[c].entries[k].vendorCode
    <3>1. CASE FopenBss(c)
      <4>1. \/ results' = results
            \/ results' = [results EXCEPT ![c] = [results[c] EXCEPT !.entries[0] =
                             [results[c].entries[0] EXCEPT !.bssid = ""]]]
        BY <3>1 DEF FopenBss
      <4>2. results[c].entries \in [0..MaxResults-1 -> Entry]
        BY <1>0 DEF Structure
      <4>3. \A e \in Entry : [e EXCEPT !.bssid = ""].vendorCode = e.vendorCode
        BY DEF Entry
      <4>4. results[c].entries[0] \in Entry /\ 0 \in 0..MaxResults-1
        BY <4>2, ScanAssumption
      <4>5. \/ results' = results
            \/ results'[c].entries = [results[c].entries EXCEPT ![0] =
                   [results[c].entries[0] EXCEPT !.bssid = ""]]
        <5>1. results \in [Callers -> Structure]
          BY DEF IInv, TypeOK
        <5>2. QED
          BY <1>0, <4>1, <5>1 DEF Structure
      <4>6. QED
        BY <4>2, <4>3, <4>4, <4>5
    <3>2. CASE CountLines(c)
      BY <1>0, <3>2 DEF CountLines, IInv, TypeOK, Structure
    <3>3. CASE ScanResult(c) \/ FopenList(c) \/ QueryBss(c)
      BY <3>3 DEF ScanResult, FopenList, QueryBss
    <3>4. QED
      BY <1>5, <3>1, <3>2, <3>3
  <2>4. QED
    BY <2>1, <2>2, <2>3 DEF EntriesAt
<1>6. QED
  BY <1>1, <1>2, <1>3, <1>4, <1>5 DEF CallerActs, CallerStep

EntriesInv == IInv /\ \A c \in Callers : EntriesAt(c)

LEMMA EntriesInit == Init => EntriesInv
<1> SUFFICES ASSUME Init PROVE EntriesInv
  OBVIOUS
<1>1. IInv
  BY InitOK
<1>2. \A c \in Callers : pc[c] = "idle" /\ ret[c] = "none"
  BY DEF Init
<1>3. QED
  BY <1>1, <1>2 DEF EntriesInv, EntriesAt, Done

LEMMA EntriesInductive == EntriesInv /\ [Next]_vars => EntriesInv'
<1> SUFFICES ASSUME EntriesInv, [Next]_vars PROVE EntriesInv'
  OBVIOUS
<1>0. IInv /\ IInv'
  BY Inductive DEF EntriesInv
<1>1. ASSUME NEW c \in Callers, CallerActs(c) PROVE EntriesInv'
  <2>1. EntriesAt(c)'
    BY <1>0, <1>1, ParseEntries, OtherEntries DEF EntriesInv
  <2>2. ASSUME NEW b \in Callers \ {c} PROVE EntriesAt(b)'
    <3>1. Others(c) /\ EntriesAt(b)
      BY <1>0, <1>1, OthersOK DEF EntriesInv
    <3>2. /\ pc'[b] = pc[b] /\ results'[b] = results[b] /\ unread'[b] = unread[b]
          /\ field'[b] = field[b] /\ number'[b] = number[b] /\ ret'[b] = ret[b]
          /\ entry'[b] = entry[b]
      BY <3>1 DEF Others
    <3>3. QED
      BY <3>1, <3>2 DEF EntriesAt, Written, Done
  <2>3. QED
    BY <1>0, <2>1, <2>2 DEF EntriesInv
<1>2. CASE SupplicantStep \/ UNCHANGED vars
  <2>1. UNCHANGED <<pc, results, unread, field, number, ret, entry>>
    BY <1>0, <1>2, SupplicantTypes DEF vars, parse
  <2>2. QED
    BY <1>0, <2>1 DEF EntriesInv, EntriesAt, Written, Done
<1>3. QED
  BY <1>1, <1>2 DEF Next, CallerActs

(* No entry mixes two access points, whatever changes during the scan      *)
(* (wifi.c:406-449).                                                       *)
THEOREM ScanEntriesWhole == Spec => []EntriesWhole
<1>1. EntriesInv => EntriesWhole
  BY DEF EntriesInv, EntriesAt, EntriesWhole, WholeOf
<1>2. QED
  BY <1>1, EntriesInit, EntriesInductive, PTL DEF Spec

(* In a structure that was zeroed no vendor code is another access point's *)
(* (wifi.c:415-430).                                                       *)
THEOREM ScanVendorOwn == Spec => []VendorOwn
<1>1. EntriesInv => VendorOwn
  BY DEF EntriesInv, EntriesAt, VendorOwn, WholeOf
<1>2. QED
  BY <1>1, EntriesInit, EntriesInductive, PTL DEF Spec

-----------------------------------------------------------------------------
(* The bounds: the files are the caller's own. *)

Pos(n) == IF n < 0 THEN 0 ELSE n

BoundsAt(c) ==
  /\ pc[c] = "count" => bssFile = << >>
  /\ pc[c] = "query" => /\ i[c] <= Pos(results[c].count)
                        /\ Len(bssFile) <= i[c] /\ Len(bssFile) <= MaxTable
  /\ pc[c] = "parse" => /\ number[c] + Len(unread[c]) <= MaxTable
                        /\ number[c] + Len(unread[c]) <= Pos(results[c].count)
  /\ Done(c) => number[c] <= Pos(results[c].count)

LEMMA BoundsStep ==
  ASSUME IInv, NEW c \in Callers, BoundsAt(c), CallerActs(c)
  PROVE  BoundsAt(c)'
<1>0. /\ results[c].count \in Int /\ i[c] \in Nat /\ number[c] \in Nat
      /\ unread[c] \in Seq(APs) /\ bssFile \in Seq(APs) /\ field[c] \in 1..5
      /\ Len(unread[c]) \in Nat /\ Len(bssFile) \in Nat /\ MaxTable \in Nat
      /\ Len(table) <= MaxTable /\ Len(table) \in Nat /\ table \in Seq(APs)
  BY LinesOK, ScanAssumption DEF IInv, TypeOK, Structure
<1>1. CASE GetAPList(c)
  BY <1>1 DEF GetAPList, Goto, IInv, TypeOK, BoundsAt, Done
<1>2. CASE RejectNull(c)
  BY <1>2 DEF RejectNull, Return, Goto, IInv, TypeOK, BoundsAt, Done
<1>3. CASE ScanResult(c) \/ FopenList(c)
  <2>1. pc'[c] \notin {"count", "query", "parse"} /\ ~ Done(c)'
    BY <1>3 DEF ScanResult, FopenList, Goto, Return, Done, IInv, TypeOK, StreamsAt
  <2>2. QED
    BY <2>1 DEF BoundsAt
<1>4. CASE FopenBss(c)
  <2>1. pc'[c] \notin {"query", "parse"} /\ ~ Done(c)' /\ (pc'[c] = "count" => bssFile' = << >>)
    BY <1>4 DEF FopenBss, Goto, Return, Done, IInv, TypeOK, StreamsAt
  <2>2. QED
    BY <2>1 DEF BoundsAt
<1>5. CASE CountLines(c)
  <2>1. /\ pc[c] = "count" /\ pc'[c] = "query" /\ bssFile' = bssFile /\ i'[c] = 0
    BY <1>5 DEF CountLines, Goto, IInv, TypeOK
  <2>2. bssFile = << >> /\ Len(<< >>) = 0
    BY <2>1 DEF BoundsAt
  <2>3. results'[c].count \in Int
    BY <1>5, CallerTypes DEF CallerActs, CallerStep, TypeOK, Structure
  <2>4. QED
    BY <1>0, <2>1, <2>2, <2>3 DEF BoundsAt, Done, Pos
<1>6. CASE QueryBss(c)
  <2>1. /\ pc[c] = "query" /\ pc'[c] = "query" /\ results' = results /\ i'[c] = i[c] + 1
        /\ i[c] < results[c].count
        /\ \/ bssFile' = bssFile
           \/ i[c] + 1 \in DOMAIN table /\ bssFile' = Append(bssFile, table[i[c] + 1])
    BY <1>6 DEF QueryBss, IInv, TypeOK
  <2>2. i[c] + 1 \in DOMAIN table => i[c] + 1 <= MaxTable
    BY <1>0
  <2>3. Len(bssFile') = Len(bssFile) \/ (i[c] + 1 <= MaxTable /\ Len(bssFile') = Len(bssFile) + 1)
    BY <1>0, <2>1, <2>2
  <2>4. QED
    BY <1>0, <2>1, <2>3 DEF BoundsAt, Pos, Done
<1>7. CASE ReadBss(c)
  <2>1. /\ pc[c] = "query" /\ pc'[c] = "parse" /\ results' = results /\ number'[c] = 0
        /\ unread'[c] = bssFile
    BY <1>7 DEF ReadBss, Goto, IInv, TypeOK
  <2>2. QED
    BY <1>0, <2>1 DEF BoundsAt, Pos, Done
<1>8. CASE ParseLine(c)
  <2>1. /\ pc[c] = "parse" /\ pc'[c] = "parse" /\ unread[c] # << >>
        /\ results'[c].count = results[c].count
        /\ field[c] < 5 => unread'[c] = unread[c] /\ number'[c] = number[c]
        /\ field[c] = 5 => unread'[c] = Tail(unread[c]) /\ number'[c] = number[c] + 1
    BY <1>8, ParseLineStep DEF IInv
  <2>2. Len(Tail(unread[c])) = Len(unread[c]) - 1
    BY <1>0, <2>1
  <2>3. number'[c] + Len(unread'[c]) = number[c] + Len(unread[c])
    <3>1. CASE field[c] < 5
      BY <2>1, <3>1
    <3>2. CASE field[c] = 5
      <4>1. number'[c] = number[c] + 1 /\ Len(unread'[c]) = Len(unread[c]) - 1
        BY <2>1, <2>2, <3>2
      <4>2. (number[c] + 1) + (Len(unread[c]) - 1) = number[c] + Len(unread[c])
        BY <1>0, Shift
      <4>3. QED
        BY <4>1, <4>2
    <3>3. QED
      BY <1>0, <3>1, <3>2
  <2>4. QED
    BY <1>0, <2>1, <2>3 DEF BoundsAt, Done
<1>9. CASE FcloseBss(c)
  <2>1. /\ pc[c] = "parse" /\ pc'[c] = "idle" /\ unread[c] = << >>
        /\ results' = results /\ number' = number
    BY <1>9 DEF FcloseBss, Return, Goto, IInv, TypeOK, parse
  <2>2. Len(unread[c]) = 0
    BY <2>1, EmptyOK
  <2>3. QED
    BY <1>0, <2>1, <2>2 DEF BoundsAt, Pos, Done
<1>10. QED
  BY <1>1, <1>2, <1>3, <1>4, <1>5, <1>6, <1>7, <1>8, <1>9 DEF CallerActs, CallerStep

BoundsInv == IInv /\ \A c \in Callers : BoundsAt(c)

LEMMA BoundsInit == Init => BoundsInv
<1> SUFFICES ASSUME Init PROVE BoundsInv
  OBVIOUS
<1>1. IInv
  BY InitOK
<1>2. \A c \in Callers : pc[c] = "idle" /\ ret[c] = "none"
  BY DEF Init
<1>3. QED
  BY <1>1, <1>2 DEF BoundsInv, BoundsAt, Done

LEMMA BoundsInductive ==
  ASSUME BoundsInv, [Next]_vars PROVE BoundsInv'
<1>0. IInv /\ IInv'
  BY Inductive DEF BoundsInv
<1>1. ASSUME NEW c \in Callers, CallerActs(c) PROVE BoundsInv'
  <2>1. BoundsAt(c)'
    BY <1>0, <1>1, BoundsStep DEF BoundsInv
  <2>2. QED
    BY <1>0, <2>1, OneCaller DEF BoundsInv
<1>2. CASE SupplicantStep \/ UNCHANGED vars
  <2>1. UNCHANGED <<bssFile, pc, results, i, unread, number, ret>>
    BY <1>0, <1>2, SupplicantTypes DEF vars, parse
  <2>2. QED
    BY <1>0, <2>1 DEF BoundsInv, BoundsAt, Done
<1>3. QED
  BY <1>1, <1>2 DEF Next, CallerActs

(* The caller is told of every entry that was written (wifi.c:393-411).    *)
THEOREM ScanWithinCount == Spec => []WithinCount
<1>1. BoundsInv => WithinCount
  <2> SUFFICES ASSUME BoundsInv, NEW c \in Callers, Done(c)
               PROVE  number[c] = 0 \/ number[c] <= results[c].count
    BY DEF WithinCount
  <2>1. number[c] <= Pos(results[c].count) /\ number[c] \in Nat /\ results[c].count \in Int
    BY DEF BoundsInv, BoundsAt, IInv, TypeOK, Structure
  <2>2. QED
    BY <2>1 DEF Pos
<1>2. BoundsInv /\ [Next]_vars => BoundsInv'
  BY BoundsInductive
<1>3. QED
  BY <1>1, <1>2, BoundsInit, PTL DEF Spec

(* Nothing is written beyond the array (wifi.c:386, 408-447), as long as   *)
(* the supplicant's table is no larger than it.                            *)
THEOREM ScanWithinArray ==
  ASSUME MaxTable <= MaxResults PROVE Spec => []WithinArray
<1>1. BoundsInv => WithinArray
  <2> SUFFICES ASSUME BoundsInv, NEW c \in Callers, pc[c] = "parse", unread[c] # << >>
               PROVE  number[c] < MaxResults
    BY DEF WithinArray
  <2>1. /\ number[c] + Len(unread[c]) <= MaxTable /\ number[c] \in Nat
        /\ unread[c] \in Seq(APs)
    BY DEF BoundsInv, BoundsAt, IInv, TypeOK
  <2>2. Len(unread[c]) \in Nat \ {0}
    BY <2>1
  <2>3. QED
    BY <2>1, <2>2, ScanAssumption
<1>2. BoundsInv /\ [Next]_vars => BoundsInv'
  BY BoundsInductive
<1>3. QED
  BY <1>1, <1>2, BoundsInit, PTL DEF Spec

-----------------------------------------------------------------------------
(* A scan that nothing disturbs. *)

Quiet(c) == ~ disturbed[c] /\ up /\ entry[c].count = 0

QuietAt(c) ==
  Quiet(c) =>
    /\ pc[c] \in {"scan", "fopen", "fopen_bss", "count"} => results[c].count = 0
    /\ pc[c] \in {"fopen", "fopen_bss", "count"} => listing = Len(table) + 1
    /\ pc[c] \in {"query", "parse"} \/ Done(c) => results[c].count = Len(table)
    /\ pc[c] = "query" => /\ i[c] <= Len(table) /\ Len(bssFile) = i[c]
                          /\ \A k \in 1..i[c] : bssFile[k] = table[k]
    /\ pc[c] = "parse" => /\ number[c] + Len(unread[c]) = Len(table)
                          /\ \A k \in 1..Len(unread[c]) : unread[c][k] = table[number[c] + k]
    /\ pc[c] = "parse" \/ Done(c) =>
         \A k \in 1..Len(table) : k <= number[c] => Shows(results[c].entries[k - 1], table[k])
    /\ Done(c) => number[c] = Len(table)

QuietInv == EntriesInv /\ BoundsInv /\ \A c \in Callers : QuietAt(c)

LEMMA QuietParse ==
  ASSUME MaxTable <= MaxResults, NEW c \in Callers, IInv, EntriesAt(c), BoundsAt(c),
         QuietAt(c), ParseLine(c), Quiet(c)
  PROVE  /\ number'[c] + Len(unread'[c]) = Len(table)
         /\ \A k \in 1..Len(unread'[c]) : unread'[c][k] = table[number'[c] + k]
         /\ \A k \in 1..Len(table) :
              k <= number'[c] => Shows(results'[c].entries[k - 1], table[k])
<1> DEFINE a == Head(unread[c])
           e == results[c].entries
           n == number[c]
           f == field[c]
           z == entry[c].zeroed
           t == Take(e[n], Lines[f], a)
<1>0. /\ unread[c] \in Seq(APs) /\ f \in 1..5 /\ n \in Nat /\ z \in BOOLEAN
      /\ Len(unread[c]) \in Nat /\ table \in Seq(APs) /\ Len(table) <= MaxTable
      /\ e \in [0..MaxResults-1 -> Entry] /\ MaxResults \in Nat /\ MaxTable \in Nat
      /\ Len(table) \in Nat
  BY LinesOK, ScanAssumption DEF IInv, TypeOK, Structure, EntryState
<1>1. /\ a \in APs /\ pc[c] = "parse" /\ unread[c] # << >>
      /\ results'[c].entries = [e EXCEPT ![n] = t]
      /\ f < 5 => unread'[c] = unread[c] /\ number'[c] = n
      /\ f = 5 => unread'[c] = Tail(unread[c]) /\ number'[c] = n + 1
  BY ParseLineStep DEF IInv
<1>2. /\ n + Len(unread[c]) = Len(table)
      /\ \A k \in 1..Len(unread[c]) : unread[c][k] = table[n + k]
      /\ \A k \in 1..Len(table) : k <= n => Shows(e[k - 1], table[k])
  BY <1>1 DEF QuietAt
<1>3. Len(unread[c]) >= 1 /\ a = unread[c][1] /\ a = table[n + 1]
  <2>1. Len(unread[c]) >= 1 /\ a = unread[c][1]
    BY <1>0, <1>1
  <2>2. QED
    BY <1>0, <1>2, <2>1
<1>4. n \in 0..MaxResults-1 /\ n < Len(table)
  BY <1>0, <1>2, <1>3
<1>5. f = 5 => Shows(t, a)
  <2>1. PartOf(e[n], a, f, z)
    BY <1>1, <1>4 DEF EntriesAt
  <2>2. z /\ f < 5 => e[n].vendorCode = 0
    BY <1>1, <1>4 DEF EntriesAt
  <2>3. e[n] \in Entry
    BY <1>0, <1>4
  <2>4. QED
    BY <1>0, <1>1, <2>1, <2>2, <2>3, TakeStep DEF WholeOf
<1> HIDE DEF a, e, n, f, z, t
<1>6. CASE f < 5
  <2>1. \A k \in 1..Len(table) : k <= n => results'[c].entries[k - 1] = e[k - 1]
    BY <1>0, <1>1, <1>4
  <2>2. QED
    BY <1>1, <1>2, <1>6, <2>1
<1>7. CASE f = 5
  <2>1. /\ Len(Tail(unread[c])) = Len(unread[c]) - 1
        /\ \A k \in 1..Len(unread[c]) - 1 : Tail(unread[c])[k] = unread[c][k + 1]
    BY <1>0, <1>1
  <2>2. \A k \in 1..Len(unread'[c]) : unread'[c][k] = table[number'[c] + k]
    <3>1. SUFFICES ASSUME NEW k \in 1..Len(unread[c]) - 1
                   PROVE  Tail(unread[c])[k] = table[n + 1 + k]
      BY <1>1, <1>7, <2>1
    <3>2. k + 1 \in 1..Len(unread[c]) /\ n + (k + 1) = n + 1 + k
      BY <1>0
    <3>3. QED
      BY <1>2, <2>1, <3>2
  <2>3. \A k \in 1..Len(table) :
          k <= n + 1 => Shows(results'[c].entries[k - 1], table[k])
    <3>1. SUFFICES ASSUME NEW k \in 1..Len(table), k <= n + 1
                   PROVE  Shows(results'[c].entries[k - 1], table[k])
      OBVIOUS
    <3>2. CASE k = n + 1
      <4>1. results'[c].entries[k - 1] = t /\ table[k] = a
        BY <1>0, <1>1, <1>3, <1>4, <3>2
      <4>2. QED
        BY <1>5, <1>7, <4>1
    <3>3. CASE k # n + 1
      <4>1. results'[c].entries[k - 1] = e[k - 1] /\ k <= n
        BY <1>0, <1>1, <1>4, <3>1, <3>3
      <4>2. QED
        BY <1>2, <4>1
    <3>4. QED
      BY <3>2, <3>3
  <2>4. number'[c] = n + 1 /\ number'[c] + Len(unread'[c]) = Len(table)
    <3>1. number'[c] = n + 1 /\ Len(unread'[c]) = Len(unread[c]) - 1
      BY <1>1, <1>7, <2>1
    <3>2. n + Len(unread[c]) = Len(table) /\ n \in Nat /\ Len(unread[c]) \in Nat
      BY <1>0, <1>2
    <3>3. (n + 1) + (Len(unread[c]) - 1) = Len(table)
      BY <3>2, Shift
    <3>4. QED
      BY <3>1, <3>3
  <2>5. QED
    BY <2>2, <2>3, <2>4
<1>8. f < 5 \/ f = 5
  BY <1>0
<1>9. QED
  BY <1>6, <1>7, <1>8

LEMMA QuietStep ==
  ASSUME MaxTable <= MaxResults, DebugLevel >= 1,
         NEW c \in Callers, IInv, EntriesAt(c), BoundsAt(c), QuietAt(c), CallerActs(c)
  PROVE  QuietAt(c)'
<1>0. /\ table \in Seq(APs) /\ Len(table) \in Nat /\ listing \in Int /\ i[c] \in Nat
      /\ results[c] \in Structure /\ results[c].count \in Int /\ number[c] \in Nat
      /\ bssFile \in Seq(APs) /\ Len(bssFile) \in Nat
  BY ScanAssumption DEF IInv, TypeOK, Structure
<1>1. CASE GetAPList(c)
  <2>1. /\ pc'[c] = "scan" /\ entry'[c].count = results'[c].count /\ ~ Done(c)'
    BY <1>1 DEF GetAPList, Goto, Done, IInv, TypeOK
  <2>2. QED
    BY <2>1 DEF QuietAt, Quiet
<1>2. up' = up /\ table' = table /\ (~ GetAPList(c) => disturbed' = disturbed)
  BY DEF CallerActs, CallerStep, GetAPList, RejectNull, ScanResult, FopenList, FopenBss,
         CountLines, QueryBss, ReadBss, ParseLine, FcloseBss, supplicant
<1>3. ~ GetAPList(c) => entry'[c].count = entry[c].count
  <2>1. CASE ScanResult(c)
    <3>1. entry' = [entry EXCEPT ![c] = [entry[c] EXCEPT !.listed = IF up THEN Len(table) ELSE 0]]
      BY <2>1 DEF ScanResult
    <3>2. QED
      BY <3>1 DEF IInv, TypeOK, EntryState
  <2>2. CASE RejectNull(c)
    <3>1. entry' = [entry EXCEPT ![c] = [entry[c] EXCEPT !.fds = fds[c]]]
      BY <2>2 DEF RejectNull
    <3>2. QED
      BY <3>1 DEF IInv, TypeOK, EntryState
  <2>3. QED
    BY <2>1, <2>2 DEF CallerActs, CallerStep, FopenList, FopenBss, CountLines, QueryBss,
                      ReadBss, ParseLine, FcloseBss
<1>4. ~ GetAPList(c) => Quiet(c)' = Quiet(c)
  BY <1>2, <1>3 DEF Quiet
<1>5. CASE RejectNull(c)
  <2>1. pc'[c] = "idle" /\ ret'[c] = "fail"
    BY <1>5 DEF RejectNull, Return, Goto, IInv, TypeOK
  <2>2. QED
    BY <2>1 DEF QuietAt, Done
<1>6. CASE ScanResult(c)
  <2>1. /\ pc[c] = "scan" /\ pc'[c] = "fopen" /\ results' = results
        /\ listing' = IF up THEN Len(table) + 1 ELSE 0
        /\ ~ GetAPList(c)
    BY <1>6 DEF ScanResult, GetAPList, Goto, IInv, TypeOK
  <2>2. QED
    BY <1>2, <1>4, <2>1 DEF QuietAt, Done, Quiet
<1>7. CASE FopenList(c)
  <2>1. /\ pc[c] = "fopen" /\ results' = results /\ listing' = listing /\ ~ GetAPList(c)
        /\ pc'[c] = "fopen_bss" \/ (pc'[c] = "idle" /\ ret'[c] = "fail")
    BY <1>7 DEF FopenList, GetAPList, Goto, Return, IInv, TypeOK
  <2>2. QED
    BY <1>2, <1>4, <2>1 DEF QuietAt, Done
<1>8. CASE FopenBss(c)
  <2>1. /\ pc[c] = "fopen_bss" /\ listing' = listing /\ ~ GetAPList(c)
        /\ pc'[c] = "count" \/ (pc'[c] = "idle" /\ ret'[c] = "fail")
    BY <1>8 DEF FopenBss, GetAPList, Goto, Return, IInv, TypeOK
  <2>2. results'[c].count = results[c].count
    <3>1. \/ results' = results
          \/ results' = [results EXCEPT ![c] = [results[c] EXCEPT !.entries[0] =
                           [results[c].entries[0] EXCEPT !.bssid = ""]]]
      BY <1>8 DEF FopenBss
    <3>2. results \in [Callers -> Structure]
      BY DEF IInv, TypeOK
    <3>3. QED
      BY <1>0, <3>1, <3>2 DEF Structure
  <2>3. QED
    BY <1>2, <1>4, <2>1, <2>2 DEF QuietAt, Done
<1>9. CASE CountLines(c)
  <2>1. /\ pc[c] = "count" /\ pc'[c] = "query" /\ i'[c] = 0 /\ bssFile' = bssFile
        /\ ~ GetAPList(c)
    BY <1>9 DEF CountLines, GetAPList, Goto, IInv, TypeOK
  <2>2. results'[c].count = results[c].count + listing - 1
    <3>1. results' = [results EXCEPT ![c] = [results[c] EXCEPT !.count =
            results[c].count + listing - (IF DebugLevel >= 1 THEN 1 ELSE 0)]]
      BY <1>9 DEF CountLines
    <3>2. QED
      BY <1>0, <3>1 DEF IInv, TypeOK, Structure
  <2>3. Len(bssFile) = 0
    BY <2>1, EmptyOK DEF BoundsAt
  <2>4. SUFFICES ASSUME Quiet(c) PROVE results'[c].count = Len(table)
    <3>1. SUFFICES ASSUME Quiet(c) PROVE QuietAt(c)'
      BY <1>4, <2>1 DEF QuietAt
    <3>2. \A k \in 1..0 : bssFile[k] = table[k]
      OBVIOUS
    <3>3. 0 <= Len(table)
      BY <1>0
    <3>4. QED
      BY <1>2, <2>1, <2>3, <3>1, <3>2, <3>3 DEF QuietAt, Done
  <2>5. results[c].count = 0 /\ listing = Len(table) + 1
    BY <2>1, <2>4 DEF QuietAt
  <2>6. QED
    BY <1>0, <2>2, <2>5
<1>10. CASE QueryBss(c)
  <2>1. /\ pc[c] = "query" /\ pc'[c] = "query" /\ results' = results /\ i'[c] = i[c] + 1
        /\ i[c] < results[c].count /\ ~ GetAPList(c)
        /\ bssFile' = IF i[c] + 1 \in DOMAIN table THEN Append(bssFile, table[i[c] + 1])
                                                    ELSE bssFile
    BY <1>10 DEF QueryBss, GetAPList, IInv, TypeOK
  <2>2. SUFFICES ASSUME Quiet(c)
                 PROVE  /\ i[c] + 1 <= Len(table) /\ Len(bssFile') = i[c] + 1
                        /\ \A k \in 1..(i[c] + 1) : bssFile'[k] = table[k]
    BY <1>2, <1>4, <2>1 DEF QuietAt, Done
  <2>3. /\ i[c] + 1 <= Len(table) /\ Len(bssFile) = i[c]
        /\ \A k \in 1..i[c] : bssFile[k] = table[k]
    BY <1>0, <2>1, <2>2 DEF QuietAt
  <2>4. i[c] + 1 \in DOMAIN table /\ table[i[c] + 1] \in APs
    BY <1>0, <2>3
  <2>5. bssFile' = Append(bssFile, table[i[c] + 1])
    BY <2>1, <2>4
  <2>6. Len(bssFile') = i[c] + 1 /\ bssFile'[i[c] + 1] = table[i[c] + 1]
    BY <1>0, <2>3, <2>4, <2>5
  <2>7. \A k \in 1..i[c] : bssFile'[k] = bssFile[k]
    BY <1>0, <2>3, <2>4, <2>5
  <2>8. \A k \in 1..(i[c] + 1) : k = i[c] + 1 \/ k \in 1..i[c]
    BY <1>0
  <2>9. QED
    BY <2>3, <2>6, <2>7, <2>8
<1>11. CASE ReadBss(c)
  <2>1. /\ pc[c] = "query" /\ pc'[c] = "parse" /\ results' = results /\ ~ GetAPList(c)
        /\ i[c] >= results[c].count /\ unread'[c] = bssFile /\ number'[c] = 0
    BY <1>11 DEF ReadBss, GetAPList, Goto, IInv, TypeOK
  <2>2. SUFFICES ASSUME Quiet(c)
                 PROVE  /\ results[c].count = Len(table) /\ Len(bssFile) = Len(table)
                        /\ \A k \in 1..Len(bssFile) : bssFile[k] = table[k]
    <3>1. Len(bssFile) = Len(table) => 0 + Len(bssFile) = Len(table)
      BY <1>0
    <3>2. \A k \in 1..Len(bssFile) : 0 + k = k
      BY <1>0
    <3>3. \A k \in 1..Len(table) : ~ k <= 0
      BY <1>0
    <3>4. QED
      BY <1>2, <1>4, <2>1, <3>1, <3>2, <3>3 DEF QuietAt, Done
  <2>3. QED
    BY <1>0, <2>1, <2>2 DEF QuietAt
<1>12. CASE ParseLine(c)
  <2>1. /\ pc[c] = "parse" /\ pc'[c] = "parse" /\ results'[c].count = results[c].count
        /\ ~ GetAPList(c)
    BY <1>12, ParseLineStep DEF IInv, GetAPList
  <2>2. SUFFICES ASSUME Quiet(c) PROVE QuietAt(c)'
    BY <1>4, <2>1 DEF QuietAt
  <2>3. QED
    BY <1>2, <1>12, <2>1, <2>2, QuietParse DEF QuietAt, Done
<1>13. CASE FcloseBss(c)
  <2>1. /\ pc[c] = "parse" /\ pc'[c] = "idle" /\ results' = results /\ number' = number
        /\ unread[c] = << >> /\ ~ GetAPList(c)
    BY <1>13 DEF FcloseBss, GetAPList, Return, Goto, IInv, TypeOK, parse
  <2>2. QED
    <3>1. SUFFICES ASSUME Quiet(c) PROVE QuietAt(c)'
      BY <1>4, <2>1 DEF QuietAt
    <3>2. number[c] + 0 = Len(table)
      BY <2>1, <3>1, EmptyOK DEF QuietAt
    <3>3. number[c] = Len(table)
      BY <1>0, <3>2
    <3>4. QED
      BY <1>2, <2>1, <3>1, <3>3 DEF QuietAt, Done
<1>14. QED
  BY <1>1, <1>5, <1>6, <1>7, <1>8, <1>9, <1>10, <1>11, <1>12, <1>13 DEF CallerActs, CallerStep

LEMMA QuietInit == Init => QuietInv
<1> SUFFICES ASSUME Init PROVE QuietInv
  OBVIOUS
<1>1. \A c \in Callers : pc[c] = "idle" /\ ret[c] = "none"
  BY DEF Init
<1>2. QED
  BY <1>1, EntriesInit, BoundsInit DEF QuietInv, QuietAt, Done

LEMMA QuietInductive ==
  ASSUME MaxTable <= MaxResults, DebugLevel >= 1, QuietInv, [Next]_vars
  PROVE  QuietInv'
<1>0. EntriesInv' /\ BoundsInv' /\ IInv /\ BoundsInv /\ EntriesInv
  BY EntriesInductive, BoundsInductive DEF QuietInv, EntriesInv
<1>1. ASSUME NEW c \in Callers, CallerActs(c) PROVE QuietInv'
  <2>1. QuietAt(c)'
    BY <1>0, <1>1, QuietStep DEF QuietInv, EntriesInv, BoundsInv
  <2>2. QED
    BY <1>0, <2>1, OneCaller DEF QuietInv
<1>2. CASE SupplicantStep
  <2>1. \A c \in Callers : disturbed'[c]
    BY <1>2 DEF SupplicantStep, BssSeen, BssLost, SupplicantComesOrGoes, Disturb
  <2>2. QED
    BY <1>0, <2>1 DEF QuietInv, QuietAt, Quiet
<1>3. CASE UNCHANGED vars
  BY <1>0, <1>3 DEF QuietInv, QuietAt, Quiet, Done, vars, supplicant, parse
<1>4. QED
  BY <1>1, <1>2, <1>3 DEF Next, CallerActs

(* A name without `=` is read as it is.                                    *)
LEMMA PlainName == ASSUME NEW a \in APs, Plain(a.ssid) PROVE Value(a.ssid) = a.ssid
<1> DEFINE s == a.ssid
           C == Range(s)
<1>1. s \in Seq(C)
  BY NamesAssumption
<1>2. "=" \notin C
  BY DEF Plain, Range
<1> HIDE DEF s, C
<1>3. Value(s) = s
  BY <1>1, <1>2, ValuePlain
<1>4. QED
  BY <1>3 DEF s

(* An undisturbed scan returns exactly the supplicant's list               *)
(* (wifi.c:383-449), and the names in it that have no `=` (wifi.c:404).    *)
THEOREM ScanExact ==
  ASSUME MaxTable <= MaxResults, DebugLevel >= 1
  PROVE  Spec => []QuietScanExact
<1>1. QuietInv => QuietScanExact
  <2> SUFFICES ASSUME QuietInv, NEW c \in Callers, Done(c), Quiet(c)
               PROVE  /\ results[c].count = Len(table)
                      /\ \A k \in DOMAIN table :
                           /\ Shows(results[c].entries[k - 1], table[k])
                           /\ Plain(table[k].ssid) =>
                                results[c].entries[k - 1].ssid = table[k].ssid
    BY DEF QuietScanExact, Quiet
  <2>1. QuietAt(c) /\ table \in Seq(APs)
    BY DEF QuietInv, EntriesInv, IInv, TypeOK
  <2>2. results[c].count = Len(table)
    BY <2>1 DEF QuietAt
  <2>3. ASSUME NEW k \in DOMAIN table
        PROVE  Shows(results[c].entries[k - 1], table[k]) /\ table[k] \in APs
    BY <2>1, <2>3 DEF QuietAt
  <2>4. QED
    BY <2>2, <2>3, PlainName DEF Shows
<1>2. QuietInv /\ [Next]_vars => QuietInv'
  BY QuietInductive
<1>3. QED
  BY <1>1, <1>2, QuietInit, PTL DEF Spec

-----------------------------------------------------------------------------
(* The pointer that an application keeps. *)

(* Until the second fopen of the next scan has succeeded the structure is  *)
(* as it was.                                                              *)
PointerAt(c) ==
  pc[c] \in {"idle", "scan", "fopen", "fopen_bss"} /\ pick[c].at # NULL =>
    results[c].entries[pick[c].at] = pick[c].shows

PointerInv ==
  /\ IInv /\ pick = [c \in Callers |-> pick[c]]
  /\ \A c \in Callers : PointerAt(c)

LEMMA PointerStep ==
  ASSUME PointerInv, NEW c \in Callers, CallerActs(c), Forget(c)
  PROVE  PointerAt(c)'
<1>1. IInv /\ PointerAt(c) /\ pc[c] \in Labels
  BY DEF PointerInv, IInv, TypeOK
<1>2. CASE Gone(c)
  <2>1. pick'[c] = NoPick
    BY <1>2 DEF Forget, PointerInv
  <2>2. NoPick.at = NULL
    BY DEF NoPick
  <2>3. pick'[c].at = NULL
    BY <2>1, <2>2
  <2> QED
    BY <2>3 DEF PointerAt
<1>3. CASE ~ Gone(c)
  <2>1. pick' = pick
    BY <1>3 DEF Forget
  <2>2. SUFFICES ASSUME pc'[c] \in {"idle", "scan", "fopen", "fopen_bss"}
                 PROVE  /\ pc[c] \in {"idle", "scan", "fopen", "fopen_bss"}
                        /\ results'[c] = results[c]
    BY <1>1, <2>1 DEF PointerAt
  <2> USE <1>1, <1>3, <2>2 DEF IInv, TypeOK, Goto, Return, Gone
  <2>3. CASE GetAPList(c)
    BY <2>3 DEF GetAPList
  <2>4. CASE RejectNull(c)
    BY <2>4 DEF RejectNull
  <2>5. CASE ScanResult(c)
    BY <2>5 DEF ScanResult
  <2>6. CASE FopenList(c)
    BY <2>6 DEF FopenList
  <2>7. CASE FopenBss(c)
    BY <2>7 DEF FopenBss
  <2>8. CASE CountLines(c) \/ QueryBss(c) \/ ReadBss(c)
    BY <2>8 DEF CountLines, QueryBss, ReadBss
  <2>9. CASE ParseLine(c) \/ FcloseBss(c)
    BY <2>9 DEF ParseLine, FcloseBss
  <2> QED
    BY <2>3, <2>4, <2>5, <2>6, <2>7, <2>8, <2>9 DEF CallerActs, CallerStep
<1> QED
  BY <1>2, <1>3

LEMMA PointerInductive == PointerInv /\ [SelectNext]_selectVars => PointerInv'
<1> SUFFICES ASSUME PointerInv, [SelectNext]_selectVars PROVE PointerInv'
  OBVIOUS
<1>1. IInv /\ [Next]_vars
  BY DEF PointerInv, SelectNext, selectVars, GetAPInformation, Next
<1>2. IInv'
  BY <1>1, Inductive
<1>3. ASSUME NEW c \in Callers, GetAPInformation(c) PROVE PointerInv'
  <2>1. PICK name \in Ssids :
          LET at == Found(results[c], name) IN
          pick' = [pick EXCEPT ![c] =
                     [ssid |-> name, at |-> at,
                      shows |-> IF at = NULL THEN Blank ELSE results[c].entries[at]]]
    BY <1>3 DEF GetAPInformation
  <2>2. UNCHANGED vars
    BY <1>3 DEF GetAPInformation
  <2> DEFINE at == Found(results[c], name)
  <2>3. pick' = [pick EXCEPT ![c] = [ssid |-> name, at |-> at,
                   shows |-> IF at = NULL THEN Blank ELSE results[c].entries[at]]]
    BY <2>1
  <2> HIDE DEF at
  <2>4. /\ pick' = [b \in Callers |-> pick'[b]]
        /\ pick'[c].at = at
        /\ at # NULL => pick'[c].shows = results[c].entries[at]
        /\ \A b \in Callers \ {c} : pick'[b] = pick[b]
    BY <2>3 DEF PointerInv
  <2>5. PointerAt(c)'
    BY <2>2, <2>4 DEF PointerAt, vars
  <2>6. ASSUME NEW b \in Callers \ {c} PROVE PointerAt(b)'
    BY <2>2, <2>4, <2>6 DEF PointerAt, PointerInv, vars
  <2> QED
    BY <1>2, <2>4, <2>5, <2>6 DEF PointerInv
<1>4. ASSUME NEW c \in Callers, CallerActs(c), Forget(c) PROVE PointerInv'
  <2>1. PointerAt(c)'
    BY <1>4, PointerStep
  <2>2. /\ pick' = [b \in Callers |-> pick'[b]]
        /\ \A b \in Callers \ {c} : pick'[b] = pick[b]
    BY <1>4 DEF Forget, PointerInv
  <2>3. ASSUME NEW b \in Callers \ {c} PROVE PointerAt(b)'
    BY <1>1, <1>4, <2>2, <2>3, OthersOK DEF Others, PointerAt, PointerInv
  <2> QED
    BY <1>2, <2>1, <2>2, <2>3 DEF PointerInv
<1>5. CASE SupplicantStep /\ UNCHANGED pick
  <2>1. pc' = pc /\ results' = results
    BY <1>5 DEF SupplicantStep, BssSeen, BssLost, SupplicantComesOrGoes
  <2> QED
    BY <1>2, <1>5, <2>1 DEF PointerInv, PointerAt
<1>6. CASE UNCHANGED selectVars
  BY <1>2, <1>6 DEF PointerInv, PointerAt, selectVars, vars
<1> QED
  BY <1>3, <1>4, <1>5, <1>6 DEF SelectNext, CallerActs

(* The pointer that wifiGetAPInformation returned shows what it was        *)
(* returned for until a scan has filled the structure again, however the   *)
(* scans between fail (wifi.c:377-382, 479).                               *)
THEOREM SelectPointerKept == SelectSpec => []PointerKept
<1>1. SelectInit => PointerInv
  <2> SUFFICES ASSUME SelectInit PROVE PointerInv
    OBVIOUS
  <2>1. IInv
    BY InitOK DEF SelectInit
  <2>2. pick = [c \in Callers |-> NoPick]
    BY DEF SelectInit
  <2>3. pick = [c \in Callers |-> pick[c]] /\ \A c \in Callers : pick[c].at = NULL
    <3>1. NoPick.at = NULL
      BY DEF NoPick
    <3> QED
      BY <2>2, <3>1
  <2> QED
    BY <2>1, <2>3 DEF PointerInv, PointerAt
<1>2. PointerInv => PointerKept
  BY DEF PointerInv, PointerAt, PointerKept
<1> QED
  BY <1>1, <1>2, PointerInductive, PTL DEF SelectSpec

-----------------------------------------------------------------------------
(* The least number: a set of natural numbers that is not empty has one,   *)
(* for the sets 0..x-1 of its members x are finite, and inclusion is well  *)
(* founded on those.                                                       *)
LEMMA Least ==
  ASSUME NEW T, T \subseteq Nat, T # {} PROVE \E x \in T : \A y \in T : x <= y
<1> DEFINE Below(x) == 0..(x - 1)
           F == {Below(x) : x \in T}
<1>1. F \subseteq FiniteSubsetsOf(Nat) /\ F # {}
  <2>1. ASSUME NEW x \in T PROVE Below(x) \subseteq Nat /\ IsFiniteSet(Below(x))
    <3>1. 0 \in Int /\ x - 1 \in Int
      OBVIOUS
    <3>2. QED
      BY <3>1, FS_Interval
  <2> HIDE DEF Below
  <2>2. QED
    BY <2>1 DEF FiniteSubsetsOf
<1>2. IsWellFoundedOn(StrictSubsetOrdering(Nat), FiniteSubsetsOf(Nat))
  BY FS_StrictSubsetOrderingWellFounded
<1> HIDE DEF F
<1>3. PICK b \in F : \A a \in F : ~ <<a, b>> \in StrictSubsetOrdering(Nat)
  BY <1>1, <1>2, WFMin
<1> USE DEF F
<1>4. PICK x \in T : b = Below(x)
  BY <1>3
<1>5. ASSUME NEW y \in T, y < x PROVE FALSE
  <2>1. Below(y) \subseteq Below(x) /\ Below(y) # Below(x)
    <3>1. y \in Below(x) /\ y \notin Below(y)
      BY <1>5
    <3>2. QED
      BY <1>5, <3>1
  <2>2. /\ <<Below(y), Below(x)>> \in (SUBSET Nat) \X (SUBSET Nat)
        /\ Below(y) \in F
    OBVIOUS
  <2> HIDE DEF Below, F
  <2>3. <<Below(y), Below(x)>> \in StrictSubsetOrdering(Nat)
    BY <2>1, <2>2 DEF StrictSubsetOrdering
  <2>4. QED
    BY <1>3, <1>4, <2>2, <2>3
<1>6. QED
  BY <1>5

-----------------------------------------------------------------------------
(* The loop of wifiGetAPInformation. *)

Levels(r) == \A k \in 0..MaxResults-1 : r.entries[k].rssi \in Int

(* The entries of that name among the first n that beat the level the loop *)
(* starts with; and the first of the strongest.                            *)
Hits(r, name, n) ==
  {k \in 0..n-1 : r.entries[k].ssid = name /\ Abs(r.entries[k].rssi) < 1000}
Beats(r, k, l) ==
  \/ Abs(r.entries[k].rssi) < Abs(r.entries[l].rssi)
  \/ Abs(r.entries[k].rssi) = Abs(r.entries[l].rssi) /\ k <= l
IsFirst(r, name, n, k) ==
  k \in Hits(r, name, n) /\ \A l \in Hits(r, name, n) : Beats(r, k, l)
First(r, name, n) == CHOOSE k \in 0..n-1 : IsFirst(r, name, n, k)

(* What the loop has found after n entries, in closed form. *)
BestOf(r, name, n) ==
  IF Hits(r, name, n) = {} THEN [at |-> NULL, level |-> -1000]
  ELSE [at |-> First(r, name, n), level |-> r.entries[First(r, name, n)].rssi]
Best(r, name) == [n \in 0..MaxResults |-> BestOf(r, name, n)]

(* One turn of it, on what the turns before have found. *)
Turn(r, name, f, n) ==
  IF n = 0 THEN [at |-> NULL, level |-> -1000]
  ELSE IF r.entries[n - 1].ssid = name /\ Abs(r.entries[n - 1].rssi) < Abs(f[n - 1].level)
       THEN [at |-> n - 1, level |-> r.entries[n - 1].rssi] ELSE f[n - 1]
IsSearch(r, name, f) == f = [n \in 0..MaxResults |-> Turn(r, name, f, n)]

LEMMA SearchChosen ==
  ASSUME NEW r, NEW name PROVE Search(r, name) = CHOOSE f : IsSearch(r, name, f)
BY DEF Search, IsSearch, Turn

LEMMA AbsOfStart == Abs(-1000) = 1000
<1>1. \A n \in Int : n < 0 => Abs(n) + n = 0 /\ Abs(n) \in Int
  BY DEF Abs
<1>2. \A n \in Int : n + (-1000) = 0 => n = 1000
  OBVIOUS
<1>3. -1000 \in Int /\ -1000 < 0
  OBVIOUS
<1> HIDE DEF Abs
<1> QED
  BY <1>1, <1>2, <1>3

LEMMA FirstExists ==
  ASSUME NEW r, Levels(r), NEW name, NEW n \in 0..MaxResults, Hits(r, name, n) # {}
  PROVE  First(r, name, n) \in 0..n-1 /\ IsFirst(r, name, n, First(r, name, n))
<1> DEFINE H == Hits(r, name, n)
           A(k) == Abs(r.entries[k].rssi)
<1>0. MaxResults \in Nat
  BY ScanAssumption
<1>1. \A k \in H : k \in 0..n-1 /\ A(k) \in Nat
  BY <1>0 DEF Levels, Hits, Abs
<1>2. PICK m \in {A(k) : k \in H} : \A y \in {A(k) : k \in H} : m <= y
  <2> DEFINE T == {A(k) : k \in H}
  <2>1. T \subseteq Nat /\ T # {}
    BY <1>1
  <2> HIDE DEF T
  <2>2. \E x \in T : \A y \in T : x <= y
    BY <2>1, Least
  <2> QED
    BY <2>2 DEF T
<1>3. PICK k \in {j \in H : A(j) = m} : \A y \in {j \in H : A(j) = m} : k <= y
  <2> DEFINE T == {j \in H : A(j) = m}
  <2>1. T \subseteq Nat /\ T # {}
    BY <1>0, <1>1, <1>2
  <2> HIDE DEF T
  <2>2. \E x \in T : \A y \in T : x <= y
    BY <2>1, Least
  <2> QED
    BY <2>2 DEF T
<1>4. ASSUME NEW l \in H PROVE Beats(r, k, l)
  <2>1. A(k) = m /\ m <= A(l) /\ A(l) \in Nat /\ A(k) \in Nat
    BY <1>1, <1>2, <1>3
  <2>2. A(l) = m => k <= l
    BY <1>3
  <2> QED
    BY <2>1, <2>2 DEF Beats
<1>5. k \in 0..n-1 /\ IsFirst(r, name, n, k)
  BY <1>1, <1>3, <1>4 DEF IsFirst
<1> QED
  BY <1>5 DEF First

LEMMA FirstUnique ==
  ASSUME NEW r, Levels(r), NEW name, NEW n \in 0..MaxResults,
         NEW k, NEW l, IsFirst(r, name, n, k), IsFirst(r, name, n, l)
  PROVE  k = l
<1>1. /\ k \in 0..n-1 /\ l \in 0..n-1 /\ Beats(r, k, l) /\ Beats(r, l, k)
      /\ r.entries[k].rssi \in Int /\ r.entries[l].rssi \in Int
  BY ScanAssumption DEF IsFirst, Hits, Levels
<1> QED
  BY <1>1 DEF Beats, Abs

LEMMA BestIsSearch ==
  ASSUME NEW r, Levels(r), NEW name PROVE IsSearch(r, name, Best(r, name))
<1> DEFINE G == Best(r, name)
<1>0. MaxResults \in Nat
  BY ScanAssumption
<1> SUFFICES ASSUME NEW n \in 0..MaxResults PROVE G[n] = Turn(r, name, G, n)
  BY DEF IsSearch, Best
<1>1. CASE n = 0
  <2>1. Hits(r, name, 0) = {}
    BY DEF Hits
  <2> QED
    BY <1>1, <2>1 DEF Best, BestOf, Turn
<1>2. CASE n # 0
  <2> DEFINE k == n - 1
             e == r.entries[k]
  <2>1. /\ k \in 0..MaxResults /\ k \in 0..MaxResults-1 /\ k \in 0..n-1 /\ n \in Nat
        /\ e.rssi \in Int /\ k + 1 = n
    BY <1>0, <1>2 DEF Levels
  <2>2. Hits(r, name, n) = Hits(r, name, k) \cup
                           {j \in {k} : e.ssid = name /\ Abs(e.rssi) < 1000}
    <3>1. 0..n-1 = (0..k-1) \cup {k}
      BY <2>1
    <3> QED
      BY <3>1 DEF Hits
  <2>3. CASE e.ssid = name /\ Abs(e.rssi) < Abs(G[k].level)
    <3>1. k \in Hits(r, name, n) /\ \A j \in Hits(r, name, k) : Beats(r, k, j)
      <4>1. CASE Hits(r, name, k) = {}
        <5>1. G[k].level = -1000
          BY <2>1, <4>1 DEF Best, BestOf
        <5>2. Abs(G[k].level) = 1000
          <6> HIDE DEF G, k
          <6> QED
            BY <5>1, AbsOfStart
        <5> QED
          BY <2>2, <2>3, <4>1, <5>2
      <4>2. CASE Hits(r, name, k) # {}
        <5> DEFINE b == First(r, name, k)
        <5>1. b \in 0..k-1 /\ IsFirst(r, name, k, b) /\ G[k].level = r.entries[b].rssi
          BY <2>1, <4>2, FirstExists DEF Best, BestOf
        <5> HIDE DEF b
        <5>2. Abs(e.rssi) < Abs(r.entries[b].rssi)
          BY <2>3, <5>1
        <5>3. ASSUME NEW j \in Hits(r, name, k)
              PROVE  /\ Abs(e.rssi) < Abs(r.entries[j].rssi)
                     /\ Abs(r.entries[j].rssi) < 1000
          <6>1. Beats(r, b, j) /\ Abs(r.entries[j].rssi) < 1000 /\ j \in 0..k-1
            BY <5>1 DEF IsFirst, Hits
          <6>2. r.entries[j].rssi \in Int /\ r.entries[b].rssi \in Int
            BY <1>0, <2>1, <5>1, <6>1 DEF Levels
          <6> QED
            BY <2>1, <5>2, <6>1, <6>2 DEF Beats, Abs
        <5>4. b \in Hits(r, name, k)
          BY <5>1 DEF IsFirst
        <5>5. r.entries[b].rssi \in Int
          BY <1>0, <2>1, <5>1 DEF Levels
        <5>6. Abs(e.rssi) < 1000
          BY <2>1, <5>3, <5>4, <5>5 DEF Abs
        <5> QED
          BY <2>2, <2>3, <5>3, <5>6 DEF Beats
      <4> QED
        BY <4>1, <4>2
    <3>2. Beats(r, k, k)
      BY <2>1 DEF Beats, Abs
    <3>3. IsFirst(r, name, n, k)
      BY <2>2, <3>1, <3>2 DEF IsFirst
    <3>4. First(r, name, n) = k
      <4>1. IsFirst(r, name, n, First(r, name, n))
        BY <3>1, FirstExists
      <4> QED
        BY <3>3, <4>1, FirstUnique
    <3>5. G[n] = [at |-> k, level |-> e.rssi]
      BY <3>1, <3>4 DEF Best, BestOf
    <3> QED
      BY <1>2, <2>3, <3>5 DEF Turn
  <2>4. CASE ~ (e.ssid = name /\ Abs(e.rssi) < Abs(G[k].level))
    <3>1. G[n] = G[k]
      <4>1. CASE Hits(r, name, n) = Hits(r, name, k)
        <5>1. First(r, name, n) = First(r, name, k)
              \/ Hits(r, name, n) = {}
          <6>1. SUFFICES ASSUME Hits(r, name, n) # {} PROVE First(r, name, n) = First(r, name, k)
            OBVIOUS
          <6>2. IsFirst(r, name, n, First(r, name, n)) /\ IsFirst(r, name, k, First(r, name, k))
            BY <2>1, <4>1, <6>1, FirstExists
          <6>3. IsFirst(r, name, n, First(r, name, k))
            BY <4>1, <6>2 DEF IsFirst
          <6> QED
            BY <6>2, <6>3, FirstUnique
        <5> QED
          BY <2>1, <4>1, <5>1 DEF Best, BestOf
      <4>2. CASE Hits(r, name, n) # Hits(r, name, k)
        <5>1. /\ e.ssid = name /\ Abs(e.rssi) < 1000
              /\ Hits(r, name, n) = Hits(r, name, k) \cup {k}
          BY <2>2, <4>2
        <5>2. Hits(r, name, k) # {}
          <6>1. SUFFICES ASSUME Hits(r, name, k) = {} PROVE FALSE
            OBVIOUS
          <6>2. G[k].level = -1000
            BY <2>1, <6>1 DEF Best, BestOf
          <6> QED
            BY <2>1, <2>4, <5>1, <6>2 DEF Abs
        <5> DEFINE b == First(r, name, k)
        <5>3. /\ b \in 0..k-1 /\ IsFirst(r, name, k, b)
              /\ G[k] = [at |-> b, level |-> r.entries[b].rssi]
          BY <2>1, <5>2, FirstExists DEF Best, BestOf
        <5> HIDE DEF b
        <5>4. Beats(r, b, k)
          <6>1. r.entries[b].rssi \in Int /\ b <= k
            BY <1>0, <2>1, <5>3 DEF Levels
          <6>2. ~ (Abs(e.rssi) < Abs(r.entries[b].rssi))
            BY <2>4, <5>1, <5>3
          <6> QED
            BY <2>1, <6>1, <6>2 DEF Beats, Abs
        <5>5. IsFirst(r, name, n, b)
          BY <5>1, <5>3, <5>4 DEF IsFirst
        <5>6. IsFirst(r, name, n, First(r, name, n))
          BY <5>1, FirstExists
        <5>7. First(r, name, n) = b
          BY <5>5, <5>6, FirstUnique
        <5> QED
          BY <5>1, <5>3, <5>7 DEF Best, BestOf
      <4> QED
        BY <4>1, <4>2
    <3> QED
      BY <1>2, <2>4, <3>1 DEF Turn
  <2> QED
    BY <2>3, <2>4
<1> QED
  BY <1>1, <1>2

LEMMA SearchIsBest ==
  ASSUME NEW r, Levels(r), NEW name PROVE Search(r, name) = Best(r, name)
<1> DEFINE f == Search(r, name)
           G == Best(r, name)
<1>1. IsSearch(r, name, f) /\ IsSearch(r, name, G)
  BY SearchChosen, BestIsSearch
<1> DEFINE T == {n \in 0..MaxResults : f[n] # G[n]}
<1>2. T = {}
  <2> SUFFICES ASSUME T # {} PROVE FALSE
    OBVIOUS
  <2>1. T \subseteq Nat
    OBVIOUS
  <2> HIDE DEF T
  <2>2. PICK n \in T : \A m \in T : n <= m
    BY <2>1, Least
  <2> USE DEF T
  <2> HIDE DEF f, G
  <2>3. f[n] = Turn(r, name, f, n) /\ G[n] = Turn(r, name, G, n)
    BY <1>1 DEF IsSearch
  <2>4. n # 0 => f[n - 1] = G[n - 1]
    <3>1. n \in 0..MaxResults /\ MaxResults \in Nat
      BY ScanAssumption
    <3>2. n # 0 => n - 1 \in 0..MaxResults /\ ~ n <= n - 1
      BY <3>1
    <3> QED
      BY <2>2, <3>2
  <2>5. Turn(r, name, f, n) = Turn(r, name, G, n)
    BY <2>4 DEF Turn
  <2> QED
    BY <2>3, <2>5
<1> HIDE DEF f, G
<1>3. f = [n \in 0..MaxResults |-> f[n]] /\ G = [n \in 0..MaxResults |-> G[n]]
  BY <1>1 DEF IsSearch
<1>4. f = G
  BY <1>2, <1>3
<1> QED
  BY <1>4 DEF f, G

(* The loop of wifiGetAPInformation returns NULL if no entry of that name  *)
(* beats the level it starts with, and else a strongest.                   *)
THEOREM FoundIsStrongest ==
  ASSUME NEW r, Levels(r), NEW name, r.count \in 0..MaxResults
  PROVE  /\ Hits(r, name, r.count) = {} => Found(r, name) = NULL
         /\ Hits(r, name, r.count) # {} =>
              /\ Found(r, name) \in Hits(r, name, r.count)
              /\ \A l \in Hits(r, name, r.count) :
                   Abs(r.entries[Found(r, name)].rssi) <= Abs(r.entries[l].rssi)
<1>1. Found(r, name) = Best(r, name)[r.count].at
  BY SearchIsBest, ScanAssumption DEF Found
<1>2. CASE Hits(r, name, r.count) = {}
  BY <1>1, <1>2 DEF Best, BestOf
<1>3. CASE Hits(r, name, r.count) # {}
  <2> DEFINE b == First(r, name, r.count)
  <2>1. Found(r, name) = b
    BY <1>1, <1>3 DEF Best, BestOf
  <2>2. IsFirst(r, name, r.count, b)
    BY <1>3, FirstExists
  <2> HIDE DEF b
  <2>3. ASSUME NEW l \in Hits(r, name, r.count)
        PROVE  Abs(r.entries[b].rssi) <= Abs(r.entries[l].rssi)
    <3>1. b \in 0..MaxResults-1 /\ l \in 0..MaxResults-1 /\ Beats(r, b, l)
      BY <2>2, ScanAssumption DEF IsFirst, Hits
    <3>2. r.entries[b].rssi \in Int /\ r.entries[l].rssi \in Int
      BY <3>1 DEF Levels
    <3> QED
      BY <3>1, <3>2 DEF Beats, Abs
  <2> QED
    BY <1>3, <2>1, <2>2, <2>3 DEF IsFirst
<1> QED
  BY <1>2, <1>3

-----------------------------------------------------------------------------
(* From the air to the application. *)

(* While the structure is as the scan left it, what the application got is *)
(* what the loop finds in it.                                              *)
PickAt(c) ==
  Done(c) /\ pick[c].ssid # << >> => pick[c].at = Found(results[c], pick[c].ssid)

StrongestInv ==
  /\ QuietInv /\ pick = [c \in Callers |-> pick[c]]
  /\ \A c \in Callers : PickAt(c)

LEMMA LevelsAreInt == ASSUME IInv, NEW c \in Callers PROVE Levels(results[c])
<1>1. results[c] \in Structure
  BY DEF IInv, TypeOK
<1>2. results[c].entries \in [0..MaxResults-1 -> Entry]
  BY <1>1 DEF Structure
<1>3. ASSUME NEW e \in Entry PROVE e.rssi \in Int
  <2>1. e.rssi \in {a.level : a \in APs} \cup {0}
    BY DEF Entry
  <2> QED
    BY <2>1, ScanSelectAssumption
<1>4. ASSUME NEW k \in 0..MaxResults-1 PROVE results[c].entries[k].rssi \in Int
  BY <1>2, <1>3
<1> QED
  BY <1>4 DEF Levels

(* Of a structure that shows a table, the loop finds what shows the        *)
(* strongest in the table of those whose name reads so and whose level     *)
(* beats the one it starts with.                                           *)
CandidatesIn(t, name) == 
  {k \in DOMAIN t : Value(t[k].ssid) = name /\ Abs(t[k].level) < 1000}
IsStrongest(at, r, t, name) ==
  IF CandidatesIn(t, name) = {} THEN at = NULL
  ELSE \E k \in CandidatesIn(t, name) :
         /\ at # NULL /\ Shows(r.entries[at], t[k])
         /\ \A l \in CandidatesIn(t, name) : Abs(t[k].level) <= Abs(t[l].level)

LEMMA StrongestOfTable ==
  ASSUME NEW t \in Seq(APs), Len(t) <= MaxResults,
         NEW r, Levels(r), r.count = Len(t),
         \A k \in 1..Len(t) : Shows(r.entries[k - 1], t[k]),
         NEW name
  PROVE  IsStrongest(Found(r, name), r, t, name)
<1>1. Len(t) \in Nat /\ MaxResults \in Nat /\ DOMAIN t = 1..Len(t)
  BY ScanAssumption
<1>2. r.count \in 0..MaxResults
  BY <1>1
<1>3. \A k \in 1..Len(t) :
        r.entries[k - 1].rssi = t[k].level /\ r.entries[k - 1].ssid = Value(t[k].ssid)
  BY DEF Shows
<1>4. ASSUME NEW k \in CandidatesIn(t, name)
      PROVE  k \in 1..Len(t) /\ k - 1 \in Hits(r, name, r.count)
  <2>1. k \in 1..Len(t) /\ Value(t[k].ssid) = name /\ Abs(t[k].level) < 1000
    BY <1>1 DEF CandidatesIn
  <2>2. k - 1 \in 0..r.count-1
    BY <1>1, <2>1
  <2> QED
    BY <1>3, <2>1, <2>2 DEF Hits
<1>5. ASSUME NEW j \in Hits(r, name, r.count)
      PROVE  j + 1 \in CandidatesIn(t, name) /\ j \in Int
  <2>1. j \in 0..r.count-1 /\ r.entries[j].ssid = name /\ Abs(r.entries[j].rssi) < 1000
    BY DEF Hits
  <2>2. j + 1 \in 1..Len(t) /\ (j + 1) - 1 = j /\ j \in Int
    BY <1>1, <2>1
  <2>3. r.entries[j].rssi = t[j + 1].level /\ r.entries[j].ssid = Value(t[j + 1].ssid)
    BY <1>3, <2>2
  <2> QED
    BY <1>1, <2>1, <2>2, <2>3 DEF CandidatesIn
<1>6. CASE Hits(r, name, r.count) = {}
  <2>1. Found(r, name) = NULL
    BY <1>2, <1>6, FoundIsStrongest
  <2>2. CandidatesIn(t, name) = {}
    BY <1>4, <1>6
  <2> QED
    BY <2>1, <2>2 DEF IsStrongest
<1>7. CASE Hits(r, name, r.count) # {}
  <2> DEFINE at == Found(r, name)
  <2>1. /\ at \in Hits(r, name, r.count)
        /\ \A l \in Hits(r, name, r.count) : Abs(r.entries[at].rssi) <= Abs(r.entries[l].rssi)
    BY <1>2, <1>7, FoundIsStrongest
  <2> HIDE DEF at
  <2>2. at + 1 \in CandidatesIn(t, name) /\ at \in Int
    BY <1>5, <2>1
  <2>3. (at + 1) - 1 = at
    BY <2>2
  <2>4. at # NULL
    <3>1. at \in 0..r.count-1
      BY <2>1 DEF Hits
    <3>2. at \in 0..MaxResults-1
      BY <1>1, <1>2, <3>1
    <3> QED
      BY <3>2, ScanSelectAssumption
  <2>5. Shows(r.entries[at], t[at + 1]) /\ r.entries[at].rssi = t[at + 1].level
    <3>1. at + 1 \in 1..Len(t)
      BY <1>4, <2>2
    <3> QED
      BY <1>3, <2>3, <3>1
  <2>6. ASSUME NEW l \in CandidatesIn(t, name)
        PROVE  Abs(t[at + 1].level) <= Abs(t[l].level)
    <3>1. l \in 1..Len(t) /\ l - 1 \in Hits(r, name, r.count)
      BY <1>4
    <3>2. r.entries[l - 1].rssi = t[l].level
      BY <1>3, <3>1
    <3> QED
      BY <2>1, <2>5, <3>1, <3>2
  <2> QED
    BY <2>2, <2>4, <2>5, <2>6 DEF IsStrongest, at
<1> QED
  BY <1>6, <1>7

(* A call that has just returned 0 has made the application forget.        *)
LEMMA PickStep ==
  ASSUME StrongestInv, NEW c \in Callers, CallerActs(c), Forget(c)
  PROVE  PickAt(c)'
<1>1. IInv
  BY DEF StrongestInv, QuietInv, EntriesInv
<1>2. CASE FcloseBss(c)
  <2>1. Gone(c)
    BY <1>1, <1>2 DEF FcloseBss, Return, Goto, Gone, IInv, TypeOK
  <2>2. pick'[c] = NoPick
    BY <2>1 DEF Forget, StrongestInv
  <2>3. NoPick.ssid = << >>
    BY DEF NoPick
  <2>4. pick'[c].ssid = << >>
    BY <2>2, <2>3
  <2> QED
    BY <2>4 DEF PickAt
<1>3. CASE ~ FcloseBss(c)
  <2>1. ~ Done(c)'
    BY <1>1, <1>3 DEF CallerActs, CallerStep, GetAPList, RejectNull, ScanResult, FopenList,
       FopenBss, CountLines, QueryBss, ReadBss, ParseLine, Return, Goto, Done, IInv, TypeOK,
       StreamsAt
  <2> QED
    BY <2>1 DEF PickAt
<1> QED
  BY <1>2, <1>3

LEMMA StrongestInductive ==
  ASSUME MaxTable <= MaxResults, DebugLevel >= 1,
         StrongestInv, [SelectNext]_selectVars
  PROVE  StrongestInv'
<1>1. IInv /\ QuietInv /\ [Next]_vars
  BY DEF StrongestInv, QuietInv, EntriesInv, SelectNext, selectVars, GetAPInformation, Next
<1>2. QuietInv'
  BY <1>1, QuietInductive
<1>3. ASSUME NEW c \in Callers, GetAPInformation(c) PROVE StrongestInv'
  <2>1. UNCHANGED vars
    BY <1>3 DEF GetAPInformation
  <2>2. PICK name \in Ssids :
          LET at == Found(results[c], name) IN
          pick' = [pick EXCEPT ![c] =
                     [ssid |-> name, at |-> at,
                      shows |-> IF at = NULL THEN Blank ELSE results[c].entries[at]]]
    BY <1>3 DEF GetAPInformation
  <2>3. /\ pick' = [b \in Callers |-> pick'[b]]
        /\ pick'[c].ssid = name /\ pick'[c].at = Found(results[c], name)
        /\ \A b \in Callers \ {c} : pick'[b] = pick[b]
    BY <2>2 DEF StrongestInv
  <2>4. ASSUME NEW b \in Callers PROVE PickAt(b)'
    BY <2>1, <2>3, <2>4 DEF PickAt, StrongestInv, Done, vars
  <2> QED
    BY <1>2, <2>3, <2>4 DEF StrongestInv
<1>4. ASSUME NEW c \in Callers, CallerActs(c), Forget(c) PROVE StrongestInv'
  <2>1. PickAt(c)'
    BY <1>4, PickStep
  <2>2. pick' = [b \in Callers |-> pick'[b]]
    BY <1>4 DEF Forget, StrongestInv
  <2> QED
    BY <1>2, <2>1, <2>2, OneCaller DEF StrongestInv
<1>5. CASE SupplicantStep /\ UNCHANGED pick
  <2>1. pc' = pc /\ results' = results /\ ret' = ret
    BY <1>5 DEF SupplicantStep, BssSeen, BssLost, SupplicantComesOrGoes
  <2> QED
    BY <1>2, <1>5, <2>1 DEF StrongestInv, PickAt, Done
<1>6. CASE UNCHANGED selectVars
  BY <1>2, <1>6 DEF StrongestInv, PickAt, Done, selectVars, vars
<1> QED
  BY <1>3, <1>4, <1>5, <1>6 DEF SelectNext, CallerActs

LEMMA StrongestFollows ==
  ASSUME MaxTable <= MaxResults, StrongestInv PROVE StrongestInRange
<1>1. IInv /\ \A c \in Callers : QuietAt(c) /\ PickAt(c)
  BY DEF StrongestInv, QuietInv, EntriesInv
<1>2. table \in Seq(APs) /\ Len(table) \in Nat /\ Len(table) <= MaxResults
  <2>1. table \in Seq(APs) /\ Len(table) <= MaxTable
    BY <1>1 DEF IInv, TypeOK
  <2> QED
    BY <2>1, ScanAssumption
<1>3. ASSUME NEW c \in Callers, Done(c), Quiet(c)
      PROVE  /\ results[c].count = Len(table)
             /\ \A k \in 1..Len(table) : Shows(results[c].entries[k - 1], table[k])
  <2>1. QuietAt(c)
    BY <1>1
  <2> QED
    BY <1>2, <1>3, <2>1 DEF QuietAt
<1>4. ASSUME NEW c \in Callers, Done(c), Quiet(c), pick[c].ssid # << >>
      PROVE  IsStrongest(pick[c].at, results[c], table, pick[c].ssid)
  <2>1. pick[c].at = Found(results[c], pick[c].ssid)
    BY <1>1, <1>4 DEF PickAt
  <2> QED
    BY <1>1, <1>2, <1>3, <1>4, <2>1, LevelsAreInt, StrongestOfTable
<1>5. ASSUME NEW name, InRange(name) PROVE CandidatesIn(table, name) = Candidates(name)
  <2>1. \A k \in DOMAIN table : table[k] \in APs
    BY <1>2
  <2>2. \A k \in DOMAIN table : Value(table[k].ssid) = table[k].ssid
    BY <1>5, <2>1, PlainName DEF InRange
  <2> QED
    BY <1>5, <2>2 DEF InRange, Candidates, CandidatesIn
<1> SUFFICES ASSUME NEW c \in Callers, Done(c), Quiet(c), pick[c].ssid # << >>,
                    InRange(pick[c].ssid)
             PROVE  IF Candidates(pick[c].ssid) = {} THEN pick[c].at = NULL
                    ELSE /\ pick[c].at # NULL
                         /\ \E k \in Candidates(pick[c].ssid) :
                              /\ Shows(results[c].entries[pick[c].at], table[k])
                              /\ \A l \in Candidates(pick[c].ssid) :
                                   Abs(table[k].level) <= Abs(table[l].level)
  BY DEF StrongestInRange, Quiet
<1>6. /\ IsStrongest(pick[c].at, results[c], table, pick[c].ssid)
      /\ CandidatesIn(table, pick[c].ssid) = Candidates(pick[c].ssid)
  BY <1>4, <1>5
<1> QED
  BY <1>6 DEF IsStrongest

(* After a scan that nothing disturbed the entry wifiGetAPInformation      *)
(* finds is that of the strongest access point of that name the supplicant *)
(* knows, and none is found only if it knows none (wifi.c:461-485,         *)
(* includes/wifi.h:212-215), for levels of a magnitude below 1000 and      *)
(* names without `=`.                                                      *)
THEOREM SelectStrongest ==
  ASSUME MaxTable <= MaxResults, DebugLevel >= 1
  PROVE  SelectSpec => []StrongestInRange
<1>1. SelectInit => StrongestInv
  <2> SUFFICES ASSUME SelectInit PROVE StrongestInv
    OBVIOUS
  <2>1. pick = [c \in Callers |-> NoPick]
    BY DEF SelectInit
  <2>2. \A c \in Callers : pick[c].ssid = << >>
    BY <2>1 DEF NoPick
  <2> QED
    BY <2>1, <2>2, QuietInit DEF SelectInit, StrongestInv, PickAt
<1>2. StrongestInv => StrongestInRange
  BY StrongestFollows
<1>3. StrongestInv /\ [SelectNext]_selectVars => StrongestInv'
  BY StrongestInductive
<1> QED
  BY <1>1, <1>2, <1>3, PTL DEF SelectSpec

=============================================================================
