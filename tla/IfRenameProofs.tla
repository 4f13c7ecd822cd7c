--------------------------- MODULE IfRenameProofs ---------------------------
(***************************************************************************)
(* ifrename keeps the names of interfaces that have the right one, and     *)
(* ends, whatever the interfaces, the mappings and the interference are.   *)
(***************************************************************************)
EXTENDS IfRename, FiniteSetTheorems, TLAPS

(* A set of numbers has a least one, and one below a bound a greatest.     *)
LEMMA MinNat ==
  ASSUME NEW S \in SUBSET Nat, S # {}
  PROVE  Min(S) \in S /\ \A x \in S : Min(S) <= x
<1>1. PICK m \in S : \A y \in S : ~ (<<y, m>> \in OpToRel(<, Nat))
  BY NatLessThanWellFounded, WFMin
<1>2. \A y \in S : ~ (y < m)
  BY <1>1 DEF OpToRel
<1>3. m \in S /\ \A y \in S : m <= y
  BY <1>2
<1> QED
  BY <1>3 DEF Min

LEMMA MaxNat ==
  ASSUME NEW n \in Nat, NEW S \in SUBSET (1..n), S # {}
  PROVE  Max(S) \in S
<1> DEFINE T == {n - x : x \in S}
<1>1. \A x \in S : n - x \in Nat /\ x \in Nat
  OBVIOUS
<1>2. T \in SUBSET Nat /\ T # {}
  BY <1>1
<1>3. Min(T) \in T /\ \A x \in S : Min(T) <= n - x
  BY <1>2, MinNat
<1>4. PICK m \in S : Min(T) = n - m
  BY <1>3
<1>5. \A x \in S : m >= x
  <2> SUFFICES ASSUME NEW x \in S PROVE m >= x
    OBVIOUS
  <2>1. n - m <= n - x
    BY <1>3, <1>4
  <2> QED
    BY <1>1, <2>1
<1> QED
  BY <1>5 DEF Max

LEMMA NotStar == Star \notin Units /\ Units \subseteq Nat /\ Names \subseteq Patterns /\ None \notin Names
<1>1. Cardinality(Devices) \in Nat
  BY IfRenameAssumption, FS_CardinalityType
<1>2. Units \subseteq Nat /\ Star \notin Units
  BY <1>1 DEF Units, Star
<1> QED
  BY <1>2, IfRenameAssumption DEF Names, Patterns

(* The types of the state that the other lemmas need. *)
NamesOK == ifname \in [Devices -> Names \cup {None}]

(* There is always a unit that is free, and the name made of it is unused. *)
LEMMA FreeNameUnused ==
  ASSUME NamesOK, NEW base \in Bases
  PROVE  FreeName(base) \in Names /\ Holders(FreeName(base)) = {}
<1> DEFINE E == {e \in Devices : ifname[e] # None /\ ifname[e].base = base}
           used == {ifname[d].unit : d \in E}
           n == Cardinality(Devices)
           f == [d \in E |-> ifname[d].unit]
<1>1. IsFiniteSet(E) /\ Cardinality(E) <= n /\ n \in Nat /\ Cardinality(E) \in Nat
  BY IfRenameAssumption, FS_Subset, FS_CardinalityType
<1>2. f \in Surjection(E, used)
  BY DEF Surjection
<1>3. IsFiniteSet(used) /\ Cardinality(used) <= Cardinality(E)
  BY <1>1, <1>2, FS_Surjection
<1>4. Cardinality(used) \in Nat
  BY <1>3, FS_CardinalityType
<1>5. IsFiniteSet(Units) /\ Cardinality(Units) = 2 * n + 1
  <2>1. 2 * n \in Int /\ ~ 0 > 2 * n /\ 2 * n - 0 + 1 = 2 * n + 1
    BY <1>1
  <2>2. /\ IsFiniteSet(0..2 * n)
        /\ Cardinality(0..2 * n) = IF 0 > 2 * n THEN 0 ELSE 2 * n - 0 + 1
    BY <2>1, FS_Interval
  <2> QED
    BY <2>1, <2>2 DEF Units
<1>6. Units \ used # {}
  <2> SUFFICES ASSUME Units \subseteq used PROVE FALSE
    OBVIOUS
  <2>1. Cardinality(Units) <= Cardinality(used)
    BY <1>3, FS_Subset
  <2> HIDE DEF used, E, n
  <2> QED
    BY <1>1, <1>3, <1>4, <1>5, <2>1
<1>7. Min(Units \ used) \in Units \ used
  <2>1. Units \ used \in SUBSET Nat
    BY NotStar
  <2> HIDE DEF used
  <2> QED
    BY <1>6, <2>1, MinNat
<1>8. FreeName(base) = [base |-> base, unit |-> Min(Units \ used)]
  BY DEF FreeName
<1>9. FreeName(base) \in Names
  BY <1>7, <1>8 DEF Names
<1>10. ASSUME NEW d \in Devices, ifname[d] = FreeName(base) PROVE FALSE
  <2>1. ifname[d] # None /\ ifname[d].base = base
    <3> HIDE DEF used
    <3>1. FreeName(base).base = base
      BY <1>8
    <3> QED
      BY <1>9, <1>10, <3>1, NotStar
  <2>2. ifname[d].unit \in used
    BY <2>1
  <2> HIDE DEF used
  <2>3. ifname[d].unit = Min(Units \ used)
    BY <1>8, <1>10
  <2> QED
    BY <1>7, <2>2, <2>3
<1> QED
  BY <1>9, <1>10 DEF Holders

LEMMA ResolvedUnused ==
  ASSUME NamesOK, NEW pattern \in Patterns, Holders(pattern) = {}
  PROVE  Resolved(pattern) \in Names /\ Holders(Resolved(pattern)) = {}
<1>1. CASE pattern.unit = Star
  BY <1>1, FreeNameUnused DEF Resolved, Patterns
<1>2. CASE pattern.unit # Star
  BY <1>2 DEF Resolved, Patterns, Names
<1> QED
  BY <1>1, <1>2

(* No two interfaces have one name, and renaming keeps it so. *)
Distinct ==
  \A d, e \in Devices : ifname[d] = ifname[e] /\ ifname[d] # None => d = e

LEMMA RenameKeeps ==
  ASSUME NamesOK, Distinct, NEW old \in Names, NEW pattern \in Patterns,
         Errno(old, pattern) = "ok", Rename(old, pattern)
  PROVE  /\ NamesOK' /\ Distinct'
         /\ \E d \in Devices :
              /\ Holders(old) = {d} /\ ifname' = [ifname EXCEPT ![d] = Resolved(pattern)]
              /\ Holders(pattern) = {} /\ d \notin ifup
<1>1. Holders(old) # {} /\ Holders(pattern) = {} /\ Holders(old) \cap ifup = {}
  BY DEF Errno
<1>2. PICK d \in Devices : Holders(old) = {d} /\ ifname[d] = old
  BY <1>1, NotStar DEF Holders, Distinct
<1>3. Resolved(pattern) \in Names /\ Holders(Resolved(pattern)) = {}
  BY <1>1, ResolvedUnused
<1>4. ifname' = [ifname EXCEPT ![d] = Resolved(pattern)]
  BY <1>2 DEF Rename, NamesOK
<1>5. NamesOK'
  BY <1>3, <1>4 DEF NamesOK
<1>6. Distinct'
  BY <1>3, <1>4 DEF NamesOK, Distinct, Holders
<1> QED
  BY <1>1, <1>2, <1>4, <1>5, <1>6

LEMMA FindType ==
  ASSUME iftab \in Iftabs, NEW read
  PROVE  Find(read) \in Patterns \cup {None}
<1> DEFINE found == {i \in Mappings : Accepts(iftab[i], read)}
<1>1. Len(iftab) \in Nat /\ found \in SUBSET (1..Len(iftab))
  BY IfRenameAssumption DEF Mappings
<1>2. found # {} => Max(found) \in found
  <2> HIDE DEF found
  <2> QED
    BY <1>1, MaxNat
<1>3. found # {} => iftab[Max(found)].ifname \in Patterns
  BY <1>2, IfRenameAssumption DEF Mappings
<1> QED
  BY <1>3 DEF Find

-----------------------------------------------------------------------------
(* What holds of a process between its steps: it has an interface at hand; *)
(* of the selectors it has read those that its place tells, from the       *)
(* device if it is still there; and before a second try the name that it   *)
(* wants is not the one it has.                                            *)
AtInterface(p) == pc[p] \in {"extract", "set", "takeover", "retry"}
ReadInOrder(p) ==
  /\ ~ AtInterface(p) => DOMAIN target[p] = {}
  /\ pc[p] = "extract" => DOMAIN target[p] \in {{}, {"mac"}}
  /\ pc[p] \in {"set", "takeover", "retry"} => DOMAIN target[p] = {"mac", "driver"}
ReadFrom(p) ==
  /\ looked[p] = {} <=> DOMAIN target[p] = {}
  /\ None \notin looked[p] =>
       \A s \in DOMAIN target[p] : \E d \in looked[p] : target[p][s] = Attributes[d][s]
Wants(p) == NewName(p) # None /\ ~ Matches(NewName(p), Head(iflist[p]))
PlaceInv(p) ==
  /\ AtInterface(p) => iflist[p] # << >>
  /\ ReadInOrder(p) /\ ReadFrom(p)
  /\ pc[p] \in {"takeover", "retry"} => Wants(p)

(* The inductive invariant. *)
IInv == TypeOK /\ Distinct /\ \A p \in Processes : PlaceInv(p)

LEMMA TypesNamed == TypeOK => NamesOK
BY DEF TypeOK, NamesOK

(* A step of another process, or of no process. *)
LEMMA PlaceKept ==
  ASSUME NEW p, PlaceInv(p), iftab' = iftab, pc'[p] = pc[p], iflist'[p] = iflist[p],
         target'[p] = target[p], looked'[p] = looked[p]
  PROVE  PlaceInv(p)'
BY DEF PlaceInv, AtInterface, ReadInOrder, ReadFrom, Wants, NewName, Find, Mappings

(* process_ifname returns. *)
LEMMA GoOnKeeps ==
  ASSUME TypeOK, NEW p \in Processes, iflist[p] # << >>, NEW name \in Names \cup {None},
         NEW again \in BOOLEAN, GoOn(p, name, again)
  PROVE  /\ pc' \in [Processes -> {"idle", "enum", "extract", "set", "takeover", "retry", "done"}]
         /\ iflist' \in [Processes -> Seq(Names)]
         /\ target' \in [Processes -> Readings]
         /\ retname' \in [Processes -> Names \cup {None}]
         /\ looked' \in [Processes -> SUBSET (Devices \cup {None})]
         /\ second' \in [Processes -> BOOLEAN]
         /\ PlaceInv(p)'
<1>1. << >> \in Readings
  <2>1. << >> \in [{} -> Values]
    OBVIOUS
  <2>2. {} \in SUBSET Range(Selectors)
    OBVIOUS
  <2> QED
    BY <2>1, <2>2 DEF Readings
<1>2. /\ iflist' = [iflist EXCEPT ![p] = Tail(iflist[p])]
      /\ target' = [target EXCEPT ![p] = << >>]
      /\ looked' = [looked EXCEPT ![p] = {}]
      /\ retname' = [retname EXCEPT ![p] = name]
      /\ pc' \in [Processes -> {"idle", "enum", "extract", "set", "takeover", "retry", "done"}]
      /\ pc'[p] = "extract" \/ pc'[p] \in {"idle", "enum", "done"}
      /\ pc'[p] = "extract" => Len(iflist[p]) # 1
  BY DEF GoOn, Goto, TypeOK
<1>3. iflist[p] \in Seq(Names) /\ Tail(iflist[p]) \in Seq(Names)
  BY DEF TypeOK
<1>4. iflist'[p] = Tail(iflist[p]) /\ (pc'[p] = "extract" => iflist'[p] # << >>)
  <2>1. iflist'[p] = Tail(iflist[p])
    BY <1>2 DEF TypeOK
  <2>2. Len(iflist[p]) # 1 => Tail(iflist[p]) # << >>
    <3>1. Len(Tail(iflist[p])) = Len(iflist[p]) - 1 /\ Len(iflist[p]) \in Nat
      BY <1>3
    <3>2. Len(<< >>) = 0
      OBVIOUS
    <3>3. ASSUME Tail(iflist[p]) = << >> PROVE Len(iflist[p]) = 1
      <4>1. Len(Tail(iflist[p])) = 0
        BY <3>2, <3>3
      <4> QED
        BY <3>1, <4>1
    <3> QED
      BY <3>3
  <2> QED
    BY <1>2, <2>1, <2>2
<1>5. second' \in [Processes -> BOOLEAN]
  BY DEF GoOn, TypeOK
<1>6. target'[p] = << >> /\ looked'[p] = {}
  BY <1>2 DEF TypeOK
<1>7. PlaceInv(p)'
  BY <1>2, <1>4, <1>6 DEF PlaceInv, AtInterface, ReadInOrder, ReadFrom
<1> QED
  BY <1>1, <1>2, <1>3, <1>5, <1>7 DEF TypeOK

(* The list has no more names than there are devices. *)
LEMMA ListBound ==
  ASSUME NamesOK
  PROVE  LET names == {ifname[d] : d \in Devices} \ {None}
         IN /\ Cardinality(names) \in Nat /\ Cardinality(names) <= Cardinality(Devices)
            /\ Cardinality(names) = 0 <=> names = {}
<1> DEFINE names == {ifname[d] : d \in Devices} \ {None}
           E == {d \in Devices : ifname[d] # None}
           f == [d \in E |-> ifname[d]]
<1>1. IsFiniteSet(E) /\ Cardinality(E) <= Cardinality(Devices)
  BY IfRenameAssumption, FS_Subset
<1>2. f \in Surjection(E, names)
  BY DEF Surjection
<1>3. IsFiniteSet(names) /\ Cardinality(names) <= Cardinality(E)
  BY <1>1, <1>2, FS_Surjection
<1>4. /\ Cardinality(names) \in Nat /\ Cardinality(E) \in Nat
      /\ Cardinality(Devices) \in Nat
  BY <1>1, <1>3, FS_CardinalityType, IfRenameAssumption
<1>5. Cardinality(names) = 0 <=> names = {}
  BY <1>3, FS_EmptySet
<1> HIDE DEF names, E
<1>6. Cardinality(names) <= Cardinality(Devices)
  BY <1>1, <1>3, <1>4
<1> QED
  BY <1>4, <1>5, <1>6 DEF names

LEMMA EnumKeeps ==
  ASSUME IInv, NEW p \in Processes, EnumDevices(p)
  PROVE  IInv'
<1> DEFINE names == {ifname[d] : d \in Devices} \ {None}
<1>1. PICK list \in [1..Cardinality(names) -> names] : iflist' = [iflist EXCEPT ![p] = list]
  BY DEF EnumDevices
<1>2. Cardinality(names) \in Nat /\ names \subseteq Names
  BY ListBound, TypesNamed DEF IInv, NamesOK
<1>3. list \in Seq(Names) /\ Len(list) = Cardinality(names)
  <2> HIDE DEF names
  <2> QED
    BY <1>2
<1>4. names # {} => list # << >>
  <2>1. names # {} => Len(list) # 0
    BY <1>3, ListBound, TypesNamed DEF IInv
  <2>2. Len(<< >>) = 0
    OBVIOUS
  <2> HIDE DEF names
  <2> QED
    BY <2>1, <2>2
<1>5. /\ pc'[p] = IF names = {} THEN "done" ELSE "extract"
      /\ pc' \in [Processes -> {"idle", "enum", "extract", "set", "takeover", "retry", "done"}]
      /\ iflist'[p] = list /\ iflist' \in [Processes -> Seq(Names)]
  BY <1>1, <1>3 DEF EnumDevices, Goto, IInv, TypeOK
<1> HIDE DEF names
<1>6. TypeOK'
  BY <1>5 DEF EnumDevices, IInv, TypeOK, kernelVars, runVars
<1>7. PlaceInv(p)'
  <2>1. target'[p] = target[p] /\ looked'[p] = looked[p] /\ DOMAIN target[p] = {}
    BY DEF EnumDevices, IInv, PlaceInv, ReadInOrder, AtInterface
  <2>2. target[p] = target'[p] /\ ReadFrom(p)
    BY <2>1 DEF IInv, PlaceInv
  <2> QED
    BY <1>4, <1>5, <2>1, <2>2 DEF PlaceInv, ReadInOrder, ReadFrom, AtInterface
<1>8. ASSUME NEW q \in Processes, q # p PROVE PlaceInv(q)'
  <2>1. PlaceInv(q) /\ iftab' = iftab /\ target' = target /\ looked' = looked
    BY DEF EnumDevices, IInv
  <2>2. pc'[q] = pc[q] /\ iflist'[q] = iflist[q]
    BY <1>1, <1>8 DEF EnumDevices, Goto, IInv, TypeOK
  <2> QED
    BY <2>1, <2>2, PlaceKept
<1>9. Distinct'
  BY DEF EnumDevices, kernelVars, IInv, Distinct
<1> QED
  BY <1>6, <1>7, <1>8, <1>9 DEF IInv

(* mapping_extract reads the selectors one after the other. *)
LEMMA ExtractKeeps ==
  ASSUME IInv, NEW p \in Processes, Extract(p)
  PROVE  IInv'
<1> DEFINE k == Cardinality(DOMAIN target[p]) + 1
           s == Selectors[k]
           h == Holders(Head(iflist[p]))
           v == IF h = {} THEN None ELSE Attributes[CHOOSE d \in h : TRUE][s]
<1>1. pc[p] = "extract" /\ PlaceInv(p) /\ TypeOK
  BY DEF Extract, IInv
<1>2. \/ DOMAIN target[p] = {} /\ k = 1 /\ s = "mac"
      \/ DOMAIN target[p] = {"mac"} /\ k = 2 /\ s = "driver"
  <2>1. Cardinality({}) = 0 /\ Cardinality({"mac"}) = 1
    BY FS_EmptySet, FS_Singleton
  <2>2. Selectors[1] = "mac" /\ Selectors[2] = "driver"
    BY DEF Selectors
  <2>3. DOMAIN target[p] \in {{}, {"mac"}}
    BY <1>1 DEF PlaceInv, ReadInOrder
  <2>4. CASE DOMAIN target[p] = {}
    <3>1. k = 1
      BY <2>1, <2>4
    <3> QED
      BY <2>2, <2>4, <3>1
  <2>5. CASE DOMAIN target[p] = {"mac"}
    <3>1. k = 2
      BY <2>1, <2>5
    <3> QED
      BY <2>2, <2>5, <3>1
  <2> QED
    BY <2>3, <2>4, <2>5
<1>3. "mac" \in Range(Selectors) /\ "driver" \in Range(Selectors)
  <2>1. Selectors[1] = "mac" /\ Selectors[2] = "driver" /\ DOMAIN Selectors = 1..2
    BY DEF Selectors
  <2> QED
    BY <2>1 DEF Range
<1>4. /\ target' = [target EXCEPT ![p] = Active(target[p], s, v)]
      /\ looked' = [looked EXCEPT ![p] = looked[p] \cup IF h = {} THEN {None} ELSE h]
      /\ pc' = [pc EXCEPT ![p] = IF k = 2 THEN "set" ELSE "extract"]
  BY DEF Extract, Goto, Selectors, Reading
<1>5. v \in Values /\ h \subseteq Devices
  <2>1. h \subseteq Devices /\ s \in Range(Selectors)
    BY <1>2, <1>3 DEF Holders
  <2>2. h # {} => (CHOOSE d \in h : TRUE) \in Devices
    BY <2>1
  <2>3. v = None \/ (h # {} /\ v = Attributes[CHOOSE d \in h : TRUE][s])
    OBVIOUS
  <2> HIDE DEF s, h, v
  <2> QED
    BY <2>1, <2>2, <2>3 DEF Values
<1>6. PICK S \in SUBSET Range(Selectors) : target[p] \in [S -> Values]
  BY <1>1 DEF TypeOK, Readings
<1>7. /\ DOMAIN target'[p] = DOMAIN target[p] \cup {s}
      /\ target'[p][s] = v
      /\ \A x \in DOMAIN target[p] : x # s => target'[p][x] = target[p][x]
      /\ target' \in [Processes -> Readings]
  <2> DEFINE t == Active(target[p], s, v)
  <2>1. t = [x \in {s} \cup S |-> IF x = s THEN v ELSE target[p][x]]
    <3> HIDE DEF s, v
    <3> QED
      BY <1>6 DEF Active
  <2>2. t \in [{s} \cup S -> Values] /\ {s} \cup S \in SUBSET Range(Selectors)
    <3>1. s \in Range(Selectors)
      BY <1>2, <1>3
    <3> HIDE DEF s, v, t
    <3> QED
      BY <1>5, <1>6, <2>1, <3>1
  <2>3. t \in Readings
    <3> HIDE DEF t, s
    <3> QED
      BY <2>2 DEF Readings
  <2>4. target' = [target EXCEPT ![p] = t]
    BY <1>4
  <2> HIDE DEF t, s, v
  <2>5. target'[p] = t /\ target' \in [Processes -> Readings]
    BY <1>1, <2>3, <2>4 DEF TypeOK
  <2>6. DOMAIN target[p] = S /\ DOMAIN t = {s} \cup S
    BY <1>6, <2>1
  <2>7. t[s] = v /\ \A x \in S : x # s => t[x] = target[p][x]
    BY <2>1
  <2> QED
    BY <2>5, <2>6, <2>7
<1>8. TypeOK'
  <2>1. looked[p] \cup (IF h = {} THEN {None} ELSE h) \in SUBSET (Devices \cup {None})
    BY <1>1, <1>5 DEF TypeOK
  <2> HIDE DEF h, k
  <2>2. looked' \in [Processes -> SUBSET (Devices \cup {None})]
    BY <1>1, <1>4, <2>1 DEF TypeOK
  <2>3. pc' \in [Processes -> {"idle", "enum", "extract", "set", "takeover", "retry", "done"}]
    BY <1>1, <1>4 DEF TypeOK
  <2> QED
    BY <1>1, <1>7, <2>2, <2>3 DEF Extract, TypeOK, kernelVars, runVars
<1>9. PlaceInv(p)'
  <2>1. /\ pc'[p] = IF k = 2 THEN "set" ELSE "extract"
        /\ looked'[p] = looked[p] \cup IF h = {} THEN {None} ELSE h
        /\ iflist' = iflist
    BY <1>1, <1>4 DEF TypeOK, Extract
  <2>2. iflist'[p] # << >>
    BY <1>1, <2>1 DEF PlaceInv, AtInterface
  <2>3. \/ DOMAIN target'[p] = {"mac"} /\ pc'[p] = "extract"
        \/ DOMAIN target'[p] = {"mac", "driver"} /\ pc'[p] = "set"
    <3> HIDE DEF k, s
    <3> QED
      BY <1>2, <1>7, <2>1
  <2>4. looked'[p] # {} /\ DOMAIN target'[p] # {}
    <3> HIDE DEF h, s
    <3> QED
      BY <2>1, <2>3
  <2>5. ASSUME None \notin looked'[p], NEW x \in DOMAIN target'[p]
        PROVE  \E d \in looked'[p] : target'[p][x] = Attributes[d][x]
    <3>1. h # {} /\ None \notin looked[p]
      BY <2>1, <2>5
    <3>2. CASE x = s
      <4>1. (CHOOSE d \in h : TRUE) \in h
        BY <3>1
      <4>2. v = Attributes[CHOOSE d \in h : TRUE][s]
        BY <3>1
      <4> HIDE DEF h, s, v
      <4> QED
        BY <1>7, <2>1, <3>1, <3>2, <4>1, <4>2
    <3>3. CASE x # s
      <4>1. x \in DOMAIN target[p] /\ target'[p][x] = target[p][x]
        <5> HIDE DEF s, v
        <5> QED
          BY <1>7, <2>5, <3>3
      <4>2. \E d \in looked[p] : target[p][x] = Attributes[d][x]
        BY <1>1, <3>1, <4>1 DEF PlaceInv, ReadFrom
      <4> QED
        BY <2>1, <4>1, <4>2
    <3> QED
      BY <3>2, <3>3
  <2>6. ReadFrom(p)'
    BY <2>4, <2>5 DEF ReadFrom
  <2>7. ReadInOrder(p)'
    BY <2>3 DEF ReadInOrder, AtInterface
  <2> QED
    BY <2>2, <2>3, <2>6, <2>7 DEF PlaceInv
<1>10. ASSUME NEW q \in Processes, q # p PROVE PlaceInv(q)'
  <2>1. PlaceInv(q) /\ iftab' = iftab /\ iflist' = iflist
    BY DEF Extract, IInv
  <2>2. pc'[q] = pc[q] /\ target'[q] = target[q] /\ looked'[q] = looked[q]
    BY <1>1, <1>4, <1>10 DEF TypeOK
  <2> QED
    BY <2>1, <2>2, PlaceKept
<1>11. Distinct'
  BY DEF Extract, kernelVars, IInv, Distinct
<1> QED
  BY <1>8, <1>9, <1>10, <1>11 DEF IInv

(* A step that ends the work on an interface. *)
LEMMA NextKeeps ==
  ASSUME IInv, NEW p \in Processes, AtInterface(p), NEW name \in Names \cup {None},
         NextInterface(p, name), NamesOK', Distinct',
         UNCHANGED <<ifup, events, iftab, takeover, takeovers, aside, moves>>
  PROVE  IInv'
<1> DEFINE again == takeover[p] /\ takeovers[p] > 0 /\ ~ second[p]
<1>1. TypeOK /\ iflist[p] # << >> /\ again \in BOOLEAN /\ GoOn(p, name, again)
  BY DEF IInv, PlaceInv, NextInterface
<1> HIDE DEF again
<1>2. /\ pc' \in [Processes -> {"idle", "enum", "extract", "set", "takeover", "retry", "done"}]
      /\ iflist' \in [Processes -> Seq(Names)] /\ target' \in [Processes -> Readings]
      /\ retname' \in [Processes -> Names \cup {None}]
      /\ looked' \in [Processes -> SUBSET (Devices \cup {None})]
      /\ second' \in [Processes -> BOOLEAN] /\ PlaceInv(p)'
  BY <1>1, GoOnKeeps
<1>3. TypeOK'
  BY <1>1, <1>2 DEF TypeOK, NamesOK
<1>4. ASSUME NEW q \in Processes, q # p PROVE PlaceInv(q)'
  <2>1. /\ pc'[q] = pc[q] /\ iflist'[q] = iflist[q]
        /\ target'[q] = target[q] /\ looked'[q] = looked[q]
    BY <1>1, <1>4 DEF TypeOK, GoOn, Goto
  <2> QED
    BY <2>1, PlaceKept DEF IInv
<1> QED
  BY <1>2, <1>3, <1>4 DEF IInv

(* The name at hand, and what the process wants to make of it. *)
LEMMA NamesAtHand ==
  ASSUME IInv, NEW p \in Processes, AtInterface(p)
  PROVE  Head(iflist[p]) \in Names /\ NewName(p) \in Patterns \cup {None}
<1>1. iflist[p] \in Seq(Names) /\ iflist[p] # << >> /\ iftab \in Iftabs
  BY DEF IInv, TypeOK, PlaceInv
<1>2. NewName(p) \in Patterns \cup {None}
  BY <1>1, FindType DEF NewName
<1> QED
  BY <1>1, <1>2

LEMMA SetKeeps ==
  ASSUME IInv, NEW p \in Processes, IfSetName(p)
  PROVE  IInv'
<1> DEFINE old == Head(iflist[p])
           new == NewName(p)
           satisfied == Matches(new, old)
<1>1. /\ pc[p] = "set" /\ AtInterface(p) /\ TypeOK /\ NamesOK /\ Distinct
      /\ UNCHANGED <<ifup, events, iftab, takeover, aside, moves>>
  BY TypesNamed DEF IfSetName, SetName, AtInterface, IInv
<1>2. old \in Names /\ new \in Patterns \cup {None}
  BY <1>1, NamesAtHand
<1>3. CASE ifname' = ifname /\ takeovers' = takeovers /\ NextInterface(p, None)
  BY <1>1, <1>3, NextKeeps DEF NamesOK, Distinct
<1>4. CASE ifname' = ifname /\ takeovers' = takeovers /\ NextInterface(p, old)
  BY <1>1, <1>2, <1>4, NextKeeps DEF NamesOK, Distinct
<1>5. CASE /\ new # None /\ Errno(old, new) = "ok" /\ Rename(old, new)
           /\ takeovers' = takeovers /\ NextInterface(p, RealName(new))
  <2>1. NamesOK' /\ Distinct'
    BY <1>1, <1>2, <1>5, RenameKeeps
  <2>2. RealName(new) \in Names
    <3>1. Holders(new) = {}
      BY <1>1, <1>2, <1>5, RenameKeeps
    <3> QED
      BY <1>1, <1>2, <1>5, <3>1, ResolvedUnused DEF RealName
  <2> QED
    BY <1>1, <1>5, <2>1, <2>2, NextKeeps
<1>6. CASE /\ new # None /\ ~ satisfied /\ Goto(p, "takeover")
           /\ UNCHANGED <<ifname, second, takeovers, iflist, target, retname, looked>>
  <2>1. TypeOK'
    BY <1>1, <1>6 DEF TypeOK, Goto
  <2>2. pc'[p] = "takeover" /\ \A q \in Processes \ {p} : pc'[q] = pc[q]
    BY <1>1, <1>6 DEF TypeOK, Goto
  <2>3. Wants(p)'
    BY <1>1, <1>6 DEF Wants, NewName, Find, Mappings
  <2>4. PlaceInv(p)'
    BY <1>1, <1>6, <2>2, <2>3
       DEF IInv, PlaceInv, AtInterface, ReadInOrder, ReadFrom
  <2>5. \A q \in Processes \ {p} : PlaceInv(q)'
    BY <1>1, <1>6, <2>2, PlaceKept DEF IInv
  <2> QED
    BY <1>1, <1>6, <2>1, <2>4, <2>5 DEF IInv, Distinct
<1> QED
  BY <1>3, <1>4, <1>5, <1>6 DEF IfSetName, SetName

LEMMA RetryKeeps ==
  ASSUME IInv, NEW p \in Processes, Retry(p)
  PROVE  IInv'
<1> DEFINE old == Head(iflist[p])
           new == NewName(p)
<1>1. /\ pc[p] = "retry" /\ AtInterface(p) /\ TypeOK /\ NamesOK /\ Distinct /\ Wants(p)
      /\ UNCHANGED <<ifup, events, iftab, takeover, takeovers, aside, moves>>
  BY TypesNamed DEF Retry, AtInterface, IInv, PlaceInv
<1>2. old \in Names /\ new \in Patterns
  BY <1>1, NamesAtHand DEF Wants
<1>3. CASE ifname' = ifname /\ NextInterface(p, None)
  BY <1>1, <1>3, NextKeeps DEF NamesOK, Distinct
<1>4. CASE Errno(old, new) = "ok" /\ Rename(old, new) /\ NextInterface(p, RealName(new))
  <2>1. NamesOK' /\ Distinct' /\ Holders(new) = {}
    BY <1>1, <1>2, <1>4, RenameKeeps
  <2>2. RealName(new) \in Names
    BY <1>1, <1>2, <2>1, ResolvedUnused DEF RealName
  <2> QED
    BY <1>1, <1>4, <2>1, <2>2, NextKeeps
<1> QED
  BY <1>3, <1>4 DEF Retry

LEMMA TakeoverKeeps ==
  ASSUME IInv, NEW p \in Processes, IfTakeoverName(p)
  PROVE  IInv'
<1> DEFINE new == NewName(p)
           auto == [new EXCEPT !.unit = Star]
<1>1. /\ pc[p] = "takeover" /\ AtInterface(p) /\ TypeOK /\ NamesOK /\ Distinct /\ Wants(p)
      /\ UNCHANGED <<ifup, events, iftab, takeover, moves>>
  BY TypesNamed DEF IfTakeoverName, AtInterface, IInv, PlaceInv
<1>2. new \in Patterns /\ auto \in Patterns
  BY <1>1, NamesAtHand DEF Wants, Patterns
<1>3. CASE NextInterface(p, None) /\ UNCHANGED <<ifname, takeovers, aside>>
  BY <1>1, <1>3, NextKeeps DEF NamesOK, Distinct
<1>4. CASE /\ Errno(new, auto) = "ok" /\ Rename(new, auto) /\ Goto(p, "retry")
           /\ aside' = IF second[p] THEN aside \cup Holders(new) ELSE aside
           /\ takeovers' = [takeovers EXCEPT ![p] = @ + 1]
           /\ UNCHANGED <<second, iflist, target, retname, looked>>
  <2>1. new \in Names
    <3>1. Holders(new) # {}
      BY <1>4 DEF Errno
    <3>2. \E d \in Devices : ifname[d] = new
      BY <3>1 DEF Holders
    <3> QED
      BY <1>1, <1>2, <3>2, IfRenameAssumption DEF NamesOK
  <2>2. NamesOK' /\ Distinct'
    BY <1>1, <1>2, <1>4, <2>1, RenameKeeps
  <2>3. TypeOK'
    <3>1. takeovers' \in [Processes -> Nat] /\ aside' \subseteq Devices
      BY <1>1, <1>4 DEF TypeOK, Holders
    <3> QED
      BY <1>1, <1>4, <2>2, <3>1 DEF TypeOK, NamesOK, Goto
  <2>4. pc'[p] = "retry" /\ \A q \in Processes \ {p} : pc'[q] = pc[q]
    BY <1>1, <1>4 DEF TypeOK, Goto
  <2>5. Wants(p)'
    BY <1>1, <1>4 DEF Wants, NewName, Find, Mappings
  <2>6. PlaceInv(p)'
    BY <1>1, <1>4, <2>4, <2>5
       DEF IInv, PlaceInv, AtInterface, ReadInOrder, ReadFrom
  <2>7. \A q \in Processes \ {p} : PlaceInv(q)'
    BY <1>1, <1>4, <2>4, PlaceKept DEF IInv
  <2> QED
    BY <2>2, <2>3, <2>6, <2>7 DEF IInv
<1> QED
  BY <1>3, <1>4 DEF IfTakeoverName

LEMMA StepKeeps ==
  ASSUME IInv, NEW p \in Processes, Step(p)
  PROVE  IInv'
BY EnumKeeps, ExtractKeeps, SetKeeps, TakeoverKeeps, RetryKeeps DEF Step

LEMMA MainKeeps ==
  ASSUME IInv, MainAll \/ MainOne
  PROVE  IInv'
<1>1. TypeOK /\ \A q \in Processes : PlaceInv(q)
  BY DEF IInv
<1>2. CASE MainAll
  <2>1. TypeOK'
    BY <1>1, <1>2 DEF MainAll, TypeOK, kernelVars, Goto
  <2>2. /\ pc["init"] = "idle" /\ pc'["init"] = "enum" /\ pc'["hotplug"] = pc["hotplug"]
        /\ UNCHANGED <<iftab, iflist, target, looked, ifname>>
    BY <1>1, <1>2 DEF MainAll, TypeOK, kernelVars, Goto, Processes
  <2>3. PlaceInv("init")'
    BY <1>1, <2>2 DEF PlaceInv, AtInterface, ReadInOrder, ReadFrom, Processes
  <2>4. PlaceInv("hotplug")'
    BY <1>1, <2>2, PlaceKept DEF Processes
  <2> QED
    BY <2>1, <2>2, <2>3, <2>4 DEF IInv, Distinct, Processes
<1>3. CASE MainOne
  <2>1. PICK n \in events : iflist' = [iflist EXCEPT !["hotplug"] = <<n>>] /\ events' = events \ {n}
    BY <1>3 DEF MainOne
  <2>2. n \in Names /\ <<n>> \in Seq(Names) /\ <<n>> # << >>
    BY <1>1, <2>1 DEF TypeOK
  <2>3. TypeOK'
    BY <1>1, <1>3, <2>1, <2>2 DEF MainOne, TypeOK, runVars, Goto
  <2>4. /\ pc["hotplug"] = "idle" /\ pc'["hotplug"] = "extract" /\ pc'["init"] = pc["init"]
        /\ iflist'["hotplug"] = <<n>> /\ iflist'["init"] = iflist["init"]
        /\ UNCHANGED <<iftab, target, looked, ifname>>
    BY <1>1, <1>3, <2>1 DEF MainOne, TypeOK, runVars, Goto, Processes
  <2>5. PlaceInv("hotplug")'
    BY <1>1, <2>2, <2>4 DEF PlaceInv, AtInterface, ReadInOrder, ReadFrom, Processes
  <2>6. PlaceInv("init")'
    BY <1>1, <2>4, PlaceKept DEF Processes
  <2> QED
    BY <2>3, <2>4, <2>5, <2>6 DEF IInv, Distinct, Processes
<1> QED
  BY <1>2, <1>3

LEMMA OthersKeep ==
  ASSUME IInv, Others
  PROVE  IInv'
<1>1. /\ TypeOK /\ NamesOK /\ Distinct /\ moves' = moves + 1 /\ moves < MaxMoves
      /\ UNCHANGED <<iftab, pc, runVars, iflist, target, retname, looked, aside>>
  BY TypesNamed DEF IInv, Others
<1>2. PICK d \in Devices : Plug(d) \/ Unplug(d) \/ IfUpDown(d)
  BY DEF Others
<1>3. NamesOK' /\ Distinct' /\ ifup' \subseteq Devices /\ events' \subseteq Names
  <2>1. CASE Plug(d)
    <3> DEFINE name == FreeName(DefaultBase[d])
    <3>1. name \in Names /\ Holders(name) = {}
      BY <1>1, FreeNameUnused, IfRenameAssumption
    <3>2. ifname' = [ifname EXCEPT ![d] = name] /\ events' = events \cup {ifname'[d]} /\ ifup' = ifup
      BY <2>1 DEF Plug
    <3> HIDE DEF name
    <3>3. NamesOK' /\ ifname'[d] = name
      BY <1>1, <3>1, <3>2 DEF NamesOK
    <3>4. Distinct'
      BY <1>1, <3>1, <3>2 DEF NamesOK, Distinct, Holders
    <3> QED
      BY <1>1, <3>1, <3>2, <3>3, <3>4 DEF TypeOK
  <2>2. CASE Unplug(d)
    BY <1>1, <2>2 DEF Unplug, NamesOK, Distinct, TypeOK
  <2>3. CASE IfUpDown(d)
    BY <1>1, <2>3 DEF IfUpDown, NamesOK, Distinct, TypeOK
  <2> QED
    BY <1>2, <2>1, <2>2, <2>3
<1>4. TypeOK'
  <2>1. moves' \in 0..MaxMoves
    BY <1>1, IfRenameAssumption DEF TypeOK
  <2> QED
    BY <1>1, <1>3, <2>1 DEF TypeOK, NamesOK, runVars
<1>5. \A q \in Processes : PlaceInv(q)'
  BY <1>1, PlaceKept DEF IInv
<1> QED
  BY <1>3, <1>4, <1>5 DEF IInv

LEMMA InitIInv ==
  ASSUME Init
  PROVE  IInv
<1>1. Cardinality(Devices) \in Nat
  BY IfRenameAssumption, FS_CardinalityType
<1>2. ifname \in [Devices -> Names \cup {None}]
  <2>1. 0..Cardinality(Devices) - 1 \subseteq Units
    BY <1>1 DEF Units
  <2> QED
    BY <2>1 DEF Init, BootNames, Names
<1>3. << >> \in Readings /\ DOMAIN << >> = {} /\ << >> \in Seq(Names)
  <2>1. << >> \in [{} -> Values] /\ {} \in SUBSET Range(Selectors)
    OBVIOUS
  <2> QED
    BY <2>1 DEF Readings
<1>4. TypeOK
  BY <1>2, <1>3, IfRenameAssumption DEF Init, TypeOK
<1>5. Distinct
  BY DEF Init, BootNames, Distinct
<1>6. \A p \in Processes : PlaceInv(p)
  BY <1>3 DEF Init, PlaceInv, AtInterface, ReadInOrder, ReadFrom
<1> QED
  BY <1>4, <1>5, <1>6 DEF IInv

LEMMA NextIInv ==
  ASSUME IInv, [Next]_vars
  PROVE  IInv'
<1>1. ASSUME Run PROVE IInv'
  BY <1>1, MainKeeps, StepKeeps DEF Run
<1>2. ASSUME Others PROVE IInv'
  BY <1>2, OthersKeep
<1>3. CASE UNCHANGED vars
  <2>1. TypeOK' /\ Distinct'
    BY <1>3 DEF vars, kernelVars, runVars, IInv, TypeOK, Distinct
  <2>2. \A p \in Processes : PlaceInv(p)'
    BY <1>3, PlaceKept DEF vars, kernelVars, runVars, IInv
  <2> QED
    BY <2>1, <2>2 DEF IInv
<1> QED
  BY <1>1, <1>2, <1>3 DEF Next

LEMMA InvHolds == Spec => []IInv
<1>1. Init => IInv
  BY InitIInv
<1>2. IInv /\ [Next]_vars => IInv'
  BY NextIInv
<1> QED
  BY <1>1, <1>2, PTL DEF Spec

-----------------------------------------------------------------------------
(* If the names it has looked at are still right, a process has read one   *)
(* device, which still has the name, and wants what /etc/iftab asks for it. *)
LEMMA Fresh ==
  ASSUME IInv, NEW p \in Processes, pc[p] \in {"set", "takeover", "retry"}, ~ Stale(p)
  PROVE  \E d \in Devices :
           /\ looked[p] = {d} /\ Holders(Head(iflist[p])) = {d}
           /\ ifname[d] = Head(iflist[p]) /\ NewName(p) = Claim(d)
<1> DEFINE old == Head(iflist[p])
<1>1. /\ TypeOK /\ Distinct /\ AtInterface(p) /\ PlaceInv(p)
      /\ old \in Names /\ None \notin looked[p] /\ looked[p] \subseteq Devices \cup {None}
      /\ \A d \in looked[p] : ifname[d] = old
  BY NamesAtHand DEF IInv, AtInterface, Stale, TypeOK
<1>2. DOMAIN target[p] = {"mac", "driver"} /\ looked[p] # {}
  BY <1>1 DEF PlaceInv, ReadInOrder, ReadFrom
<1>3. PICK d \in Devices : d \in looked[p] /\ ifname[d] = old
  BY <1>1, <1>2
<1>4. looked[p] = {d} /\ Holders(old) = {d}
  BY <1>1, <1>3, NotStar DEF Distinct, Holders
<1>5. DOMAIN Attributes[d] = {"mac", "driver"}
  <2>1. Range(Selectors) = {"mac", "driver"}
    <3>1. Selectors[1] = "mac" /\ Selectors[2] = "driver" /\ DOMAIN Selectors = {1, 2}
      BY DEF Selectors
    <3> QED
      BY <3>1 DEF Range
  <2> QED
    BY <2>1, IfRenameAssumption
<1>6. \A s \in DOMAIN target[p] : target[p][s] = Attributes[d][s]
  BY <1>1, <1>4 DEF PlaceInv, ReadFrom
<1>7. Active(target[p], "prevname", old) = Active(Attributes[d], "prevname", old)
  <2> HIDE DEF old
  <2> QED
    BY <1>2, <1>5, <1>6 DEF Active
<1>8. NewName(p) = Claim(d)
  BY <1>3, <1>7 DEF NewName, Claim
<1> QED
  BY <1>3, <1>4, <1>8

(* The step of a process renames no interface that has its name.           *)
LEMMA RenameWanted ==
  ASSUME IInv, NEW p \in Processes, Step(p), NEW d \in Devices,
         ifname'[d] # ifname[d], Named(d), OneToOne
  PROVE  Stale(p)
<1> SUFFICES ASSUME ~ Stale(p) PROVE FALSE
  OBVIOUS
<1> DEFINE old == Head(iflist[p])
           new == NewName(p)
<1>1. TypeOK /\ NamesOK /\ Distinct /\ PlaceInv(p)
  BY TypesNamed DEF IInv
<1>2. CASE IfSetName(p) \/ Retry(p)
  <2>1. /\ pc[p] \in {"set", "retry"} /\ AtInterface(p)
        /\ new # None /\ ~ Matches(new, old)
        /\ Errno(old, new) = "ok" /\ Rename(old, new)
    BY <1>1, <1>2 DEF IfSetName, SetName, Retry, AtInterface, PlaceInv, Wants
  <2>2. PICK e \in Devices : Holders(old) = {e} /\ ifname[e] = old /\ new = Claim(e)
    BY <2>1, Fresh
  <2>3. d = e
    BY <2>1, <2>2 DEF Rename
  <2> QED
    BY <2>1, <2>2, <2>3 DEF Named
<1>3. CASE IfTakeoverName(p)
  <2> DEFINE auto == [new EXCEPT !.unit = Star]
  <2>1. /\ pc[p] = "takeover" /\ AtInterface(p) /\ Wants(p)
        /\ Errno(new, auto) = "ok" /\ Rename(new, auto)
    BY <1>1, <1>3 DEF IfTakeoverName, AtInterface, PlaceInv
  <2>2. PICK e \in Devices : ifname[e] = old /\ new = Claim(e)
    BY <2>1, Fresh
  <2>3. new \in Patterns /\ ifname[d] = new
    BY <2>1, NamesAtHand DEF Rename, Holders, Wants
  <2>4. new \in Names /\ new.unit # Star
    BY <1>1, <2>3, NotStar, IfRenameAssumption DEF NamesOK, Names
  <2>5. d # e
    BY <2>1, <2>2, <2>3, <2>4 DEF Wants, Matches
  <2>6. Overlap(Claim(d), Claim(e)) /\ Claim(d) # None
    BY <2>2, <2>3 DEF Named, Matches, Overlap
  <2> QED
    BY <2>1, <2>2, <2>4, <2>5, <2>6 DEF OneToOne, Wants
<1>4. CASE EnumDevices(p) \/ Extract(p)
  BY <1>4 DEF EnumDevices, Extract, kernelVars
<1> QED
  BY <1>2, <1>3, <1>4 DEF Step

(* An interface that has its name keeps it, also against takeovers, unless *)
(* the process that renames it works on an old name (ifrename.c:517-631).  *)
THEOREM IfRenameKeeps == Spec => NamesKept
<1> DEFINE Kept(d) == ifname'[d] \notin {None, ifname[d]} /\ Named(d) /\ OneToOne =>
                        \E p \in Processes : Step(p) /\ Stale(p)
<1>1. IInv /\ [Next]_vars => [\A d \in Devices : Kept(d)]_vars
  <2> SUFFICES ASSUME IInv, Next, NEW d \in Devices, ifname'[d] \notin {None, ifname[d]},
                      Named(d), OneToOne
               PROVE  \E p \in Processes : Step(p) /\ Stale(p)
    OBVIOUS
  <2>1. ASSUME NEW p \in Processes, Step(p) PROVE Stale(p)
    BY <2>1, RenameWanted
  <2>2. CASE MainAll \/ MainOne
    BY <2>2 DEF MainAll, MainOne, kernelVars
  <2>3. CASE Others
    <3>1. PICK e \in Devices : Plug(e) \/ Unplug(e) \/ IfUpDown(e)
      BY <2>3 DEF Others
    <3>2. d = e /\ ifname[d] = None
      BY <3>1, TypesNamed DEF Plug, Unplug, IfUpDown, IInv, NamesOK
    <3> QED
      BY <3>2 DEF Named
  <2> QED
    BY <2>1, <2>2, <2>3 DEF Next, Run
<1> QED
  BY <1>1, InvHolds, PTL DEF Spec, NamesKept

(* The state has its types, with any number of interfaces, names and       *)
(* mappings (ifrename.c:468-631, 2040-2301, 2468-2594).                    *)
THEOREM IfRenameTypes == Spec => []TypeOK
<1>1. IInv => TypeOK
  BY DEF IInv
<1> QED
  BY <1>1, InvHolds, PTL

(* The name that is returned is the one that the interface has got         *)
(* (ifrename.c:560-631).                                                   *)
THEOREM IfRenameReturns == Spec => ReturnsName
<1> DEFINE Returned(p) ==
             pc[p] \in {"set", "retry"} /\ retname'[p] # None /\ iflist'[p] # iflist[p] =>
               Stale(p) \/ \A d \in looked[p] : ifname'[d] = retname'[p]
<1>1. IInv /\ [Next]_vars => [\A p \in Processes : Returned(p)]_vars
  <2> SUFFICES ASSUME IInv, Next, NEW p \in Processes, pc[p] \in {"set", "retry"},
                      retname'[p] # None, iflist'[p] # iflist[p], ~ Stale(p),
                      NEW d \in looked[p]
               PROVE  ifname'[d] = retname'[p]
    OBVIOUS
  <2> DEFINE old == Head(iflist[p])
             new == NewName(p)
  <2>1. TypeOK /\ d \in Devices /\ ifname[d] = old /\ Holders(old) = {d}
    BY Fresh DEF IInv
  <2>2. ASSUME NEW q \in Processes, Step(q) PROVE q = p
    <3> SUFFICES ASSUME q # p PROVE FALSE
      OBVIOUS
    <3>1. iflist'[p] = iflist[p]
      BY <2>1, <2>2 DEF Step, EnumDevices, Extract, IfSetName, SetName, IfTakeoverName,
                        Retry, NextInterface, GoOn, TypeOK
    <3> QED
      BY <3>1
  <2>3. ~ MainAll /\ ~ Others
    BY DEF MainAll, Others
  <2>4. ~ MainOne
    <3> SUFFICES ASSUME MainOne PROVE FALSE
      OBVIOUS
    <3>1. p # "hotplug" /\ \E n \in events : iflist' = [iflist EXCEPT !["hotplug"] = <<n>>]
      BY DEF MainOne
    <3> QED
      BY <2>1, <3>1 DEF TypeOK
  <2>5. IfSetName(p) \/ Retry(p)
    BY <2>2, <2>3, <2>4 DEF Next, Run, Step, EnumDevices, Extract, IfTakeoverName
  <2>6. \/ ifname' = ifname /\ NextInterface(p, old)
        \/ Rename(old, new) /\ NextInterface(p, RealName(new))
    <3>1. ASSUME NextInterface(p, None) PROVE FALSE
      BY <2>1, <3>1 DEF NextInterface, GoOn, TypeOK
    <3> QED
      BY <2>5, <3>1 DEF IfSetName, SetName, Retry
  <2>7. CASE ifname' = ifname /\ NextInterface(p, old)
    BY <2>1, <2>7 DEF NextInterface, GoOn, TypeOK
  <2>8. CASE Rename(old, new) /\ NextInterface(p, RealName(new))
    BY <2>1, <2>8 DEF NextInterface, GoOn, TypeOK, Rename, RealName
  <2> QED
    BY <2>6, <2>7, <2>8
<1> QED
  BY <1>1, InvHolds, PTL DEF Spec, ReturnsName

-----------------------------------------------------------------------------
(* What the init script does if nobody interferes.                         *)

(* The hotplug script has nothing to do, and no interface is up.           *)
Alone == pc["hotplug"] = "idle" /\ events = {} /\ ifup = {}

(* What it has read is of the interface that has the name at hand, if any  *)
(* has; and the kernel will not refuse what it is about to ask for.        *)
Sure == AtInterface("init") /\ Holders(Head(iflist["init"])) # {} => ~ Stale("init")
Held ==
  /\ pc["init"] \in {"takeover", "retry"} => Holders(Head(iflist["init"])) # {}
  /\ pc["init"] = "takeover" => Holders(NewName("init")) # {}
  /\ pc["init"] = "retry" => Holders(NewName("init")) = {}

(* Each interface is as it is to be, or its turn is still to come: in this *)
(* pass, or because a name has been taken over in a second one.            *)
Waiting(d) == ifname[d] \in Range(iflist["init"])
Again == ~ second["init"] /\ takeovers["init"] > 0
PassInv ==
  takeover["init"] /\ NoPrevname =>
    /\ AtInterface("init") => \A d \in Devices : Settled(d) \/ Waiting(d) \/ Again
    /\ pc["init"] = "done" => \A d \in Devices : Settled(d)

BootInv == IInv /\ (moves = 0 => Alone /\ Sure /\ Held /\ PassInv)

LEMMA InitIsProcess == "init" \in Processes /\ "hotplug" \in Processes
BY DEF Processes

(* A mapping that does not look at the previous name does not change with  *)
(* it.                                                                     *)
LEMMA FindStable ==
  ASSUME iftab \in Iftabs, NoPrevname, NEW d \in Devices, NEW n, NEW m
  PROVE  Find(Active(Attributes[d], "prevname", n)) = Find(Active(Attributes[d], "prevname", m))
<1> DEFINE rn == Active(Attributes[d], "prevname", n)
           rm == Active(Attributes[d], "prevname", m)
<1>1. DOMAIN Attributes[d] = Range(Selectors)
  BY IfRenameAssumption
<1>2. \A s \in Range(Selectors) : s # "prevname" => rn[s] = rm[s]
  BY <1>1 DEF Active
<1>3. ASSUME NEW i \in Mappings PROVE Accepts(iftab[i], rn) <=> Accepts(iftab[i], rm)
  <2>1. \A s \in DOMAIN iftab[i].selectors : s \in Range(Selectors) /\ s # "prevname"
    BY IfRenameAssumption DEF Mappings, NoPrevname
  <2> HIDE DEF rn, rm
  <2> QED
    BY <1>2, <2>1 DEF Accepts
<1> HIDE DEF rn, rm
<1>4. {i \in Mappings : Accepts(iftab[i], rn)} = {i \in Mappings : Accepts(iftab[i], rm)}
  BY <1>3
<1>5. Find(rn) = Find(rm)
  BY <1>4 DEF Find
<1> QED
  BY <1>5 DEF rn, rm

LEMMA ClaimStable ==
  ASSUME iftab \in Iftabs, NoPrevname, iftab' = iftab, NEW d \in Devices
  PROVE  Claim(d)' = Claim(d) /\ NoPrevname'
<1>1. Find(Active(Attributes[d], "prevname", ifname'[d])) = Claim(d)
  BY FindStable DEF Claim
<1>2. Claim(d)' = Find(Active(Attributes[d], "prevname", ifname'[d]))
  BY DEF Claim, Find, Mappings
<1> QED
  BY <1>1, <1>2 DEF NoPrevname

(* What a step does not touch stays settled.                               *)
LEMMA SettledKept ==
  ASSUME iftab \in Iftabs, NoPrevname, iftab' = iftab, NEW d \in Devices,
         ifname'[d] = ifname[d], aside \subseteq aside', Settled(d)
  PROVE  Settled(d)'
BY ClaimStable DEF Settled, Named

(* The name a device gets is the one asked for. *)
LEMMA RenamedIsNamed ==
  ASSUME IInv, NoPrevname, iftab' = iftab, NEW d \in Devices,
         Claim(d) # None, Holders(Claim(d)) = {}, ifname'[d] = Resolved(Claim(d))
  PROVE  Settled(d)'
<1>1. iftab \in Iftabs /\ NamesOK
  BY TypesNamed DEF IInv, TypeOK
<1>2. Claim(d) \in Patterns
  BY <1>1, FindType DEF Claim
<1>3. Resolved(Claim(d)) \in Names
  BY <1>1, <1>2, ResolvedUnused
<1>4. Matches(Claim(d), Resolved(Claim(d)))
  BY DEF Matches, Resolved, FreeName
<1>5. Claim(d)' = Claim(d)
  BY <1>1, ClaimStable
<1> QED
  BY <1>3, <1>4, <1>5, NotStar DEF Settled, Named

(* The work on an interface ends: the next one is at hand, or the pass is  *)
(* over.                                                                   *)
LEMMA PassGoesOn ==
  ASSUME IInv, NEW name \in Names \cup {None}, AtInterface("init"),
         NextInterface("init", name), takeover' = takeover, takeovers' = takeovers,
         takeover["init"] /\ NoPrevname =>
           \A d \in Devices :
             Settled(d)' \/ ifname'[d] \in Range(Tail(iflist["init"])) \/ Again,
         iftab' = iftab
  PROVE  PassInv' /\ Sure' /\ Held' /\ pc'["hotplug"] = pc["hotplug"]
<1> DEFINE again == takeover["init"] /\ takeovers["init"] > 0 /\ ~ second["init"]
           last == Len(iflist["init"]) = 1
<1>1. TypeOK /\ iflist["init"] # << >> /\ iflist["init"] \in Seq(Names) /\ "init" \in Processes
  BY InitIsProcess DEF IInv, PlaceInv, TypeOK
<1>2. GoOn("init", name, again)
  BY DEF NextInterface
<1> HIDE DEF again
<1>3. /\ iflist'["init"] = Tail(iflist["init"]) /\ looked'["init"] = {}
      /\ second'["init"] = (second["init"] \/ (last /\ again))
      /\ pc'["init"] = CASE ~ last -> "extract"
                          [] last /\ again -> "enum"
                          [] last /\ ~ again -> "done"
      /\ pc'["hotplug"] = pc["hotplug"]
  BY <1>1, <1>2 DEF GoOn, Goto, TypeOK
<1>4. pc'["init"] \in {"extract", "enum", "done"}
  BY <1>3
<1>5. Sure' /\ Held'
  BY <1>3, <1>4 DEF Sure, Held, Stale
<1>6. PassInv'
  <2> SUFFICES ASSUME takeover["init"], NoPrevname
               PROVE  /\ AtInterface("init")' =>
                           \A d \in Devices : Settled(d)' \/ Waiting(d)' \/ Again'
                      /\ pc'["init"] = "done" => \A d \in Devices : Settled(d)'
    BY DEF PassInv, NoPrevname
  <2>1. CASE ~ last
    <3>1. pc'["init"] = "extract" /\ second'["init"] = second["init"]
      BY <1>1, <1>3, <2>1 DEF TypeOK
    <3>2. Again' = Again
      BY <3>1 DEF Again
    <3> QED
      BY <1>3, <3>1, <3>2 DEF Waiting
  <2>2. CASE last /\ again
    BY <1>3, <2>2 DEF AtInterface
  <2>3. CASE last /\ ~ again
    <3>1. pc'["init"] = "done" /\ ~ Again
      BY <1>3, <2>3 DEF Again, again
    <3>2. Range(Tail(iflist["init"])) = {}
      <4> DEFINE rest == Tail(iflist["init"])
      <4>1. rest \in Seq(Names) /\ Len(rest) = 0
        BY <1>1, <2>3
      <4> HIDE DEF rest
      <4>2. DOMAIN rest = 1..0
        BY <4>1
      <4>3. \A k \in DOMAIN rest : FALSE
        BY <4>2
      <4>4. Range(rest) = {}
        BY <4>3 DEF Range
      <4> QED
        BY <4>4 DEF rest
    <3> QED
      BY <3>1, <3>2 DEF AtInterface
  <2> QED
    BY <2>1, <2>2, <2>3
<1> QED
  BY <1>3, <1>5, <1>6

(* A name that is on the list is the one at hand or one of the rest.       *)
LEMMA HeadOrTail ==
  ASSUME NEW s \in Seq(Names), s # << >>, NEW n \in Range(s)
  PROVE  n = Head(s) \/ n \in Range(Tail(s))
<1>1. PICK k \in 1..Len(s) : n = s[k]
  BY DEF Range
<1>2. CASE k = 1
  BY <1>1, <1>2
<1>3. CASE k # 1
  <2>1. k - 1 \in 1..Len(Tail(s)) /\ Tail(s)[k - 1] = s[k]
    BY <1>3
  <2>2. k - 1 \in DOMAIN Tail(s)
    BY <2>1
  <2> QED
    BY <1>1, <2>1, <2>2 DEF Range
<1> QED
  BY <1>2, <1>3

(* A step of the init script renames the interface at hand as it is to be. *)
LEMMA BootRenames ==
  ASSUME IInv, Sure, PassInv, pc["init"] \in {"set", "retry"},
         LET old == Head(iflist["init"])
             new == NewName("init") IN
         /\ new # None /\ Errno(old, new) = "ok" /\ Rename(old, new)
         /\ NextInterface("init", RealName(new)),
         UNCHANGED <<iftab, takeover, takeovers, aside>>
  PROVE  PassInv' /\ Sure' /\ Held' /\ pc'["hotplug"] = pc["hotplug"]
<1> DEFINE old == Head(iflist["init"])
           new == NewName("init")
<1>1. /\ AtInterface("init") /\ "init" \in Processes /\ NamesOK /\ Distinct
      /\ iftab \in Iftabs /\ iflist["init"] \in Seq(Names) /\ iflist["init"] # << >>
  BY InitIsProcess, TypesNamed DEF AtInterface, IInv, TypeOK, PlaceInv
<1>2. old \in Names /\ new \in Patterns
  BY <1>1, NamesAtHand
<1>3. PICK d \in Devices :
        /\ Holders(old) = {d} /\ ifname' = [ifname EXCEPT ![d] = Resolved(new)]
        /\ Holders(new) = {}
  BY <1>1, <1>2, RenameKeeps
<1>4. new = Claim(d) /\ ifname[d] = old
  <2>1. ~ Stale("init")
    BY <1>1, <1>3 DEF Sure
  <2>2. \E e \in Devices : Holders(old) = {e} /\ ifname[e] = old /\ new = Claim(e)
    BY <1>1, <2>1, Fresh
  <2> QED
    BY <1>3, <2>2
<1>5. RealName(new) \in Names
  BY <1>1, <1>2, <1>3, ResolvedUnused DEF RealName
<1>6. ASSUME takeover["init"], NoPrevname, NEW e \in Devices
      PROVE  Settled(e)' \/ ifname'[e] \in Range(Tail(iflist["init"])) \/ Again
  <2>1. CASE e = d
    <3>1. ifname'[d] = Resolved(Claim(d)) /\ Claim(d) # None /\ Holders(Claim(d)) = {}
      BY <1>1, <1>2, <1>3, <1>4, NotStar, IfRenameAssumption DEF NamesOK
    <3> QED
      BY <1>6, <2>1, <3>1, RenamedIsNamed
  <2>2. CASE e # d
    <3>1. ifname'[e] = ifname[e] /\ ifname[e] # old
      BY <1>1, <1>3, <2>2 DEF NamesOK, Holders
    <3>2. Settled(e) \/ Waiting(e) \/ Again
      BY <1>1, <1>6 DEF PassInv
    <3>3. Settled(e) => Settled(e)'
      BY <1>1, <1>6, <3>1, SettledKept
    <3>4. Waiting(e) => ifname'[e] \in Range(Tail(iflist["init"]))
      BY <1>1, <3>1, HeadOrTail DEF Waiting
    <3> QED
      BY <3>2, <3>3, <3>4
  <2> QED
    BY <2>1, <2>2
<1> QED
  BY <1>1, <1>5, <1>6, PassGoesOn

(* Nothing is renamed, for the interface at hand is as it is to be.        *)
LEMMA BootLeaves ==
  ASSUME IInv, PassInv, AtInterface("init"), NEW name \in Names \cup {None},
         NextInterface("init", name),
         UNCHANGED <<ifname, iftab, takeover, takeovers, aside>>,
         takeover["init"] /\ NoPrevname =>
           \A d \in Devices : ifname[d] = Head(iflist["init"]) => Settled(d)
  PROVE  PassInv' /\ Sure' /\ Held' /\ pc'["hotplug"] = pc["hotplug"]
<1>1. /\ iftab \in Iftabs /\ iflist["init"] \in Seq(Names) /\ iflist["init"] # << >>
  BY InitIsProcess DEF IInv, TypeOK, PlaceInv
<1>2. ASSUME takeover["init"], NoPrevname, NEW e \in Devices
      PROVE  Settled(e)' \/ ifname'[e] \in Range(Tail(iflist["init"])) \/ Again
  <2>1. Settled(e) \/ Waiting(e) \/ Again
    BY <1>2 DEF PassInv
  <2>2. Settled(e) => Settled(e)'
    BY <1>1, <1>2, SettledKept
  <2>3. Waiting(e) => Settled(e) \/ ifname[e] \in Range(Tail(iflist["init"]))
    BY <1>1, <1>2, HeadOrTail DEF Waiting
  <2> QED
    BY <2>1, <2>2, <2>3
<1> QED
  BY <1>2, PassGoesOn

LEMMA BootSet ==
  ASSUME IInv, Alone, Sure, PassInv, IfSetName("init")
  PROVE  PassInv' /\ Sure' /\ Held' /\ pc'["hotplug"] = pc["hotplug"]
<1> DEFINE old == Head(iflist["init"])
           new == NewName("init")
<1>1. /\ pc["init"] = "set" /\ AtInterface("init") /\ "init" \in Processes /\ Distinct
      /\ UNCHANGED <<ifup, events, iftab, takeover, aside, moves>> /\ TypeOK
  BY InitIsProcess DEF AtInterface, IInv, IfSetName, SetName
<1>2. old \in Names /\ new \in Patterns \cup {None}
  BY <1>1, NamesAtHand
<1>3. ASSUME NEW d \in Devices, ifname[d] = old
      PROVE  new = Claim(d) /\ Holders(old) # {}
  <2>1. Holders(old) # {}
    BY <1>3 DEF Holders
  <2>2. ~ Stale("init")
    BY <1>1, <2>1 DEF Sure
  <2>3. \E e \in Devices : Holders(old) = {e} /\ new = Claim(e)
    BY <1>1, <2>2, Fresh
  <2>4. d \in Holders(old)
    BY <1>3 DEF Holders
  <2> QED
    BY <2>1, <2>3, <2>4
<1>4. CASE new = None /\ UNCHANGED <<ifname, takeovers>> /\ NextInterface("init", None)
  <2>1. \A d \in Devices : ifname[d] = old => Settled(d)
    BY <1>3, <1>4 DEF Settled
  <2> QED
    BY <1>1, <1>4, <2>1, BootLeaves
<1>5. CASE /\ new # None /\ Matches(new, old)
           /\ UNCHANGED <<ifname, takeovers>> /\ NextInterface("init", old)
  <2>1. \A d \in Devices : ifname[d] = old => Settled(d)
    BY <1>2, <1>3, <1>5, NotStar DEF Settled, Named
  <2> QED
    BY <1>1, <1>2, <1>5, <2>1, BootLeaves
<1>6. CASE /\ new # None /\ Errno(old, new) = "ok" /\ Rename(old, new)
           /\ UNCHANGED takeovers /\ NextInterface("init", RealName(new))
  BY <1>1, <1>6, BootRenames
<1>7. CASE /\ new # None /\ Errno(old, new) = "EEXIST" /\ Goto("init", "takeover")
           /\ UNCHANGED <<ifname, second, takeovers, iflist, target, retname, looked>>
  <2>1. pc'["init"] = "takeover" /\ pc'["hotplug"] = pc["hotplug"]
    BY <1>1, <1>7 DEF Goto, TypeOK
  <2>2. Holders(old) # {} /\ Holders(new) # {}
    BY <1>7 DEF Errno
  <2>3. Held'
    BY <1>1, <1>7, <2>1, <2>2 DEF Held, Holders, NewName, Find, Mappings
  <2>4. Sure'
    BY <1>1, <1>7 DEF Sure, Stale, Holders
  <2>5. PassInv'
    <3>1. \A d \in Devices : Settled(d)' = Settled(d) /\ Waiting(d)' = Waiting(d)
      BY <1>1, <1>7 DEF Settled, Waiting, Named, Claim, Find, Mappings
    <3> QED
      BY <1>1, <1>7, <2>1, <3>1 DEF PassInv, NoPrevname, Again, AtInterface
  <2> QED
    BY <2>1, <2>3, <2>4, <2>5
<1>8. CASE /\ Errno(old, new) \in IF takeover["init"] THEN {"ENODEV", "EBUSY"}
                                  ELSE {"ENODEV", "EBUSY", "EEXIST"}
           /\ UNCHANGED <<ifname, takeovers>> /\ NextInterface("init", None)
  <2>1. takeover["init"] => Holders(old) = {}
    BY <1>8 DEF Errno, Alone
  <2>2. takeover["init"] => \A d \in Devices : ifname[d] # old
    BY <2>1 DEF Holders
  <2> QED
    BY <1>1, <1>8, <2>2, BootLeaves
<1> QED
  BY <1>4, <1>5, <1>6, <1>7, <1>8 DEF IfSetName, SetName

(* The holder of a name is moved aside; in the first pass there will be a  *)
(* second.                                                                 *)
LEMMA BootTakeover ==
  ASSUME IInv, Alone, Sure, Held, PassInv, IfTakeoverName("init")
  PROVE  PassInv' /\ Sure' /\ Held' /\ pc'["hotplug"] = pc["hotplug"]
<1> DEFINE old == Head(iflist["init"])
           new == NewName("init")
           auto == [new EXCEPT !.unit = Star]
<1>1. /\ pc["init"] = "takeover" /\ AtInterface("init") /\ "init" \in Processes
      /\ TypeOK /\ NamesOK /\ Distinct /\ Wants("init") /\ iftab \in Iftabs
      /\ UNCHANGED <<ifup, events, iftab, takeover, moves>>
  BY InitIsProcess, TypesNamed DEF AtInterface, IInv, TypeOK, PlaceInv, IfTakeoverName
<1>2. old \in Names /\ new \in Patterns /\ auto \in Patterns /\ auto.unit = Star
  BY <1>1, NamesAtHand DEF Wants, Patterns
<1>3. Holders(new) # {} /\ Holders(old) # {}
  BY <1>1 DEF Held
<1>4. new \in Names
  <2>1. \E d \in Devices : ifname[d] = new
    BY <1>3 DEF Holders
  <2> QED
    BY <1>1, <1>2, <2>1, IfRenameAssumption DEF NamesOK
<1>5. Errno(new, auto) = "ok"
  <2>1. Holders(auto) = {}
    <3>1. auto \notin Names /\ auto # None
      BY <1>2, NotStar, IfRenameAssumption DEF Names
    <3> HIDE DEF auto
    <3> QED
      BY <1>1, <3>1 DEF Holders, NamesOK
  <2> HIDE DEF auto
  <2> QED
    BY <1>3, <2>1 DEF Errno, Alone
<1>6. /\ Rename(new, auto)
      /\ aside' = IF second["init"] THEN aside \cup Holders(new) ELSE aside
      /\ takeovers' = [takeovers EXCEPT !["init"] = @ + 1]
      /\ Goto("init", "retry")
      /\ UNCHANGED <<second, iflist, target, retname, looked>>
  BY <1>5 DEF IfTakeoverName
<1> HIDE DEF auto
<1>7. PICK e \in Devices :
        Holders(new) = {e} /\ ifname' = [ifname EXCEPT ![e] = Resolved(auto)] /\ Holders(auto) = {}
  BY <1>1, <1>2, <1>4, <1>5, <1>6, RenameKeeps
<1>8. Holders(Resolved(auto)) = {}
  BY <1>1, <1>2, <1>7, ResolvedUnused
<1>9. ifname[e] = new /\ ifname'[e] # new /\ new # old
  <2>1. ifname[e] = new /\ e \notin Holders(Resolved(auto))
    BY <1>7, <1>8 DEF Holders
  <2>2. ifname'[e] = Resolved(auto) /\ ifname[e] # Resolved(auto)
    BY <1>1, <1>7, <2>1 DEF Holders, NamesOK
  <2>3. new # old
    BY <1>1 DEF Wants, Matches
  <2> QED
    BY <2>1, <2>2, <2>3
<1>10. \A d \in Devices \ {e} : ifname'[d] = ifname[d]
  BY <1>1, <1>7 DEF NamesOK
<1>11. pc'["init"] = "retry" /\ pc'["hotplug"] = pc["hotplug"]
  BY <1>1, <1>6 DEF Goto, TypeOK
<1>12. NewName("init")' = new /\ Head(iflist'["init"]) = old
  BY <1>1, <1>6 DEF NewName, Find, Mappings
<1>13. Held'
  <2>1. PICK d \in Devices : ifname[d] = old
    BY <1>3 DEF Holders
  <2>2. ifname'[d] = old
    BY <1>9, <1>10, <2>1
  <2>3. \A x \in Devices : ifname'[x] # new
    BY <1>1, <1>4, <1>9, <1>10, NotStar DEF Distinct
  <2>4. Holders(Head(iflist["init"]))' # {} /\ Holders(NewName("init"))' = {}
    BY <1>12, <2>2, <2>3 DEF Holders
  <2> QED
    BY <1>11, <2>4 DEF Held
<1>14. Sure'
  <2>1. ~ Stale("init")
    BY <1>1, <1>3 DEF Sure
  <2>2. \A d \in looked["init"] : d # None /\ d # e /\ ifname[d] = old /\ d \in Devices
    BY <1>1, <1>9, <2>1 DEF Stale, TypeOK
  <2> QED
    BY <1>6, <1>10, <1>12, <2>2 DEF Sure, Stale
<1>15. PassInv'
  <2>1. SUFFICES ASSUME takeover["init"], NoPrevname, NEW d \in Devices
                 PROVE  Settled(d)' \/ Waiting(d)' \/ Again'
    BY <1>1, <1>11 DEF PassInv, NoPrevname
  <2>2. takeovers'["init"] = takeovers["init"] + 1 /\ takeovers["init"] \in Nat
    BY <1>1, <1>6 DEF TypeOK
  <2>3. ~ second["init"] => Again'
    BY <1>6, <2>2 DEF Again
  <2>4. CASE second["init"] /\ d = e
    BY <1>6, <1>7, <2>4 DEF Settled
  <2>5. CASE second["init"] /\ d # e
    <3>1. Settled(d) \/ Waiting(d)
      BY <1>1, <2>1, <2>5 DEF PassInv, Again
    <3>2. Settled(d) => Settled(d)'
      BY <1>1, <1>6, <1>10, <2>1, <2>5, SettledKept
    <3> QED
      BY <1>6, <1>10, <2>5, <3>1, <3>2 DEF Waiting
  <2> QED
    BY <2>3, <2>4, <2>5
<1> QED
  BY <1>11, <1>13, <1>14, <1>15

LEMMA BootRetry ==
  ASSUME IInv, Alone, Sure, Held, PassInv, Retry("init")
  PROVE  PassInv' /\ Sure' /\ Held' /\ pc'["hotplug"] = pc["hotplug"]
<1> DEFINE old == Head(iflist["init"])
           new == NewName("init")
<1>1. /\ pc["init"] = "retry" /\ "init" \in Processes /\ new # None
      /\ UNCHANGED <<ifup, events, iftab, takeover, takeovers, aside, moves>>
  BY InitIsProcess DEF IInv, PlaceInv, Wants, Retry
<1>2. Errno(old, new) = "ok"
  BY <1>1 DEF Held, Alone, Errno
<1>3. Rename(old, new) /\ NextInterface("init", RealName(new))
  BY <1>2 DEF Retry
<1> QED
  BY <1>1, <1>2, <1>3, BootRenames

LEMMA BootEnum ==
  ASSUME IInv, EnumDevices("init")
  PROVE  PassInv' /\ Sure' /\ Held' /\ pc'["hotplug"] = pc["hotplug"]
<1> DEFINE names == {ifname[d] : d \in Devices} \ {None}
<1>1. /\ TypeOK /\ "init" \in Processes /\ pc["init"] = "enum" /\ looked' = looked
      /\ ifname' = ifname
  BY InitIsProcess DEF IInv, EnumDevices, kernelVars
<1>2. looked["init"] = {}
  BY <1>1 DEF IInv, PlaceInv, AtInterface, ReadInOrder, ReadFrom
<1>3. PICK list \in [1..Cardinality(names) -> names] :
        Range(list) = names /\ iflist' = [iflist EXCEPT !["init"] = list]
  BY DEF EnumDevices
<1> HIDE DEF names
<1>4. /\ pc'["init"] = IF names = {} THEN "done" ELSE "extract"
      /\ pc'["hotplug"] = pc["hotplug"] /\ iflist'["init"] = list
  BY <1>1, <1>3 DEF EnumDevices, Goto, TypeOK, names
<1>5. Sure' /\ Held'
  BY <1>1, <1>2, <1>4 DEF Sure, Held, Stale
<1>6. \A d \in Devices : ifname'[d] = None \/ ifname'[d] \in names
  BY <1>1 DEF names
<1>7. PassInv'
  <2>1. \A d \in Devices : Settled(d)' \/ Waiting(d)'
    BY <1>3, <1>4, <1>6 DEF Settled, Waiting
  <2>2. names = {} => \A d \in Devices : Settled(d)'
    BY <1>6 DEF Settled
  <2> QED
    BY <1>4, <2>1, <2>2 DEF PassInv, AtInterface
<1> QED
  BY <1>4, <1>5, <1>7

LEMMA BootExtract ==
  ASSUME IInv, Sure, PassInv, Extract("init")
  PROVE  PassInv' /\ Sure' /\ Held' /\ pc'["hotplug"] = pc["hotplug"]
<1> DEFINE h == Holders(Head(iflist["init"]))
<1>1. /\ TypeOK /\ "init" \in Processes /\ pc["init"] = "extract" /\ AtInterface("init")
      /\ looked' = [looked EXCEPT !["init"] = @ \cup IF h = {} THEN {None} ELSE h]
      /\ UNCHANGED <<ifname, iftab, takeover, second, takeovers, iflist, aside>>
  BY InitIsProcess DEF IInv, Extract, kernelVars, runVars, AtInterface
<1>2. pc'["init"] \in {"extract", "set"} /\ pc'["hotplug"] = pc["hotplug"]
  BY <1>1 DEF Extract, Goto, TypeOK
<1>3. Held'
  BY <1>2 DEF Held
<1>4. Sure'
  <2> SUFFICES ASSUME h # {} PROVE ~ Stale("init")'
    BY <1>1 DEF Sure, Holders
  <2>1. looked'["init"] = looked["init"] \cup h
    BY <1>1 DEF TypeOK
  <2>2. ~ Stale("init")
    BY <1>1 DEF Sure
  <2>3. \A d \in h : d # None /\ ifname[d] = Head(iflist["init"])
    BY IfRenameAssumption DEF Holders
  <2> HIDE DEF h
  <2> QED
    BY <1>1, <2>1, <2>2, <2>3 DEF Stale
<1>5. PassInv'
  <2>1. \A d \in Devices : Settled(d)' = Settled(d) /\ Waiting(d)' = Waiting(d)
    BY <1>1 DEF Settled, Waiting, Named, Claim, Find, Mappings
  <2> QED
    BY <1>1, <1>2, <2>1 DEF PassInv, NoPrevname, Again, AtInterface
<1> QED
  BY <1>2, <1>3, <1>4, <1>5

LEMMA BootInductive ==
  ASSUME BootInv, [Next]_vars
  PROVE  BootInv'
<1>1. IInv /\ IInv' /\ TypeOK
  BY NextIInv DEF BootInv, IInv
<1> SUFFICES ASSUME moves' = 0 PROVE Alone' /\ Sure' /\ Held' /\ PassInv'
  BY <1>1 DEF BootInv
<1>2. CASE Others
  BY <1>1, <1>2 DEF Others, TypeOK
<1>3. CASE UNCHANGED vars
  <2>1. Alone /\ Sure /\ Held /\ PassInv
    BY <1>3 DEF BootInv, vars
  <2> USE <1>3 DEF vars, kernelVars, runVars
  <2>2. Alone' /\ Sure' /\ Held'
    BY <2>1 DEF Alone, Sure, Held, Stale, AtInterface, Holders, NewName, Find, Mappings
  <2>3. \A d \in Devices : Settled(d)' = Settled(d) /\ Waiting(d)' = Waiting(d)
    BY DEF Settled, Waiting, Named, Claim, Find, Mappings
  <2> QED
    BY <2>1, <2>2, <2>3 DEF PassInv, NoPrevname, Again, AtInterface
<1>4. CASE Run
  <2>1. moves = 0 /\ UNCHANGED <<ifup, moves>>
    BY <1>4 DEF Run, MainAll, MainOne, Step, EnumDevices, Extract, IfSetName, SetName,
                IfTakeoverName, Retry, kernelVars
  <2>2. Alone /\ Sure /\ Held /\ PassInv
    BY <2>1 DEF BootInv
  <2>3. CASE MainAll
    <3>1. pc'["init"] = "enum" /\ pc'["hotplug"] = pc["hotplug"] /\ UNCHANGED <<ifup, events>>
      BY <1>1, <2>3 DEF MainAll, Goto, TypeOK, kernelVars, Processes
    <3> QED
      BY <2>2, <3>1 DEF Alone, Sure, Held, PassInv, AtInterface
  <2>4. ~ MainOne
    BY <2>2 DEF MainOne, Alone
  <2>5. ~ Step("hotplug")
    BY <2>2 DEF Alone, Step, EnumDevices, Extract, IfSetName, SetName, IfTakeoverName, Retry
  <2>6. CASE Step("init")
    <3>1. PassInv' /\ Sure' /\ Held' /\ pc'["hotplug"] = pc["hotplug"]
      BY <1>1, <2>2, <2>6, BootEnum, BootExtract, BootSet, BootTakeover, BootRetry DEF Step
    <3>2. events' = events
      BY <2>6 DEF Step, EnumDevices, Extract, IfSetName, SetName, IfTakeoverName, Retry, kernelVars
    <3> QED
      BY <2>1, <2>2, <3>1, <3>2 DEF Alone
  <2> QED
    BY <1>4, <2>3, <2>4, <2>5, <2>6 DEF Run, Processes
<1> QED
  BY <1>2, <1>3, <1>4 DEF Next

(* When the init script has run with takeover, alone, every interface has  *)
(* the name that its mapping asks for, has none, or was moved aside in the *)
(* second pass: two passes are enough (ifrename.c:2580-2590).              *)
THEOREM IfRenameAllNamed == Spec => []AllNamed
<1>1. Init => BootInv
  <2> SUFFICES ASSUME Init PROVE BootInv
    OBVIOUS
  <2>1. pc["init"] = "idle" /\ pc["hotplug"] = "idle" /\ events = {} /\ ifup = {}
    BY InitIsProcess DEF Init
  <2> QED
    BY <2>1, InitIInv DEF BootInv, Alone, Sure, Held, PassInv, AtInterface
<1>2. BootInv => AllNamed
  BY DEF BootInv, PassInv, AllNamed
<1>3. BootInv /\ [Next]_vars => BootInv'
  BY BootInductive
<1> QED
  BY <1>1, <1>2, <1>3, PTL DEF Spec

-----------------------------------------------------------------------------
LEMMA PassStepsNat ==
  /\ PassSteps \in Nat /\ Cardinality(Devices) \in Nat
  /\ PassSteps = 6 * Cardinality(Devices) + 1
BY IfRenameAssumption, FS_CardinalityType DEF PassSteps

(* The steps that are left to a process at an interface. *)
LEMMA LeftAtInterface ==
  ASSUME IInv, NEW p \in Processes, AtInterface(p)
  PROVE  /\ ItemSteps(p) \in 1..5 /\ Len(iflist[p]) \in Nat \ {0}
         /\ Left(p) = (IF second[p] THEN 0 ELSE PassSteps)
                         + 6 * (Len(iflist[p]) - 1) + ItemSteps(p)
<1>1. TypeOK /\ PlaceInv(p)
  BY DEF IInv
<1>2. Cardinality({}) = 0 /\ Cardinality({"mac"}) = 1
  BY FS_EmptySet, FS_Singleton
<1>3. ItemSteps(p) \in 1..5
  BY <1>1, <1>2 DEF AtInterface, ItemSteps, PlaceInv, ReadInOrder
<1>4. Len(iflist[p]) \in Nat \ {0}
  BY <1>1 DEF TypeOK, PlaceInv
<1> QED
  BY <1>3, <1>4 DEF Left, AtInterface

LEMMA GoOnNears ==
  ASSUME IInv, NEW p \in Processes, AtInterface(p), NEW name, NextInterface(p, name)
  PROVE  Left(p)' \in 0..Left(p) - 1
<1> DEFINE L == Len(iflist[p])
           r == ItemSteps(p)
           again == takeover[p] /\ takeovers[p] > 0 /\ ~ second[p]
<1>1. /\ TypeOK /\ PassSteps \in Nat /\ r \in 1..5 /\ L \in Nat \ {0} /\ again \in BOOLEAN
      /\ second[p] \in BOOLEAN
      /\ Left(p) = (IF second[p] THEN 0 ELSE PassSteps) + 6 * (L - 1) + r
  BY LeftAtInterface, PassStepsNat DEF IInv, TypeOK
<1>2. /\ second'[p] = (second[p] \/ (L = 1 /\ again))
      /\ pc'[p] = CASE ~ (L = 1) -> "extract"
                    [] L = 1 /\ again -> "enum"
                    [] L = 1 /\ ~ again -> IF p = "init" THEN "done" ELSE "idle"
      /\ iflist'[p] = Tail(iflist[p]) /\ target'[p] = << >>
  BY <1>1 DEF NextInterface, GoOn, Goto, TypeOK
<1>3. L # 1 => Len(iflist'[p]) = L - 1
  BY <1>1, <1>2 DEF TypeOK
<1>4. again => second[p] = FALSE
  BY <1>1
<1> HIDE DEF L, r, again
<1>5. CASE L # 1
  <2>1. pc'[p] = "extract" /\ second'[p] = second[p]
    BY <1>1, <1>2, <1>5
  <2>2. ItemSteps(p)' = 5
    <3>1. Cardinality(DOMAIN target'[p]) = 0
      <4>1. DOMAIN << >> = {}
        OBVIOUS
      <4> QED
        BY <1>2, <4>1, FS_EmptySet
    <3> QED
      BY <2>1, <3>1 DEF ItemSteps
  <2>3. Left(p)' = (IF second[p] THEN 0 ELSE PassSteps) + 6 * (L - 1 - 1) + 5
    <3>1. PassSteps' = PassSteps
      BY DEF PassSteps
    <3> QED
      BY <1>3, <1>5, <2>1, <2>2, <3>1 DEF Left
  <2> QED
    BY <1>1, <1>5, <2>3
<1>6. CASE L = 1 /\ again
  <2>1. Left(p)' = PassSteps
    <3>1. pc'[p] = "enum" /\ second'[p] /\ PassSteps' = PassSteps
      BY <1>2, <1>6 DEF PassSteps
    <3> QED
      BY <3>1 DEF Left
  <2> QED
    BY <1>1, <1>4, <1>6, <2>1
<1>7. CASE L = 1 /\ ~ again
  <2>1. pc'[p] \in {"idle", "done"}
    BY <1>2, <1>7
  <2>2. Left(p)' = 0
    BY <2>1 DEF Left
  <2> QED
    BY <1>1, <1>7, <2>2
<1> QED
  BY <1>1, <1>5, <1>6, <1>7

LEMMA StepNears ==
  ASSUME IInv, NEW p \in Processes, Step(p)
  PROVE  Left(p)' \in 0..Left(p) - 1
<1>1. TypeOK /\ PlaceInv(p) /\ PassSteps' = PassSteps
  BY DEF IInv, PassSteps
<1>2. IInv'
  BY StepKeeps
<1>3. CASE EnumDevices(p)
  <2> DEFINE names == {ifname[d] : d \in Devices} \ {None}
             n == Cardinality(names)
  <2>1. n \in Nat /\ n <= Cardinality(Devices) /\ (n = 0 <=> names = {})
    BY ListBound, TypesNamed, <1>1
  <2>2. PICK list \in [1..n -> names] : iflist' = [iflist EXCEPT ![p] = list]
    BY <1>3 DEF EnumDevices
  <2> HIDE DEF n
  <2>3. iflist'[p] = list /\ Len(list) = n
    BY <1>1, <2>1, <2>2 DEF TypeOK
  <2>4. /\ pc[p] = "enum" /\ second' = second
        /\ pc'[p] = IF names = {} THEN "done" ELSE "extract"
    BY <1>1, <1>3 DEF EnumDevices, runVars, Goto, TypeOK
  <2>5. Left(p) = IF second[p] THEN PassSteps ELSE 2 * PassSteps
    BY <2>4 DEF Left
  <2> HIDE DEF names
  <2>6. CASE names = {}
    <3>1. Left(p)' = 0
      BY <2>4, <2>6 DEF Left
    <3> QED
      BY <2>1, <2>5, <3>1, PassStepsNat
  <2>7. CASE names # {}
    <3>1. pc'[p] = "extract" /\ target' = target
      BY <1>3, <2>4, <2>7 DEF EnumDevices
    <3>2. Cardinality(DOMAIN target'[p]) = 0
      BY <1>1, <2>4, <3>1, FS_EmptySet DEF PlaceInv, ReadInOrder, AtInterface
    <3>3. ItemSteps(p)' = 5
      BY <3>1, <3>2 DEF ItemSteps
    <3>4. Left(p)' = (IF second[p] THEN 0 ELSE PassSteps) + 6 * (n - 1) + 5
      BY <1>1, <2>3, <2>4, <3>1, <3>3 DEF Left
    <3>5. second[p] \in BOOLEAN
      BY <1>1 DEF TypeOK
    <3>6. PassSteps = 6 * Cardinality(Devices) + 1 /\ Cardinality(Devices) \in Nat
      BY <2>1, FS_CardinalityType, IfRenameAssumption DEF PassSteps
    <3> QED
      BY <2>1, <2>5, <2>7, <3>4, <3>5, <3>6
  <2> QED
    BY <2>6, <2>7
<1>4. CASE Extract(p)
  <2> DEFINE k == Cardinality(DOMAIN target[p])
  <2>1. pc[p] = "extract" /\ AtInterface(p) /\ iflist' = iflist /\ second' = second
    BY <1>4 DEF Extract, AtInterface, runVars
  <2>2. pc'[p] = IF k + 1 = 2 THEN "set" ELSE "extract"
    <3>1. Len(Selectors) = 2
      BY DEF Selectors
    <3> QED
      BY <1>1, <1>4, <3>1 DEF Extract, Goto, TypeOK
  <2>3. k \in {0, 1}
    BY <1>1, <2>1, FS_EmptySet, FS_Singleton DEF PlaceInv, ReadInOrder
  <2>4. AtInterface(p)'
    BY <2>2 DEF AtInterface
  <2>5. ItemSteps(p) = 5 - k
    BY <2>1 DEF ItemSteps
  <2>6. ItemSteps(p)' = 4 - k
    <3>1. CASE k = 1
      BY <2>2, <3>1 DEF ItemSteps
    <3>2. CASE k = 0
      <4>1. pc'[p] = "extract"
        BY <2>2, <3>2
      <4>2. DOMAIN target'[p] = {"mac"}
        <5>1. /\ DOMAIN target[p] = {}
              /\ \E v : target'[p] = Active(target[p], Selectors[k + 1], v)
          <6>1. Cardinality({"mac"}) = 1
            BY FS_Singleton
          <6>2. DOMAIN target[p] = {}
            BY <1>1, <2>1, <3>2, <6>1 DEF PlaceInv, ReadInOrder
          <6> QED
            BY <1>1, <1>4, <6>2 DEF Extract, TypeOK
        <5>2. Selectors[k + 1] = "mac"
          BY <3>2 DEF Selectors
        <5> QED
          BY <5>1, <5>2 DEF Active
      <4>3. Cardinality(DOMAIN target'[p]) = 1
        BY <4>2, FS_Singleton
      <4> QED
        BY <3>2, <4>1, <4>3 DEF ItemSteps
    <3> QED
      BY <2>3, <3>1, <3>2
  <2> HIDE DEF k
  <2>7. Left(p) = (IF second[p] THEN 0 ELSE PassSteps) + 6 * (Len(iflist[p]) - 1) + 5 - k
    BY <2>1, <2>3, <2>5, LeftAtInterface, PassStepsNat
  <2>8. Left(p)' = (IF second[p] THEN 0 ELSE PassSteps) + 6 * (Len(iflist[p]) - 1) + (4 - k)
    BY <1>1, <2>1, <2>2, <2>6 DEF Left
  <2>9. Len(iflist[p]) \in Nat \ {0}
    BY <2>1, LeftAtInterface
  <2>10. (IF second[p] THEN 0 ELSE PassSteps) \in Nat
    BY PassStepsNat
  <2> QED
    <3> DEFINE B == IF second[p] THEN 0 ELSE PassSteps
               L == Len(iflist[p])
    <3>1. /\ B \in Nat /\ L \in Nat \ {0}
          /\ Left(p) = B + 6 * (L - 1) + 5 - k
          /\ Left(p)' = B + 6 * (L - 1) + (4 - k)
      BY <2>7, <2>8, <2>9, <2>10
    <3> HIDE DEF B, L
    <3> QED
      BY <2>3, <3>1
<1>5. CASE /\ AtInterface(p)
           /\ \/ pc[p] = "set" /\ Goto(p, "takeover")
              \/ pc[p] = "takeover" /\ Goto(p, "retry")
           /\ iflist' = iflist /\ second' = second
  <2>1. ItemSteps(p)' = ItemSteps(p) - 1 /\ pc'[p] \in {"takeover", "retry"}
    BY <1>1, <1>5 DEF ItemSteps, Goto, TypeOK
  <2>2. /\ ItemSteps(p) \in 1..5 /\ Len(iflist[p]) \in Nat \ {0}
        /\ Left(p) = (IF second[p] THEN 0 ELSE PassSteps)
                        + 6 * (Len(iflist[p]) - 1) + ItemSteps(p)
    BY <1>5, LeftAtInterface
  <2>3. ItemSteps(p) \in {2, 3}
    BY <1>5 DEF ItemSteps
  <2>4. Left(p)' = (IF second[p] THEN 0 ELSE PassSteps)
                     + 6 * (Len(iflist[p]) - 1) + (ItemSteps(p) - 1)
    BY <1>1, <1>5, <2>1 DEF Left
  <2> QED
    BY <2>2, <2>3, <2>4, PassStepsNat
<1>6. CASE AtInterface(p) /\ \E name : NextInterface(p, name)
  BY <1>6, GoOnNears
<1>7. IfSetName(p) \/ IfTakeoverName(p) \/ Retry(p) =>
        \/ /\ AtInterface(p)
           /\ \/ pc[p] = "set" /\ Goto(p, "takeover")
              \/ pc[p] = "takeover" /\ Goto(p, "retry")
           /\ iflist' = iflist /\ second' = second
        \/ AtInterface(p) /\ \E name : NextInterface(p, name)
  BY DEF IfSetName, SetName, IfTakeoverName, Retry, AtInterface
<1> QED
  BY <1>3, <1>4, <1>5, <1>6, <1>7 DEF Step

(* A run ends after at most two passes over the interfaces, whatever       *)
(* names they claim (ifrename.c:2580-2590).                                *)
THEOREM IfRenameEnds == Spec => EndNears
<1>1. IInv => [\A p \in Processes : Step(p) => Left(p)' \in 0..Left(p) - 1]_vars
  BY StepNears
<1> QED
  BY <1>1, InvHolds, PTL DEF EndNears

=============================================================================
