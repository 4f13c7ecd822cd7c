------------------------------ MODULE IfRename ------------------------------
(***************************************************************************)
(* ifrename, which gives network interfaces (the library's wlan0 is one)   *)
(* the names that /etc/iftab asks for.  An init script runs it over every  *)
(* interface, with or without -t ("takeover"); a hotplug script runs       *)
(* `ifrename -i <name>` when one is plugged in.  Each system call takes    *)
(* the present name of an interface, and interfaces come, go and are       *)
(* renamed between two calls.                                              *)
(*                                                                         *)
(* A name has a base and a unit, as wlan0 does; a pattern may have `*` for *)
(* its unit.  Not modelled: the options -n, -D and -p, what is printed for *)
(* udev, names without a unit and patterns with a suffix.                  *)
(***************************************************************************)
EXTENDS Integers, SequencesExt

CONSTANTS
  Devices,    (* network interfaces                                        *)
  Bases,      (* bases of names                                            *)
  Attributes, (* Devices -> [Selectors -> value, or None if the driver     *)
              (* does not tell it]                                         *)
  DefaultBase,(* Devices -> Bases: the name the driver asks for            *)
  Iftabs,     (* contents of /etc/iftab: sequences of lines                *)
  None,
  MaxMoves    (* bound: how often others interfere                         *)

Star == -1
Units == 0..2 * Cardinality(Devices)
Names == [base: Bases, unit: Units]
Patterns == [base: Bases, unit: Units \cup {Star}]
Selectors == <<"mac", "driver">>
Processes == {"init", "hotplug"}

ASSUME IfRenameAssumption ==
  /\ IsFiniteSet(Devices) /\ None \notin Devices \cup Patterns /\ MaxMoves \in Nat
  /\ DefaultBase \in [Devices -> Bases]
  /\ \A d \in Devices : DOMAIN Attributes[d] = Range(Selectors)
  /\ \A t \in Iftabs :
       /\ Len(t) \in Nat /\ DOMAIN t = 1..Len(t)
       /\ \A i \in DOMAIN t : t[i].ifname \in Patterns
       /\ \A i \in DOMAIN t : \A s \in DOMAIN t[i].selectors :
            s \in Range(Selectors) \cup {"prevname"} /\ None \notin t[i].selectors[s]

VARIABLES
  ifname,     (* Devices -> Names, or None if it is not plugged in         *)
  ifup,       (* the interfaces that are up                                *)
  events,     (* names plugged in for which the hotplug script is to run   *)
  iftab,      (* the lines of /etc/iftab: [ifname, selectors, error]       *)
  pc,
  takeover,   (* Processes -> -t                                           *)
  second,     (* Processes -> the list is gone through for a second time   *)
  takeovers,  (* Processes -> num_takeover                                 *)
  iflist,     (* Processes -> the names yet to process, the current first  *)
  target,     (* Processes -> what the selectors were read as by that name *)
  retname,    (* Processes -> the name returned, or None                   *)
  looked,     (* history: Processes -> the devices target was read from,   *)
              (* and None if there was none of the name                    *)
  aside,      (* history: devices moved aside by the second pass           *)
  moves       (* how often others have interfered                          *)

kernelVars == <<ifname, ifup, events>>
runVars == <<takeover, second, takeovers>>
vars == <<kernelVars, iftab, pc, runVars, iflist, target, retname, looked, aside, moves>>

-----------------------------------------------------------------------------
(* if_match_ifname returns 0. *)
Matches(pattern, name) ==
  pattern.base = name.base /\ pattern.unit \in {Star, name.unit}

(* mapping_readfile: a line that has no error and has a selector is a     *)
(* mapping.                                                                *)
Mappings == {i \in DOMAIN iftab : ~ iftab[i].error /\ DOMAIN iftab[i].selectors # {}}

(* mapping_find, and the ifname of the mapping: every selector of it, a    *)
(* set of values without None, must match.  The previous name is the one   *)
(* that was processed (mapping_cmpprevname).  mapping_readfile has linked  *)
(* the last line first.                                                    *)
Accepts(line, read) == \A s \in DOMAIN line.selectors : read[s] \in line.selectors[s]
Find(read) ==
  LET found == {i \in Mappings : Accepts(iftab[i], read)}
  IN  IF found = {} THEN None ELSE iftab[Max(found)].ifname

-----------------------------------------------------------------------------
(* The kernel renames an interface that is down, and to no name in use,    *)
(* not even by the interface itself; `%d` becomes the lowest unit that is  *)
(* free (ifrename.c:570-575, 591-605).                                     *)
Holders(name) == {d \in Devices : ifname[d] = name}
FreeName(base) ==
  LET used == {ifname[d].unit : d \in {e \in Devices : ifname[e] # None /\ ifname[e].base = base}}
  IN  [base |-> base, unit |-> Min(Units \ used)]
Resolved(pattern) == IF pattern.unit = Star THEN FreeName(pattern.base) ELSE pattern

(* Variant: if_set_name returns the name that it has asked for. *)
RealNameAsked(pattern) == pattern

(* What if_set_name returns: the name that the kernel has filled in.       *)
RealName(pattern) == Resolved(pattern)

Errno(old, pattern) ==
  IF Holders(old) = {} THEN "ENODEV"
  ELSE IF Holders(old) \cap ifup # {} THEN "EBUSY"
  ELSE IF Holders(pattern) # {} THEN "EEXIST" ELSE "ok"
Rename(old, pattern) ==
  ifname' = [d \in Devices |-> IF d \in Holders(old) THEN Resolved(pattern) ELSE ifname[d]]

(* Interfaces that are there at boot have the first units of their bases.  *)
BootNames ==
  {f \in [Devices -> [base: Bases, unit: 0..Cardinality(Devices) - 1] \cup {None}] :
     \A d \in Devices : f[d] # None =>
       /\ f[d].base = DefaultBase[d]
       /\ \A e \in Devices : f[e] = f[d] => e = d
       /\ \A u \in 0..f[d].unit - 1 : \E e \in Devices : f[e] = [f[d] EXCEPT !.unit = u]}

Init ==
  /\ iftab \in Iftabs /\ ifname \in BootNames
  /\ ifup = {} /\ events = {}
  /\ pc = [p \in Processes |-> "idle"]
  /\ takeover = [p \in Processes |-> FALSE]
  /\ second = [p \in Processes |-> FALSE]
  /\ takeovers = [p \in Processes |-> 0]
  /\ iflist = [p \in Processes |-> << >>]
  /\ target = [p \in Processes |-> << >>]
  /\ retname = [p \in Processes |-> None]
  /\ looked = [p \in Processes |-> {}]
  /\ aside = {} /\ moves = 0

Goto(p, label) == pc' = [pc EXCEPT ![p] = label]

-----------------------------------------------------------------------------
(* main without -i: the init script, once. *)
MainAll ==
  /\ pc["init"] = "idle" /\ Goto("init", "enum")
  /\ \E t \in BOOLEAN : takeover' = [takeover EXCEPT !["init"] = t]
  /\ UNCHANGED <<kernelVars, iftab, second, takeovers, iflist, target, retname, looked,
                 aside, moves>>

(* main with -i: the hotplug script, once for an interface. *)
MainOne ==
  /\ pc["hotplug"] = "idle" /\ Goto("hotplug", "extract")
  /\ \E n \in events :
       /\ iflist' = [iflist EXCEPT !["hotplug"] = <<n>>]
       /\ events' = events \ {n}
  /\ UNCHANGED <<ifname, ifup, iftab, runVars, target, retname, looked, aside, moves>>

(* iw_enum_devices: the names in /proc/net/dev, in any order. *)
EnumDevices(p) ==
  LET names == {ifname[d] : d \in Devices} \ {None} IN
  /\ pc[p] = "enum"
  /\ \E list \in [1..Cardinality(names) -> names] :
       Range(list) = names /\ iflist' = [iflist EXCEPT ![p] = list]
  /\ Goto(p, IF names = {} THEN "done" ELSE "extract")
  /\ UNCHANGED <<kernelVars, iftab, runVars, target, retname, looked, aside, moves>>

(* process_ifname returns: process_iflist goes on with the next interface, *)
(* or after the last one goes through the list again.                      *)
GoOn(p, name, again) ==
  LET last == Len(iflist[p]) = 1 IN
  /\ retname' = [retname EXCEPT ![p] = name]
  /\ iflist' = [iflist EXCEPT ![p] = Tail(@)]
  /\ target' = [target EXCEPT ![p] = << >>]
  /\ looked' = [looked EXCEPT ![p] = {}]
  /\ second' = [second EXCEPT ![p] = @ \/ (last /\ again)]
  /\ Goto(p, CASE ~ last -> "extract"
               [] last /\ again -> "enum"
               [] last /\ ~ again -> IF p = "init" THEN "done" ELSE "idle")

(* Variants: never again; again whenever names were taken over. *)
NextInterfaceOnce(p, name) == GoOn(p, name, FALSE)
NextInterfaceForever(p, name) == GoOn(p, name, takeover[p] /\ takeovers[p] > 0)

(* Once more if any name was taken over. *)
NextInterface(p, name) ==
  GoOn(p, name, takeover[p] /\ takeovers[p] > 0 /\ ~ second[p])

(* What is read, and the value of one more selector. *)
Active(read, s, v) == [x \in DOMAIN read \cup {s} |-> IF x = s THEN v ELSE read[x]]

(* What mapping_getmac and its like read of the interface of a name. *)
Reading(name, s) ==
  IF Holders(name) = {} THEN None ELSE Attributes[CHOOSE d \in Holders(name) : TRUE][s]

(* mapping_extract: one selector after the other, each by the name; one    *)
(* that no line of /etc/iftab has is read to no effect.                    *)
Extract(p) ==
  LET k == Cardinality(DOMAIN target[p]) + 1
      s == Selectors[k]
      h == Holders(Head(iflist[p])) IN
  /\ pc[p] = "extract"
  /\ target' = [target EXCEPT ![p] = Active(@, s, Reading(Head(iflist[p]), s))]
  /\ looked' = [looked EXCEPT ![p] = @ \cup IF h = {} THEN {None} ELSE h]
  /\ Goto(p, IF k = Len(Selectors) THEN "set" ELSE "extract")
  /\ UNCHANGED <<kernelVars, iftab, runVars, iflist, retname, aside, moves>>

(* What mapping_find finds for the interface at hand. *)
NewName(p) == Find(Active(target[p], "prevname", Head(iflist[p])))

(* The mapping that was found is applied, unless there is none or it is    *)
(* satisfied as it is.                                                     *)
SetName(p, satisfied) ==
  LET old == Head(iflist[p])
      new == NewName(p)
      errno == Errno(old, new) IN
  /\ pc[p] = "set"
  /\ \/ /\ new = None
        /\ UNCHANGED <<ifname, takeovers>> /\ NextInterface(p, None)
     \/ /\ new # None /\ satisfied
        /\ UNCHANGED <<ifname, takeovers>> /\ NextInterface(p, old)
     \/ /\ new # None /\ ~ satisfied /\ errno = "ok"
        /\ Rename(old, new)
        /\ UNCHANGED takeovers /\ NextInterface(p, RealName(new))
     \/ /\ new # None /\ ~ satisfied /\ errno = "EEXIST" /\ takeover[p]
        /\ Goto(p, "takeover")
        /\ UNCHANGED <<ifname, second, takeovers, iflist, target, retname, looked>>
     \/ /\ new # None /\ ~ satisfied
        /\ errno \in IF takeover[p] THEN {"ENODEV", "EBUSY"} ELSE {"ENODEV", "EBUSY", "EEXIST"}
        /\ UNCHANGED <<ifname, takeovers>> /\ NextInterface(p, None)
  /\ UNCHANGED <<ifup, events, iftab, takeover, aside, moves>>

(* Variant: the kernel is asked even if the name matches. *)
IfSetNameAlways(p) == SetName(p, FALSE)

(* if_set_name: the kernel is not asked if the name matches. *)
IfSetName(p) == SetName(p, Matches(NewName(p), Head(iflist[p])))

(* if_takeover_name: the holder of the name is moved to a free one. *)
IfTakeoverName(p) ==
  LET new == NewName(p)
      auto == [new EXCEPT !.unit = Star] IN
  /\ pc[p] = "takeover"
  /\ IF Errno(new, auto) = "ok"
     THEN /\ Rename(new, auto)
          /\ aside' = IF second[p] THEN aside \cup Holders(new) ELSE aside
          /\ takeovers' = [takeovers EXCEPT ![p] = @ + 1]
          /\ Goto(p, "retry")
          /\ UNCHANGED <<second, iflist, target, retname, looked>>
     ELSE NextInterface(p, None) /\ UNCHANGED <<ifname, takeovers, aside>>
  /\ UNCHANGED <<ifup, events, iftab, takeover, moves>>

(* Variant: the result of the second try is not looked at. *)
RetryUnchecked(p) ==
  LET old == Head(iflist[p])
      new == NewName(p) IN
  /\ pc[p] = "retry"
  /\ IF Errno(old, new) = "ok" THEN Rename(old, new) ELSE UNCHANGED ifname
  /\ NextInterface(p, RealName(new))
  /\ UNCHANGED <<ifup, events, iftab, takeover, takeovers, aside, moves>>

(* if_set_name after a takeover: the second try. *)
Retry(p) ==
  LET old == Head(iflist[p])
      new == NewName(p) IN
  /\ pc[p] = "retry"
  /\ IF Errno(old, new) = "ok"
     THEN Rename(old, new) /\ NextInterface(p, RealName(new))
     ELSE UNCHANGED ifname /\ NextInterface(p, None)
  /\ UNCHANGED <<ifup, events, iftab, takeover, takeovers, aside, moves>>

Step(p) == EnumDevices(p) \/ Extract(p) \/ IfSetName(p) \/ IfTakeoverName(p) \/ Retry(p)
Run == MainAll \/ MainOne \/ \E p \in Processes : Step(p)

-----------------------------------------------------------------------------
(* Interfaces are plugged in and out, and other programs bring them up and *)
(* down.                                                                   *)
Plug(d) ==
  /\ ifname[d] = None
  /\ ifname' = [ifname EXCEPT ![d] = FreeName(DefaultBase[d])]
  /\ events' = events \cup {ifname'[d]}
  /\ UNCHANGED ifup
Unplug(d) ==
  /\ ifname[d] # None
  /\ ifname' = [ifname EXCEPT ![d] = None]
  /\ ifup' = ifup \ {d}
  /\ UNCHANGED events
IfUpDown(d) ==
  /\ ifname[d] # None
  /\ ifup' = IF d \in ifup THEN ifup \ {d} ELSE ifup \cup {d}
  /\ UNCHANGED <<ifname, events>>

Others ==
  /\ moves < MaxMoves /\ moves' = moves + 1
  /\ \E d \in Devices : Plug(d) \/ Unplug(d) \/ IfUpDown(d)
  /\ UNCHANGED <<iftab, pc, runVars, iflist, target, retname, looked, aside>>

Next == Run \/ Others

Spec == Init /\ [][Next]_vars

-----------------------------------------------------------------------------
Values == {Attributes[d][s] : d \in Devices, s \in Range(Selectors)} \cup {None}
Readings == UNION {[S -> Values] : S \in SUBSET Range(Selectors)}
TypeOK ==
  /\ ifname \in [Devices -> Names \cup {None}] /\ ifup \subseteq Devices
  /\ events \subseteq Names /\ iftab \in Iftabs
  /\ pc \in [Processes -> {"idle", "enum", "extract", "set", "takeover", "retry", "done"}]
  /\ takeover \in [Processes -> BOOLEAN] /\ second \in [Processes -> BOOLEAN]
  /\ takeovers \in [Processes -> Nat]
  /\ iflist \in [Processes -> Seq(Names)]
  /\ target \in [Processes -> Readings]
  /\ retname \in [Processes -> Names \cup {None}]
  /\ looked \in [Processes -> SUBSET (Devices \cup {None})] /\ aside \subseteq Devices
  /\ moves \in 0..MaxMoves

(* What /etc/iftab asks for a device, and whether it has that name.        *)
Claim(d) == Find(Active(Attributes[d], "prevname", ifname[d]))
Named(d) == ifname[d] # None /\ Claim(d) # None /\ Matches(Claim(d), ifname[d])

(* No name is asked for by two devices, but for a pattern with `*`.        *)
Overlap(p, q) == p.base = q.base /\ (p.unit = q.unit \/ Star \in {p.unit, q.unit})
OneToOne ==
  \A d, e \in Devices :
    d # e /\ None \notin {Claim(d), Claim(e)} /\ Overlap(Claim(d), Claim(e))
      => Claim(d) = Claim(e) /\ Claim(d).unit = Star

(* A process works on a name that is no longer, or was not all the time,   *)
(* that of the device it looked at.                                        *)
Stale(p) == \E d \in looked[p] : d = None \/ ifname[d] # Head(iflist[p])

(* An interface that has the name it is to have is never renamed, not even *)
(* by a takeover, if every name is asked for once; unless the process that *)
(* renames it uses an old name (ifrename.c:576, 608-617, 2482, 2526).      *)
NamesKept ==
  [][\A d \in Devices :
       ifname'[d] \notin {None, ifname[d]} /\ Named(d) /\ OneToOne =>
         \E p \in Processes : Step(p) /\ Stale(p)]_vars

(* When the init script has run with takeover and nobody interfered, every *)
(* interface has its name, but for those moved aside in the second pass:   *)
(* "Two time should be enough for most configs" (ifrename.c:2580-2590).    *)
(* For mappings that do not look at the previous name; two interfaces may  *)
(* ask for one name.                                                       *)
NoPrevname == \A i \in DOMAIN iftab : "prevname" \notin DOMAIN iftab[i].selectors
Settled(d) == ifname[d] = None \/ Claim(d) = None \/ Named(d) \/ d \in aside
AllNamed ==
  pc["init"] = "done" /\ takeover["init"] /\ moves = 0 /\ NoPrevname =>
    \A d \in Devices : Settled(d)

(* The name that is returned for the calling script is the new name of the *)
(* interface that was looked at (ifrename.c:2526-2541).                    *)
ReturnsName ==
  [][\A p \in Processes :
       pc[p] \in {"set", "retry"} /\ retname'[p] # None /\ iflist'[p] # iflist[p] =>
         Stale(p) \/ \A d \in looked[p] : ifname'[d] = retname'[p]]_vars

(* Every step of a run brings its end nearer, even if two interfaces claim *)
(* one name and take it from each other: "we may have ping pong between    *)
(* two interfaces, each claiming the same name, so let's not do it         *)
(* forever" (ifrename.c:2580-2590).  The most steps that a pass may take   *)
(* and that are left to a process:                                         *)
PassSteps == 6 * Cardinality(Devices) + 1
ItemSteps(p) ==
  CASE pc[p] = "extract" -> 5 - Cardinality(DOMAIN target[p])
    [] pc[p] = "set" -> 3
    [] pc[p] = "takeover" -> 2
    [] pc[p] = "retry" -> 1
    [] OTHER -> 0
Left(p) ==
  CASE pc[p] \in {"idle", "done"} -> 0
    [] pc[p] = "enum" -> IF second[p] THEN PassSteps ELSE 2 * PassSteps
    [] OTHER -> (IF second[p] THEN 0 ELSE PassSteps) + 6 * (Len(iflist[p]) - 1) + ItemSteps(p)
EndNears ==
  [][\A p \in Processes : Step(p) => Left(p)' \in 0..Left(p) - 1]_vars

=============================================================================
