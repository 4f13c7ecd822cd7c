------------------------------- MODULE ApMode -------------------------------
(***************************************************************************)
(* Access-point mode: wifiOpenAP, wifiCloseAP and wifiRestartAP            *)
(* (src/src/wifi.c:79-258, 300-341, 348-352) over the daemons hostapd and  *)
(* udhcpd.                                                                 *)
(***************************************************************************)
EXTENDS Library, ApConfig

CONSTANTS
  ApArgs,     (* the arguments callers pass                                *)
  NoAddress   (* what an interface has that was given no address           *)

ASSUME ApAssumption ==
  /\ {"hostapd", "udhcpd"} \subseteq Daemons
  /\ "hostapd" \in Exclusive
  /\ "udhcpd" \notin Exclusive
  /\ NoArgs \notin ApArgs
  /\ NoAddress \notin {a.serverAddress : a \in ApArgs}
  /\ \A a \in ApArgs : ValidAP(a) => HostapdConf(a) \in Configs

VARIABLE
  address     (* interface -> [ip, failed]: its IPv4 address, and whether  *)
              (* a command that sets it has failed (history)               *)

vars == <<platformVars, callVars, conf, address>>

ApOps == {"wifiOpenAP", "wifiCloseAP", "wifiRestartAP"}
ApWritten == {"address", "udhcpd", "hostapd"}
ApOpenLabels == {"fopen", "build"} \cup ApWritten
ApLabels == {"idle"} \cup ApOpenLabels \cup CloseLabels

Interfaces == {InterfaceOf(a) : a \in ApArgs}
Addresses == {a.serverAddress : a \in ApArgs}

-----------------------------------------------------------------------------
(* wifiOpenAP *)

OpenAP(c) ==
  /\ \E a \in ApArgs \cup {NoArgs} : Enter(c, "wifiOpenAP", a, "fopen")
  /\ UNCHANGED address

FopenHostapdConf(c) == FopenConfig(c, "hostapd") /\ UNCHANGED address

(* Variant: without the command that sets the address (wifi.c:247, 252).   *)
BuildWithoutAddress(c) ==
  /\ pc[c] = "build"
  /\ IF ValidAP(call[c].args)
     THEN /\ WriteConfig(c, "hostapd", HostapdConf(call[c].args))
          /\ Goto(c, "udhcpd")
          /\ UNCHANGED platformVars
     ELSE RejectArgs(c, "build")
  /\ UNCHANGED address

(* Variant: hostapd is started on the file as the editor of it left off,   *)
(* after a missing passphrase too.                                         *)
BuildUnchecked(c) ==
  /\ pc[c] = "build"
  /\ IF ValidAP(call[c].args)
     THEN WriteConfig(c, "hostapd", HostapdConf(call[c].args))
     ELSE /\ fds' = [fds EXCEPT ![c] = @ - 1]
          /\ UNCHANGED conf
  /\ Goto(c, "address")
  /\ UNCHANGED <<platformVars, address>>

BuildHostapdConf(c) ==
  /\ pc[c] = "build"
  /\ IF ValidAP(call[c].args)
     THEN /\ WriteConfig(c, "hostapd", HostapdConf(call[c].args))
          /\ Goto(c, "address")
          /\ UNCHANGED platformVars
     ELSE RejectArgs(c, "build")
  /\ UNCHANGED address

(* The last ASSERT comes after the file is written and closed.  The        *)
(* command that sets the address may fail, which system()'s caller ignores *)
(* (wifi.c:247, 252); it always does if the arguments leave the interface  *)
(* to its default, for it then names none.  Without DHCP that is all.      *)
SetAddress(c) ==
  LET a == call[c].args
      i == InterfaceOf(a)
  IN
  /\ pc[c] = "address"
  /\ IF a.serverAddress = << >>
     THEN /\ RejectArgs(c, "address")
          /\ UNCHANGED address
     ELSE /\ \/ /\ a.interface # << >>
                /\ address' = [address EXCEPT ![i].ip = a.serverAddress]
             \/ address' = [address EXCEPT ![i].failed = TRUE]
          /\ IF a.dhcpEnable = 0 THEN Return(c, "ok") ELSE Goto(c, "udhcpd")
          /\ UNCHANGED <<fds, conf, platformVars>>

StartUdhcpd(c) ==
  /\ StartDaemon(c, "udhcpd", NoFile, "udhcpd")
  /\ Goto(c, "hostapd")
  /\ UNCHANGED address

(* `hostapd -B`, which reads the file as it is by now; and return 0.       *)
StartHostapd(c) ==
  /\ StartDaemon(c, "hostapd", conf["hostapd"], "hostapd")
  /\ Return(c, "ok")
  /\ UNCHANGED address

-----------------------------------------------------------------------------
(* wifiCloseAP and wifiRestartAP: hostapd is killed first. *)

CloseAP(c) == Enter(c, "wifiCloseAP", NoArgs, "pid_1") /\ UNCHANGED address

RestartAP(c) ==
  /\ \E a \in ApArgs \cup {NoArgs} : Enter(c, "wifiRestartAP", a, "pid_1")
  /\ UNCHANGED address

FopenUdhcpdPid(c) == FopenPidFile(c, "udhcpd", "pid_1", "pid_2") /\ UNCHANGED address
FopenHostapdPid(c) == FopenPidFile(c, "hostapd", "pid_2", "kill_1") /\ UNCHANGED address
(* Variant: the DHCP server is killed twice, hostapd not at all. *)
KillUdhcpdFirst(c) == KillFromPidFile(c, "udhcpd", "kill_1", "kill_2") /\ UNCHANGED address
KillHostapd(c) == KillFromPidFile(c, "hostapd", "kill_1", "kill_2") /\ UNCHANGED address
KillUdhcpd(c) == KillFromPidFile(c, "udhcpd", "kill_2", "fclose") /\ UNCHANGED address
FcloseAP(c) == FclosePidFiles(c) /\ UNCHANGED address

-----------------------------------------------------------------------------
Init ==
  /\ PlatformInit
  /\ LibraryInit
  /\ address = [i \in Interfaces |-> [ip |-> NoAddress, failed |-> FALSE]]

CallerStep(c) ==
  /\ call[c].op \in ApOps
  /\ \/ FopenHostapdConf(c) \/ BuildHostapdConf(c) \/ SetAddress(c)
     \/ StartUdhcpd(c) \/ StartHostapd(c)
     \/ FopenUdhcpdPid(c) \/ FopenHostapdPid(c) \/ KillHostapd(c) \/ KillUdhcpd(c)
     \/ FcloseAP(c)

CallerCalls(c) == OpenAP(c) \/ CloseAP(c) \/ RestartAP(c)

EnvironmentStep == PlatformNext /\ UNCHANGED <<callVars, conf, address>>

Next ==
  \/ \E c \in Callers : \/ CallerStep(c) \/ CallerCalls(c)
                        \/ CallerExits(c) /\ UNCHANGED address
  \/ EnvironmentStep

Spec == Init /\ [][Next]_vars

-----------------------------------------------------------------------------
(* Types of the state of access-point mode. *)
TypeOK ==
  /\ PlatformTypeOK
  /\ LibraryTypeOK(ApLabels, ApArgs \cup {NoArgs})
  /\ address \in [Interfaces -> [ip: Addresses \cup {NoAddress}, failed: BOOLEAN]]

(* StreamAccounting holds because of this.                                 *)
StreamInv ==
  \A c \in Callers : StreamsOf(c, "udhcpd", "hostapd", "hostapd", ApWritten)

(* The configurations that calls with valid arguments write. *)
Networks == {HostapdConf(a) : a \in {b \in ApArgs : ValidAP(b)}}

(* hostapd only ever runs on a configuration that a call with valid        *)
(* arguments wrote in full: a rejected call leaves the file truncated      *)
(* (wifi.c:91, 95), but nothing is started on it.  For one caller.         *)
HostapdConfigured ==
  Configured("hostapd", Networks)

(* Why: between a caller's fopen and the start of its hostapd nobody else  *)
(* touches the file, if it is the only caller.                             *)
ConfInv ==
  \A c \in Callers :
    /\ pc[c] = "build" => conf["hostapd"] = Empty
    /\ pc[c] \in ApWritten => /\ ValidAP(call[c].args)
                              /\ conf["hostapd"] = HostapdConf(call[c].args)

(* Access-point mode implements Service: a session is a hostapd that has   *)
(* not been told to stop.  For one caller.                                 *)
Sessions == Instances("hostapd")
S == INSTANCE Service WITH Ids <- Pids, sessions <- Sessions
ServiceSpec == S!Spec

(* An access point comes up without an address only on an interface for    *)
(* which a command that sets one has failed: none is started before the    *)
(* command for its own interface has been tried, whatever the call before  *)
(* it did (wifi.c:100-111, 239-254).  For one caller.                      *)
Tried(i) == address[i].ip # NoAddress \/ address[i].failed
HostapdAddressed ==
  \A p \in Pids : proc[p].kind = "hostapd" => Tried(proc[p].conf.interface)

(* wifiCloseAP returning 0 means that no hostapd is left except one that   *)
(* is shutting down (includes/wifi.h:159-163).  For one caller that lets   *)
(* the daemons settle between two calls: wifiOpenAP returns before hostapd *)
(* has written its pid file, and a wifiCloseAP that comes at once would    *)
(* kill the number of the instance before.                                 *)
Closed0(c) == call[c].op = "wifiCloseAP" /\ ret[c] = "ok"
CloseDownsAP ==
  \A c \in Callers : Closed0(c) => \A p \in Pids : ~ Up(p, "hostapd")

(* wifiOpenAP creates an access point (README.md:471), also when it is     *)
(* called with dhcpEnable 0, which leaves the stations to set a static IP  *)
(* (README.md:502): it returns 0 only after it has run hostapd.            *)
OpenRunsHostapd ==
  [][\A c \in Callers :
       call[c].op = "wifiOpenAP" /\ pc[c] # "idle" /\ ret'[c] = "ok" => pc[c] = "hostapd"]_vars

-----------------------------------------------------------------------------
(* Callers that let the daemons settle, e.g. with a sleep as wifiOpenSTA   *)
(* does (wifi.c:73-74), before they make the next call.                    *)
Settled == \A p \in Pids : proc[p].phase \notin {"starting", "dying"}
SettledSpec ==
  Init /\ [][Next /\ ((\E c \in Callers : CallerCalls(c)) => Settled)]_vars

=============================================================================
