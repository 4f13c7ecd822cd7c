------------------------------ MODULE StaMode -------------------------------
(***************************************************************************)
(* Station mode: wifiOpenSTA, wifiCloseSTA and wifiRestartSTA              *)
(* (src/src/wifi.c:12-77, 259-299, 343-347) over the daemons               *)
(* wpa_supplicant and udhcpc.                                              *)
(***************************************************************************)
EXTENDS Library, StaConfig

CONSTANTS
  StaArgs     (* the arguments callers pass                                *)

ASSUME StaAssumption ==
  /\ {"wpa_supplicant", "udhcpc"} \subseteq Daemons
  /\ "wpa_supplicant" \in Exclusive
  /\ "udhcpc" \notin Exclusive
  /\ NoArgs \notin StaArgs
  /\ \A a \in StaArgs : ValidSTA(a) => WpaConf(a) \in Configs

vars == <<platformVars, callVars, conf>>

StaOps == {"wifiOpenSTA", "wifiCloseSTA", "wifiRestartSTA"}
StaWritten == {"wpa", "udhcpc", "lease", "sleep"}
StaOpenLabels == {"fopen", "build"} \cup StaWritten
StaLabels == {"idle"} \cup StaOpenLabels \cup CloseLabels

-----------------------------------------------------------------------------
(* wifiOpenSTA *)

OpenSTA(c) ==
  \E a \in StaArgs \cup {NoArgs} : Enter(c, "wifiOpenSTA", a, "fopen")

FopenWpaConf(c) == FopenConfig(c, "wpa_supplicant")

(* Variant: a missing passphrase is reported but does not end the call. *)
BuildUnchecked(c) ==
  /\ pc[c] = "build"
  /\ IF ValidSTA(call[c].args)
     THEN WriteConfig(c, "wpa_supplicant", WpaConf(call[c].args))
     ELSE /\ fds' = [fds EXCEPT ![c] = @ - 1]
          /\ UNCHANGED conf
  /\ Goto(c, "wpa")
  /\ UNCHANGED platformVars

BuildWpaConf(c) ==
  /\ pc[c] = "build"
  /\ IF ValidSTA(call[c].args)
     THEN /\ WriteConfig(c, "wpa_supplicant", WpaConf(call[c].args))
          /\ Goto(c, "wpa")
          /\ UNCHANGED platformVars
     ELSE RejectArgs(c, "build")

(* `ifconfig wlan0 up`, which only changes the link state, and             *)
(* `wpa_supplicant -B`, which reads the file as it is by now.              *)
StartSupplicant(c) ==
  /\ StartDaemon(c, "wpa_supplicant", conf["wpa_supplicant"], "wpa")
  /\ Goto(c, "udhcpc")

(* `udhcpc` without -b, -n or -q stays in the foreground until it has a    *)
(* lease, and system() waits for it.                                       *)
StartUdhcpc(c) ==
  /\ pc[c] = "udhcpc"
  /\ \/ \E p \in Pids : /\ Spawn("udhcpc", p, NoFile)
                        /\ waiting' = [waiting EXCEPT ![c] = p]
     \/ UNCHANGED <<proc, waiting>>
  /\ Goto(c, "lease")
  /\ UNCHANGED <<fds, conf, pidFile, stream, crashed, strays>>

(* Variant: `udhcpc -f`, which never goes to the background. *)
UdhcpcStays(c) ==
  /\ pc[c] = "lease"
  /\ \A p \in Pids : proc[p].kind # "udhcpc"
  /\ Goto(c, "sleep")
  /\ UNCHANGED <<fds, conf, platformVars>>

UdhcpcReturns(c) ==
  /\ pc[c] = "lease"
  /\ waiting[c] = NoPid
  /\ Goto(c, "sleep")
  /\ UNCHANGED <<fds, conf, platformVars>>

(* sleep(1): longer than a daemon needs to write its pid file. *)
SleepSTA(c) ==
  /\ pc[c] = "sleep"
  /\ \A p \in Pids : proc[p].phase # "starting"
  /\ Return(c, "ok")
  /\ UNCHANGED <<fds, conf, platformVars>>

(* A supplicant that runs on a complete network block may associate; the   *)
(* access point then grants a lease and udhcpc goes to the background.     *)
Lease(c) ==
  /\ waiting[c] # NoPid
  /\ proc[waiting[c]].phase = "running"
  /\ \E p \in Pids : Up(p, "wpa_supplicant") /\ proc[p].conf \in Configs
  /\ waiting' = [waiting EXCEPT ![c] = NoPid]
  /\ UNCHANGED <<proc, pidFile, stream, crashed, strays, callVars, conf>>

-----------------------------------------------------------------------------
(* wifiCloseSTA and wifiRestartSTA *)

CloseSTA(c) == Enter(c, "wifiCloseSTA", NoArgs, "pid_1")

RestartSTA(c) ==
  \E a \in StaArgs \cup {NoArgs} : Enter(c, "wifiRestartSTA", a, "pid_1")

FopenUdhcpcPid(c) == FopenPidFile(c, "udhcpc", "pid_1", "pid_2")
FopenWpaPid(c) == FopenPidFile(c, "wpa_supplicant", "pid_2", "kill_1")
KillUdhcpc(c) == KillFromPidFile(c, "udhcpc", "kill_1", "kill_2")
(* Variant: the DHCP client is killed twice, the supplicant not at all. *)
KillUdhcpcAgain(c) == KillFromPidFile(c, "udhcpc", "kill_2", "fclose")
KillWpa(c) == KillFromPidFile(c, "wpa_supplicant", "kill_2", "fclose")
FcloseSTA(c) == FclosePidFiles(c)

-----------------------------------------------------------------------------
Init ==
  /\ PlatformInit
  /\ LibraryInit

CallerStep(c) ==
  /\ call[c].op \in StaOps
  /\ \/ FopenWpaConf(c) \/ BuildWpaConf(c) \/ StartSupplicant(c)
     \/ StartUdhcpc(c) \/ UdhcpcReturns(c) \/ SleepSTA(c)
     \/ FopenUdhcpcPid(c) \/ FopenWpaPid(c) \/ KillUdhcpc(c) \/ KillWpa(c)
     \/ FcloseSTA(c)

CallerCalls(c) == OpenSTA(c) \/ CloseSTA(c) \/ RestartSTA(c)

EnvironmentStep == PlatformNext /\ UNCHANGED <<callVars, conf>>

Next ==
  \/ \E c \in Callers : CallerStep(c) \/ CallerCalls(c) \/ CallerExits(c)
  \/ \E c \in Callers : Lease(c)
  \/ EnvironmentStep

Spec == Init /\ [][Next]_vars

-----------------------------------------------------------------------------
(* Types of the state of station mode. *)
TypeOK == PlatformTypeOK /\ LibraryTypeOK(StaLabels, StaArgs \cup {NoArgs})

(* StreamAccounting holds because of this.                                 *)
StreamInv ==
  \A c \in Callers : StreamsOf(c, "udhcpc", "wpa_supplicant", "udhcpc", StaWritten)

(* The configurations that calls with valid arguments write. *)
Networks == {WpaConf(a) : a \in {b \in StaArgs : ValidSTA(b)}}

(* A supplicant only ever runs on a configuration that a call with valid   *)
(* arguments wrote in full: a rejected call leaves the file truncated      *)
(* (wifi.c:20, 29), but nothing is started on it.  For one caller.         *)
SupplicantConfigured ==
  Configured("wpa_supplicant", Networks)

(* Why: between a caller's fopen and the start of its supplicant nobody    *)
(* else touches the file, if it is the only caller.                        *)
ConfInv ==
  \A c \in Callers :
    /\ pc[c] = "build" => conf["wpa_supplicant"] = Empty
    /\ pc[c] = "wpa" => conf["wpa_supplicant"] \in Networks

(* Station mode implements Service: a session is a supplicant that has not *)
(* been told to stop.  For one caller; each session then serves a network  *)
(* that was asked for in full.                                             *)
Sessions == Instances("wpa_supplicant")
S == INSTANCE Service WITH Ids <- Pids, sessions <- Sessions
ServiceSpec == S!Spec

(* wifiCloseSTA returning 0 means that no supplicant is left except one    *)
(* that is shutting down.  For one caller and without faults.              *)
Closed0(c) == call[c].op = "wifiCloseSTA" /\ ret[c] = "ok"
CloseDownsSupplicant ==
  \A c \in Callers : Closed0(c) => \A p \in Pids : ~ Up(p, "wpa_supplicant")

(* wifiRestartSTA returning 0 means that the station runs on the new       *)
(* arguments (README.md:684).                                              *)
RestartApplies ==
  \A c \in Callers : call[c].op = "wifiRestartSTA" /\ ret[c] = "ok" =>
     \A p \in Pids : Up(p, "wpa_supplicant") =>
                        proc[p].conf = WpaConf(call[c].args)

-----------------------------------------------------------------------------
(* Fairness: the code of a call runs, and daemons set themselves up and    *)
(* shut down in finite time.  Nothing obliges a caller to make a call, a   *)
(* daemon to fail, or an access point to grant a lease.                    *)
Fairness ==
  /\ \A c \in Callers : WF_vars(CallerStep(c))
  /\ \A p \in Pids : /\ WF_vars(WritePidFile(p) /\ UNCHANGED <<callVars, conf>>)
                      /\ WF_vars(Exit(p) /\ UNCHANGED <<callVars, conf>>)

FairSpec == Spec /\ Fairness

(* A call is held up for ever at one place only: it waits for a udhcpc of  *)
(* its own that runs and gets no lease, as with a wrong passphrase         *)
(* (wifi.c:71).  Every other call returns, whatever quits meanwhile, and   *)
(* so does an open whose udhcpc does not start or stops.                   *)
AwaitsLease(c) ==
  /\ pc[c] = "lease" /\ waiting[c] # NoPid
  /\ proc[waiting[c]].kind = "udhcpc" /\ proc[waiting[c]].phase = "running"
CallsReturn ==
  \A c \in Callers : <>[](pc[c] # "idle") => <>[]AwaitsLease(c)

(* Once wifiCloseSTA has returned 0 the supplicant is gone in the end,     *)
(* unless another call is made.                                            *)
CloseTakesEffect ==
  \A c \in Callers :
    Closed0(c) ~> \/ \A p \in Pids : proc[p].kind # "wpa_supplicant"
                  \/ ~ Closed0(c)

=============================================================================
