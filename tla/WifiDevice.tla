----------------------------- MODULE WifiDevice ------------------------------
(***************************************************************************)
(* The device with both modes (src/src/wifi.c:12-352): one application     *)
(* uses station mode and access-point mode in turn, over one process       *)
(* table, one set of streams and one interface, wlan0 (wifi.c:69, 108).    *)
(* Nothing in the library keeps the modes apart; that is left to the       *)
(* application, which                                                      *)
(*   - opens or restarts a mode only while the other is closed: never      *)
(*     opened, or closed by a call that returned 0;                        *)
(*   - lets the daemons settle before a call.                              *)
(***************************************************************************)
EXTENDS Library

CONSTANTS
  StaArgs,    (* the arguments of station mode                             *)
  ApArgs,     (* the arguments of access-point mode                        *)
  NoAddress

VARIABLES
  address,    (* as in ApMode                                              *)
  mode,       (* what the application has open: "none", "sta" or "ap"      *)
  closed,     (* history: the mode was closed when its last open began     *)
  tidy        (* history: and so it was with every open that returned 0    *)

Sta == INSTANCE StaMode
Ap == INSTANCE ApMode

(* The programs the library starts; the two DHCP programs have no control  *)
(* socket.                                                                 *)
ASSUME DeviceAssumption ==
  /\ Daemons = {"wpa_supplicant", "udhcpc", "hostapd", "udhcpd"}
  /\ Exclusive = {"wpa_supplicant", "hostapd"}
  /\ NoArgs \notin StaArgs \cup ApArgs
  /\ \A a \in StaArgs : Sta!ValidSTA(a) => Sta!WpaConf(a) \in Configs
  /\ \A a \in ApArgs : Ap!ValidAP(a) => Ap!HostapdConf(a) \in Configs

history == <<mode, closed, tidy>>
vars == <<platformVars, callVars, conf, address, history>>

ModeOf(op) == IF op \in Sta!StaOps THEN "sta" ELSE "ap"
DaemonsOf(m) ==
  IF m = "sta" THEN {"wpa_supplicant", "udhcpc"} ELSE {"hostapd", "udhcpd"}

Init ==
  /\ Ap!Init
  /\ mode = "none" /\ closed = TRUE /\ tidy = TRUE

-----------------------------------------------------------------------------
Settled == \A p \in Pids : proc[p].phase \notin {"starting", "dying"}

Calls(c) ==
  /\ Settled
  /\ \/ mode # "ap" /\ Sta!CallerCalls(c) /\ UNCHANGED address
     \/ mode # "sta" /\ Ap!CallerCalls(c)
  /\ closed' = (mode = "none")
  /\ UNCHANGED <<mode, tidy>>

(* What the application knows when a call returns.  A restart whose open   *)
(* half fails has closed the mode if its close half did.                   *)
Learn(c) ==
  LET op == call[c].op
      opens == op \notin Closes
      ok == ret'[c] = "ok"
  IN
  IF pc'[c] # "idle" THEN UNCHANGED <<mode, tidy>>
  ELSE /\ mode' = CASE opens /\ ok -> ModeOf(op)
                    [] ~ opens /\ ok -> "none"
                    [] opens /\ ~ ok /\ closed -> "none"
                    [] OTHER -> mode
       /\ tidy' = IF opens /\ ok THEN tidy /\ closed ELSE tidy

Steps(c) ==
  /\ \/ Sta!CallerStep(c) /\ UNCHANGED address
     \/ Ap!CallerStep(c)
  /\ closed' = (closed \/ (pc[c] = "fclose" /\ pc'[c] = "fopen"))
  /\ Learn(c)

(* The environment, and the end of the application between two calls: its  *)
(* successor knows which mode is open.                                     *)
Others ==
  /\ \/ \E c \in Callers : CallerExits(c) \/ Sta!Lease(c)
     \/ Sta!EnvironmentStep
  /\ UNCHANGED <<address, history>>

Next == (\E c \in Callers : Calls(c) \/ Steps(c)) \/ Others

Spec == Init /\ [][Next]_vars

-----------------------------------------------------------------------------
(* Station mode and access-point mode are never on wlan0 at once: not even *)
(* while one of the daemons shuts down (wifi.c:69-70, 254).                *)
OneMode ==
  ~ \E p, q \in Pids : proc[p].kind = "wpa_supplicant" /\ proc[q].kind = "hostapd"

(* If every open began with its mode closed, a close that returns 0 leaves *)
(* no daemon of its mode up; the DHCP client or server of an open on top   *)
(* of an open would be left (wifi.c:71, 253, 263-291, 304-333).            *)
NothingLeft ==
  \A c \in Callers : tidy /\ call[c].op \in Closes /\ ret[c] = "ok" =>
    \A p \in Pids, d \in DaemonsOf(ModeOf(call[c].op)) : ~ Up(p, d)

(* After an open or a restart that returned 0 nothing is served but what   *)
(* it was asked for, if its mode was closed when it began: for a restart,  *)
(* if its close half succeeded (wifi.c:345, 350).  An access point without *)
(* DHCP is left out: what was asked for is not served then (wifi.c:243,    *)
(* ApMode's OpenRunsHostapd).                                              *)
Asked(op, a, r) ==
  IF ModeOf(op) = "sta" THEN r.kind = "wpa_supplicant" /\ r.conf = Sta!WpaConf(a)
  ELSE r.kind = "hostapd" /\ r.conf = Ap!HostapdConf(a)
Serves(op, a) == op \notin Closes /\ (ModeOf(op) = "ap" => a.dhcpEnable # 0)
ServesAsked ==
  \A c \in Callers : ret[c] = "ok" /\ Serves(call[c].op, call[c].args) /\ closed =>
    \A p \in Pids : proc[p].kind \in Exclusive /\ proc[p].phase # "dying" =>
                       Asked(call[c].op, call[c].args, proc[p])

=============================================================================
