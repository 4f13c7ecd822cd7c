-------------------------- MODULE WifiDeviceProofs ---------------------------
(***************************************************************************)
(* An application that opens a mode only while the other is closed and     *)
(* lets the daemons settle before a call never has both modes on wlan0,    *)
(* gets what it asked for, and leaves nothing behind: for any arguments,   *)
(* any number of process numbers and streams, and daemons that may quit or *)
(* crash at any time.                                                      *)
(***************************************************************************)
EXTENDS WifiDevice, LibraryProofs, Integers

OneCaller == \E c \in Callers : Callers = {c}

-----------------------------------------------------------------------------
(* The steps of both modes in the terms of Library: the operators that an  *)
(* instance brings in (Sta!Goto, Ap!Goto) say the same as Library's.       *)

Build(c, d, valid, content, to) ==
  /\ pc[c] = "build"
  /\ IF valid THEN /\ WriteConfig(c, d, content) /\ Goto(c, to)
                   /\ UNCHANGED platformVars
              ELSE RejectArgs(c, "build")

(* A step that only moves the call on, or ends it.                         *)
Moves(c, from) ==
  /\ pc[c] = from
  /\ UNCHANGED <<fds, conf, platformVars>>

StartClient(c) ==
  /\ pc[c] = "udhcpc"
  /\ \/ \E p \in Pids : /\ Spawn("udhcpc", p, NoFile)
                        /\ waiting' = [waiting EXCEPT ![c] = p]
     \/ UNCHANGED <<proc, waiting>>
  /\ Goto(c, "lease")
  /\ UNCHANGED <<fds, conf, pidFile, stream, crashed, strays>>

(* A close opens the pid files of d1 and d2 and kills k and then l.        *)
CloseMove(c, d1, d2, k, l) ==
  \/ FopenPidFile(c, d1, "pid_1", "pid_2") \/ FopenPidFile(c, d2, "pid_2", "kill_1")
  \/ KillFromPidFile(c, k, "kill_1", "kill_2") \/ KillFromPidFile(c, l, "kill_2", "fclose")
  \/ FclosePidFiles(c)

StaOpenMove(c) ==
  LET a == call[c].args IN
  \/ FopenConfig(c, "wpa_supplicant")
  \/ Build(c, "wpa_supplicant", Sta!ValidSTA(a), Sta!WpaConf(a), "wpa")
  \/ /\ StartDaemon(c, "wpa_supplicant", conf["wpa_supplicant"], "wpa")
     /\ Goto(c, "udhcpc")
  \/ StartClient(c)
  \/ Moves(c, "lease") /\ Goto(c, "sleep")
  \/ Moves(c, "sleep") /\ Return(c, "ok")

ApOpenMove(c) ==
  LET a == call[c].args IN
  \/ FopenConfig(c, "hostapd")
  \/ Build(c, "hostapd", Ap!ValidAP(a), Ap!HostapdConf(a), "address")
  \/ RejectArgs(c, "address")
  \/ /\ Moves(c, "address")
     /\ IF a.dhcpEnable = 0 THEN Return(c, "ok") ELSE Goto(c, "udhcpd")
  \/ StartDaemon(c, "udhcpd", NoFile, "udhcpd") /\ Goto(c, "hostapd")
  \/ StartDaemon(c, "hostapd", conf["hostapd"], "hostapd") /\ Return(c, "ok")

StaMove(c) ==
  /\ ModeOf(call[c].op) = "sta"
  /\ StaOpenMove(c) \/ CloseMove(c, "udhcpc", "wpa_supplicant", "udhcpc", "wpa_supplicant")
ApMove(c) ==
  /\ ModeOf(call[c].op) = "ap"
  /\ ApOpenMove(c) \/ CloseMove(c, "udhcpd", "hostapd", "hostapd", "udhcpd")

LEMMA StaStepMoves ==
  ASSUME NEW c \in Callers, Sta!CallerStep(c) PROVE StaMove(c)
<1> USE DEF Sta!Goto, Goto, Sta!Return, Return, Sta!RejectArgs, RejectArgs,
            Sta!platformVars, platformVars
<1>1. ModeOf(call[c].op) = "sta"
  BY DEF Sta!CallerStep, ModeOf
<1>2. CASE Sta!FopenWpaConf(c) \/ Sta!BuildWpaConf(c)
  BY <1>1, <1>2
     DEF Sta!FopenWpaConf, Sta!FopenConfig, FopenConfig, Sta!BuildWpaConf,
         Sta!WriteConfig, WriteConfig, Build, StaMove, StaOpenMove
<1>3. CASE Sta!StartSupplicant(c) \/ Sta!StartUdhcpc(c)
  BY <1>1, <1>3
     DEF Sta!StartSupplicant, Sta!StartDaemon, StartDaemon, Sta!StartUdhcpc, StartClient,
         Sta!Spawn, Spawn, Sta!CanStart, CanStart, Sta!Available, Available, Sta!Up, Up,
         Sta!Free, Free, StaMove, StaOpenMove
<1>4. CASE Sta!UdhcpcReturns(c) \/ Sta!SleepSTA(c)
  BY <1>1, <1>4 DEF Sta!UdhcpcReturns, Sta!SleepSTA, Moves, StaMove, StaOpenMove
<1>5. CASE Sta!FopenUdhcpcPid(c) \/ Sta!FopenWpaPid(c)
  BY <1>1, <1>5
     DEF Sta!FopenUdhcpcPid, Sta!FopenWpaPid, Sta!FopenPidFile, FopenPidFile, StaMove,
         CloseMove
<1>6. CASE Sta!KillUdhcpc(c) \/ Sta!KillWpa(c)
  BY <1>1, <1>6
     DEF Sta!KillUdhcpc, Sta!KillWpa, Sta!KillFromPidFile, KillFromPidFile,
         Sta!Signal, Signal, Sta!AfterTerm, AfterTerm, Sta!Reap, Reap, Sta!Free, Free,
         Sta!ReturnClose, ReturnClose, Sta!Restarts, Restarts, Sta!ForgetStreams,
         ForgetStreams, Sta!Closed, Closed, StaMove, CloseMove
<1>7. CASE Sta!FcloseSTA(c)
  BY <1>1, <1>7
     DEF Sta!FcloseSTA, Sta!FclosePidFiles, FclosePidFiles, Sta!ReturnClose,
         ReturnClose, Sta!Restarts, Restarts, Sta!ForgetStreams, ForgetStreams,
         Sta!Closed, Closed, StaMove, CloseMove
<1>8. QED
  BY <1>2, <1>3, <1>4, <1>5, <1>6, <1>7 DEF Sta!CallerStep

LEMMA ApStepMoves ==
  ASSUME NEW c \in Callers, Ap!CallerStep(c) PROVE ApMove(c)
<1> USE DEF Ap!Goto, Goto, Ap!Return, Return, Ap!RejectArgs, RejectArgs,
            Ap!platformVars, platformVars
<1>1. ModeOf(call[c].op) = "ap"
  BY DEF Ap!CallerStep, Ap!ApOps, Sta!StaOps, ModeOf
<1>2. CASE Ap!FopenHostapdConf(c) \/ Ap!BuildHostapdConf(c)
  BY <1>1, <1>2
     DEF Ap!FopenHostapdConf, Ap!FopenConfig, FopenConfig, Ap!BuildHostapdConf,
         Ap!WriteConfig, WriteConfig, Build, ApMove, ApOpenMove
<1>3. CASE Ap!SetAddress(c)
  BY <1>1, <1>3 DEF Ap!SetAddress, Moves, ApMove, ApOpenMove
<1>4. CASE Ap!StartUdhcpd(c) \/ Ap!StartHostapd(c)
  BY <1>1, <1>4
     DEF Ap!StartUdhcpd, Ap!StartHostapd, Ap!StartDaemon, StartDaemon,
         Ap!Spawn, Spawn, Ap!CanStart, CanStart, Ap!Available, Available, Ap!Up, Up,
         Ap!Free, Free, ApMove, ApOpenMove
<1>5. CASE Ap!FopenUdhcpdPid(c) \/ Ap!FopenHostapdPid(c)
  BY <1>1, <1>5
     DEF Ap!FopenUdhcpdPid, Ap!FopenHostapdPid, Ap!FopenPidFile, FopenPidFile, ApMove,
         CloseMove
<1>6. CASE Ap!KillHostapd(c) \/ Ap!KillUdhcpd(c)
  BY <1>1, <1>6
     DEF Ap!KillHostapd, Ap!KillUdhcpd, Ap!KillFromPidFile, KillFromPidFile,
         Ap!Signal, Signal, Ap!AfterTerm, AfterTerm, Ap!Reap, Reap, Ap!Free, Free,
         Ap!ReturnClose, ReturnClose, Ap!Restarts, Restarts, Ap!ForgetStreams,
         ForgetStreams, Ap!Closed, Closed, ApMove, CloseMove
<1>7. CASE Ap!FcloseAP(c)
  BY <1>1, <1>7
     DEF Ap!FcloseAP, Ap!FclosePidFiles, FclosePidFiles, Ap!ReturnClose,
         ReturnClose, Ap!Restarts, Restarts, Ap!ForgetStreams, ForgetStreams,
         Ap!Closed, Closed, ApMove, CloseMove
<1>8. QED
  BY <1>2, <1>3, <1>4, <1>5, <1>6, <1>7 DEF Ap!CallerStep

(* A call: a close or a restart begins with the steps of a close.          *)
Args(op) == IF ModeOf(op) = "sta" THEN StaArgs ELSE ApArgs
Entry(c) ==
  /\ Settled /\ closed' = (mode = "none") /\ UNCHANGED <<mode, tidy>>
  /\ \E op \in Ops \ {"none"} : \E a \in Args(op) \cup {NoArgs} :
       /\ mode \in {"none", ModeOf(op)}
       /\ Enter(c, op, a, IF op \in Closes \cup Restarts THEN "pid_1" ELSE "fopen")

LEMMA CallsEnter ==
  ASSUME mode \in {"none", "sta", "ap"}, NEW c \in Callers, Calls(c) PROVE Entry(c)
<1> USE DEF Sta!Enter, Ap!Enter, Enter, Sta!platformVars, Ap!platformVars, platformVars,
            Args, ModeOf, Sta!StaOps, Ops, Closes, Restarts, Entry, Calls
<1>1. CASE mode # "ap" /\ Sta!CallerCalls(c)
  <2>1. CASE Sta!OpenSTA(c)
    BY <1>1, <2>1 DEF Sta!OpenSTA
  <2>2. CASE Sta!CloseSTA(c)
    BY <1>1, <2>2 DEF Sta!CloseSTA
  <2>3. CASE Sta!RestartSTA(c)
    BY <1>1, <2>3 DEF Sta!RestartSTA
  <2>4. QED
    BY <1>1, <2>1, <2>2, <2>3 DEF Sta!CallerCalls
<1>2. CASE mode # "sta" /\ Ap!CallerCalls(c)
  <2>1. CASE Ap!OpenAP(c)
    BY <1>2, <2>1 DEF Ap!OpenAP
  <2>2. CASE Ap!CloseAP(c)
    BY <1>2, <2>2 DEF Ap!CloseAP
  <2>3. CASE Ap!RestartAP(c)
    BY <1>2, <2>3 DEF Ap!RestartAP
  <2>4. QED
    BY <1>2, <2>1, <2>2, <2>3 DEF Ap!CallerCalls
<1>3. QED
  BY <1>1, <1>2

LeaseOf(c) ==
  UNCHANGED <<proc, pidFile, stream, crashed, strays, callVars, conf>>
  /\ waiting' = [waiting EXCEPT ![c] = NoPid]

LEMMA OthersMove ==
  ASSUME Others
  PROVE  /\ UNCHANGED history
         /\ \/ \E c \in Callers : CallerExits(c) \/ LeaseOf(c)
            \/ PlatformNext /\ UNCHANGED <<callVars, conf>>
<1>1. ASSUME NEW c \in Callers, Sta!Lease(c) PROVE LeaseOf(c)
  BY <1>1 DEF Sta!Lease, LeaseOf, Sta!callVars, callVars
<1>2. CASE Sta!EnvironmentStep
  <2>1. ASSUME NEW p \in Pids, Sta!WritePidFile(p) PROVE WritePidFile(p)
    BY <2>1 DEF Sta!WritePidFile, WritePidFile
  <2>2. ASSUME NEW p \in Pids, Sta!Quit(p) \/ Sta!Exit(p) \/ Sta!Crash(p)
        PROVE  Quit(p) \/ Exit(p) \/ Crash(p)
    BY <2>2 DEF Sta!Quit, Quit, Sta!Exit, Exit, Sta!Crash, Crash, Sta!Reap, Reap,
                Sta!Free, Free
  <2>3. ASSUME NEW p \in Pids, Sta!ForeignStart(p) \/ Sta!ForeignExit(p)
        PROVE  ForeignStart(p) \/ ForeignExit(p)
    BY <2>3 DEF Sta!ForeignStart, ForeignStart, Sta!ForeignExit, ForeignExit, Sta!Free,
                Free, Sta!Foreign, Foreign, Sta!Available, Available
  <2>4. Sta!PlatformNext /\ UNCHANGED <<callVars, conf>>
    BY <1>2 DEF Sta!EnvironmentStep, Sta!callVars, callVars
  <2>5. PlatformNext
    BY <2>1, <2>2, <2>3, <2>4 DEF Sta!PlatformNext, PlatformNext
  <2>6. QED
    BY <2>4, <2>5 DEF Others
<1>3. QED
  BY <1>1, <1>2 DEF Others

(* What a step of a call does to the history.                              *)
Step(c) ==
  /\ StaMove(c) \/ ApMove(c)
  /\ closed' = (closed \/ (pc[c] = "fclose" /\ pc'[c] = "fopen"))
  /\ Learn(c)

(* Every step of the device, and the caller it is about.                   *)
LEMMA DeviceSteps ==
  ASSUME OneCaller, mode \in {"none", "sta", "ap"}, [Next]_vars, NEW c \in Callers
  PROVE  \/ Entry(c) \/ Step(c)
         \/ /\ UNCHANGED history
            /\ \/ CallerExits(c) \/ LeaseOf(c)
               \/ PlatformNext /\ UNCHANGED <<callVars, conf>>
               \/ UNCHANGED <<platformVars, callVars, conf>>
<1>1. ASSUME Calls(c) PROVE Entry(c)
  BY <1>1, CallsEnter
<1>2. ASSUME Steps(c) PROVE Step(c)
  BY <1>2, StaStepMoves, ApStepMoves DEF Steps, Step
<1>3. CASE UNCHANGED vars
  BY <1>3 DEF vars
<1>4. CASE Others
  BY <1>4, OthersMove DEF OneCaller
<1>5. QED
  BY <1>1, <1>2, <1>3, <1>4 DEF Next, OneCaller

-----------------------------------------------------------------------------
(* Types, and where a call goes from each of its steps.                    *)

Labels == {"idle", "fopen", "build", "wpa", "udhcpc", "lease", "sleep", "address",
           "udhcpd", "hostapd"} \cup CloseLabels

DeviceTypes ==
  /\ pc \in [Callers -> Labels]
  /\ call \in [Callers -> [op: Ops, args: StaArgs \cup ApArgs \cup {NoArgs}, fds: Int]]
  /\ ret \in [Callers -> {"none", "ok", "fail"}]
  /\ fds \in [Callers -> Int]
  /\ conf \in [Exclusive -> Contents]
  /\ mode \in {"none", "sta", "ap"} /\ closed \in BOOLEAN /\ tidy \in BOOLEAN

CloseOrder == {<<"pid_1", "pid_2">>, <<"pid_2", "kill_1">>, <<"kill_1", "kill_2">>,
               <<"kill_2", "fclose">>}
StaOrder == {<<"fopen", "build">>, <<"build", "wpa">>, <<"wpa", "udhcpc">>,
             <<"udhcpc", "lease">>, <<"lease", "sleep">>}
ApOrder == {<<"fopen", "build">>, <<"build", "address">>, <<"address", "udhcpd">>,
            <<"udhcpd", "hostapd">>}
OrderOf(m) == CloseOrder \cup IF m = "sta" THEN StaOrder ELSE ApOrder
RejectsAt(m) == {"fopen", "build"} \cup IF m = "sta" THEN {} ELSE {"address"}
EndsAt(m) == IF m = "sta" THEN {"sleep"} ELSE {"address", "hostapd"}

(* What a step does to the call of c; r is what the call has returned.     *)
Goes(c, to, r) == pc'[c] = to /\ ret'[c] = r /\ call'[c] = call[c]
GoesBack(c, r) ==
  IF call[c].op \in Restarts THEN Goes(c, "fopen", ret[c]) ELSE Goes(c, "idle", r)
Control(c) ==
  LET m == ModeOf(call[c].op) IN
  \/ <<pc[c], pc'[c]>> \in OrderOf(m) /\ Goes(c, pc'[c], ret[c])
  \/ pc[c] \in RejectsAt(m) /\ Goes(c, "idle", "fail")
  \/ pc[c] \in EndsAt(m) /\ Goes(c, "idle", "ok")
  \/ pc[c] \in {"kill_1", "kill_2"} /\ GoesBack(c, "fail")
  \/ pc[c] = "fclose" /\ GoesBack(c, "ok")

(* The modes' steps one by one.                                            *)
LEMMA CloseControl ==
  ASSUME DeviceTypes, NEW c \in Callers, NEW d1, NEW d2, NEW k, NEW l,
         CloseMove(c, d1, d2, k, l)
  PROVE  Control(c)
<1> USE DEF DeviceTypes, Control, Goes, GoesBack, OrderOf, CloseOrder, Goto, Return
<1>1. ASSUME NEW d, FopenPidFile(c, d, "pid_1", "pid_2") \/ FopenPidFile(c, d, "pid_2", "kill_1")
      PROVE  Control(c)
  BY <1>1 DEF FopenPidFile
<1>2. ASSUME NEW d, \/ KillFromPidFile(c, d, "kill_1", "kill_2")
                    \/ KillFromPidFile(c, d, "kill_2", "fclose")
      PROVE  Control(c)
  BY <1>2 DEF KillFromPidFile, ReturnClose
<1>3. CASE FclosePidFiles(c)
  BY <1>3 DEF FclosePidFiles, ReturnClose
<1>4. QED
  BY <1>1, <1>2, <1>3 DEF CloseMove

LEMMA StepControl ==
  ASSUME DeviceTypes, NEW c \in Callers, StaMove(c) \/ ApMove(c)
  PROVE  Control(c)
<1> USE DEF DeviceTypes, Control, Goes, OrderOf, RejectsAt, EndsAt, Goto, Return
<1>1. ASSUME NEW d, FopenConfig(c, d) PROVE Control(c)
  BY <1>1 DEF FopenConfig, RejectArgs, StaOrder, ApOrder
<1>2. CASE StaMove(c) /\ StaOpenMove(c)
  BY <1>1, <1>2
     DEF StaMove, StaOpenMove, Build, RejectArgs, WriteConfig, StartDaemon, StartClient,
         Moves, StaOrder
<1>3. CASE ApMove(c) /\ ApOpenMove(c)
  <2>1. ModeOf(call[c].op) = "ap"
    BY <1>3 DEF ApMove
  <2>2. QED
    BY <1>1, <1>3, <2>1
       DEF ApOpenMove, Build, RejectArgs, WriteConfig, StartDaemon, Moves, ApOrder
<1>4. QED
  BY <1>2, <1>3, CloseControl DEF StaMove, ApMove

-----------------------------------------------------------------------------
(* Which call is where: a part of the invariant that does not mention the  *)
(* daemons.                                                                *)

Opening == Labels \ ({"idle"} \cup CloseLabels)
Reading(d) == {"kill_1", "kill_2", "fclose"} \cup
              IF d \in {"udhcpc", "udhcpd"} THEN {"pid_2"} ELSE {}
Owner(d) == IF d \in {"wpa_supplicant", "udhcpc"} THEN "sta" ELSE "ap"
Own(c, d) == ModeOf(call[c].op) = Owner(d)

CallInv(c) ==
  LET op == call[c].op IN
  /\ pc[c] \in CloseLabels => op \in Closes \cup Restarts
  /\ pc[c] \in Opening => op \notin Closes
  /\ pc[c] # "idle" => /\ op # "none" /\ ret[c] = "none"
                       /\ call[c].args \in Args(op) \cup {NoArgs}
                       /\ mode \in {"none", ModeOf(op)}
                       /\ mode = "none" => closed
  /\ pc[c] \in Opening \ {"fopen"} => call[c].args # NoArgs
  /\ ret[c] = "ok" => mode = IF op \in Closes THEN "none" ELSE ModeOf(op)

LEMMA ModeOfOps == \A op : ModeOf(op) \in {"sta", "ap"}
BY DEF ModeOf

LEMMA StepArgs ==
  ASSUME DeviceTypes, NEW c \in Callers, StaMove(c) \/ ApMove(c), CallInv(c)
  PROVE  pc'[c] \in Opening \ {"fopen"} => call[c].args # NoArgs
<1> USE DEF DeviceTypes, CallInv, Goto, Return
<1>1. CASE pc[c] \in Opening \ {"fopen"}
  BY <1>1
<1>2. CASE pc[c] \notin Opening
  <2>1. pc'[c] \notin Opening \ {"fopen"}
    BY <1>2, StepControl
       DEF Control, OrderOf, CloseOrder, StaOrder, ApOrder, Goes, GoesBack, RejectsAt,
           EndsAt, Opening, Labels, CloseLabels
  <2>2. QED
    BY <2>1
<1>3. CASE pc[c] = "fopen"
  <2>1. \E d : FopenConfig(c, d)
    BY <1>3 DEF StaMove, ApMove, StaOpenMove, ApOpenMove, Build, StartDaemon, StartClient,
                Moves, RejectArgs, CloseMove, FopenPidFile, KillFromPidFile,
                FclosePidFiles
  <2>2. QED
    BY <2>1 DEF FopenConfig, RejectArgs, Opening
<1>4. QED
  BY <1>1, <1>2, <1>3

LEMMA StepCallInv ==
  ASSUME DeviceTypes, NEW c \in Callers, Step(c), CallInv(c)
  PROVE  CallInv(c)'
<1>1. Control(c) /\ call'[c] = call[c]
  BY StepControl DEF Step, Control, Goes, GoesBack
<1>2. pc[c] # "idle"
  BY <1>1 DEF Control, OrderOf, CloseOrder, StaOrder, ApOrder, RejectsAt, EndsAt
<1>3. pc'[c] \in CloseLabels => pc[c] \in CloseLabels
  BY <1>1 DEF Control, OrderOf, CloseOrder, StaOrder, ApOrder, Goes, GoesBack, CloseLabels
<1>4. pc'[c] \in Opening => call[c].op \notin Closes
  BY <1>1
     DEF Control, OrderOf, CloseOrder, StaOrder, ApOrder, Goes, GoesBack, CallInv, Opening,
         Labels, CloseLabels, Restarts, Closes
<1>5. CASE pc'[c] # "idle"
  <2>1. ret'[c] = "none" /\ UNCHANGED <<mode, tidy>> /\ (closed => closed')
    BY <1>1, <1>2, <1>5 DEF Control, Goes, GoesBack, CallInv, Step, Learn
  <2>2. pc'[c] \in Opening \ {"fopen"} => call[c].args # NoArgs
    BY StepArgs DEF Step
  <2>3. QED
    BY <1>1, <1>2, <1>3, <1>4, <1>5, <2>1, <2>2 DEF CallInv
<1>6. CASE pc'[c] = "idle"
  <2>1. ret'[c] = "ok" => mode' = IF call[c].op \in Closes THEN "none" ELSE ModeOf(call[c].op)
    BY <1>6 DEF Step, Learn
  <2>2. QED
    BY <1>1, <1>6, <2>1 DEF CallInv, CloseLabels, Opening
<1>7. QED
  BY <1>5, <1>6

LEMMA EntryCallInv ==
  ASSUME DeviceTypes, NEW c \in Callers, Entry(c)
  PROVE  CallInv(c)'
<1>1. PICK op \in Ops \ {"none"} : \E a \in Args(op) \cup {NoArgs} :
         /\ mode \in {"none", ModeOf(op)}
         /\ Enter(c, op, a, IF op \in Closes \cup Restarts THEN "pid_1" ELSE "fopen")
  BY DEF Entry
<1>2. /\ call'[c].op = op /\ call'[c].args \in Args(op) \cup {NoArgs} /\ ret'[c] = "none"
      /\ pc'[c] = IF op \in Closes \cup Restarts THEN "pid_1" ELSE "fopen"
  BY <1>1 DEF Enter, DeviceTypes
<1>3. mode' = mode /\ closed' = (mode = "none")
  BY DEF Entry
<1>4. QED
  BY <1>1, <1>2, <1>3 DEF CallInv, CloseLabels, Opening, Labels

LEMMA OtherCallInv ==
  ASSUME DeviceTypes, NEW c \in Callers, "killed" \notin Faults, UNCHANGED history,
         CallInv(c), CallerExits(c) \/ UNCHANGED callVars
  PROVE  CallInv(c)'
<1>1. CASE UNCHANGED callVars
  BY <1>1 DEF CallInv, callVars, history
<1>2. CASE CallerExits(c)
  BY <1>2 DEF CallerExits, DeviceTypes, CallInv, CloseLabels, Opening
<1>3. QED
  BY <1>1, <1>2

-----------------------------------------------------------------------------
(* The state keeps its types, and pid files, streams and processes agree.  *)

LEMMA Names ==
  /\ {"wpa_supplicant", "udhcpc", "hostapd", "udhcpd"} \subseteq Daemons
  /\ {"wpa_supplicant", "hostapd"} \subseteq Exclusive
  /\ NoFile \in Contents /\ Empty \in Contents /\ Torn \in Contents
BY DeviceAssumption DEF Contents

LEMMA StepPlatformOK ==
  ASSUME PlatformOK, DeviceTypes, NEW c \in Callers, StaMove(c) \/ ApMove(c)
  PROVE  PlatformOK'
<1> USE Names
<1>1. CASE UNCHANGED platformVars
  BY <1>1, PlatformUnchangedOK
<1>2. ASSUME NEW d \in Exclusive, NEW from, StartDaemon(c, d, conf[d], from) PROVE PlatformOK'
  BY <1>2, StartDaemonOK, PlatformAssumption DEF DeviceTypes
<1>3. ASSUME StartDaemon(c, "udhcpd", NoFile, "udhcpd") PROVE PlatformOK'
  BY <1>3, StartDaemonOK
<1>4. CASE StartClient(c)
  <2>1. CASE UNCHANGED <<proc, waiting>>
    BY <1>4, <2>1, PlatformUnchangedOK DEF StartClient, platformVars
  <2>2. CASE \E p \in Pids : /\ Spawn("udhcpc", p, NoFile)
                             /\ waiting' = [waiting EXCEPT ![c] = p]
    BY <1>4, <2>2, SpawnOK DEF StartClient, PlatformOK, PlatformTypeOK
  <2>3. QED
    BY <1>4, <2>1, <2>2 DEF StartClient
<1>5. ASSUME NEW d1 \in Daemons, NEW d2 \in Daemons, NEW k \in Daemons, NEW l \in Daemons,
             CloseMove(c, d1, d2, k, l)
      PROVE  PlatformOK'
  BY <1>5, FopenPidFileOK, KillFromPidFileOK, FclosePidFilesOK DEF CloseMove
<1>6. ASSUME NEW d, NEW v, NEW x, NEW to, NEW from,
             \/ FopenConfig(c, d) \/ Build(c, d, v, x, to) \/ Moves(c, from)
             \/ RejectArgs(c, from)
      PROVE  UNCHANGED platformVars
  BY <1>6 DEF FopenConfig, Build, Moves, RejectArgs
<1>7. CASE StaMove(c)
  BY <1>1, <1>2, <1>4, <1>5, <1>6, <1>7 DEF StaMove, StaOpenMove
<1>8. CASE ApMove(c)
  BY <1>1, <1>2, <1>3, <1>5, <1>6, <1>8 DEF ApMove, ApOpenMove
<1>9. QED
  BY <1>7, <1>8

(* The file and the number of streams.                                     *)
LEMMA StepFileTypes ==
  ASSUME DeviceTypes, NEW c \in Callers, CallInv(c), StaMove(c) \/ ApMove(c)
  PROVE  fds' \in [Callers -> Int] /\ conf' \in [Exclusive -> Contents]
<1> DEFINE Typed == fds' \in [Callers -> Int] /\ conf' \in [Exclusive -> Contents]
<1> USE Names DEF DeviceTypes
<1>1. CASE UNCHANGED <<fds, conf>>
  BY <1>1
<1>2. ASSUME NEW d \in Exclusive, FopenConfig(c, d) PROVE Typed
  BY <1>2 DEF FopenConfig, RejectArgs
<1>3. ASSUME NEW d \in Exclusive, NEW v, NEW x, NEW to, v => x \in Contents, Build(c, d, v, x, to)
      PROVE  Typed
  BY <1>3 DEF Build, RejectArgs, WriteConfig
<1>4. ASSUME NEW d1, NEW d2, NEW k, NEW l, CloseMove(c, d1, d2, k, l) PROVE Typed
  BY <1>4 DEF CloseMove, FopenPidFile, KillFromPidFile, FclosePidFiles
<1>5. pc[c] = "build" => call[c].args \in Args(call[c].op)
  BY DEF CallInv, Opening, Labels, CloseLabels
<1>6. CASE StaMove(c)
  <2>1. ASSUME Build(c, "wpa_supplicant", Sta!ValidSTA(call[c].args), Sta!WpaConf(call[c].args), "wpa")
        PROVE  Typed
    <3>1. Sta!ValidSTA(call[c].args) => Sta!WpaConf(call[c].args) \in Contents
      BY <1>5, <1>6, <2>1, DeviceAssumption DEF Build, StaMove, Args, Contents
    <3>2. QED
      BY <1>3, <2>1, <3>1
  <2>2. QED
    BY <1>1, <1>2, <1>4, <1>6, <2>1
       DEF StaMove, StaOpenMove, StartDaemon, StartClient, Moves
<1>7. CASE ApMove(c)
  <2>1. ASSUME Build(c, "hostapd", Ap!ValidAP(call[c].args), Ap!HostapdConf(call[c].args), "address")
        PROVE  Typed
    <3>1. Ap!ValidAP(call[c].args) => Ap!HostapdConf(call[c].args) \in Contents
      BY <1>5, <1>7, <2>1, DeviceAssumption DEF Build, ApMove, Args, Contents
    <3>2. QED
      BY <1>3, <2>1, <3>1
  <2>2. QED
    BY <1>1, <1>2, <1>4, <1>7, <2>1
       DEF ApMove, ApOpenMove, StartDaemon, Moves, RejectArgs
<1>8. QED
  BY <1>6, <1>7

LEMMA StepTypes ==
  ASSUME DeviceTypes, NEW c \in Callers, CallInv(c), Step(c)
  PROVE  DeviceTypes'
<1>1. fds' \in [Callers -> Int] /\ conf' \in [Exclusive -> Contents]
  BY StepFileTypes DEF Step
<1>2. /\ pc' \in [Callers -> Labels] /\ ret' \in [Callers -> {"none", "ok", "fail"}]
      /\ call' = call
  <2>1. /\ \E to \in Labels : pc' = [pc EXCEPT ![c] = to]
        /\ UNCHANGED ret \/ \E r \in {"ok", "fail"} : ret' = [ret EXCEPT ![c] = r]
        /\ call' = call
    <3> USE DEF Goto, Return, Labels, CloseLabels
    <3>1. CASE StaMove(c) /\ StaOpenMove(c)
      BY <3>1 DEF StaOpenMove, FopenConfig, Build, RejectArgs, StartDaemon, StartClient, Moves
    <3>2. CASE ApMove(c) /\ ApOpenMove(c)
      BY <3>2 DEF ApOpenMove, FopenConfig, Build, RejectArgs, StartDaemon, Moves
    <3>3. ASSUME NEW d1, NEW d2, NEW k, NEW l, CloseMove(c, d1, d2, k, l)
          PROVE  /\ \E to \in Labels : pc' = [pc EXCEPT ![c] = to]
                 /\ UNCHANGED ret \/ \E r \in {"ok", "fail"} : ret' = [ret EXCEPT ![c] = r]
                 /\ call' = call
      BY <3>3 DEF CloseMove, FopenPidFile, KillFromPidFile, FclosePidFiles, ReturnClose
    <3>4. QED
      BY <3>1, <3>2, <3>3 DEF Step, StaMove, ApMove
  <2>2. QED
    BY <2>1 DEF DeviceTypes
<1>3. mode' \in {"none", "sta", "ap"} /\ closed' \in BOOLEAN /\ tidy' \in BOOLEAN
  BY ModeOfOps DEF Step, Learn, DeviceTypes
<1>4. QED
  BY <1>1, <1>2, <1>3 DEF DeviceTypes

LEMMA EntryTypes ==
  ASSUME DeviceTypes, NEW c \in Callers, Entry(c) PROVE DeviceTypes'
<1>1. PICK op \in Ops, a \in StaArgs \cup ApArgs \cup {NoArgs}, to \in Labels :
        Enter(c, op, a, to)
  BY DEF Entry, Args, Labels, CloseLabels
<1>2. /\ pc' \in [Callers -> Labels] /\ ret' \in [Callers -> {"none", "ok", "fail"}]
      /\ call' \in [Callers -> [op: Ops, args: StaArgs \cup ApArgs \cup {NoArgs}, fds: Int]]
  BY <1>1 DEF Enter, DeviceTypes
<1>3. QED
  BY <1>1, <1>2 DEF Entry, Enter, DeviceTypes

LEMMA OtherTypes ==
  ASSUME DeviceTypes, NEW c \in Callers, UNCHANGED history,
         CallerExits(c) \/ UNCHANGED <<callVars, conf>>
  PROVE  DeviceTypes'
<1>1. CASE UNCHANGED <<callVars, conf>>
  BY <1>1 DEF DeviceTypes, callVars, history
<1>2. CASE CallerExits(c)
  BY <1>2 DEF CallerExits, DeviceTypes, Labels, Ops, history
<1>3. QED
  BY <1>1, <1>2

-----------------------------------------------------------------------------
(* What a step does to the processes.  A call starts daemon d at one of    *)
(* its steps; every other step keeps what is known of d.                   *)

StartAt(d) == IF d = "wpa_supplicant" THEN "wpa" ELSE d
Starts(c, d) ==
  /\ pc[c] = StartAt(d) /\ Own(c, d)
  /\ UNCHANGED <<pidFile, stream>>
  /\ \E p \in Pids, x \in Contents : Spawn(d, p, x) /\ (d \in Exclusive => x = conf[d])
KeepsAll(d) == NoneStarted(d) /\ Keeps(d)

LEMMA UnchangedKeepsAll ==
  ASSUME NEW d, OwnFile(d), UNCHANGED <<proc, pidFile>> PROVE KeepsAll(d)
BY UnchangedStartsNone, UnchangedKeeps DEF KeepsAll

LEMMA OtherStartKeeps ==
  ASSUME PlatformTypeOK, NEW d \in Daemons, OwnFile(d), NEW e, e # d, NEW p \in Pids, NEW x,
         Spawn(e, p, x), UNCHANGED pidFile
  PROVE  KeepsAll(d)
BY SpawnStartsNone, SpawnKeeps DEF KeepsAll

LEMMA CloseKeeps ==
  ASSUME PlatformTypeOK, NEW d \in Daemons, OwnFile(d), NEW c \in Callers,
         NEW d1 \in Daemons, NEW d2 \in Daemons, NEW k \in Daemons, NEW l \in Daemons,
         CloseMove(c, d1, d2, k, l)
  PROVE  KeepsAll(d)
<1>1. ASSUME NEW e \in Daemons, NEW from, NEW to, KillFromPidFile(c, e, from, to)
      PROVE  KeepsAll(d)
  BY <1>1, KillStartsNone, KillKeeps DEF KeepsAll
<1>2. ASSUME UNCHANGED <<proc, pidFile>> PROVE KeepsAll(d)
  BY <1>2, UnchangedKeepsAll
<1>3. QED
  BY <1>1, <1>2 DEF CloseMove, FopenPidFile, FclosePidFiles

(* A step starts a daemon of its mode, is one of a close, or leaves the    *)
(* processes as they are.                                                  *)
ClosesOwn(c) ==
  \/ ModeOf(call[c].op) = "sta" /\ CloseMove(c, "udhcpc", "wpa_supplicant", "udhcpc", "wpa_supplicant")
  \/ ModeOf(call[c].op) = "ap" /\ CloseMove(c, "udhcpd", "hostapd", "hostapd", "udhcpd")

LEMMA StepActs ==
  ASSUME DeviceTypes, NEW c \in Callers, StaMove(c) \/ ApMove(c)
  PROVE  \/ \E d \in Daemons : Starts(c, d)
         \/ ClosesOwn(c)
         \/ pc[c] \notin CloseLabels /\ UNCHANGED <<proc, pidFile, stream>>
<1> DEFINE Still == pc[c] \notin CloseLabels /\ UNCHANGED <<proc, pidFile, stream>>
<1> USE Names DEF CloseLabels, platformVars
<1>1. CASE StaMove(c)
  <2>1. ModeOf(call[c].op) = "sta" /\ conf["wpa_supplicant"] \in Contents
    BY <1>1 DEF StaMove, DeviceTypes
  <2>2. ASSUME StartDaemon(c, "wpa_supplicant", conf["wpa_supplicant"], "wpa")
        PROVE  Starts(c, "wpa_supplicant") \/ Still
    BY <2>1, <2>2 DEF StartDaemon, Starts, StartAt, Own, Owner
  <2>3. ASSUME StartClient(c) PROVE Starts(c, "udhcpc") \/ Still
    BY <2>1, <2>3, DeviceAssumption DEF StartClient, Starts, StartAt, Own, Owner
  <2>4. QED
    BY <1>1, <2>1, <2>2, <2>3
       DEF StaMove, StaOpenMove, ClosesOwn, FopenConfig, Build, RejectArgs, Moves
<1>2. CASE ApMove(c)
  <2>1. ModeOf(call[c].op) = "ap" /\ conf["hostapd"] \in Contents
    BY <1>2 DEF ApMove, DeviceTypes
  <2>2. ASSUME StartDaemon(c, "udhcpd", NoFile, "udhcpd")
        PROVE  Starts(c, "udhcpd") \/ Still
    BY <2>1, <2>2, DeviceAssumption DEF StartDaemon, Starts, StartAt, Own, Owner
  <2>3. ASSUME StartDaemon(c, "hostapd", conf["hostapd"], "hostapd")
        PROVE  Starts(c, "hostapd") \/ Still
    BY <2>1, <2>3 DEF StartDaemon, Starts, StartAt, Own, Owner
  <2>4. QED
    BY <1>2, <2>1, <2>2, <2>3
       DEF ApMove, ApOpenMove, ClosesOwn, FopenConfig, Build, RejectArgs, Moves
<1>3. QED
  BY <1>1, <1>2

LEMMA StepEffect ==
  ASSUME PlatformTypeOK, DeviceTypes, NEW d \in Daemons, OwnFile(d), NEW c \in Callers,
         StaMove(c) \/ ApMove(c)
  PROVE  Starts(c, d) \/ KeepsAll(d)
<1> USE Names
<1>1. CASE UNCHANGED <<proc, pidFile>>
  BY <1>1, UnchangedKeepsAll
<1>2. ASSUME NEW e \in Daemons, Starts(c, e) PROVE Starts(c, d) \/ KeepsAll(d)
  BY <1>2, OtherStartKeeps DEF Starts
<1>3. CASE ClosesOwn(c)
  BY <1>3, CloseKeeps DEF ClosesOwn
<1>4. QED
  BY <1>1, <1>2, <1>3, StepActs

(* A daemon is setting itself up, running or dying; none is setting itself *)
(* up while a close goes on, because the application let them settle.      *)
Live == \A p \in Pids : proc[p].kind \in Daemons => proc[p].phase # "none"
AllUp(c) == pc[c] \in CloseLabels => \A p \in Pids : proc[p].phase # "starting"

LEMMA SignalPhases ==
  ASSUME PlatformTypeOK, Live, NEW d, NEW p \in Pids, Signal(d, p)
  PROVE  /\ Live'
         /\ \A q \in Pids : proc'[q].phase = "starting" => proc[q].phase = "starting"
BY PlatformAssumption DEF PlatformTypeOK, Live, Signal, AfterTerm, Process, Free

LEMMA PlatformPhases ==
  ASSUME PlatformTypeOK, Live, PlatformNext
  PROVE  /\ Live'
         /\ \A q \in Pids : proc'[q].phase = "starting" => proc[q].phase = "starting"
<1> DEFINE Goal == /\ Live'
                   /\ \A q \in Pids : proc'[q].phase = "starting" => proc[q].phase = "starting"
<1> "none" \notin Daemons /\ "other" \notin Daemons
  BY PlatformAssumption
<1> USE DEF PlatformTypeOK, Live, Process, Free, Foreign
<1>1. ASSUME NEW p \in Pids, NEW ph \in {"running", "dying"},
             proc' = [proc EXCEPT ![p].phase = ph]
      PROVE  Goal
  <2>1. \A q \in Pids \ {p} : proc'[q] = proc[q]
    BY <1>1
  <2>2. proc'[p].phase = ph /\ proc'[p].kind = proc[p].kind
    BY <1>1
  <2>3. QED
    BY <2>1, <2>2
<1>2. ASSUME NEW p \in Pids, proc' = [proc EXCEPT ![p] = Free] PROVE Goal
  BY <1>2
<1>3. ASSUME NEW p \in Pids, ForeignStart(p) PROVE Goal
  BY <1>3 DEF ForeignStart
<1> HIDE DEF Goal
<1>4. Goal
  BY <1>1, <1>2, <1>3 DEF PlatformNext, WritePidFile, Quit, Exit, Crash, ForeignExit
<1>5. QED
  BY <1>4 DEF Goal

LEMMA StepPhases ==
  ASSUME PlatformTypeOK, DeviceTypes, Live, NEW c \in Callers, AllUp(c),
         StaMove(c) \/ ApMove(c)
  PROVE  Live' /\ AllUp(c)'
<1> DEFINE Calm == \A q \in Pids : proc'[q].phase = "starting" => proc[q].phase = "starting"
<1> USE Names
<1>1. ASSUME NEW d \in Daemons, Starts(c, d) PROVE Live' /\ pc[c] \notin CloseLabels
  <2>1. Live'
    BY <1>1 DEF Starts, Live, Spawn, PlatformTypeOK
  <2>2. pc[c] \notin CloseLabels
    BY <1>1, DeviceAssumption DEF Starts, StartAt, CloseLabels
  <2>3. QED
    BY <2>1, <2>2
<1>2. ASSUME UNCHANGED proc PROVE Live' /\ Calm
  BY <1>2 DEF Live
<1>3. ASSUME NEW d \in Daemons, NEW from, NEW to, KillFromPidFile(c, d, from, to)
      PROVE  Live' /\ Calm
  <2>1. CASE stream[c][d].pid # NoPid
    BY <1>3, <2>1, SignalPhases DEF KillFromPidFile, PlatformTypeOK, Stream
  <2>2. CASE stream[c][d].pid = NoPid
    BY <1>2, <1>3, <2>2 DEF KillFromPidFile
  <2>3. QED
    BY <2>1, <2>2
<1>4. ASSUME NEW d1 \in Daemons, NEW d2 \in Daemons, NEW k \in Daemons, NEW l \in Daemons,
             CloseMove(c, d1, d2, k, l)
      PROVE  Live' /\ Calm
  BY <1>2, <1>3, <1>4 DEF CloseMove, FopenPidFile, FclosePidFiles
<1>5. Live' /\ (pc[c] \in CloseLabels => Calm)
  BY <1>1, <1>2, <1>4, StepActs DEF ClosesOwn
<1>6. pc'[c] \in CloseLabels => pc[c] \in CloseLabels
  BY StepControl DEF Control, OrderOf, CloseOrder, StaOrder, ApOrder, Goes, GoesBack, CloseLabels
<1>7. QED
  BY <1>5, <1>6 DEF AllUp

-----------------------------------------------------------------------------
(* The streams of a close: a call holds streams on the pid files of its    *)
(* own daemons only, the one on d while it is Reading(d); the instance of  *)
(* d that is up is the one such a stream names, and once the close has     *)
(* killed it none is up.                                                   *)
Killed(d) == {"fclose"} \cup IF d \in {"udhcpc", "hostapd"} THEN {"kill_2"} ELSE {}

HoldsOwn(c) ==
  \A d \in Daemons : stream[c][d].pid # NoPid => Own(c, d) /\ pc[c] \in Reading(d)
Tells(c, d) ==
  Own(c, d) => /\ pc[c] \in Reading(d) => StreamTells(c, d)
               /\ pc[c] \in Killed(d) => NoneUp(d)

(* Which daemons the steps of a close read and kill.                       *)
Pair(c, d1, d2, k, l) ==
  /\ {d1, d2, k, l} \subseteq Daemons /\ d1 # d2 /\ {k, l} = {d1, d2}
  /\ \A d \in Daemons : /\ Own(c, d) <=> d \in {d1, d2}
                        /\ "pid_2" \in Reading(d) <=> d \in {"udhcpc", "udhcpd"}
  /\ d1 \in {"udhcpc", "udhcpd"} /\ d2 \notin {"udhcpc", "udhcpd"}
  /\ k \in {"udhcpc", "hostapd"} /\ l \notin {"udhcpc", "hostapd"}

LEMMA ClosePair ==
  ASSUME NEW c \in Callers, ClosesOwn(c)
  PROVE  \E d1, d2, k, l \in Daemons : Pair(c, d1, d2, k, l) /\ CloseMove(c, d1, d2, k, l)
<1>1. CASE /\ ModeOf(call[c].op) = "sta"
           /\ CloseMove(c, "udhcpc", "wpa_supplicant", "udhcpc", "wpa_supplicant")
  <2>1. Pair(c, "udhcpc", "wpa_supplicant", "udhcpc", "wpa_supplicant")
    BY <1>1, DeviceAssumption DEF Pair, Own, Owner, Reading
  <2>2. QED
    BY <1>1, <2>1, Names
<1>2. CASE /\ ModeOf(call[c].op) = "ap"
           /\ CloseMove(c, "udhcpd", "hostapd", "hostapd", "udhcpd")
  <2>1. Pair(c, "udhcpd", "hostapd", "hostapd", "udhcpd")
    BY <1>2, DeviceAssumption DEF Pair, Own, Owner, Reading
  <2>2. QED
    BY <1>2, <2>1, Names
<1>3. QED
  BY <1>1, <1>2 DEF ClosesOwn

LEMMA StepStreams ==
  ASSUME PlatformTypeOK, DeviceTypes, NEW c \in Callers, HoldsOwn(c),
         StaMove(c) \/ ApMove(c)
  PROVE  HoldsOwn(c)'
<1>1. call'[c] = call[c]
  BY StepControl DEF Control, Goes, GoesBack
<1>2. CASE pc[c] \notin CloseLabels /\ UNCHANGED stream
  BY <1>2 DEF HoldsOwn, Reading, CloseLabels
<1>3. ASSUME NEW d \in Daemons, Starts(c, d) PROVE HoldsOwn(c)'
  BY <1>2, <1>3, DeviceAssumption DEF Starts, StartAt, CloseLabels
<1>4. ASSUME NEW d1 \in Daemons, NEW d2 \in Daemons, NEW k \in Daemons, NEW l \in Daemons,
             Pair(c, d1, d2, k, l), CloseMove(c, d1, d2, k, l)
      PROVE  HoldsOwn(c)'
  <2> USE DEF DeviceTypes
  <2>1. ASSUME ForgetStreams(c) PROVE HoldsOwn(c)'
    BY <2>1 DEF ForgetStreams, Closed, HoldsOwn, PlatformTypeOK
  <2>2. CASE FopenPidFile(c, d1, "pid_1", "pid_2")
    <3>1. \A d \in Daemons : stream[c][d].pid = NoPid
      BY <2>2 DEF FopenPidFile, HoldsOwn, Reading
    <3>2. \A d \in Daemons \ {d1} : stream'[c][d].pid = NoPid
      BY <2>2, <3>1 DEF FopenPidFile, PlatformTypeOK
    <3>3. pc'[c] = "pid_2"
      BY <2>2 DEF FopenPidFile, Goto
    <3>4. QED
      BY <1>1, <1>4, <3>2, <3>3 DEF HoldsOwn, Pair, Own
  <2>3. CASE FopenPidFile(c, d2, "pid_2", "kill_1")
    <3>1. \A d \in Daemons \ {d1, d2} : stream'[c][d].pid = NoPid
      BY <1>4, <2>3 DEF FopenPidFile, HoldsOwn, PlatformTypeOK, Pair
    <3>2. pc'[c] = "kill_1"
      BY <2>3 DEF FopenPidFile, Goto
    <3>3. QED
      BY <1>1, <1>4, <3>1, <3>2 DEF HoldsOwn, Pair, Own, Reading
  <2>4. ASSUME NEW d, NEW from, NEW to \in {"kill_2", "fclose"}, KillFromPidFile(c, d, from, to)
        PROVE  HoldsOwn(c)'
    <3>1. CASE stream[c][d].pid # NoPid
      BY <1>1, <2>4, <3>1 DEF KillFromPidFile, HoldsOwn, Own, Goto, Reading
    <3>2. QED
      BY <2>1, <2>4, <3>1 DEF KillFromPidFile
  <2>5. QED
    BY <1>4, <2>1, <2>2, <2>3, <2>4 DEF CloseMove, FclosePidFiles
<1>5. QED
  BY <1>2, <1>3, <1>4, StepActs, ClosePair

LEMMA CloseTells ==
  ASSUME PlatformTypeOK, DeviceTypes, NEW c \in Callers, NEW d \in Daemons, OwnFile(d),
         AllUp(c), HoldsOwn(c), Tells(c, d),
         NEW d1 \in Daemons, NEW d2 \in Daemons, NEW k \in Daemons, NEW l \in Daemons,
         Pair(c, d1, d2, k, l), CloseMove(c, d1, d2, k, l), Own(c, d)
  PROVE  /\ pc'[c] \in Reading(d) => StreamTells(c, d)'
         /\ pc'[c] \in Killed(d) => NoneUp(d)'
<1> DEFINE Goal == /\ pc'[c] \in Reading(d) => StreamTells(c, d)'
                   /\ pc'[c] \in Killed(d) => NoneUp(d)'
<1> USE DEF DeviceTypes
<1>1. d \in {d1, d2} /\ d \in {k, l}
  BY DEF Pair
<1>2. pc[c] \in CloseLabels => \A p \in Pids : ~ SettingUp(p, d)
  BY DEF AllUp, SettingUp
<1>3. ASSUME NEW r, ReturnClose(c, r) PROVE Goal
  BY <1>3 DEF ReturnClose, Goto, Return, Reading, Killed
<1>4. CASE FopenPidFile(c, d1, "pid_1", "pid_2")
  <2>1. pc[c] = "pid_1" /\ pc'[c] = "pid_2"
    BY <1>4 DEF FopenPidFile, Goto
  <2>2. d = d1 => StreamTells(c, d)'
    BY <1>2, <1>4, <2>1, FopenTells DEF CloseLabels, HoldsOwn, Reading
  <2>3. QED
    BY <1>1, <2>1, <2>2 DEF Pair, Killed
<1>5. CASE FopenPidFile(c, d2, "pid_2", "kill_1")
  <2>1. pc[c] = "pid_2" /\ pc'[c] = "kill_1"
    BY <1>5 DEF FopenPidFile, Goto
  <2>2. stream[c][d2].pid = NoPid
    BY <2>1 DEF HoldsOwn, Pair
  <2>3. d = d2 => StreamTells(c, d)'
    BY <1>2, <1>5, <2>1, <2>2, FopenTells DEF CloseLabels
  <2>4. d = d1 => StreamTells(c, d)'
    <3>1. d = d1 => StreamTells(c, d) /\ stream'[c][d].pid = stream[c][d].pid
      BY <1>5, <2>1 DEF Tells, Pair, FopenPidFile, PlatformTypeOK
    <3>2. Keeps(d)
      BY <1>5, UnchangedKeeps DEF FopenPidFile
    <3>3. QED
      BY <3>1, <3>2 DEF Keeps
  <2>5. QED
    BY <1>1, <2>1, <2>3, <2>4 DEF Killed
<1>6. ASSUME NEW e \in Daemons, NEW from \in {"kill_1", "kill_2"}, NEW to,
             KillFromPidFile(c, e, from, to), pc'[c] = to
      PROVE  /\ pc[c] = from
             /\ stream[c][e].pid # NoPid =>
                  /\ StreamTells(c, d)'
                  /\ NoneUp(d) => NoneUp(d)'
                  /\ d = e => NoneUp(d)'
  <2>1. Keeps(d) /\ pc[c] = from /\ StreamTells(c, d)
    BY <1>6, KillKeeps DEF KillFromPidFile, Tells, Reading
  <2>2. stream[c][e].pid # NoPid => UNCHANGED stream
    BY <1>6 DEF KillFromPidFile
  <2>3. stream[c][e].pid # NoPid /\ d = e => NoneUp(d)'
    BY <1>6, <2>1, KillDowns
  <2>4. QED
    BY <2>1, <2>2, <2>3 DEF Keeps
<1>7. CASE KillFromPidFile(c, k, "kill_1", "kill_2")
  <2>1. CASE stream[c][k].pid # NoPid
    <3>1. pc'[c] = "kill_2"
      BY <1>7, <2>1 DEF KillFromPidFile, Goto
    <3>2. QED
      BY <1>1, <1>6, <1>7, <2>1, <3>1 DEF Pair, Killed
  <2>2. QED
    BY <1>3, <1>7, <2>1 DEF KillFromPidFile
<1>8. CASE KillFromPidFile(c, l, "kill_2", "fclose")
  <2>1. CASE stream[c][l].pid # NoPid
    <3>1. pc'[c] = "fclose"
      BY <1>8, <2>1 DEF KillFromPidFile, Goto
    <3>2. pc[c] = "kill_2" /\ (d = k => NoneUp(d))
      BY <1>8 DEF KillFromPidFile, Tells, Killed, Pair
    <3>3. QED
      BY <1>1, <1>6, <1>8, <2>1, <3>1, <3>2
  <2>2. QED
    BY <1>3, <1>8, <2>1 DEF KillFromPidFile
<1>9. QED
  BY <1>3, <1>4, <1>5, <1>7, <1>8 DEF CloseMove, FclosePidFiles

LEMMA StepTells ==
  ASSUME PlatformTypeOK, DeviceTypes, NEW c \in Callers, NEW d \in Daemons, OwnFile(d),
         AllUp(c), HoldsOwn(c), Tells(c, d), StaMove(c) \/ ApMove(c)
  PROVE  Tells(c, d)'
<1>1. call'[c] = call[c] /\ (pc'[c] \in CloseLabels => pc[c] \in CloseLabels)
  BY StepControl
     DEF Control, Goes, GoesBack, OrderOf, CloseOrder, StaOrder, ApOrder, CloseLabels
<1>2. CASE pc[c] \notin CloseLabels
  BY <1>1, <1>2 DEF Tells, Reading, Killed, CloseLabels
<1>3. CASE ClosesOwn(c)
  BY <1>1, <1>3, ClosePair, CloseTells DEF Tells, Own
<1>4. ASSUME NEW e \in Daemons, Starts(c, e) PROVE pc[c] \notin CloseLabels
  BY <1>4, DeviceAssumption DEF Starts, StartAt, CloseLabels
<1>5. QED
  BY <1>2, <1>3, <1>4, StepActs

-----------------------------------------------------------------------------
(* Where daemon d is: gone while the other mode is in use, not up while    *)
(* its own mode is closed or is being opened before d is started.          *)

Away(d) == \A p \in Pids : proc[p].kind # d
Before(d) ==
  CloseLabels \cup {"fopen", "build"} \cup
  CASE d = "wpa_supplicant" -> {"wpa"}
    [] d = "udhcpc" -> {"wpa", "udhcpc"}
    [] d = "udhcpd" -> {"address", "udhcpd"}
    [] OTHER -> {"address", "udhcpd", "hostapd"}

DaemonInv(c, d) ==
  /\ OneInstance(d) /\ OwnFile(d)
  /\ pc[c] # "idle" /\ ~ Own(c, d) => Away(d)
  /\ pc[c] = "idle" /\ mode \notin {"none", Owner(d)} => Away(d)
  /\ pc[c] = "idle" /\ mode = "none" => NoneUp(d)
  /\ Own(c, d) /\ closed /\ pc[c] \in Before(d) => NoneUp(d)
  /\ Tells(c, d)

(* The DHCP programs have no control socket: what is said of them needs    *)
(* every open so far to have begun with its mode closed, the one now       *)
(* going on included once it has begun to start daemons.                   *)
Late == {"wpa", "udhcpc", "lease", "sleep", "udhcpd", "hostapd"}
Sound == tidy /\ \A c \in Callers : pc[c] \in Late => closed
Tracked(d) == d \in Exclusive \/ Sound

LEMMA StepSound ==
  ASSUME OneCaller, DeviceTypes, NEW c \in Callers, CallInv(c), Step(c), Sound'
  PROVE  Sound
<1>1. Control(c)
  BY StepControl DEF Step
<1>2. tidy
  BY DEF Sound, Step, Learn, DeviceTypes
<1>3. ASSUME pc[c] \in Late PROVE closed
  <2>1. closed' = closed
    BY <1>3 DEF Step, Late, DeviceTypes
  <2>2. pc[c] \in Opening /\ call[c].op \notin Closes
    BY <1>3 DEF Late, CallInv, Opening, Labels, CloseLabels
  <2>3. pc'[c] \in Late \/ (pc'[c] = "idle" /\ ret'[c] = "ok")
    BY <1>1, <1>3
       DEF Control, OrderOf, CloseOrder, StaOrder, ApOrder, RejectsAt, EndsAt, Goes, Late
  <2>4. CASE pc'[c] \in Late
    BY <2>1, <2>4 DEF Sound
  <2>5. CASE pc'[c] = "idle" /\ ret'[c] = "ok"
    BY <2>2, <2>5 DEF Sound, Step, Learn, DeviceTypes
  <2>6. QED
    BY <2>3, <2>4, <2>5
<1>4. QED
  BY <1>2, <1>3 DEF Sound, OneCaller

(* The mode and the progress of a call after one of its steps.             *)
LEMMA StepMode ==
  ASSUME DeviceTypes, NEW c \in Callers, CallInv(c), Step(c)
  PROVE  LET m == ModeOf(call[c].op) IN
         /\ pc[c] # "idle" /\ mode' \in {"none", m} /\ call'[c] = call[c]
         /\ pc'[c] = "idle" /\ mode' = "none" =>
              \/ pc[c] = "fclose"
              \/ closed /\ pc[c] \in {"fopen", "build", "address", "kill_1", "kill_2"}
         /\ closed' => closed \/ (pc[c] = "fclose" /\ pc'[c] = "fopen")
         /\ \A d \in Daemons : Own(c, d) /\ pc'[c] \in Before(d) => pc[c] \in Before(d)
<1> DEFINE m == ModeOf(call[c].op)
<1>1. Control(c)
  BY StepControl DEF Step
<1>2. pc[c] # "idle" /\ call'[c] = call[c]
  BY <1>1 DEF Control, OrderOf, CloseOrder, StaOrder, ApOrder, RejectsAt, EndsAt, Goes,
              GoesBack
<1>3. mode \in {"none", m} /\ (mode = "none" => closed) /\ ret[c] = "none"
  BY <1>2 DEF CallInv
<1>4. mode' \in {"none", m}
  BY <1>3 DEF Step, Learn
<1>5. ASSUME pc'[c] = "idle", mode' = "none", pc[c] # "fclose"
      PROVE  closed /\ pc[c] \in {"fopen", "build", "address", "kill_1", "kill_2"}
  <2>1. \/ ret'[c] = "fail" /\ pc[c] \in {"fopen", "build", "address", "kill_1", "kill_2"}
        \/ ret'[c] = "ok" /\ pc[c] \in Opening
    BY <1>1, <1>5
       DEF Control, OrderOf, CloseOrder, StaOrder, ApOrder, RejectsAt, EndsAt, Goes,
           GoesBack, Opening, Labels, CloseLabels
  <2>2. CASE ret'[c] = "ok" /\ pc[c] \in Opening
    BY <1>5, <2>2, ModeOfOps DEF Step, Learn, CallInv
  <2>3. CASE ret'[c] = "fail" /\ pc[c] \in {"fopen", "build", "address", "kill_1", "kill_2"}
    BY <1>3, <1>5, <2>3 DEF Step, Learn
  <2>4. QED
    BY <2>1, <2>2, <2>3
<1>6. closed' => closed \/ (pc[c] = "fclose" /\ pc'[c] = "fopen")
  BY DEF Step
<1>7. ASSUME NEW d \in Daemons, Own(c, d), pc'[c] \in Before(d) PROVE pc[c] \in Before(d)
  <2>1. m = Owner(d) /\ d \in {"wpa_supplicant", "udhcpc", "hostapd", "udhcpd"}
    BY <1>7, DeviceAssumption DEF Own
  <2>2. CASE m = "sta"
    BY <1>1, <1>7, <2>1, <2>2
       DEF Control, OrderOf, CloseOrder, StaOrder, RejectsAt, EndsAt, Goes,
           GoesBack, Before, CloseLabels, Owner
  <2>3. CASE m = "ap"
    BY <1>1, <1>7, <2>1, <2>3
       DEF Control, OrderOf, CloseOrder, ApOrder, RejectsAt, EndsAt, Goes,
           GoesBack, Before, CloseLabels, Owner
  <2>4. QED
    BY <2>2, <2>3, ModeOfOps
<1>8. QED
  BY <1>2, <1>4, <1>5, <1>6, <1>7

(* Every step but a start of d.                                            *)
LEMMA StepKeepsDaemon ==
  ASSUME PlatformTypeOK, DeviceTypes, NEW c \in Callers, NEW d \in Daemons,
         CallInv(c), AllUp(c), HoldsOwn(c), DaemonInv(c, d), Step(c), KeepsAll(d)
  PROVE  DaemonInv(c, d)'
<1> DEFINE m == ModeOf(call[c].op)
<1>1. /\ pc[c] # "idle" /\ mode' \in {"none", m} /\ call'[c] = call[c]
      /\ pc'[c] = "idle" /\ mode' = "none" =>
           \/ pc[c] = "fclose"
           \/ closed /\ pc[c] \in {"fopen", "build", "address", "kill_1", "kill_2"}
      /\ closed' => closed \/ (pc[c] = "fclose" /\ pc'[c] = "fopen")
      /\ Own(c, d) /\ pc'[c] \in Before(d) => pc[c] \in Before(d)
  BY StepMode
<1>2. Tells(c, d)'
  BY StepTells DEF DaemonInv, Step
<1>3. /\ OneInstance(d)' /\ OwnFile(d)'
      /\ Away(d) => Away(d)'
      /\ NoneUp(d) => NoneUp(d)'
  BY DEF DaemonInv, KeepsAll, NoneStarted, Keeps, OneInstance, Away
<1>4. Own(c, d)' <=> Own(c, d)
  BY <1>1 DEF Own
<1>5. Away(d) => NoneUp(d)
  BY DEF Away, NoneUp, Up
<1>6. Own(c, d) /\ pc[c] = "fclose" => NoneUp(d)
  BY DEF DaemonInv, Tells, Killed
<1>7. ASSUME Own(c, d), closed,
             pc[c] \in {"fopen", "build", "address", "kill_1", "kill_2"}
      PROVE  NoneUp(d)
  <2>1. CASE pc[c] # "address"
    BY <1>7, <2>1 DEF DaemonInv, Before, CloseLabels
  <2>2. CASE pc[c] = "address"
    <3>1. Owner(d) = "ap"
      BY <1>7, <2>2, StepControl, ModeOfOps
         DEF Step, Control, OrderOf, CloseOrder, StaOrder, RejectsAt, EndsAt, Own
    <3>2. "address" \in Before(d)
      BY <3>1, DeviceAssumption DEF Owner, Before
    <3>3. QED
      BY <1>7, <2>2, <3>2 DEF DaemonInv
  <2>3. QED
    BY <2>1, <2>2
<1>8. ~ Own(c, d) => Away(d)
  BY <1>1 DEF DaemonInv
<1>9. pc'[c] = "idle" /\ mode' \notin {"none", Owner(d)} => Away(d)
  BY <1>1, <1>8 DEF Own
<1>10. pc'[c] = "idle" /\ mode' = "none" => NoneUp(d)
  BY <1>1, <1>5, <1>6, <1>7, <1>8
<1>11. Own(c, d) /\ closed' /\ pc'[c] \in Before(d) => NoneUp(d)
  BY <1>1, <1>6 DEF DaemonInv
<1>12. QED
  BY <1>2, <1>3, <1>4, <1>8, <1>9, <1>10, <1>11 DEF DaemonInv

(* A start of d: no instance is up before it, and the call goes on past    *)
(* Before(d).                                                              *)
LEMMA StartOne ==
  ASSUME PlatformTypeOK, NEW c \in Callers, NEW d \in Daemons, DaemonInv(c, d),
         Tracked(d), Starts(c, d)
  PROVE  NoneUp(d) /\ OneInstance(d)' /\ OwnFile(d)'
<1>1. PICK p \in Pids, x \in Contents : Spawn(d, p, x)
  BY DEF Starts
<1>2. ASSUME d \in Exclusive PROVE NoneUp(d)
  BY <1>1, <1>2 DEF Spawn, CanStart, NoneUp
<1>3. ASSUME d \notin Exclusive PROVE NoneUp(d)
  <2>1. d = "udhcpc" \/ d = "udhcpd"
    BY <1>3, DeviceAssumption
  <2>2. pc[c] = d /\ Own(c, d)
    BY <2>1 DEF Starts, StartAt
  <2>3. closed
    BY <1>3, <2>1, <2>2 DEF Tracked, Sound, Late
  <2>4. d \in Before(d)
    BY <2>1 DEF Before
  <2>5. QED
    BY <2>2, <2>3, <2>4 DEF DaemonInv
<1>4. NoneUp(d)
  BY <1>2, <1>3
<1>5. OneInstance(d)'
  BY <1>1, <1>4 DEF Spawn, NoneUp, OneInstance, Up, PlatformTypeOK
<1>6. OwnFile(d)'
  BY <1>1, SpawnOwnFile DEF DaemonInv, Starts
<1>7. QED
  BY <1>4, <1>5, <1>6

LEMMA StartDaemonInv ==
  ASSUME PlatformTypeOK, DeviceTypes, NEW c \in Callers, NEW d \in Daemons,
         CallInv(c), DaemonInv(c, d), Tracked(d), Step(c), Starts(c, d)
  PROVE  DaemonInv(c, d)'
<1> DEFINE m == ModeOf(call[c].op)
<1>1. Control(c) /\ call'[c] = call[c]
  BY StepControl DEF Step, Control, Goes, GoesBack
<1>2. m = Owner(d) /\ pc[c] = StartAt(d)
  BY DEF Starts, Own
<1>3. Own(c, d)'
  BY <1>1, <1>2 DEF Own
<1>4. /\ d = "wpa_supplicant" => pc'[c] = "udhcpc"
      /\ d = "udhcpc" => pc'[c] = "lease"
      /\ d = "udhcpd" => pc'[c] = "hostapd"
      /\ d = "hostapd" => pc'[c] = "idle" /\ ret'[c] = "ok"
  BY <1>1, <1>2
     DEF Control, OrderOf, CloseOrder, StaOrder, ApOrder, RejectsAt, EndsAt, Goes, Owner,
         StartAt
<1>5. d \in {"wpa_supplicant", "udhcpc", "hostapd", "udhcpd"}
  BY DeviceAssumption
<1>6. pc'[c] \notin Before(d) /\ pc'[c] \notin CloseLabels
  BY <1>4, <1>5 DEF Before, CloseLabels
<1>7. Tells(c, d)'
  BY <1>6 DEF Tells, Reading, Killed, CloseLabels
<1>8. pc'[c] = "idle" => mode' = Owner(d)
  <2>1. pc[c] \in Opening
    BY <1>2, <1>5 DEF StartAt, Opening, Labels, CloseLabels
  <2>2. pc'[c] = "idle" => ret'[c] = "ok"
    BY <1>4, <1>5
  <2>3. QED
    BY <1>2, <2>1, <2>2 DEF Step, Learn, CallInv
<1>9. Owner(d) # "none"
  BY DEF Owner
<1>10. QED
  BY <1>3, <1>6, <1>7, <1>8, <1>9, StartOne DEF DaemonInv

LEMMA StepDaemonInv ==
  ASSUME PlatformTypeOK, DeviceTypes, NEW c \in Callers, NEW d \in Daemons,
         CallInv(c), AllUp(c), HoldsOwn(c), DaemonInv(c, d), Tracked(d), Step(c)
  PROVE  DaemonInv(c, d)'
BY StepEffect, StepKeepsDaemon, StartDaemonInv DEF Step, DaemonInv

(* A call finds the daemons settled.                                       *)
LEMMA EntryDaemonInv ==
  ASSUME PlatformTypeOK, DeviceTypes, Live, NEW c \in Callers, NEW d \in Daemons,
         CallInv(c), DaemonInv(c, d), HoldsOwn(c), Entry(c)
  PROVE  DaemonInv(c, d)' /\ AllUp(c)' /\ HoldsOwn(c)' /\ Live'
<1>1. PICK op \in Ops \ {"none"} : \E a \in Args(op) \cup {NoArgs} :
         /\ mode \in {"none", ModeOf(op)}
         /\ Enter(c, op, a, IF op \in Closes \cup Restarts THEN "pid_1" ELSE "fopen")
  BY DEF Entry
<1>2. /\ pc[c] = "idle" /\ call'[c].op = op
      /\ pc'[c] \in {"pid_1", "fopen"} /\ UNCHANGED platformVars
  BY <1>1 DEF Enter, DeviceTypes
<1>3. /\ Live' /\ HoldsOwn(c)' /\ AllUp(c)'
  BY <1>2 DEF Entry, Settled, platformVars, Live, HoldsOwn, AllUp, Reading
<1>4. OneInstance(d)' /\ OwnFile(d)'
  BY <1>2 DEF DaemonInv, platformVars, OneInstance, OwnFile, Up
<1>5. NoneUp(d) => Away(d)
  BY DEF Entry, Settled, Live, NoneUp, Away, Up, PlatformTypeOK, Process
<1>6. ~ Own(c, d)' => Away(d)
  BY <1>1, <1>2, <1>5 DEF DaemonInv, Own
<1>7. closed' => NoneUp(d)
  BY <1>2 DEF Entry, DaemonInv
<1>8. QED
  BY <1>2, <1>3, <1>4, <1>6, <1>7
     DEF DaemonInv, platformVars, Away, NoneUp, Up, Tells, Reading, Killed

(* The daemons, and the end of the application between two calls.          *)
LEMMA PlatformDaemonInv ==
  ASSUME PlatformOK, Live, NEW c \in Callers, NEW d \in Daemons,
         DaemonInv(c, d), PlatformNext, UNCHANGED <<callVars, history>>
  PROVE  DaemonInv(c, d)'
<1>1. Keeps(d) /\ NoneStarted(d) /\ (StreamTells(c, d) => StreamTells(c, d)')
  BY PlatformKeeps, PlatformStartsNone DEF PlatformOK, DaemonInv
<1>2. /\ OneInstance(d)' /\ OwnFile(d)'
      /\ Away(d) => Away(d)'
      /\ NoneUp(d) => NoneUp(d)'
  BY <1>1 DEF DaemonInv, NoneStarted, Keeps, OneInstance, Away
<1>3. QED
  BY <1>1, <1>2 DEF DaemonInv, Tells, Own, callVars, history

LEMMA PlatformHoldsOwn ==
  ASSUME PlatformOK, NEW c \in Callers, HoldsOwn(c), AllUp(c), Live,
         PlatformNext, UNCHANGED callVars
  PROVE  HoldsOwn(c)' /\ AllUp(c)' /\ Live'
<1>1. \A d \in Daemons : Held(c, d)' = Held(c, d)
  BY PlatformHeld
<1>2. HoldsOwn(c)'
  BY <1>1 DEF HoldsOwn, Held, Own, callVars
<1>3. QED
  BY <1>2, PlatformPhases DEF AllUp, callVars, PlatformOK

LEMMA QuietDaemonInv ==
  ASSUME DeviceTypes, PlatformTypeOK, "killed" \notin Faults, NEW c \in Callers, Live,
         AllUp(c), HoldsOwn(c), UNCHANGED history,
         CallerExits(c) \/ LeaseOf(c) \/ UNCHANGED <<platformVars, callVars, conf>>
  PROVE  /\ HoldsOwn(c)' /\ AllUp(c)' /\ Live'
         /\ \A d \in Daemons : DaemonInv(c, d) => DaemonInv(c, d)'
<1>1. UNCHANGED <<proc, pidFile>>
  BY DEF CallerExits, LeaseOf, platformVars
<1>2. Live' /\ \A d \in Daemons :
        /\ OneInstance(d)' = OneInstance(d) /\ OwnFile(d)' = OwnFile(d)
        /\ Away(d)' = Away(d) /\ NoneUp(d)' = NoneUp(d)
  BY <1>1 DEF Live, OneInstance, OwnFile, Away, NoneUp, Up
<1>3. CASE CallerExits(c)
  <2>1. pc[c] = "idle" /\ pc'[c] = "idle" /\ UNCHANGED <<mode, closed>>
    BY <1>3 DEF CallerExits, DeviceTypes, history
  <2>2. HoldsOwn(c)' /\ AllUp(c)'
    BY <1>3, <2>1
       DEF CallerExits, ForgetStreams, Closed, HoldsOwn, AllUp, CloseLabels, PlatformTypeOK
  <2>3. ASSUME NEW d \in Daemons, DaemonInv(c, d) PROVE DaemonInv(c, d)'
    BY <1>2, <2>1, <2>3 DEF DaemonInv, Tells, Reading, Killed, Before, CloseLabels
  <2>4. QED
    BY <1>2, <2>2, <2>3
<1>4. CASE LeaseOf(c) \/ UNCHANGED <<platformVars, callVars, conf>>
  <2>1. UNCHANGED <<proc, pidFile, stream, pc, call, mode, closed>>
    BY <1>4 DEF LeaseOf, platformVars, callVars, history
  <2>2. HoldsOwn(c)' /\ AllUp(c)'
    BY <2>1 DEF HoldsOwn, AllUp, Own
  <2>3. ASSUME NEW d \in Daemons, DaemonInv(c, d) PROVE DaemonInv(c, d)'
    BY <1>2, <2>1, <2>3 DEF DaemonInv, Tells, Own, StreamTells, Up
  <2>4. QED
    BY <1>2, <2>2, <2>3
<1>5. QED
  BY <1>3, <1>4

-----------------------------------------------------------------------------
(* The inductive invariant, and the first two properties.                  *)

DeviceInv ==
  /\ PlatformOK /\ DeviceTypes /\ Live /\ OneMode
  /\ \A c \in Callers : /\ CallInv(c) /\ AllUp(c) /\ HoldsOwn(c)
                        /\ \A d \in Daemons : Tracked(d) => DaemonInv(c, d)

LEMMA InitDevice ==
  ASSUME Init PROVE DeviceInv
<1>1. PlatformInit /\ LibraryInit /\ mode = "none" /\ closed = TRUE /\ tidy = TRUE
  BY DEF Init, Ap!Init, Ap!PlatformInit, PlatformInit, Ap!LibraryInit, LibraryInit,
         Ap!Free, Free, Ap!Closed, Closed
<1>2. PlatformOK
  BY <1>1, PlatformInitOK
<1>3. DeviceTypes
  BY <1>1, Names DEF LibraryInit, DeviceTypes, Labels, Ops
<1>4. /\ \A p \in Pids : proc[p] = Free
      /\ \A c \in Callers, d \in Daemons : stream[c][d] = Closed
      /\ \A c \in Callers : pc[c] = "idle" /\ ret[c] = "none"
  BY <1>1 DEF PlatformInit, LibraryInit
<1>5. \A p \in Pids, d \in Daemons : proc[p].kind # d /\ ~ Up(p, d)
  BY <1>4, PlatformAssumption DEF Free, Up
<1>6. Live /\ OneMode
  BY <1>5, Names DEF Live, OneMode
<1>7. ASSUME NEW c \in Callers PROVE CallInv(c) /\ AllUp(c) /\ HoldsOwn(c)
  BY <1>4 DEF CallInv, AllUp, HoldsOwn, Opening, CloseLabels, Closed
<1>8. ASSUME NEW c \in Callers, NEW d \in Daemons PROVE DaemonInv(c, d)
  BY <1>1, <1>4, <1>5
     DEF DaemonInv, OneInstance, OwnFile, NoneUp, Away, Tells, Reading, Killed, Before,
         CloseLabels
<1>9. QED
  BY <1>2, <1>3, <1>6, <1>7, <1>8 DEF DeviceInv

(* Both modes' daemons are exclusive, so that they are always tracked.     *)
LEMMA StepOneMode ==
  ASSUME DeviceInv, NEW c \in Callers, Step(c) PROVE OneMode'
<1> USE Names
<1> DEFINE w == "wpa_supplicant"
           h == "hostapd"
<1>1. /\ PlatformTypeOK /\ DeviceTypes /\ OneMode /\ pc[c] # "idle"
      /\ DaemonInv(c, w) /\ DaemonInv(c, h)
  BY StepMode DEF DeviceInv, PlatformOK, Tracked
<1>2. /\ Starts(c, w) \/ NoneStarted(w)
      /\ Starts(c, h) \/ NoneStarted(h)
  BY <1>1, StepEffect DEF Step, DaemonInv, KeepsAll
<1>3. Away(w) \/ Away(h)
  BY <1>1 DEF DaemonInv, Own, Owner
<1>4. Starts(c, w) => Own(c, w) /\ Away(h) /\ ~ Starts(c, h)
  BY <1>1 DEF Starts, DaemonInv, Own, Owner
<1>5. Starts(c, h) => Own(c, h) /\ Away(w) /\ ~ Starts(c, w)
  BY <1>1 DEF Starts, DaemonInv, Own, Owner
<1>6. Away(w)' \/ Away(h)'
  BY <1>2, <1>3, <1>4, <1>5 DEF Away, NoneStarted
<1>7. QED
  BY <1>6 DEF OneMode, Away

LEMMA StepDevice ==
  ASSUME OneCaller, "killed" \notin Faults, DeviceInv, [Next]_vars, NEW c \in Callers
  PROVE  DeviceInv'
<1>1. /\ PlatformOK /\ PlatformTypeOK /\ DeviceTypes /\ Live /\ OneMode
      /\ CallInv(c) /\ AllUp(c) /\ HoldsOwn(c)
      /\ \A d \in Daemons : Tracked(d) => DaemonInv(c, d)
  BY DEF DeviceInv, PlatformOK
<1>2. SUFFICES /\ PlatformOK' /\ DeviceTypes' /\ Live' /\ OneMode'
               /\ CallInv(c)' /\ AllUp(c)' /\ HoldsOwn(c)'
               /\ \A d \in Daemons : Tracked(d)' => DaemonInv(c, d)'
  BY DEF DeviceInv, OneCaller
<1>3. \A d \in {"wpa_supplicant", "hostapd"} : d \in Daemons
  BY Names
<1>4. NoneStarted("wpa_supplicant") /\ NoneStarted("hostapd") => OneMode'
  BY <1>1 DEF OneMode, NoneStarted
<1>5. CASE Entry(c)
  <2>1. UNCHANGED platformVars
    BY <1>5 DEF Entry, Enter
  <2>2. PlatformOK' /\ OneMode'
    BY <1>1, <1>4, <2>1, PlatformUnchangedOK, UnchangedStartsNone DEF platformVars
  <2>3. DeviceTypes' /\ CallInv(c)'
    BY <1>1, <1>5, EntryTypes, EntryCallInv
  <2>4. pc[c] = "idle" /\ UNCHANGED tidy
    BY <1>5 DEF Entry, Enter
  <2>5. \A d \in Daemons : Tracked(d)' => Tracked(d)
    BY <2>4 DEF Tracked, Sound, Late, OneCaller
  <2>6. "hostapd" \in Daemons /\ Tracked("hostapd")
    BY Names DEF Tracked
  <2>7. QED
    BY <1>1, <1>5, <2>2, <2>3, <2>5, <2>6, EntryDaemonInv
<1>6. CASE Step(c)
  <2>1. PlatformOK' /\ DeviceTypes' /\ Live' /\ AllUp(c)' /\ HoldsOwn(c)'
    BY <1>1, <1>6, StepPlatformOK, StepTypes, StepPhases, StepStreams DEF Step
  <2>2. CallInv(c)' /\ OneMode'
    BY <1>1, <1>6, StepCallInv, StepOneMode
  <2>3. \A d \in Daemons : Tracked(d)' => Tracked(d)
    BY <1>1, <1>6, StepSound DEF Tracked
  <2>4. \A d \in Daemons : Tracked(d)' => DaemonInv(c, d)'
    BY <1>1, <1>6, <2>3, StepDaemonInv
  <2>5. QED
    BY <2>1, <2>2, <2>4
<1>7. ASSUME UNCHANGED history, CallerExits(c) \/ UNCHANGED callVars
      PROVE  \A d \in Daemons : Tracked(d)' => Tracked(d)
  <2>1. pc'[c] = pc[c]
    BY <1>1, <1>7 DEF CallerExits, callVars, DeviceTypes
  <2>2. QED
    BY <1>7, <2>1 DEF Tracked, Sound, OneCaller, history
<1>8. CASE UNCHANGED history /\ PlatformNext /\ UNCHANGED <<callVars, conf>>
  <2>1. PlatformOK' /\ DeviceTypes' /\ CallInv(c)' /\ HoldsOwn(c)' /\ AllUp(c)' /\ Live'
    BY <1>1, <1>8, PlatformNextOK, OtherTypes, OtherCallInv, PlatformHoldsOwn
  <2>2. OneMode'
    BY <1>1, <1>3, <1>4, <1>8, PlatformStartsNone
  <2>3. \A d \in Daemons : Tracked(d)' => DaemonInv(c, d)'
    BY <1>1, <1>7, <1>8, PlatformDaemonInv
  <2>4. QED
    BY <2>1, <2>2, <2>3
<1>9. CASE /\ UNCHANGED history
           /\ CallerExits(c) \/ LeaseOf(c) \/ UNCHANGED <<platformVars, callVars, conf>>
  <2>1. UNCHANGED proc /\ (CallerExits(c) \/ UNCHANGED <<callVars, conf>>)
    BY <1>9 DEF CallerExits, LeaseOf, platformVars
  <2>2. PlatformOK'
    <3>1. CASE LeaseOf(c)
      BY <1>1, <3>1
         DEF LeaseOf, PlatformOK, PlatformTypeOK, PidInv, ProcessesKnown, PidFilesTrue,
             StreamsCoherent, StrayNeedsCrash
    <3>2. QED
      BY <1>1, <1>9, <3>1, CallerExitsOK, PlatformUnchangedOK
  <2>3. DeviceTypes' /\ CallInv(c)' /\ OneMode'
    BY <1>1, <1>4, <1>9, <2>1, OtherTypes, OtherCallInv, UnchangedStartsNone
  <2>4. \A d \in Daemons : Tracked(d)' => DaemonInv(c, d)'
    BY <1>1, <1>7, <1>9, <2>1, QuietDaemonInv
  <2>5. QED
    BY <1>1, <1>9, <2>2, <2>3, <2>4, QuietDaemonInv
<1>10. QED
  BY <1>1, <1>5, <1>6, <1>8, <1>9, DeviceSteps DEF DeviceTypes

LEMMA DeviceInvariance ==
  ASSUME OneCaller, "killed" \notin Faults PROVE Spec => []DeviceInv
<1>1. Init => DeviceInv
  BY InitDevice
<1>2. DeviceInv /\ [Next]_vars => DeviceInv'
  BY StepDevice DEF OneCaller
<1>3. QED
  BY <1>1, <1>2, PTL DEF Spec

(* An application that opens a mode only while the other is closed never   *)
(* has both on wlan0, whatever the arguments, the process numbers and the  *)
(* daemons that crash; unless it is killed in the middle of a call         *)
(* (wifi.c:69-70, 254).                                                    *)
THEOREM DeviceOneMode == ASSUME OneCaller, "killed" \notin Faults PROVE Spec => []OneMode
<1>1. DeviceInv => OneMode
  BY DEF DeviceInv
<1>2. QED
  BY <1>1, DeviceInvariance, PTL

(* If every open began with its mode closed, a close that returned 0 left  *)
(* neither daemon of its mode up, the DHCP program included (wifi.c:71,    *)
(* 253, 263-291, 304-333).                                                 *)
THEOREM DeviceNothingLeft ==
  ASSUME OneCaller, "killed" \notin Faults PROVE Spec => []NothingLeft
<1>1. DeviceInv => NothingLeft
  <2> SUFFICES ASSUME DeviceInv, NEW c \in Callers, tidy, call[c].op \in Closes, ret[c] = "ok",
                      NEW d \in DaemonsOf(ModeOf(call[c].op))
               PROVE  NoneUp(d)
    BY DEF NothingLeft, NoneUp
  <2>1. CallInv(c) /\ \A e \in Daemons : Tracked(e) => DaemonInv(c, e)
    BY DEF DeviceInv
  <2>2. pc[c] = "idle" /\ mode = "none"
    BY <2>1 DEF CallInv
  <2>3. d \in Daemons /\ Tracked(d)
    BY <2>2, Names DEF DaemonsOf, Tracked, Sound, Late, OneCaller
  <2>4. QED
    BY <2>1, <2>2, <2>3 DEF DaemonInv
<1>2. QED
  BY <1>1, DeviceInvariance, PTL

-----------------------------------------------------------------------------
(* What is served: the configuration on its way from the arguments to the  *)
(* file and from the file to the daemon.                                   *)

Opened(c) == pc[c] = "idle" /\ ret[c] = "ok" /\ call[c].op \notin Closes
OnlyOn(d, file) == \A p \in Pids : Up(p, d) => proc[p].conf = file

StaServes(c) ==
  LET file == Sta!WpaConf(call[c].args) IN
  ModeOf(call[c].op) = "sta" =>
    /\ pc[c] = "build" => conf["wpa_supplicant"] = Empty
    /\ pc[c] = "wpa" => conf["wpa_supplicant"] = file
    /\ closed /\ (pc[c] \in {"udhcpc", "lease", "sleep"} \/ Opened(c)) =>
         OnlyOn("wpa_supplicant", file)

ApServes(c) ==
  LET a == call[c].args
      file == Ap!HostapdConf(a)
  IN
  ModeOf(call[c].op) = "ap" =>
    /\ pc[c] = "build" => conf["hostapd"] = Empty
    /\ pc[c] \in {"address", "udhcpd", "hostapd"} => conf["hostapd"] = file
    /\ pc[c] \in {"udhcpd", "hostapd"} => a.dhcpEnable # 0
    /\ closed /\ Opened(c) => /\ OnlyOn("hostapd", file)
                              /\ a.dhcpEnable = 0 => NoneUp("hostapd")

ServeInv == \A c \in Callers : StaServes(c) /\ ApServes(c)

(* A close opens nothing.                                                  *)
LEMMA CloseServes ==
  ASSUME DeviceTypes, NEW c \in Callers, CallInv(c),
         NEW d1, NEW d2, NEW k, NEW l, CloseMove(c, d1, d2, k, l)
  PROVE  pc'[c] \in CloseLabels \cup {"fopen", "idle"} /\ ~ Opened(c)'
<1> USE DEF DeviceTypes
<1>1. pc[c] \in CloseLabels => call[c].op \in Closes \cup Restarts
  BY DEF CallInv
<1>2. ASSUME NEW d, NEW from, NEW to \in CloseLabels, FopenPidFile(c, d, from, to)
      PROVE  pc'[c] \in CloseLabels /\ ~ Opened(c)'
  BY <1>2 DEF FopenPidFile, Goto, Opened, CloseLabels
<1>3. ASSUME NEW r, ReturnClose(c, r), pc[c] \in CloseLabels
      PROVE  pc'[c] \in {"fopen", "idle"} /\ ~ Opened(c)'
  BY <1>1, <1>3 DEF ReturnClose, Goto, Return, Opened
<1>4. ASSUME NEW d, NEW from \in CloseLabels, NEW to \in CloseLabels, KillFromPidFile(c, d, from, to)
      PROVE  pc'[c] \in CloseLabels \cup {"fopen", "idle"} /\ ~ Opened(c)'
  <2>1. CASE Goto(c, to)
    BY <1>4, <2>1 DEF Goto, Opened, CloseLabels
  <2>2. QED
    BY <1>3, <1>4, <2>1 DEF KillFromPidFile
<1>5. QED
  BY <1>2, <1>3, <1>4 DEF CloseMove, FclosePidFiles, CloseLabels

LEMMA StaStepServes ==
  ASSUME DeviceInv, NEW c \in Callers, StaServes(c), Step(c), StaMove(c)
  PROVE  StaServes(c)' /\ ApServes(c)'
<1> DEFINE w == "wpa_supplicant"
           a == call[c].args
<1> USE Names
<1>1. /\ PlatformTypeOK /\ DeviceTypes /\ CallInv(c) /\ DaemonInv(c, w)
      /\ ModeOf(call[c].op) = "sta" /\ Own(c, w) /\ call'[c] = call[c]
  BY StepMode DEF DeviceInv, PlatformOK, StaMove, Own, Owner, Tracked
<1> USE DEF DeviceTypes
<1>2. ApServes(c)'
  BY <1>1 DEF ApServes
<1>3. closed' => closed \/ pc'[c] = "fopen"
  BY DEF Step
<1>4. ASSUME NEW to, Goto(c, to) PROVE pc'[c] = to /\ (Opened(c)' => to = "idle")
  BY <1>1, <1>4 DEF Goto, Opened
<1>5. ASSUME NEW from, RejectArgs(c, from) PROVE StaServes(c)'
  BY <1>1, <1>5 DEF RejectArgs, Return, StaServes, Opened
<1>6. CASE FopenConfig(c, w)
  <2>1. ASSUME Goto(c, "build"), conf' = [conf EXCEPT ![w] = Empty] PROVE StaServes(c)'
    BY <1>1, <1>4, <2>1 DEF StaServes
  <2>2. QED
    BY <1>2, <1>5, <1>6, <2>1 DEF FopenConfig
<1>7. CASE Build(c, w, Sta!ValidSTA(a), Sta!WpaConf(a), "wpa")
  <2>1. ASSUME WriteConfig(c, w, Sta!WpaConf(a)), Goto(c, "wpa") PROVE StaServes(c)'
    <3>1. conf[w] = Empty
      BY <1>1, <2>1 DEF WriteConfig, StaServes
    <3>2. conf'[w] = Sta!WpaConf(a)
      BY <1>1, <2>1, <3>1 DEF WriteConfig
    <3>3. QED
      BY <1>1, <1>4, <2>1, <3>2 DEF StaServes
  <2>2. QED
    BY <1>2, <1>5, <1>7, <2>1 DEF Build
<1>8. CASE StartDaemon(c, w, conf[w], "wpa") /\ Goto(c, "udhcpc")
  <2>1. pc[c] = "wpa" /\ conf[w] = Sta!WpaConf(a)
    BY <1>1, <1>8 DEF StartDaemon, StaServes
  <2>2. closed' => NoneUp(w)
    BY <1>1, <1>3, <1>4, <1>8, <2>1 DEF DaemonInv, Before
  <2>3. closed' => OnlyOn(w, conf[w])'
    BY <1>1, <1>8, <2>2 DEF NoneUp, OnlyOn, Up, StartDaemon, Spawn, PlatformTypeOK
  <2>4. QED
    BY <1>1, <1>2, <1>4, <1>8, <2>1, <2>3 DEF StaServes, StartDaemon
<1>9. ASSUME NoneStarted(w), OnlyOn(w, Sta!WpaConf(a)) PROVE OnlyOn(w, Sta!WpaConf(a))'
  BY <1>1, <1>9 DEF NoneStarted, OnlyOn, Up
<1>10. CASE StartClient(c)
  <2>1. NoneStarted(w)
    BY <1>1, <1>10, SpawnStartsNone, UnchangedStartsNone DEF StartClient
  <2>2. pc[c] = "udhcpc" /\ pc'[c] = "lease" /\ ~ Opened(c)'
    BY <1>4, <1>10 DEF StartClient
  <2>3. QED
    BY <1>1, <1>2, <1>3, <1>9, <2>1, <2>2 DEF StaServes
<1>11. CASE \/ Moves(c, "lease") /\ Goto(c, "sleep")
            \/ Moves(c, "sleep") /\ Return(c, "ok")
  <2>1. NoneStarted(w) /\ pc[c] \in {"lease", "sleep"}
    BY <1>11, UnchangedStartsNone DEF Moves, platformVars
  <2>2. pc'[c] \in {"sleep", "idle"}
    BY <1>1, <1>11 DEF Goto, Return
  <2>3. QED
    BY <1>1, <1>2, <1>3, <1>9, <2>1, <2>2 DEF StaServes
<1>12. CASE CloseMove(c, "udhcpc", w, "udhcpc", w)
  <2>1. pc'[c] \in CloseLabels \cup {"fopen", "idle"} /\ ~ Opened(c)'
    BY <1>1, <1>12, CloseServes
  <2>2. QED
    BY <1>1, <1>2, <2>1 DEF StaServes, CloseLabels
<1>13. QED
  BY <1>6, <1>7, <1>8, <1>10, <1>11, <1>12 DEF StaMove, StaOpenMove

LEMMA ApStepServes ==
  ASSUME DeviceInv, NEW c \in Callers, ApServes(c), Step(c), ApMove(c)
  PROVE  StaServes(c)' /\ ApServes(c)'
<1> DEFINE h == "hostapd"
           a == call[c].args
<1> USE Names
<1>1. /\ PlatformTypeOK /\ DeviceTypes /\ CallInv(c) /\ DaemonInv(c, h)
      /\ ModeOf(call[c].op) = "ap" /\ Own(c, h) /\ call'[c] = call[c]
  BY StepMode DEF DeviceInv, PlatformOK, ApMove, Own, Owner, Tracked
<1> USE DEF DeviceTypes
<1>2. StaServes(c)'
  BY <1>1 DEF StaServes
<1>3. closed' => closed \/ pc'[c] = "fopen"
  BY DEF Step
<1>4. ASSUME NEW to, Goto(c, to) PROVE pc'[c] = to /\ (Opened(c)' => to = "idle")
  BY <1>1, <1>4 DEF Goto, Opened
<1>5. ASSUME NEW from, RejectArgs(c, from) PROVE ApServes(c)'
  BY <1>1, <1>5 DEF RejectArgs, Return, ApServes, Opened
<1>6. CASE FopenConfig(c, h)
  <2>1. ASSUME Goto(c, "build"), conf' = [conf EXCEPT ![h] = Empty] PROVE ApServes(c)'
    BY <1>1, <1>4, <2>1 DEF ApServes
  <2>2. QED
    BY <1>2, <1>5, <1>6, <2>1 DEF FopenConfig
<1>7. CASE Build(c, h, Ap!ValidAP(a), Ap!HostapdConf(a), "address")
  <2>1. ASSUME WriteConfig(c, h, Ap!HostapdConf(a)), Goto(c, "address") PROVE ApServes(c)'
    <3>1. conf[h] = Empty
      BY <1>1, <2>1 DEF WriteConfig, ApServes
    <3>2. conf'[h] = Ap!HostapdConf(a)
      BY <1>1, <2>1, <3>1 DEF WriteConfig
    <3>3. QED
      BY <1>1, <1>4, <2>1, <3>2 DEF ApServes
  <2>2. QED
    BY <1>2, <1>5, <1>7, <2>1 DEF Build
<1>8. CASE RejectArgs(c, "address")
  BY <1>2, <1>5, <1>8
<1>9. CASE /\ Moves(c, "address")
           /\ IF a.dhcpEnable = 0 THEN Return(c, "ok") ELSE Goto(c, "udhcpd")
  <2>1. pc[c] = "address" /\ conf[h] = Ap!HostapdConf(a) /\ UNCHANGED <<conf, proc>>
    BY <1>1, <1>9 DEF Moves, ApServes, platformVars
  <2>2. CASE a.dhcpEnable = 0 /\ Return(c, "ok")
    <3>1. pc'[c] = "idle"
      BY <1>1, <2>2 DEF Return
    <3>2. closed' => NoneUp(h)
      BY <1>1, <1>3, <2>1, <3>1 DEF DaemonInv, Before
    <3>3. closed' => NoneUp(h)' /\ OnlyOn(h, Ap!HostapdConf(a))'
      BY <2>1, <3>2 DEF NoneUp, OnlyOn, Up
    <3>4. QED
      BY <1>1, <1>2, <3>1, <3>3 DEF ApServes
  <2>3. CASE a.dhcpEnable # 0 /\ Goto(c, "udhcpd")
    BY <1>1, <1>2, <1>4, <2>1, <2>3 DEF ApServes
  <2>4. QED
    BY <1>9, <2>2, <2>3
<1>10. CASE StartDaemon(c, "udhcpd", NoFile, "udhcpd") /\ Goto(c, "hostapd")
  BY <1>1, <1>2, <1>4, <1>10 DEF ApServes, StartDaemon
<1>11. CASE StartDaemon(c, h, conf[h], "hostapd") /\ Return(c, "ok")
  <2>1. pc[c] = "hostapd" /\ conf[h] = Ap!HostapdConf(a) /\ a.dhcpEnable # 0
    BY <1>1, <1>11 DEF StartDaemon, ApServes
  <2>2. pc'[c] = "idle"
    BY <1>1, <1>11 DEF Return
  <2>3. closed' => NoneUp(h)
    BY <1>1, <1>3, <2>1, <2>2 DEF DaemonInv, Before
  <2>4. closed' => OnlyOn(h, conf[h])'
    BY <1>1, <1>11, <2>3 DEF NoneUp, OnlyOn, Up, StartDaemon, Spawn, PlatformTypeOK
  <2>5. QED
    BY <1>1, <1>2, <1>11, <2>1, <2>2, <2>4 DEF ApServes, StartDaemon
<1>12. CASE CloseMove(c, "udhcpd", h, h, "udhcpd")
  <2>1. pc'[c] \in CloseLabels \cup {"fopen", "idle"} /\ ~ Opened(c)'
    BY <1>1, <1>12, CloseServes
  <2>2. QED
    BY <1>1, <1>2, <2>1 DEF ApServes, CloseLabels
<1>13. QED
  BY <1>6, <1>7, <1>8, <1>9, <1>10, <1>11, <1>12 DEF ApMove, ApOpenMove

(* Neither a call that begins nor the daemons change what is served.       *)
LEMMA RestServes ==
  ASSUME DeviceInv, NEW c \in Callers, StaServes(c), ApServes(c),
         \/ Entry(c)
         \/ /\ UNCHANGED history
            /\ \/ CallerExits(c) \/ LeaseOf(c)
               \/ PlatformNext /\ UNCHANGED <<callVars, conf>>
               \/ UNCHANGED <<platformVars, callVars, conf>>
  PROVE  StaServes(c)' /\ ApServes(c)'
<1>1. PlatformTypeOK /\ DeviceTypes
  BY DEF DeviceInv, PlatformOK
<1> USE DEF DeviceTypes
<1>2. CASE Entry(c) \/ CallerExits(c)
  <2>1. pc'[c] \in {"pid_1", "fopen", "idle"} /\ ret'[c] = "none"
    BY <1>1, <1>2 DEF Entry, Enter, CallerExits
  <2>2. QED
    BY <2>1 DEF StaServes, ApServes, Opened
<1>3. CASE /\ UNCHANGED <<callVars, conf, history>>
           /\ PlatformNext \/ UNCHANGED proc
  <2>1. NoneStarted("wpa_supplicant") /\ NoneStarted("hostapd")
    BY <1>1, <1>3, Names, PlatformStartsNone, UnchangedStartsNone
  <2>2. \A x : /\ OnlyOn("wpa_supplicant", x) => OnlyOn("wpa_supplicant", x)'
               /\ OnlyOn("hostapd", x) => OnlyOn("hostapd", x)'
    BY <2>1 DEF NoneStarted, OnlyOn, Up
  <2>3. NoneUp("hostapd") => NoneUp("hostapd")'
    BY <2>1 DEF NoneStarted, NoneUp
  <2>4. UNCHANGED <<pc, call, ret, conf, closed>>
    BY <1>3 DEF callVars, history
  <2>5. Opened(c)' <=> Opened(c)
    BY <2>4 DEF Opened
  <2>6. StaServes(c)'
    BY <2>2, <2>4, <2>5 DEF StaServes
  <2>7. ApServes(c)'
    BY <2>2, <2>3, <2>4, <2>5 DEF ApServes
  <2>8. QED
    BY <2>6, <2>7
<1>4. QED
  BY <1>2, <1>3 DEF LeaseOf, platformVars

LEMMA ServeInvariance ==
  ASSUME OneCaller, "killed" \notin Faults PROVE Spec => [](DeviceInv /\ ServeInv)
<1>1. Init => ServeInv
  <2> SUFFICES ASSUME Init, NEW c \in Callers PROVE pc[c] = "idle" /\ ret[c] = "none"
    BY DEF ServeInv, StaServes, ApServes, Opened
  <2>1. QED
    BY DEF Init, Ap!Init, Ap!LibraryInit
<1>2. DeviceInv /\ ServeInv /\ [Next]_vars => ServeInv'
  <2> SUFFICES ASSUME DeviceInv, ServeInv, [Next]_vars, NEW c \in Callers
               PROVE  StaServes(c)' /\ ApServes(c)'
    BY DEF ServeInv
  <2>1. mode \in {"none", "sta", "ap"} /\ StaServes(c) /\ ApServes(c)
    BY DEF DeviceInv, DeviceTypes, ServeInv
  <2>2. CASE Step(c)
    BY <2>1, <2>2, StaStepServes, ApStepServes DEF Step
  <2>3. QED
    BY <2>1, <2>2, RestServes, DeviceSteps
<1>3. QED
  BY <1>1, <1>2, DeviceInvariance, PTL DEF Spec

(* After an open or a restart that returned 0, from a closed mode and with *)
(* DHCP if it is an access point, all that is served is what was asked     *)
(* for: the file that the daemon read is the one this call has written,    *)
(* and neither an older daemon nor one of the other mode is up             *)
(* (wifi.c:249-256, 345, 350).                                             *)
THEOREM DeviceServesAsked ==
  ASSUME OneCaller, "killed" \notin Faults PROVE Spec => []ServesAsked
<1>1. DeviceInv /\ ServeInv => ServesAsked
  <2> SUFFICES ASSUME DeviceInv, ServeInv, NEW c \in Callers, ret[c] = "ok",
                      Serves(call[c].op, call[c].args), closed,
                      NEW p \in Pids, proc[p].kind \in Exclusive, proc[p].phase # "dying"
               PROVE  Asked(call[c].op, call[c].args, proc[p])
    BY DEF ServesAsked
  <2> USE DEF Serves
  <2> DEFINE m == ModeOf(call[c].op)
             k == proc[p].kind
  <2>1. /\ PlatformTypeOK /\ Live /\ CallInv(c) /\ StaServes(c) /\ ApServes(c)
        /\ k \in {"wpa_supplicant", "hostapd"} /\ k \in Daemons /\ DaemonInv(c, k)
    BY Names, DeviceAssumption DEF DeviceInv, PlatformOK, ServeInv, Tracked
  <2>2. Up(p, k)
    BY <2>1 DEF Live, Up, PlatformTypeOK, Process
  <2>3. pc[c] = "idle" /\ mode = m /\ m \in {"sta", "ap"}
    BY <2>1, ModeOfOps DEF CallInv
  <2>4. Owner(k) = m
    BY <2>1, <2>3 DEF DaemonInv, Away
  <2>5. Opened(c)
    BY <2>3 DEF Opened
  <2>6. CASE m = "sta"
    <3>1. k = "wpa_supplicant"
      BY <2>1, <2>4, <2>6 DEF Owner
    <3>2. QED
      BY <2>1, <2>2, <2>5, <2>6, <3>1 DEF StaServes, OnlyOn, Asked
  <2>7. CASE m = "ap"
    <3>1. k = "hostapd"
      BY <2>1, <2>4, <2>7 DEF Owner
    <3>2. QED
      BY <2>1, <2>2, <2>5, <2>7, <3>1 DEF ApServes, OnlyOn, NoneUp, Asked
  <2>8. QED
    BY <2>3, <2>6, <2>7
<1>2. QED
  BY <1>1, ServeInvariance, PTL

=============================================================================
