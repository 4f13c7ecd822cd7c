---------------------------- MODULE ApModeProofs ----------------------------
(***************************************************************************)
(* Access-point mode keeps its types, never loses track of a stream, and   *)
(* only signals a process that is not its own after a crash, for any       *)
(* number of callers, processes and streams.                               *)
(***************************************************************************)
EXTENDS ApMode, LibraryProofs

IInv == TypeOK /\ PidInv /\ StreamInv

Args == ApArgs \cup {NoArgs}
AddressOK ==
  address \in [Interfaces -> [ip: Addresses \cup {NoAddress}, failed: BOOLEAN]]
ApStreamsOf(c) == StreamsOf(c, "udhcpd", "hostapd", "hostapd", ApWritten)

(* What the steps of a call write, read and go to.                         *)
LEMMA ConstantsOK ==
  /\ NoArgs \in Args
  /\ \A a \in ApArgs : ValidAP(a) => HostapdConf(a) \in Contents
  /\ NoFile \in Contents /\ "hostapd" \in Exclusive
  /\ {"hostapd", "udhcpd"} \subseteq Daemons
BY ApAssumption DEF Contents, Args

LEMMA LabelsOK ==
  /\ {"idle", "fopen", "build"} \subseteq ApLabels
  /\ ApWritten \subseteq ApLabels /\ CloseLabels \subseteq ApLabels
BY DEF ApLabels, ApOpenLabels

LEMMA ApIsMode == Mode("udhcpd", "hostapd", "hostapd", ApWritten)
BY ApAssumption DEF Mode, ApWritten, CloseLabels

LEMMA IInvOK ==
  ASSUME IInv
  PROVE  /\ PlatformOK /\ PlatformTypeOK /\ LibraryTypeOK(ApLabels, Args) /\ AddressOK
         /\ StreamTypes /\ \A c \in Callers : ApStreamsOf(c)
BY DEF IInv, TypeOK, PlatformOK, StreamTypes, StreamInv, ApStreamsOf, Args, AddressOK

LEMMA InitOK == Init => IInv
<1> SUFFICES ASSUME Init PROVE IInv
  OBVIOUS
<1>1. PlatformOK
  BY PlatformInitOK DEF Init
<1>2. LibraryTypeOK(ApLabels, ApArgs \cup {NoArgs})
  BY LibraryAssumption
     DEF Init, LibraryInit, LibraryTypeOK, ApLabels, Ops, Contents
<1>3. StreamInv
  BY ApAssumption
     DEF Init, LibraryInit, PlatformInit, StreamInv, StreamsOf, Held, Closed,
         CloseLabels, ApWritten
<1>4. AddressOK
  BY DEF Init, AddressOK
<1>5. QED
  BY <1>1, <1>2, <1>3, <1>4 DEF IInv, TypeOK, PlatformOK, AddressOK

-----------------------------------------------------------------------------
(* What the daemons' files and processes are after a step.                 *)
LEMMA StepPlatformOK ==
  ASSUME IInv, Next PROVE PlatformOK'
<1> PlatformOK /\ LibraryTypeOK(ApLabels, Args)
  BY IInvOK
<1>1. ASSUME NEW c \in Callers, CallerStep(c) PROVE PlatformOK'
  <2>1. CASE FopenHostapdConf(c) \/ BuildHostapdConf(c)
    BY <2>1, PlatformUnchangedOK
       DEF FopenHostapdConf, FopenConfig, BuildHostapdConf, RejectArgs
  <2>2. CASE SetAddress(c)
    BY <2>2, PlatformUnchangedOK DEF SetAddress, RejectArgs
  <2>3. CASE StartUdhcpd(c)
    BY <2>3, StartDaemonOK, ConstantsOK DEF StartUdhcpd
  <2>4. CASE StartHostapd(c)
    <3>1. conf["hostapd"] \in Contents
      BY ConstantsOK DEF LibraryTypeOK
    <3>2. QED
      BY <2>4, <3>1, StartDaemonOK, ConstantsOK DEF StartHostapd
  <2>5. CASE FopenUdhcpdPid(c) \/ FopenHostapdPid(c)
    BY <2>5, FopenPidFileOK, ConstantsOK DEF FopenUdhcpdPid, FopenHostapdPid
  <2>6. CASE KillHostapd(c) \/ KillUdhcpd(c)
    BY <2>6, KillFromPidFileOK, ConstantsOK DEF KillHostapd, KillUdhcpd
  <2>7. CASE FcloseAP(c)
    BY <2>7, FclosePidFilesOK DEF FcloseAP
  <2>8. QED
    BY <1>1, <2>1, <2>2, <2>3, <2>4, <2>5, <2>6, <2>7 DEF CallerStep
<1>2. ASSUME NEW c \in Callers, CallerCalls(c) PROVE PlatformOK'
  BY <1>2, PlatformUnchangedOK DEF CallerCalls, OpenAP, CloseAP, RestartAP, Enter
<1>3. QED
  BY <1>1, <1>2, CallerExitsOK, PlatformNextOK DEF Next, EnvironmentStep

-----------------------------------------------------------------------------
(* What the callers' state and the addresses are; ApStreamsOf bounds fds   *)
(* from below.                                                             *)
LEMMA StepTypeOK ==
  ASSUME IInv, Next PROVE LibraryTypeOK(ApLabels, Args)'
<1> DEFINE Typed == LibraryTypeOK(ApLabels, Args)
<1>1. /\ Typed /\ StreamTypes /\ \A c \in Callers : ApStreamsOf(c)
      /\ fds \in [Callers -> 0..MaxFds] /\ conf \in [Exclusive -> Contents]
  BY IInvOK DEF LibraryTypeOK
<1>2. ASSUME UNCHANGED <<callVars, conf>> PROVE Typed'
  BY <1>1, <1>2 DEF LibraryTypeOK, callVars
<1>3. ASSUME NEW c \in Callers, CallerStep(c) PROVE Typed'
  <2> USE <1>1, LabelsOK, ConstantsOK
  <2>1. CASE FopenHostapdConf(c)
    BY <2>1, FopenConfigTypeOK DEF FopenHostapdConf
  <2>2. CASE BuildHostapdConf(c)
    <3>1. CASE ~ ValidAP(call[c].args)
      BY <2>2, <3>1, RejectArgsTypeOK DEF BuildHostapdConf
    <3>2. CASE ValidAP(call[c].args)
      <4>1. /\ WriteConfig(c, "hostapd", HostapdConf(call[c].args))
            /\ Goto(c, "address")
        BY <2>2, <3>2 DEF BuildHostapdConf
      <4>2. call[c].args # NoArgs /\ fds[c] >= 1
        BY <2>2, OpenStreams DEF BuildHostapdConf, ApStreamsOf
      <4>3. call[c].args \in ApArgs
        BY <4>2 DEF LibraryTypeOK, Args
      <4>4. fds' \in [Callers -> 0..MaxFds] /\ conf' \in [Exclusive -> Contents]
        BY <3>2, <4>1, <4>2, <4>3, WriteConfigTypeOK
      <4>5. QED
        BY <4>1, <4>4, GotoTypeOK DEF ApWritten
    <3>3. QED
      BY <3>1, <3>2
  <2>3. CASE SetAddress(c)
    <3>1. CASE RejectArgs(c, "address")
      BY <3>1, RejectArgsTypeOK
    <3>2. CASE UNCHANGED <<fds, conf>> /\ (Return(c, "ok") \/ Goto(c, "udhcpd"))
      BY <3>2, ReturnTypeOK, GotoTypeOK DEF ApWritten
    <3>3. QED
      BY <2>3, <3>1, <3>2 DEF SetAddress
  <2>4. CASE StartUdhcpd(c)
    BY <2>4, GotoTypeOK DEF StartUdhcpd, StartDaemon, ApWritten
  <2>5. CASE StartHostapd(c)
    BY <2>5, ReturnTypeOK DEF StartHostapd, StartDaemon
  <2>6. CASE FopenUdhcpdPid(c) \/ FopenHostapdPid(c)
    BY <2>6, FopenPidFileTypeOK DEF FopenUdhcpdPid, FopenHostapdPid, CloseLabels
  <2>7. CASE KillHostapd(c) \/ KillUdhcpd(c)
    BY <2>7, KillFromPidFileTypeOK DEF KillHostapd, KillUdhcpd, CloseLabels
  <2>8. CASE FcloseAP(c)
    <3>1. fds[c] >= 2
      BY <2>8, OpenStreams DEF FcloseAP, FclosePidFiles, ApStreamsOf
    <3>2. QED
      BY <2>8, <3>1, FclosePidFilesTypeOK DEF FcloseAP
  <2>9. QED
    BY <1>3, <2>1, <2>2, <2>3, <2>4, <2>5, <2>6, <2>7, <2>8 DEF CallerStep
<1>4. ASSUME NEW c \in Callers, CallerCalls(c) PROVE Typed'
  <2>1. \E op \in Ops, args \in Args, to \in ApLabels : Enter(c, op, args, to)
    BY <1>4, ConstantsOK, LabelsOK
       DEF CallerCalls, OpenAP, CloseAP, RestartAP, Args, Ops, Closes, Restarts,
           CloseLabels
  <2>2. QED
    BY <1>1, <2>1, EnterTypeOK
<1>5. ASSUME NEW c \in Callers, CallerExits(c) PROVE Typed'
  BY <1>1, <1>5, CallerExitsTypeOK, LabelsOK
<1>6. QED
  BY <1>2, <1>3, <1>4, <1>5 DEF Next, EnvironmentStep

(* An interface once given an address keeps one, and a failure is not      *)
(* forgotten.                                                              *)
LEMMA SetAddressOK ==
  ASSUME IInv, NEW c \in Callers, SetAddress(c)
  PROVE  /\ AddressOK'
         /\ \A i \in Interfaces : Tried(i) => Tried(i)'
         /\ call[c].args \in ApArgs
         /\ RejectArgs(c, "address") \/ Tried(InterfaceOf(call[c].args))'
<1> DEFINE a == call[c].args
           i == InterfaceOf(a)
<1>0. call' = call
  BY DEF SetAddress, RejectArgs, Return, Goto
<1>1. AddressOK /\ LibraryTypeOK(ApLabels, Args) /\ StreamTypes /\ ApStreamsOf(c)
  BY IInvOK
<1>2. a # NoArgs
  BY <1>1, OpenStreams DEF SetAddress, ApStreamsOf, ApWritten
<1>3. a \in ApArgs
  BY <1>1, <1>2 DEF LibraryTypeOK, Args
<1>4. a.serverAddress \in Addresses /\ a.serverAddress # NoAddress /\ i \in Interfaces
  BY <1>3, ApAssumption DEF Addresses, Interfaces
<1>5. CASE RejectArgs(c, "address") /\ UNCHANGED address
  BY <1>1, <1>3, <1>5 DEF AddressOK, Tried
<1>6. ASSUME NEW r \in [ip: Addresses \cup {NoAddress}, failed: BOOLEAN],
             address' = [address EXCEPT ![i] = r],
             r.failed \/ r.ip # NoAddress
      PROVE  AddressOK' /\ Tried(i)' /\ \A j \in Interfaces : Tried(j) => Tried(j)'
  <2>1. AddressOK' /\ address'[i] = r /\ \A j \in Interfaces \ {i} : address'[j] = address[j]
    BY <1>1, <1>4, <1>6 DEF AddressOK
  <2>2. UNCHANGED i
    BY <1>0
  <2>3. Tried(i)'
    BY <1>6, <2>1, <2>2 DEF Tried
  <2>4. ASSUME NEW j \in Interfaces, Tried(j) PROVE Tried(j)'
    BY <1>6, <2>1, <2>4 DEF Tried
  <2>5. QED
    BY <2>1, <2>3, <2>4
<1>7. address[i] \in [ip: Addresses \cup {NoAddress}, failed: BOOLEAN]
  BY <1>1, <1>4 DEF AddressOK
<1>8. CASE address' = [address EXCEPT ![i].ip = a.serverAddress]
  <2>1. [address[i] EXCEPT !.ip = a.serverAddress]
          \in [ip: Addresses \cup {NoAddress}, failed: BOOLEAN]
    BY <1>4, <1>7
  <2>2. address' = [address EXCEPT ![i] = [address[i] EXCEPT !.ip = a.serverAddress]]
    BY <1>8
  <2>3. QED
    BY <1>3, <1>4, <1>6, <1>7, <2>1, <2>2
<1>9. CASE address' = [address EXCEPT ![i].failed = TRUE]
  <2>1. [address[i] EXCEPT !.failed = TRUE] \in [ip: Addresses \cup {NoAddress}, failed: BOOLEAN]
    BY <1>7
  <2>2. address' = [address EXCEPT ![i] = [address[i] EXCEPT !.failed = TRUE]]
    BY <1>9
  <2>3. QED
    BY <1>3, <1>6, <1>7, <2>1, <2>2
<1>10. QED
  BY <1>5, <1>8, <1>9 DEF SetAddress

LEMMA StepAddress ==
  ASSUME Next, ~ \E c \in Callers : SetAddress(c) PROVE UNCHANGED address
BY DEF Next, CallerStep, CallerCalls, EnvironmentStep, FopenHostapdConf,
       BuildHostapdConf, StartUdhcpd, StartHostapd, FopenUdhcpdPid, FopenHostapdPid,
       KillHostapd, KillUdhcpd, FcloseAP, OpenAP, CloseAP, RestartAP

LEMMA StepAddressOK ==
  ASSUME IInv, Next
  PROVE  /\ AddressOK'
         /\ \A i \in Interfaces : Tried(i) => Tried(i)'
<1>1. CASE UNCHANGED address
  BY <1>1, IInvOK DEF AddressOK, Tried
<1>2. QED
  BY <1>1, SetAddressOK, StepAddress

-----------------------------------------------------------------------------
(* The streams of the caller that takes a step, and of the others.         *)
LEMMA CallerStepStreams ==
  ASSUME IInv, NEW c \in Callers,
         CallerStep(c) \/ CallerCalls(c) \/ CallerExits(c)
  PROVE  ApStreamsOf(c)'
<1> USE ApIsMode DEF ApStreamsOf
<1>1. ApStreamsOf(c) /\ StreamTypes
  BY IInvOK
<1>2. CASE FopenHostapdConf(c)
  BY <1>1, <1>2, FopenConfigStreams DEF FopenHostapdConf
<1>3. CASE BuildHostapdConf(c)
  BY <1>1, <1>3, RejectArgsStreams, WriteConfigStreams DEF BuildHostapdConf, ApWritten
<1>4. CASE SetAddress(c) \/ StartUdhcpd(c) \/ StartHostapd(c)
  <2>1. /\ pc[c] \in ApWritten /\ UNCHANGED <<fds, stream>>
        /\ \/ \E to \in ApWritten : Goto(c, to)
           \/ Return(c, "ok") \/ Return(c, "fail")
    BY <1>4 DEF SetAddress, RejectArgs, StartUdhcpd, StartHostapd, StartDaemon,
                ApWritten, platformVars
  <2>2. QED
    BY <1>1, <2>1, CommandStreams
<1>5. CASE FopenUdhcpdPid(c)
  BY <1>1, <1>5, FopenFirstStreams DEF FopenUdhcpdPid
<1>6. CASE FopenHostapdPid(c)
  BY <1>1, <1>6, FopenSecondStreams DEF FopenHostapdPid
<1>7. CASE KillHostapd(c)
  BY <1>1, <1>7, KillStreams DEF KillHostapd
<1>8. CASE KillUdhcpd(c)
  BY <1>1, <1>8, KillStreams DEF KillUdhcpd
<1>9. CASE FcloseAP(c)
  BY <1>1, <1>9, FcloseStreams DEF FcloseAP
<1>10. CASE CallerCalls(c)
  BY <1>1, <1>10, EnterStreams
     DEF CallerCalls, OpenAP, CloseAP, RestartAP, Closes, Restarts
<1>11. CASE CallerExits(c)
  BY <1>1, <1>11, CallerExitsStreams
<1>12. QED
  BY <1>2, <1>3, <1>4, <1>5, <1>6, <1>7, <1>8, <1>9, <1>10, <1>11 DEF CallerStep

LEMMA OtherCallersStreams ==
  ASSUME IInv, NEW c \in Callers,
         CallerStep(c) \/ CallerCalls(c) \/ CallerExits(c), NEW b \in Callers \ {c}
  PROVE  ApStreamsOf(b)'
<1>1. ApStreamsOf(b) /\ PlatformTypeOK /\ LibraryTypeOK(ApLabels, Args)
  BY IInvOK
<1>2. /\ pc'[b] = pc[b] /\ call'[b] = call[b] /\ ret'[b] = ret[b]
      /\ fds'[b] = fds[b] /\ stream'[b] = stream[b]
  <2> USE <1>1 DEF PlatformTypeOK, LibraryTypeOK
  <2>1. CASE FopenHostapdConf(c) \/ BuildHostapdConf(c)
    BY <2>1 DEF FopenHostapdConf, BuildHostapdConf, RejectArgs, FopenConfig,
                WriteConfig, Return, Goto, platformVars
  <2>2. CASE SetAddress(c) \/ StartUdhcpd(c) \/ StartHostapd(c)
    BY <2>2 DEF SetAddress, RejectArgs, StartUdhcpd, StartHostapd, StartDaemon,
                Return, Goto, platformVars
  <2>3. CASE FopenUdhcpdPid(c) \/ FopenHostapdPid(c)
    BY <2>3 DEF FopenUdhcpdPid, FopenHostapdPid, FopenPidFile, Goto
  <2>4. CASE KillHostapd(c) \/ KillUdhcpd(c) \/ FcloseAP(c)
    BY <2>4 DEF KillHostapd, KillUdhcpd, KillFromPidFile, FcloseAP, FclosePidFiles,
                ReturnClose, ForgetStreams, Return, Goto
  <2>5. CASE CallerCalls(c)
    BY <2>5 DEF CallerCalls, OpenAP, CloseAP, RestartAP, Enter, platformVars
  <2>6. CASE CallerExits(c)
    BY <2>6 DEF CallerExits, ForgetStreams
  <2>7. QED
    BY <2>1, <2>2, <2>3, <2>4, <2>5, <2>6 DEF CallerStep
<1>3. QED
  BY <1>1, <1>2, StreamsFrame DEF Held, ApStreamsOf

LEMMA StepStreams ==
  ASSUME IInv, Next PROVE StreamInv'
<1>1. ASSUME NEW c \in Callers, CallerStep(c) \/ CallerCalls(c) \/ CallerExits(c)
      PROVE  StreamInv'
  BY <1>1, CallerStepStreams, OtherCallersStreams DEF StreamInv, ApStreamsOf
<1>2. ASSUME NEW b \in Callers, EnvironmentStep PROVE ApStreamsOf(b)'
  <2>1. ApStreamsOf(b) /\ PlatformOK
    BY IInvOK
  <2>2. \A d \in {"udhcpd", "hostapd"} : Held(b, d)' = Held(b, d)
    BY <1>2, <2>1, PlatformHeld, ConstantsOK DEF EnvironmentStep
  <2>3. QED
    BY <1>2, <2>1, <2>2, StreamsFrame DEF EnvironmentStep, callVars, ApStreamsOf
<1>3. QED
  BY <1>1, <1>2 DEF Next, StreamInv, ApStreamsOf

-----------------------------------------------------------------------------
LEMMA Inductive == IInv /\ [Next]_vars => IInv'
<1> SUFFICES ASSUME IInv, [Next]_vars PROVE IInv'
  OBVIOUS
<1>1. CASE Next
  BY <1>1, StepPlatformOK, StepTypeOK, StepAddressOK, StepStreams
     DEF IInv, TypeOK, PlatformOK, Args, AddressOK
<1>2. CASE UNCHANGED vars
  <2>1. PlatformOK'
    BY <1>2, IInvOK, PlatformUnchangedOK DEF vars
  <2>2. LibraryTypeOK(ApLabels, ApArgs \cup {NoArgs})' /\ AddressOK'
    BY <1>2 DEF IInv, TypeOK, LibraryTypeOK, AddressOK, vars, callVars
  <2>3. StreamInv'
    BY <1>2, StreamsFrame DEF IInv, StreamInv, Held, vars, callVars, platformVars
  <2>4. QED
    BY <2>1, <2>2, <2>3 DEF IInv, TypeOK, PlatformOK, AddressOK
<1>3. QED
  BY <1>1, <1>2

LEMMA Invariance == Spec => []IInv
BY InitOK, Inductive, PTL DEF Spec

(* The state of access-point mode has its types whatever the calls, the    *)
(* daemons and the faults; in particular no call closes more streams than  *)
(* it has opened (wifi.c:233, 335-336).                                    *)
THEOREM ApTypes == Spec => []TypeOK
<1>1. IInv => TypeOK
  BY DEF IInv
<1>2. QED
  BY Invariance, <1>1, PTL

(* Pid files, streams and processes agree (PidInv), and a process that is  *)
(* not the daemon meant is only signalled after that daemon has crashed,   *)
(* in every interleaving of callers and daemons (wifi.c:304-336).        *)
THEOREM ApSignals == Spec => []PidInv
<1>1. IInv => PidInv
  BY DEF IInv
<1>2. QED
  BY Invariance, <1>1, PTL

(* A call of wifiOpenAP or wifiCloseAP loses at most one stream, and only  *)
(* when it returns -1; wifiRestartAP at most one in each half.             *)
THEOREM ApStreams == Spec => []StreamAccounting
<1>1. IInv => StreamAccounting
  BY IInvOK, StreamsAccounted DEF ApStreamsOf
<1>2. QED
  BY Invariance, <1>1, PTL

-----------------------------------------------------------------------------
(* Access-point mode implements Service when one process links the         *)
(* library, and if every call names its interface, an access point only    *)
(* comes up on an interface that has an address.                           *)

OneCaller == \A b, c \in Callers : b = c

SessionInv == IInv /\ OneInstance("hostapd") /\ ConfInv /\ HostapdConfigured

(* The step at which wifiOpenAP starts hostapd.                            *)
Started(c) ==
  /\ pc[c] = "hostapd"
  /\ \E p \in Pids : Spawn("hostapd", p, conf["hostapd"])
  /\ UNCHANGED address

LEMMA StartOrNot ==
  ASSUME IInv, [Next]_vars
  PROVE  NoneStarted("hostapd") \/ \E c \in Callers : Started(c)
<1> DEFINE None == NoneStarted("hostapd")
<1> PlatformTypeOK /\ "hostapd" \in Daemons /\ "udhcpd" \in Daemons
  BY IInvOK, ConstantsOK
<1>1. CASE UNCHANGED proc
  BY <1>1, UnchangedStartsNone
<1>2. ASSUME NEW c \in Callers, StartUdhcpd(c), ~ UNCHANGED proc PROVE None
  BY <1>2, SpawnStartsNone DEF StartUdhcpd, StartDaemon
<1>3. ASSUME NEW c \in Callers, StartHostapd(c), ~ UNCHANGED proc PROVE Started(c)
  BY <1>3 DEF StartHostapd, StartDaemon, Started
<1>4. ASSUME NEW c \in Callers, KillHostapd(c) \/ KillUdhcpd(c) PROVE None
  BY <1>4, KillStartsNone DEF KillHostapd, KillUdhcpd
<1>5. ASSUME NEW c \in Callers, CallerStep(c), ~ UNCHANGED proc
      PROVE  StartUdhcpd(c) \/ StartHostapd(c) \/ KillHostapd(c) \/ KillUdhcpd(c)
  BY <1>5 DEF CallerStep, FopenHostapdConf, BuildHostapdConf, SetAddress, RejectArgs,
              FopenConfig, WriteConfig, FopenUdhcpdPid, FopenHostapdPid,
              FopenPidFile, FcloseAP, FclosePidFiles, platformVars
<1>6. ASSUME NEW c \in Callers, CallerCalls(c) \/ CallerExits(c)
      PROVE  UNCHANGED proc
  BY <1>6 DEF CallerCalls, OpenAP, CloseAP, RestartAP, Enter, CallerExits, platformVars
<1>7. CASE EnvironmentStep
  BY <1>7, PlatformStartsNone DEF EnvironmentStep
<1>8. CASE UNCHANGED vars
  BY <1>1, <1>8 DEF vars, platformVars
<1> HIDE DEF None
<1>9. QED
  BY <1>1, <1>2, <1>3, <1>4, <1>5, <1>6, <1>7, <1>8 DEF Next, None

(* The configuration file under a single caller.                           *)
LEMMA StepConf ==
  ASSUME OneCaller, SessionInv, [Next]_vars PROVE ConfInv'
<1> DEFINE file == conf["hostapd"]
           Written(c) == ValidAP(call[c].args) /\ file = HostapdConf(call[c].args)
<1>1. "hostapd" \in Exclusive /\ LibraryTypeOK(ApLabels, Args)
  BY ConstantsOK, IInvOK DEF SessionInv
<1> USE <1>1 DEF LibraryTypeOK
<1>2. SUFFICES ASSUME NEW c \in Callers
               PROVE  /\ pc'[c] = "build" => file' = Empty
                      /\ pc'[c] \in ApWritten => Written(c)'
  BY DEF ConfInv
<1>3. /\ pc[c] = "build" => file = Empty
      /\ pc[c] \in ApWritten => Written(c)
  BY DEF SessionInv, ConfInv
<1>4. ASSUME pc'[c] = pc[c] \/ (pc[c] \in ApWritten /\ pc'[c] \in ApWritten \cup {"idle"}),
             UNCHANGED conf, call'[c] = call[c]
      PROVE  /\ pc'[c] = "build" => file' = Empty
             /\ pc'[c] \in ApWritten => Written(c)'
  BY <1>3, <1>4 DEF ApWritten
<1>5. ASSUME pc'[c] \notin {"build"} \cup ApWritten
      PROVE  /\ pc'[c] = "build" => file' = Empty
             /\ pc'[c] \in ApWritten => Written(c)'
  BY <1>5
<1>6. CASE FopenHostapdConf(c)
  BY <1>6 DEF FopenHostapdConf, RejectArgs, FopenConfig, Return, Goto, ApWritten
<1>7. CASE BuildHostapdConf(c)
  BY <1>3, <1>7 DEF BuildHostapdConf, RejectArgs, WriteConfig, Return, Goto, ApWritten
<1>8. CASE SetAddress(c) \/ StartUdhcpd(c) \/ StartHostapd(c)
  <2>1. /\ pc[c] \in ApWritten /\ pc'[c] \in ApWritten \cup {"idle"}
        /\ UNCHANGED <<conf, call>>
    BY <1>8 DEF SetAddress, RejectArgs, StartUdhcpd, StartHostapd, StartDaemon,
                Return, Goto, ApWritten
  <2>2. QED
    BY <1>4, <2>1
<1>9. CASE \/ FopenUdhcpdPid(c) \/ FopenHostapdPid(c) \/ KillHostapd(c)
           \/ KillUdhcpd(c) \/ FcloseAP(c)
  <2>1. pc'[c] \in {"idle", "fopen"} \cup CloseLabels
    BY <1>9 DEF FopenUdhcpdPid, FopenHostapdPid, FopenPidFile, KillHostapd,
                KillUdhcpd, KillFromPidFile, FcloseAP, FclosePidFiles, ReturnClose,
                Return, Goto, CloseLabels
  <2>2. QED
    BY <1>5, <2>1 DEF CloseLabels, ApWritten
<1>10. CASE CallerCalls(c) \/ CallerExits(c)
  <2>1. pc'[c] \in {"idle", "fopen", "pid_1"}
    BY <1>10 DEF CallerCalls, OpenAP, CloseAP, RestartAP, Enter, CallerExits
  <2>2. QED
    BY <1>5, <2>1 DEF ApWritten
<1>11. CASE EnvironmentStep \/ UNCHANGED vars
  BY <1>4, <1>11 DEF EnvironmentStep, vars, callVars
<1>12. QED
  BY <1>6, <1>7, <1>8, <1>9, <1>10, <1>11 DEF Next, OneCaller, CallerStep

(* What hostapd finds in the file when it is started.                      *)
LEMMA FileOK ==
  ASSUME SessionInv, NEW c \in Callers, pc[c] \in ApWritten
  PROVE  /\ call[c].args \in ApArgs
         /\ conf["hostapd"] = HostapdConf(call[c].args)
         /\ conf["hostapd"] \in Networks
<1>1. call[c].args # NoArgs
  BY IInvOK, OpenStreams DEF SessionInv, ApStreamsOf
<1>2. call[c].args \in ApArgs
  BY <1>1, IInvOK DEF SessionInv, LibraryTypeOK, Args
<1>3. QED
  BY <1>2 DEF SessionInv, ConfInv, Networks

(* A start takes no sessions to one; any other step keeps them or ends     *)
(* them.                                                                   *)
LEMMA StartStep ==
  ASSUME SessionInv, NEW c \in Callers, Started(c)
  PROVE  OneInstance("hostapd")' /\ HostapdConfigured' /\ S!Connect
<1>1. PICK p \in Pids : Spawn("hostapd", p, conf["hostapd"])
  BY DEF Started
<1>2. /\ "hostapd" \in Exclusive /\ PlatformTypeOK
      /\ conf["hostapd"] \in Networks /\ Configured("hostapd", Networks)
  BY ConstantsOK, IInvOK, FileOK DEF SessionInv, Started, HostapdConfigured, ApWritten
<1>3. /\ OneInstance("hostapd")' /\ Configured("hostapd", Networks)'
      /\ Sessions = {} /\ Sessions' = {[id |-> p, network |-> conf["hostapd"]]}
  BY <1>1, <1>2, StartedOK DEF Sessions
<1>4. QED
  BY <1>2, <1>3 DEF HostapdConfigured, S!Connect

LEMMA OtherStep ==
  ASSUME SessionInv, NoneStarted("hostapd")
  PROVE  /\ OneInstance("hostapd")' /\ HostapdConfigured'
         /\ Sessions' = Sessions \/ S!Disconnect
BY NoneStartedOK DEF SessionInv, HostapdConfigured, Sessions, S!Disconnect

LEMMA SessionInductive ==
  ASSUME OneCaller, SessionInv, [Next]_vars
  PROVE  SessionInv' /\ [S!Connect \/ S!Disconnect]_Sessions
<1>1. IInv' /\ ConfInv'
  BY Inductive, StepConf DEF SessionInv
<1>2. CASE NoneStarted("hostapd")
  BY <1>1, <1>2, OtherStep DEF SessionInv
<1>3. ASSUME NEW c \in Callers, Started(c)
      PROVE  SessionInv' /\ [S!Connect \/ S!Disconnect]_Sessions
  BY <1>1, <1>3, StartStep DEF SessionInv
<1>4. QED
  BY <1>2, <1>3, StartOrNot DEF SessionInv

LEMMA SessionInit == Init => SessionInv /\ S!Init
<1> SUFFICES ASSUME Init PROVE SessionInv /\ S!Init
  OBVIOUS
<1>1. IInv
  BY InitOK
<1>2. OneInstance("hostapd") /\ HostapdConfigured /\ S!Init
  BY NoInstances, ConstantsOK DEF Init, HostapdConfigured, S!Init, Sessions
<1>3. ConfInv
  BY DEF Init, LibraryInit, ConfInv, ApWritten
<1>4. QED
  BY <1>1, <1>2, <1>3 DEF SessionInv

(* hostapd only ever runs on a configuration that a call with valid        *)
(* arguments wrote in full (wifi.c:91-233).                                *)
THEOREM ApConfigured == ASSUME OneCaller PROVE Spec => []HostapdConfigured
<1>1. SessionInv => HostapdConfigured
  BY DEF SessionInv
<1>2. SessionInv /\ [Next]_vars => SessionInv'
  BY SessionInductive
<1>3. QED
  BY SessionInit, <1>1, <1>2, PTL DEF Spec

(* Access-point mode implements Service: one network at a time, unchanged  *)
(* while it is served, ended before the next (wifi.c:79-258, 300-341,      *)
(* 348-352).                                                               *)
THEOREM ApImplementsService == ASSUME OneCaller PROVE Spec => ServiceSpec
<1>1. SessionInv /\ [Next]_vars => SessionInv' /\ [S!Connect \/ S!Disconnect]_Sessions
  BY SessionInductive
<1>2. QED
  BY SessionInit, <1>1, PTL DEF Spec, ServiceSpec, S!Spec

-----------------------------------------------------------------------------
(* Addresses.  The command that sets one is run between the writing of     *)
(* hostapd.conf and the start of hostapd, for the same interface.          *)
AddressInv ==
  /\ SessionInv /\ HostapdAddressed
  /\ \A c \in Callers : pc[c] \in {"udhcpd", "hostapd"} =>
                           Tried(InterfaceOf(call[c].args))

LEMMA StepHostapdAddressed ==
  ASSUME OneCaller, AddressInv, [Next]_vars PROVE HostapdAddressed'
<1>1. /\ SessionInv /\ HostapdConfigured /\ PlatformTypeOK
      /\ Networks = {HostapdConf(a) : a \in {b \in ApArgs : ValidAP(b)}}
  BY IInvOK DEF AddressInv, SessionInv, Networks
<1>2. \A n \in Networks : n.interface \in Interfaces
  BY DEF Networks, HostapdConf, Interfaces
<1>3. \A i \in Interfaces : Tried(i) => Tried(i)'
  BY <1>1, StepAddressOK DEF vars, SessionInv, Tried
<1>4. CASE NoneStarted("hostapd")
  BY <1>1, <1>2, <1>3, <1>4
     DEF AddressInv, HostapdAddressed, HostapdConfigured, Configured, NoneStarted
<1>5. ASSUME NEW c \in Callers, Started(c) PROVE HostapdAddressed'
  <2>1. PICK p \in Pids : Spawn("hostapd", p, conf["hostapd"])
    BY <1>5 DEF Started
  <2>2. conf["hostapd"].interface = InterfaceOf(call[c].args)
    <3>1. conf["hostapd"] = HostapdConf(call[c].args)
      BY <1>1, <1>5, FileOK DEF Started, ApWritten
    <3>2. QED
      BY <3>1 DEF HostapdConf
  <2>3. Tried(conf["hostapd"].interface)
    BY <1>5, <2>2 DEF AddressInv, Started
  <2>4. QED
    BY <1>1, <1>5, <2>1, <2>3
       DEF AddressInv, HostapdAddressed, Spawn, Started, PlatformTypeOK, Tried
<1>6. QED
  BY <1>1, <1>4, <1>5, StartOrNot DEF SessionInv

LEMMA StepAddressSet ==
  ASSUME OneCaller, AddressInv, [Next]_vars,
         NEW c \in Callers, pc'[c] \in {"udhcpd", "hostapd"}
  PROVE  Tried(InterfaceOf(call[c].args))'
<1>1. SessionInv /\ IInv /\ LibraryTypeOK(ApLabels, Args) /\ AddressOK
  BY IInvOK DEF AddressInv, SessionInv
<1>2. CASE SetAddress(c)
  <2>1. ~ RejectArgs(c, "address")
    BY <1>1 DEF RejectArgs, Return, LibraryTypeOK
  <2>2. QED
    BY <1>1, <1>2, <2>1, SetAddressOK DEF Tried
<1>3. CASE ~ SetAddress(c)
  <2>1. pc[c] \in {"udhcpd", "hostapd"} /\ call'[c] = call[c]
    <3>1. CASE CallerStep(c)
      BY <1>1, <1>3, <3>1
         DEF CallerStep, FopenHostapdConf, FopenConfig, BuildHostapdConf, RejectArgs,
             StartUdhcpd, StartHostapd, StartDaemon, FopenUdhcpdPid, FopenHostapdPid,
             FopenPidFile, KillHostapd, KillUdhcpd, KillFromPidFile, FcloseAP,
             FclosePidFiles, ReturnClose, Return, Goto, LibraryTypeOK
    <3>2. CASE CallerCalls(c) \/ CallerExits(c)
      BY <1>1, <3>2
         DEF CallerCalls, OpenAP, CloseAP, RestartAP, Enter, CallerExits, LibraryTypeOK
    <3>3. CASE EnvironmentStep \/ UNCHANGED vars
      BY <3>3 DEF EnvironmentStep, vars, callVars
    <3>4. QED
      BY <3>1, <3>2, <3>3 DEF Next, OneCaller
  <2>2. Tried(InterfaceOf(call[c].args))
    BY <2>1 DEF AddressInv
  <2>3. call[c].args \in ApArgs
    BY <1>1, <2>1, FileOK DEF ApWritten
  <2>4. InterfaceOf(call[c].args) \in Interfaces
    BY <2>3 DEF Interfaces
  <2>5. QED
    BY <1>1, <2>1, <2>2, <2>4, StepAddressOK DEF vars, Tried
<1>4. QED
  BY <1>2, <1>3

LEMMA AddressInductive ==
  ASSUME OneCaller, AddressInv, [Next]_vars PROVE AddressInv'
<1>1. SessionInv'
  BY SessionInductive DEF AddressInv
<1>2. HostapdAddressed'
  BY StepHostapdAddressed
<1>3. \A c \in Callers : pc'[c] \in {"udhcpd", "hostapd"} =>
                            Tried(InterfaceOf(call[c].args))'
  BY StepAddressSet
<1>4. QED
  BY <1>1, <1>2, <1>3 DEF AddressInv

(* An access point comes up without an address only on an interface for    *)
(* which a command that sets one has failed (wifi.c:239-254).              *)
THEOREM ApAddressed == ASSUME OneCaller PROVE Spec => []HostapdAddressed
<1>1. Init => AddressInv
  <2>1. Init => HostapdAddressed /\ \A c \in Callers : pc[c] = "idle"
    BY ConstantsOK, PlatformAssumption
       DEF Init, PlatformInit, LibraryInit, HostapdAddressed, Free
  <2>2. QED
    BY <2>1, SessionInit DEF AddressInv
<1>2. AddressInv /\ [Next]_vars => AddressInv'
  BY AddressInductive
<1>3. AddressInv => HostapdAddressed
  BY DEF AddressInv
<1>4. QED
  BY <1>1, <1>2, <1>3, PTL DEF Spec

-----------------------------------------------------------------------------
(* wifiCloseAP returning 0: one process links the library, which may be    *)
(* killed in the middle of a call, and calls only when the daemons have    *)
(* settled.  wifiOpenAP returns while hostapd is still setting itself up.  *)

SettledNext == Next /\ ((\E c \in Callers : CallerCalls(c)) => Settled)

CloseInv ==
  /\ SessionInv
  /\ SetUpIn("hostapd", {"idle"}) /\ OwnFile("hostapd")
  /\ \A c \in Callers :
       /\ pc[c] \in ApOpenLabels => call[c].op # "wifiCloseAP"
       /\ pc[c] = "kill_1" => StreamTells(c, "hostapd")
       /\ pc[c] \in {"kill_2", "fclose"} \/ Closed0(c) => NoneUp("hostapd")

LEMMA CloseInit == Init => CloseInv
<1> SUFFICES ASSUME Init PROVE CloseInv
  OBVIOUS
<1>1. "hostapd" \in Daemons /\ \A p \in Pids : proc[p].kind # "hostapd"
  BY ConstantsOK, PlatformAssumption DEF Init, PlatformInit, Free
<1>2. \A c \in Callers : pc[c] = "idle" /\ ret[c] = "none"
  BY DEF Init, LibraryInit
<1>3. QED
  BY <1>1, <1>2, SessionInit
     DEF CloseInv, SetUpIn, SettingUp, OwnFile, Closed0, ApOpenLabels, ApWritten

LEMMA KeepsOrStarts ==
  ASSUME CloseInv, [Next]_vars
  PROVE  Keeps("hostapd") \/ \E c \in Callers : StartHostapd(c)
<1> DEFINE K == Keeps("hostapd")
<1> /\ PlatformTypeOK /\ "hostapd" \in Daemons /\ "udhcpd" \in Daemons
    /\ OwnFile("hostapd") /\ OneInstance("hostapd")
  BY IInvOK, ConstantsOK DEF CloseInv, SessionInv
<1>1. CASE UNCHANGED <<proc, pidFile>>
  BY <1>1, UnchangedKeeps
<1>2. ASSUME NEW c \in Callers, StartUdhcpd(c), ~ UNCHANGED proc PROVE K
  BY <1>2, SpawnKeeps DEF StartUdhcpd, StartDaemon
<1>3. ASSUME NEW c \in Callers, KillHostapd(c) \/ KillUdhcpd(c) PROVE K
  BY <1>3, KillKeeps DEF KillHostapd, KillUdhcpd
<1>4. ASSUME NEW c \in Callers, CallerStep(c), ~ UNCHANGED proc
      PROVE  StartUdhcpd(c) \/ StartHostapd(c) \/ KillHostapd(c) \/ KillUdhcpd(c)
  BY <1>4 DEF CallerStep, FopenHostapdConf, BuildHostapdConf, SetAddress, RejectArgs,
              FopenConfig, WriteConfig, FopenUdhcpdPid, FopenHostapdPid,
              FopenPidFile, FcloseAP, FclosePidFiles, platformVars
<1>5. ASSUME NEW c \in Callers, CallerStep(c) PROVE UNCHANGED pidFile
  BY <1>5 DEF CallerStep, FopenHostapdConf, BuildHostapdConf, SetAddress, RejectArgs,
              FopenConfig, WriteConfig, StartUdhcpd, StartHostapd, StartDaemon,
              FopenUdhcpdPid, FopenHostapdPid, FopenPidFile, KillHostapd,
              KillUdhcpd, KillFromPidFile, FcloseAP, FclosePidFiles, platformVars
<1>6. ASSUME NEW c \in Callers, CallerCalls(c) \/ CallerExits(c)
      PROVE  UNCHANGED <<proc, pidFile>>
  BY <1>6 DEF CallerCalls, OpenAP, CloseAP, RestartAP, Enter, CallerExits, platformVars
<1>7. CASE EnvironmentStep
  BY <1>7, PlatformKeeps DEF EnvironmentStep
<1>8. CASE UNCHANGED vars
  BY <1>1, <1>8 DEF vars, platformVars
<1> HIDE DEF K
<1>9. QED
  BY <1>1, <1>2, <1>3, <1>4, <1>5, <1>6, <1>7, <1>8 DEF Next, K

(* hostapd sets itself up between calls only.                              *)
LEMMA StepSetUp ==
  ASSUME OneCaller, CloseInv, [SettledNext]_vars
  PROVE  SetUpIn("hostapd", {"idle"})'
<1> LibraryTypeOK(ApLabels, Args) /\ SetUpIn("hostapd", {"idle"}) /\ [Next]_vars
  BY IInvOK DEF CloseInv, SessionInv, SettledNext
<1> USE DEF LibraryTypeOK
<1> SUFFICES ASSUME NEW p \in Pids, SettingUp(p, "hostapd")',
                    \A b \in Callers : pc'[b] # "idle"
             PROVE  FALSE
  BY DEF SetUpIn
<1>1. ASSUME NEW c \in Callers, StartHostapd(c) PROVE FALSE
  BY <1>1 DEF StartHostapd, Return
<1>2. SettingUp(p, "hostapd")
  BY <1>1, KeepsOrStarts DEF Keeps
<1>3. PICK c \in Callers : pc[c] = "idle"
  BY <1>2 DEF SetUpIn
<1>4. ~ CallerStep(c)
  BY <1>3
     DEF CallerStep, FopenHostapdConf, BuildHostapdConf, SetAddress, RejectArgs,
         FopenConfig, StartUdhcpd, StartHostapd, StartDaemon, FopenUdhcpdPid,
         FopenHostapdPid, FopenPidFile, KillHostapd, KillUdhcpd, KillFromPidFile,
         FcloseAP, FclosePidFiles
<1>5. ~ CallerCalls(c)
  <2>1. CallerCalls(c) => ~ UNCHANGED vars
    BY DEF vars, callVars, CallerCalls, OpenAP, CloseAP, RestartAP, Enter
  <2>2. ~ Settled
    BY <1>2 DEF Settled, SettingUp
  <2>3. QED
    BY <2>1, <2>2 DEF SettledNext
<1>6. ~ CallerExits(c)
  BY DEF CallerExits
<1>7. ~ EnvironmentStep /\ ~ UNCHANGED vars
  BY <1>3 DEF EnvironmentStep, vars, callVars
<1>8. QED
  BY <1>4, <1>5, <1>6, <1>7 DEF Next, OneCaller

LEMMA StepOwnFile == ASSUME CloseInv, [Next]_vars PROVE OwnFile("hostapd")'
<1>1. ASSUME NEW c \in Callers, StartHostapd(c) PROVE OwnFile("hostapd")'
  <2>1. /\ PlatformTypeOK /\ "hostapd" \in Daemons /\ UNCHANGED pidFile
        /\ OwnFile("hostapd")
    BY <1>1, IInvOK, ConstantsOK DEF CloseInv, SessionInv, StartHostapd, StartDaemon
  <2>2. CASE UNCHANGED proc
    BY <2>1, <2>2, UnchangedKeeps DEF Keeps
  <2>3. CASE ~ UNCHANGED proc
    BY <1>1, <2>1, <2>3, SpawnOwnFile DEF StartHostapd, StartDaemon
  <2>4. QED
    BY <2>2, <2>3
<1>2. QED
  BY <1>1, KeepsOrStarts DEF Keeps

LEMMA StepOps ==
  ASSUME OneCaller, CloseInv, [Next]_vars, NEW c \in Callers
  PROVE  pc'[c] \in ApOpenLabels => call'[c].op # "wifiCloseAP"
<1>1. /\ LibraryTypeOK(ApLabels, Args)
      /\ pc[c] \in ApOpenLabels => call[c].op # "wifiCloseAP"
  BY IInvOK DEF CloseInv, SessionInv
<1> USE <1>1 DEF LibraryTypeOK
<1>2. CASE CallerStep(c)
  BY <1>2 DEF CallerStep, FopenHostapdConf, BuildHostapdConf, SetAddress, RejectArgs,
              FopenConfig, StartUdhcpd, StartHostapd, StartDaemon, FopenUdhcpdPid,
              FopenHostapdPid, FopenPidFile, KillHostapd, KillUdhcpd,
              KillFromPidFile, FcloseAP, FclosePidFiles, ReturnClose, Return, Goto,
              ApOpenLabels, ApWritten, CloseLabels, Restarts
<1>3. CASE CallerCalls(c) \/ CallerExits(c)
  BY <1>3 DEF CallerCalls, OpenAP, CloseAP, RestartAP, Enter, CallerExits,
              ApOpenLabels, ApWritten
<1>4. CASE EnvironmentStep \/ UNCHANGED vars
  BY <1>4 DEF EnvironmentStep, vars, callVars
<1>5. QED
  BY <1>2, <1>3, <1>4 DEF Next, OneCaller

(* Between reading hostapd's pid file and killing it, and after.           *)
LEMMA StepTells ==
  ASSUME OneCaller, CloseInv, [Next]_vars, NEW c \in Callers
  PROVE  /\ pc'[c] = "kill_1" => StreamTells(c, "hostapd")'
         /\ pc'[c] \in {"kill_2", "fclose"} \/ Closed0(c)' => NoneUp("hostapd")'
<1> DEFINE Tells == pc'[c] = "kill_1" => StreamTells(c, "hostapd")'
           Downs == pc'[c] \in {"kill_2", "fclose"} \/ Closed0(c)' => NoneUp("hostapd")'
<1>1. /\ LibraryTypeOK(ApLabels, Args) /\ PlatformTypeOK
      /\ StreamsOf(c, "udhcpd", "hostapd", "hostapd", ApWritten)
      /\ "hostapd" \in Daemons /\ "udhcpd" \in Daemons
      /\ OneInstance("hostapd") /\ OwnFile("hostapd") /\ SetUpIn("hostapd", {"idle"})
      /\ pc[c] = "kill_1" => StreamTells(c, "hostapd")
      /\ pc[c] \in {"kill_2", "fclose"} \/ Closed0(c) => NoneUp("hostapd")
      /\ ret[c] # "none" => pc[c] = "idle"
  BY IInvOK, ConstantsOK DEF CloseInv, SessionInv, IInv, StreamInv, StreamsOf
<1> USE <1>1 DEF LibraryTypeOK, PlatformTypeOK
<1>2. ASSUME pc'[c] \notin {"kill_1", "kill_2", "fclose"}, ~ Closed0(c)'
      PROVE  Tells /\ Downs
  BY <1>2
<1>3. CASE FopenHostapdPid(c)
  <2>1. stream[c]["hostapd"].pid = NoPid
    BY <1>3 DEF FopenHostapdPid, FopenPidFile, StreamsOf, Held
  <2>2. \A p \in Pids : ~ SettingUp(p, "hostapd")
    BY <1>3 DEF FopenHostapdPid, FopenPidFile, SetUpIn, OneCaller
  <2>3. StreamTells(c, "hostapd")'
    BY <1>3, <2>1, <2>2, FopenTells DEF FopenHostapdPid
  <2>4. pc'[c] = "kill_1" /\ ~ Closed0(c)'
    BY <1>3 DEF FopenHostapdPid, FopenPidFile, Goto, Closed0
  <2>5. QED
    BY <2>3, <2>4
<1>4. CASE KillHostapd(c)
  <2>1. CASE stream[c]["hostapd"].pid # NoPid
    <3>1. NoneUp("hostapd")' /\ pc'[c] = "kill_2"
      BY <1>4, <2>1, KillDowns DEF KillHostapd, KillFromPidFile, Goto
    <3>2. QED
      BY <3>1
  <2>2. CASE stream[c]["hostapd"].pid = NoPid
    BY <1>2, <1>4, <2>2
       DEF KillHostapd, KillFromPidFile, ReturnClose, Return, Goto, Closed0
  <2>3. QED
    BY <2>1, <2>2
<1>5. CASE KillUdhcpd(c)
  <2>1. Keeps("hostapd") /\ NoneUp("hostapd")
    BY <1>5, KillKeeps DEF KillUdhcpd, KillFromPidFile
  <2>2. pc'[c] \in {"idle", "fopen", "fclose"}
    BY <1>5 DEF KillUdhcpd, KillFromPidFile, ReturnClose, Return, Goto
  <2>3. QED
    BY <2>1, <2>2 DEF Keeps
<1>6. CASE FcloseAP(c)
  <2>1. NoneUp("hostapd")'
    BY <1>6 DEF FcloseAP, FclosePidFiles, NoneUp, Up
  <2>2. pc'[c] \in {"idle", "fopen"}
    BY <1>6 DEF FcloseAP, FclosePidFiles, ReturnClose, Return, Goto
  <2>3. QED
    BY <2>1, <2>2
<1>7. CASE CallerStep(c) /\ pc[c] \notin CloseLabels
  <2>1. /\ pc[c] \in ApOpenLabels /\ call'[c].op = call[c].op
        /\ pc'[c] \in {"idle"} \cup ApOpenLabels
    BY <1>7 DEF CallerStep, FopenHostapdConf, BuildHostapdConf, SetAddress,
                RejectArgs, FopenConfig, StartUdhcpd, StartHostapd, StartDaemon,
                FopenUdhcpdPid, FopenHostapdPid, FopenPidFile, KillHostapd,
                KillUdhcpd, KillFromPidFile, FcloseAP, FclosePidFiles, Return, Goto,
                ApOpenLabels, ApWritten, CloseLabels
  <2>2. QED
    BY <1>2, <2>1 DEF CloseInv, Closed0, ApOpenLabels, ApWritten
<1>8. CASE FopenUdhcpdPid(c)
  BY <1>2, <1>8 DEF FopenUdhcpdPid, FopenPidFile, Goto, Closed0
<1>9. ASSUME CallerStep(c), pc[c] \in CloseLabels
      PROVE  \/ FopenUdhcpdPid(c) \/ FopenHostapdPid(c) \/ KillHostapd(c)
             \/ KillUdhcpd(c) \/ FcloseAP(c)
  BY <1>9 DEF CallerStep, FopenHostapdConf, BuildHostapdConf, SetAddress, RejectArgs,
              FopenConfig, StartUdhcpd, StartHostapd, StartDaemon, CloseLabels
<1>10. CASE CallerCalls(c) \/ CallerExits(c)
  BY <1>2, <1>10 DEF CallerCalls, OpenAP, CloseAP, RestartAP, Enter, CallerExits,
                     Closed0
<1>11. CASE EnvironmentStep
  BY <1>11, PlatformKeeps DEF EnvironmentStep, callVars, Keeps, Closed0
<1>12. CASE UNCHANGED vars
  BY <1>12, UnchangedKeeps DEF vars, platformVars, callVars, Keeps, Closed0
<1>13. \/ CallerStep(c) \/ CallerCalls(c) \/ CallerExits(c) \/ EnvironmentStep
       \/ UNCHANGED vars
  BY Zenon DEF Next, OneCaller
<1>14. CASE CallerStep(c) /\ pc[c] \in CloseLabels
  BY <1>3, <1>4, <1>5, <1>6, <1>8, <1>9, <1>14
<1>15. QED
  BY <1>7, <1>10, <1>11, <1>12, <1>13, <1>14

(* A wifiCloseAP that returns 0 has told hostapd to stop, whatever calls   *)
(* came before it, whatever daemons crashed and wherever the application   *)
(* was killed (wifi.c:304-333).                                            *)
THEOREM ApCloseDowns == ASSUME OneCaller PROVE SettledSpec => []CloseDownsAP
<1>1. CloseInv /\ [SettledNext]_vars => CloseInv'
  <2>1. [SettledNext]_vars => [Next]_vars
    BY DEF SettledNext
  <2>2. QED
    BY <2>1, SessionInductive, StepSetUp, StepOwnFile, StepOps, StepTells DEF CloseInv
<1>2. CloseInv => CloseDownsAP
  BY DEF CloseInv, CloseDownsAP, NoneUp
<1>3. SettledSpec => Init /\ [][SettledNext]_vars
  BY DEF SettledSpec, SettledNext
<1>4. QED
  BY CloseInit, <1>1, <1>2, <1>3, PTL

=============================================================================
