--------------------------- MODULE StaModeProofs ----------------------------
(***************************************************************************)
(* Station mode keeps its types, never loses track of a stream, and only   *)
(* signals a process that is not its own after a crash, for any number of  *)
(* callers, processes and streams.                                         *)
(***************************************************************************)
EXTENDS StaMode, LibraryProofs

IInv == TypeOK /\ PidInv /\ StreamInv

Args == StaArgs \cup {NoArgs}
StaStreamsOf(c) == StreamsOf(c, "udhcpc", "wpa_supplicant", "udhcpc", StaWritten)

(* What the steps of a call write, read and go to.                         *)
LEMMA ConstantsOK ==
  /\ NoArgs \in Args
  /\ \A a \in StaArgs : ValidSTA(a) => WpaConf(a) \in Contents
  /\ NoFile \in Contents /\ "wpa_supplicant" \in Exclusive
  /\ {"wpa_supplicant", "udhcpc"} \subseteq Daemons
BY StaAssumption DEF Contents, Args

LEMMA LabelsOK ==
  /\ {"idle", "fopen", "build"} \subseteq StaLabels
  /\ StaWritten \subseteq StaLabels /\ CloseLabels \subseteq StaLabels
BY DEF StaLabels, StaOpenLabels

LEMMA StaIsMode == Mode("udhcpc", "wpa_supplicant", "udhcpc", StaWritten)
BY StaAssumption DEF Mode, StaWritten, CloseLabels

LEMMA IInvOK ==
  ASSUME IInv
  PROVE  /\ PlatformOK /\ PlatformTypeOK /\ LibraryTypeOK(StaLabels, Args)
         /\ StreamTypes /\ \A c \in Callers : StaStreamsOf(c)
BY DEF IInv, TypeOK, PlatformOK, StreamTypes, StreamInv, StaStreamsOf, Args

LEMMA InitOK == Init => IInv
<1> SUFFICES ASSUME Init PROVE IInv
  OBVIOUS
<1>1. PlatformOK
  BY PlatformInitOK DEF Init
<1>2. LibraryTypeOK(StaLabels, StaArgs \cup {NoArgs})
  BY LibraryAssumption
     DEF Init, LibraryInit, LibraryTypeOK, StaLabels, Ops, Contents
<1>3. StreamInv
  BY StaAssumption
     DEF Init, LibraryInit, PlatformInit, StreamInv, StreamsOf, Held, Closed,
         CloseLabels, StaWritten
<1>4. QED
  BY <1>1, <1>2, <1>3 DEF IInv, TypeOK, PlatformOK

-----------------------------------------------------------------------------
(* What the daemons' files and processes are after a step.                 *)
LEMMA StepPlatformOK ==
  ASSUME IInv, Next PROVE PlatformOK'
<1> PlatformOK /\ PlatformTypeOK /\ LibraryTypeOK(StaLabels, Args)
  BY IInvOK
<1>1. ASSUME NEW c \in Callers, CallerStep(c) PROVE PlatformOK'
  <2>1. CASE FopenWpaConf(c) \/ BuildWpaConf(c)
    BY <2>1, PlatformUnchangedOK DEF FopenWpaConf, FopenConfig, BuildWpaConf, RejectArgs
  <2>2. CASE StartSupplicant(c)
    <3>1. conf["wpa_supplicant"] \in Contents
      BY ConstantsOK DEF LibraryTypeOK
    <3>2. QED
      BY <2>2, <3>1, StartDaemonOK, ConstantsOK DEF StartSupplicant
  <2>3. CASE StartUdhcpc(c)
    <3>1. CASE UNCHANGED <<proc, waiting>>
      BY <2>3, <3>1, PlatformUnchangedOK DEF StartUdhcpc, platformVars
    <3>2. CASE \E p \in Pids : /\ Spawn("udhcpc", p, NoFile)
                               /\ waiting' = [waiting EXCEPT ![c] = p]
      BY <2>3, <3>2, SpawnOK, ConstantsOK DEF StartUdhcpc, PlatformTypeOK
    <3>3. QED
      BY <2>3, <3>1, <3>2 DEF StartUdhcpc
  <2>4. CASE UdhcpcReturns(c) \/ SleepSTA(c)
    BY <2>4, PlatformUnchangedOK DEF UdhcpcReturns, SleepSTA
  <2>5. CASE FopenUdhcpcPid(c) \/ FopenWpaPid(c)
    BY <2>5, FopenPidFileOK, ConstantsOK DEF FopenUdhcpcPid, FopenWpaPid
  <2>6. CASE KillUdhcpc(c) \/ KillWpa(c)
    BY <2>6, KillFromPidFileOK, ConstantsOK DEF KillUdhcpc, KillWpa
  <2>7. CASE FcloseSTA(c)
    BY <2>7, FclosePidFilesOK DEF FcloseSTA
  <2>8. QED
    BY <1>1, <2>1, <2>2, <2>3, <2>4, <2>5, <2>6, <2>7 DEF CallerStep
<1>2. ASSUME NEW c \in Callers, CallerCalls(c) PROVE PlatformOK'
  BY <1>2, PlatformUnchangedOK DEF CallerCalls, OpenSTA, CloseSTA, RestartSTA, Enter
<1>3. ASSUME NEW c \in Callers, Lease(c) PROVE PlatformOK'
  BY <1>3 DEF Lease, PlatformOK, PlatformTypeOK, PidInv, ProcessesKnown,
              PidFilesTrue, StreamsCoherent, StrayNeedsCrash
<1>4. QED
  BY <1>1, <1>2, <1>3, CallerExitsOK, PlatformNextOK DEF Next, EnvironmentStep

-----------------------------------------------------------------------------
(* What the callers' state is; StaStreamsOf bounds fds from below.         *)
LEMMA StepTypeOK ==
  ASSUME IInv, Next PROVE LibraryTypeOK(StaLabels, Args)'
<1> DEFINE Typed == LibraryTypeOK(StaLabels, Args)
<1>1. /\ Typed /\ StreamTypes /\ \A c \in Callers : StaStreamsOf(c)
      /\ fds \in [Callers -> 0..MaxFds] /\ conf \in [Exclusive -> Contents]
  BY IInvOK DEF LibraryTypeOK
<1>2. ASSUME UNCHANGED <<callVars, conf>> PROVE Typed'
  BY <1>1, <1>2 DEF LibraryTypeOK, callVars
<1>3. ASSUME NEW c \in Callers, CallerStep(c) PROVE Typed'
  <2> USE <1>1, LabelsOK, ConstantsOK
  <2>1. CASE FopenWpaConf(c)
    BY <2>1, FopenConfigTypeOK DEF FopenWpaConf
  <2>2. CASE BuildWpaConf(c)
    <3>1. CASE ~ ValidSTA(call[c].args)
      BY <2>2, <3>1, RejectArgsTypeOK DEF BuildWpaConf
    <3>2. CASE ValidSTA(call[c].args)
      <4>1. /\ WriteConfig(c, "wpa_supplicant", WpaConf(call[c].args))
            /\ Goto(c, "wpa")
        BY <2>2, <3>2 DEF BuildWpaConf
      <4>2. call[c].args # NoArgs /\ fds[c] >= 1
        BY <2>2, OpenStreams DEF BuildWpaConf, StaStreamsOf
      <4>3. call[c].args \in StaArgs
        BY <4>2 DEF LibraryTypeOK, Args
      <4>4. fds' \in [Callers -> 0..MaxFds] /\ conf' \in [Exclusive -> Contents]
        BY <3>2, <4>1, <4>2, <4>3, WriteConfigTypeOK
      <4>5. QED
        BY <4>1, <4>4, GotoTypeOK DEF StaWritten
    <3>3. QED
      BY <3>1, <3>2
  <2>3. CASE StartSupplicant(c) \/ StartUdhcpc(c) \/ UdhcpcReturns(c)
    <3>1. \E to \in StaLabels : Goto(c, to) /\ UNCHANGED <<fds, conf>>
      BY <2>3 DEF StartSupplicant, StartDaemon, StartUdhcpc, UdhcpcReturns, StaWritten
    <3>2. QED
      BY <3>1, GotoTypeOK
  <2>4. CASE SleepSTA(c)
    BY <2>4, ReturnTypeOK DEF SleepSTA
  <2>5. CASE FopenUdhcpcPid(c) \/ FopenWpaPid(c)
    BY <2>5, FopenPidFileTypeOK DEF FopenUdhcpcPid, FopenWpaPid, CloseLabels
  <2>6. CASE KillUdhcpc(c) \/ KillWpa(c)
    BY <2>6, KillFromPidFileTypeOK DEF KillUdhcpc, KillWpa, CloseLabels
  <2>7. CASE FcloseSTA(c)
    <3>1. fds[c] >= 2
      BY <2>7, OpenStreams DEF FcloseSTA, FclosePidFiles, StaStreamsOf
    <3>2. QED
      BY <2>7, <3>1, FclosePidFilesTypeOK DEF FcloseSTA
  <2>8. QED
    BY <1>3, <2>1, <2>2, <2>3, <2>4, <2>5, <2>6, <2>7 DEF CallerStep
<1>4. ASSUME NEW c \in Callers, CallerCalls(c) PROVE Typed'
  <2>1. \E op \in Ops, args \in Args, to \in StaLabels : Enter(c, op, args, to)
    BY <1>4, ConstantsOK, LabelsOK
       DEF CallerCalls, OpenSTA, CloseSTA, RestartSTA, Args, Ops, Closes, Restarts,
           CloseLabels
  <2>2. QED
    BY <1>1, <2>1, EnterTypeOK
<1>5. ASSUME NEW c \in Callers, CallerExits(c) PROVE Typed'
  BY <1>1, <1>5, CallerExitsTypeOK, LabelsOK
<1>6. QED
  BY <1>2, <1>3, <1>4, <1>5 DEF Next, Lease, EnvironmentStep

-----------------------------------------------------------------------------
(* The streams of the caller that takes a step, and of the others.         *)
LEMMA CallerStepStreams ==
  ASSUME IInv, NEW c \in Callers,
         CallerStep(c) \/ CallerCalls(c) \/ CallerExits(c)
  PROVE  StaStreamsOf(c)'
<1> USE StaIsMode DEF StaStreamsOf
<1>1. StaStreamsOf(c) /\ StreamTypes
  BY IInvOK
<1>2. CASE FopenWpaConf(c)
  BY <1>1, <1>2, FopenConfigStreams DEF FopenWpaConf
<1>3. CASE BuildWpaConf(c)
  BY <1>1, <1>3, RejectArgsStreams, WriteConfigStreams DEF BuildWpaConf, StaWritten
<1>4. CASE StartSupplicant(c) \/ StartUdhcpc(c) \/ UdhcpcReturns(c)
  <2>1. /\ pc[c] \in StaWritten /\ UNCHANGED <<fds, stream>>
        /\ \E to \in StaWritten : Goto(c, to)
    BY <1>4 DEF StartSupplicant, StartDaemon, StartUdhcpc, UdhcpcReturns, StaWritten,
                platformVars
  <2>2. QED
    BY <1>1, <2>1, CommandStreams
<1>5. CASE SleepSTA(c)
  <2>1. pc[c] \in StaWritten /\ UNCHANGED <<fds, stream>> /\ Return(c, "ok")
    BY <1>5 DEF SleepSTA, StaWritten, platformVars
  <2>2. QED
    BY <1>1, <2>1, CommandStreams
<1>6. CASE FopenUdhcpcPid(c)
  BY <1>1, <1>6, FopenFirstStreams DEF FopenUdhcpcPid
<1>7. CASE FopenWpaPid(c)
  BY <1>1, <1>7, FopenSecondStreams DEF FopenWpaPid
<1>8. CASE KillUdhcpc(c)
  BY <1>1, <1>8, KillStreams DEF KillUdhcpc
<1>9. CASE KillWpa(c)
  BY <1>1, <1>9, KillStreams DEF KillWpa
<1>10. CASE FcloseSTA(c)
  BY <1>1, <1>10, FcloseStreams DEF FcloseSTA
<1>11. CASE CallerCalls(c)
  BY <1>1, <1>11, EnterStreams
     DEF CallerCalls, OpenSTA, CloseSTA, RestartSTA, Closes, Restarts
<1>12. CASE CallerExits(c)
  BY <1>1, <1>12, CallerExitsStreams
<1>13. QED
  BY <1>2, <1>3, <1>4, <1>5, <1>6, <1>7, <1>8, <1>9, <1>10, <1>11, <1>12 DEF CallerStep

LEMMA OtherCallersStreams ==
  ASSUME IInv, NEW c \in Callers,
         CallerStep(c) \/ CallerCalls(c) \/ CallerExits(c), NEW b \in Callers \ {c}
  PROVE  StaStreamsOf(b)'
<1>1. StaStreamsOf(b) /\ PlatformTypeOK /\ LibraryTypeOK(StaLabels, Args)
  BY IInvOK
<1>2. /\ pc'[b] = pc[b] /\ call'[b] = call[b] /\ ret'[b] = ret[b]
      /\ fds'[b] = fds[b] /\ stream'[b] = stream[b]
  <2> USE <1>1 DEF PlatformTypeOK, LibraryTypeOK
  <2>1. CASE FopenWpaConf(c) \/ BuildWpaConf(c)
    BY <2>1 DEF FopenWpaConf, BuildWpaConf, RejectArgs, FopenConfig, WriteConfig,
                Return, Goto, platformVars
  <2>2. CASE StartSupplicant(c) \/ StartUdhcpc(c) \/ UdhcpcReturns(c) \/ SleepSTA(c)
    BY <2>2 DEF StartSupplicant, StartDaemon, StartUdhcpc, UdhcpcReturns, SleepSTA,
                Return, Goto, platformVars
  <2>3. CASE FopenUdhcpcPid(c) \/ FopenWpaPid(c)
    BY <2>3 DEF FopenUdhcpcPid, FopenWpaPid, FopenPidFile, Goto
  <2>4. CASE KillUdhcpc(c) \/ KillWpa(c) \/ FcloseSTA(c)
    BY <2>4 DEF KillUdhcpc, KillWpa, KillFromPidFile, FcloseSTA, FclosePidFiles,
                ReturnClose, ForgetStreams, Return, Goto
  <2>5. CASE CallerCalls(c)
    BY <2>5 DEF CallerCalls, OpenSTA, CloseSTA, RestartSTA, Enter, platformVars
  <2>6. CASE CallerExits(c)
    BY <2>6 DEF CallerExits, ForgetStreams
  <2>7. QED
    BY <2>1, <2>2, <2>3, <2>4, <2>5, <2>6 DEF CallerStep
<1>3. QED
  BY <1>1, <1>2, StreamsFrame DEF Held, StaStreamsOf

LEMMA StepStreams ==
  ASSUME IInv, Next PROVE StreamInv'
<1>1. ASSUME NEW c \in Callers, CallerStep(c) \/ CallerCalls(c) \/ CallerExits(c)
      PROVE  StreamInv'
  BY <1>1, CallerStepStreams, OtherCallersStreams DEF StreamInv, StaStreamsOf
<1>2. ASSUME NEW b \in Callers, \/ \E c \in Callers : Lease(c)
                                \/ EnvironmentStep
      PROVE  StaStreamsOf(b)'
  <2>1. StaStreamsOf(b) /\ PlatformOK
    BY IInvOK
  <2>2. \A d \in {"udhcpc", "wpa_supplicant"} : Held(b, d)' = Held(b, d)
    <3>1. CASE EnvironmentStep
      BY <2>1, <3>1, PlatformHeld, ConstantsOK DEF EnvironmentStep
    <3>2. CASE \E c \in Callers : Lease(c)
      BY <3>2 DEF Lease, Held
    <3>3. QED
      BY <1>2, <3>1, <3>2
  <2>3. QED
    BY <1>2, <2>1, <2>2, StreamsFrame DEF EnvironmentStep, Lease, callVars, StaStreamsOf
<1>3. QED
  BY <1>1, <1>2 DEF Next, StreamInv, StaStreamsOf

-----------------------------------------------------------------------------
LEMMA Inductive == IInv /\ [Next]_vars => IInv'
<1> SUFFICES ASSUME IInv, [Next]_vars PROVE IInv'
  OBVIOUS
<1>1. CASE Next
  BY <1>1, StepPlatformOK, StepTypeOK, StepStreams DEF IInv, TypeOK, PlatformOK, Args
<1>2. CASE UNCHANGED vars
  <2>1. PlatformOK'
    BY <1>2, IInvOK, PlatformUnchangedOK DEF vars
  <2>2. LibraryTypeOK(StaLabels, StaArgs \cup {NoArgs})'
    BY <1>2 DEF IInv, TypeOK, LibraryTypeOK, vars, callVars
  <2>3. StreamInv'
    BY <1>2, StreamsFrame DEF IInv, StreamInv, Held, vars, callVars, platformVars
  <2>4. QED
    BY <2>1, <2>2, <2>3 DEF IInv, TypeOK, PlatformOK
<1>3. QED
  BY <1>1, <1>2

LEMMA Invariance == Spec => []IInv
BY InitOK, Inductive, PTL DEF Spec

(* The state of station mode has its types whatever the calls, the daemons *)
(* and the faults; in particular no call closes more streams than it has   *)
(* opened (wifi.c:66, 293-294).                                            *)
THEOREM StaTypes == Spec => []TypeOK
<1>1. IInv => TypeOK
  BY DEF IInv
<1>2. QED
  BY Invariance, <1>1, PTL

(* Pid files, streams and processes agree (PidInv), and a process that is  *)
(* not the daemon meant is only signalled after that daemon has crashed,   *)
(* in every interleaving of callers and daemons (wifi.c:263-294).        *)
THEOREM StaSignals == Spec => []PidInv
<1>1. IInv => PidInv
  BY DEF IInv
<1>2. QED
  BY Invariance, <1>1, PTL

(* A call of wifiOpenSTA or wifiCloseSTA loses at most one stream, and     *)
(* only when it returns -1; wifiRestartSTA at most one in each half.       *)
THEOREM StaStreams == Spec => []StreamAccounting
<1>1. IInv => StreamAccounting
  BY IInvOK, StreamsAccounted DEF StaStreamsOf
<1>2. QED
  BY Invariance, <1>1, PTL

-----------------------------------------------------------------------------
(* Station mode implements Service when one process links the library: a   *)
(* supplicant only runs on what a call with valid arguments asked for, two *)
(* never run at once, and a running one is never reconfigured.             *)

OneCaller == \A b, c \in Callers : b = c

SessionInv ==
  IInv /\ OneInstance("wpa_supplicant") /\ ConfInv /\ SupplicantConfigured

(* The step at which wifiOpenSTA starts the supplicant.                    *)
Started(c) ==
  /\ pc[c] = "wpa"
  /\ \E p \in Pids : Spawn("wpa_supplicant", p, conf["wpa_supplicant"])

LEMMA StartOrNot ==
  ASSUME IInv, [Next]_vars
  PROVE  NoneStarted("wpa_supplicant") \/ \E c \in Callers : Started(c)
<1> DEFINE None == NoneStarted("wpa_supplicant")
<1> PlatformTypeOK /\ "wpa_supplicant" \in Daemons /\ "udhcpc" \in Daemons
  BY IInvOK, ConstantsOK
<1>1. CASE UNCHANGED proc
  BY <1>1, UnchangedStartsNone
<1>2. ASSUME NEW c \in Callers, StartUdhcpc(c), ~ UNCHANGED proc PROVE None
  BY <1>2, SpawnStartsNone DEF StartUdhcpc
<1>3. ASSUME NEW c \in Callers, StartSupplicant(c), ~ UNCHANGED proc PROVE Started(c)
  BY <1>3 DEF StartSupplicant, StartDaemon, Started
<1>4. ASSUME NEW c \in Callers, KillUdhcpc(c) \/ KillWpa(c) PROVE None
  BY <1>4, KillStartsNone DEF KillUdhcpc, KillWpa
<1>5. ASSUME NEW c \in Callers, CallerStep(c), ~ UNCHANGED proc
      PROVE  StartUdhcpc(c) \/ StartSupplicant(c) \/ KillUdhcpc(c) \/ KillWpa(c)
  BY <1>5 DEF CallerStep, FopenWpaConf, BuildWpaConf, RejectArgs, FopenConfig,
              WriteConfig, UdhcpcReturns, SleepSTA, FopenUdhcpcPid, FopenWpaPid,
              FopenPidFile, FcloseSTA, FclosePidFiles, platformVars
<1>6. ASSUME NEW c \in Callers, CallerCalls(c) \/ CallerExits(c) \/ Lease(c)
      PROVE  UNCHANGED proc
  BY <1>6 DEF CallerCalls, OpenSTA, CloseSTA, RestartSTA, Enter, CallerExits, Lease,
              platformVars
<1>7. CASE EnvironmentStep
  BY <1>7, PlatformStartsNone DEF EnvironmentStep
<1>8. CASE UNCHANGED vars
  BY <1>1, <1>8 DEF vars, platformVars
<1> HIDE DEF None
<1>9. QED
  BY <1>1, <1>2, <1>3, <1>4, <1>5, <1>6, <1>7, <1>8 DEF Next, None

(* The configuration file under a single caller.                           *)
LEMMA StepConf ==
  ASSUME OneCaller, SessionInv, [Next]_vars PROVE ConfInv'
<1> DEFINE file == conf["wpa_supplicant"]
<1>1. "wpa_supplicant" \in Exclusive /\ LibraryTypeOK(StaLabels, Args)
  BY ConstantsOK, IInvOK DEF SessionInv
<1> USE <1>1 DEF LibraryTypeOK
<1>2. SUFFICES ASSUME NEW c \in Callers
               PROVE  /\ pc'[c] = "build" => file' = Empty
                      /\ pc'[c] = "wpa" => file' \in Networks
  BY DEF ConfInv
<1>3. /\ pc[c] = "build" => file = Empty /\ call[c].args \in StaArgs
      /\ pc[c] = "wpa" => file \in Networks
  BY IInvOK DEF SessionInv, ConfInv, StaStreamsOf, StreamsOf, Args
<1>4. ASSUME pc'[c] = pc[c], UNCHANGED conf
      PROVE  /\ pc'[c] = "build" => file' = Empty
             /\ pc'[c] = "wpa" => file' \in Networks
  BY <1>3, <1>4
<1>5. ASSUME pc'[c] \notin {"build", "wpa"}
      PROVE  /\ pc'[c] = "build" => file' = Empty
             /\ pc'[c] = "wpa" => file' \in Networks
  BY <1>5
<1>6. CASE FopenWpaConf(c)
  BY <1>6 DEF FopenWpaConf, RejectArgs, FopenConfig, Return, Goto
<1>7. CASE BuildWpaConf(c)
  BY <1>3, <1>7 DEF BuildWpaConf, RejectArgs, WriteConfig, Return, Goto, Networks
<1>8. CASE CallerStep(c) /\ ~ FopenWpaConf(c) /\ ~ BuildWpaConf(c)
  <2>1. pc'[c] \in {"udhcpc", "lease", "sleep", "idle", "fopen"} \cup CloseLabels
    BY <1>8 DEF CallerStep, StartSupplicant, StartDaemon, StartUdhcpc,
                UdhcpcReturns, SleepSTA, FopenUdhcpcPid, FopenWpaPid, FopenPidFile,
                KillUdhcpc, KillWpa, KillFromPidFile, FcloseSTA, FclosePidFiles,
                ReturnClose, Return, Goto, CloseLabels
  <2>2. QED
    BY <1>5, <2>1 DEF CloseLabels
<1>9. CASE CallerCalls(c) \/ CallerExits(c)
  BY <1>5, <1>9 DEF CallerCalls, OpenSTA, CloseSTA, RestartSTA, Enter, CallerExits
<1>10. CASE Lease(c) \/ EnvironmentStep \/ UNCHANGED vars
  BY <1>4, <1>10 DEF Lease, EnvironmentStep, vars, callVars
<1>11. QED
  BY <1>6, <1>7, <1>8, <1>9, <1>10 DEF Next, OneCaller

(* A start takes no sessions to one; any other step keeps them or ends     *)
(* them.                                                                   *)
LEMMA StartStep ==
  ASSUME SessionInv, NEW c \in Callers, Started(c)
  PROVE  /\ OneInstance("wpa_supplicant")' /\ SupplicantConfigured'
         /\ S!Connect
<1>1. PICK p \in Pids : Spawn("wpa_supplicant", p, conf["wpa_supplicant"])
  BY DEF Started
<1>2. /\ "wpa_supplicant" \in Exclusive /\ PlatformTypeOK
      /\ conf["wpa_supplicant"] \in Networks
      /\ Configured("wpa_supplicant", Networks)
  BY ConstantsOK, IInvOK DEF SessionInv, ConfInv, Started, SupplicantConfigured
<1>3. /\ OneInstance("wpa_supplicant")' /\ Configured("wpa_supplicant", Networks)'
      /\ Sessions = {}
      /\ Sessions' = {[id |-> p, network |-> conf["wpa_supplicant"]]}
  BY <1>1, <1>2, StartedOK DEF Sessions
<1>4. QED
  BY <1>2, <1>3 DEF SupplicantConfigured, S!Connect

LEMMA OtherStep ==
  ASSUME SessionInv, NoneStarted("wpa_supplicant")
  PROVE  /\ OneInstance("wpa_supplicant")' /\ SupplicantConfigured'
         /\ Sessions' = Sessions \/ S!Disconnect
BY NoneStartedOK DEF SessionInv, SupplicantConfigured, Sessions, S!Disconnect

LEMMA SessionInductive ==
  ASSUME OneCaller, SessionInv, [Next]_vars
  PROVE  SessionInv' /\ [S!Connect \/ S!Disconnect]_Sessions
<1>1. IInv' /\ ConfInv'
  BY Inductive, StepConf DEF SessionInv
<1>2. CASE NoneStarted("wpa_supplicant")
  BY <1>1, <1>2, OtherStep DEF SessionInv
<1>3. ASSUME NEW c \in Callers, Started(c)
      PROVE  SessionInv' /\ [S!Connect \/ S!Disconnect]_Sessions
  BY <1>1, <1>3, StartStep DEF SessionInv
<1>4. QED
  BY <1>2, <1>3, StartOrNot DEF SessionInv

LEMMA SessionInit == Init => SessionInv /\ S!Init
<1> SUFFICES ASSUME Init PROVE SessionInv /\ S!Init
  OBVIOUS
<1>1. IInv
  BY InitOK
<1>2. OneInstance("wpa_supplicant") /\ SupplicantConfigured /\ S!Init
  BY NoInstances, ConstantsOK DEF Init, SupplicantConfigured, S!Init, Sessions
<1>3. ConfInv
  BY DEF Init, LibraryInit, ConfInv
<1>4. QED
  BY <1>1, <1>2, <1>3 DEF SessionInv

(* A supplicant only ever runs on a configuration that a call with valid   *)
(* arguments wrote in full (wifi.c:20-66).                                 *)
THEOREM StaConfigured == ASSUME OneCaller PROVE Spec => []SupplicantConfigured
<1>1. SessionInv => SupplicantConfigured
  BY DEF SessionInv
<1>2. SessionInv /\ [Next]_vars => SessionInv'
  BY SessionInductive
<1>3. QED
  BY SessionInit, <1>1, <1>2, PTL DEF Spec

(* Station mode implements Service: one network at a time, unchanged while *)
(* it is served, ended before the next (wifi.c:12-77, 259-299, 343-347).   *)
THEOREM StaImplementsService == ASSUME OneCaller PROVE Spec => ServiceSpec
<1>1. SessionInv /\ [Next]_vars => SessionInv' /\ [S!Connect \/ S!Disconnect]_Sessions
  BY SessionInductive
<1>2. QED
  BY SessionInit, <1>1, PTL DEF Spec, ServiceSpec, S!Spec

-----------------------------------------------------------------------------
(* wifiCloseSTA returning 0: one process links the library and is not      *)
(* killed in the middle of a call.  By the time it closes, the supplicant  *)
(* it started has set itself up: wifiOpenSTA sleeps before it returns.     *)

BeforeSlept == {"udhcpc", "lease", "sleep"}

CloseInv ==
  /\ SessionInv
  /\ SetUpIn("wpa_supplicant", BeforeSlept) /\ OwnFile("wpa_supplicant")
  /\ \A c \in Callers :
       /\ pc[c] \in StaOpenLabels => call[c].op # "wifiCloseSTA"
       /\ pc[c] \in {"kill_1", "kill_2"} => StreamTells(c, "wpa_supplicant")
       /\ pc[c] = "fclose" \/ Closed0(c) => NoneUp("wpa_supplicant")

LEMMA CloseInit == Init => CloseInv
<1> SUFFICES ASSUME Init PROVE CloseInv
  OBVIOUS
<1>1. "wpa_supplicant" \in Daemons /\ \A p \in Pids : proc[p].kind # "wpa_supplicant"
  BY ConstantsOK, PlatformAssumption DEF Init, PlatformInit, Free
<1>2. \A c \in Callers : pc[c] = "idle" /\ ret[c] = "none"
  BY DEF Init, LibraryInit
<1>3. QED
  BY <1>1, <1>2, SessionInit
     DEF CloseInv, SetUpIn, SettingUp, OwnFile, Closed0, StaOpenLabels, StaWritten

LEMMA KeepsOrStarts ==
  ASSUME CloseInv, [Next]_vars
  PROVE  Keeps("wpa_supplicant") \/ \E c \in Callers : StartSupplicant(c)
<1> DEFINE K == Keeps("wpa_supplicant")
<1> /\ PlatformTypeOK /\ "wpa_supplicant" \in Daemons /\ "udhcpc" \in Daemons
    /\ OwnFile("wpa_supplicant") /\ OneInstance("wpa_supplicant")
  BY IInvOK, ConstantsOK DEF CloseInv, SessionInv
<1>1. CASE UNCHANGED <<proc, pidFile>>
  BY <1>1, UnchangedKeeps
<1>2. ASSUME NEW c \in Callers, StartUdhcpc(c), ~ UNCHANGED proc PROVE K
  BY <1>2, SpawnKeeps DEF StartUdhcpc
<1>3. ASSUME NEW c \in Callers, KillUdhcpc(c) \/ KillWpa(c) PROVE K
  BY <1>3, KillKeeps DEF KillUdhcpc, KillWpa
<1>4. ASSUME NEW c \in Callers, CallerStep(c), ~ UNCHANGED proc
      PROVE  StartUdhcpc(c) \/ StartSupplicant(c) \/ KillUdhcpc(c) \/ KillWpa(c)
  BY <1>4 DEF CallerStep, FopenWpaConf, BuildWpaConf, RejectArgs, FopenConfig,
              WriteConfig, UdhcpcReturns, SleepSTA, FopenUdhcpcPid, FopenWpaPid,
              FopenPidFile, FcloseSTA, FclosePidFiles, platformVars
<1>5. ASSUME NEW c \in Callers, CallerStep(c) PROVE UNCHANGED pidFile
  BY <1>5 DEF CallerStep, FopenWpaConf, BuildWpaConf, RejectArgs, FopenConfig,
              WriteConfig, StartSupplicant, StartDaemon, StartUdhcpc,
              UdhcpcReturns, SleepSTA, FopenUdhcpcPid, FopenWpaPid, FopenPidFile,
              KillUdhcpc, KillWpa, KillFromPidFile, FcloseSTA, FclosePidFiles,
              platformVars
<1>6. ASSUME NEW c \in Callers, CallerCalls(c) \/ CallerExits(c) \/ Lease(c)
      PROVE  UNCHANGED <<proc, pidFile>>
  BY <1>6 DEF CallerCalls, OpenSTA, CloseSTA, RestartSTA, Enter, CallerExits, Lease,
              platformVars
<1>7. CASE EnvironmentStep
  BY <1>7, PlatformKeeps DEF EnvironmentStep
<1>8. CASE UNCHANGED vars
  BY <1>1, <1>8 DEF vars, platformVars
<1> HIDE DEF K
<1>9. QED
  BY <1>1, <1>2, <1>3, <1>4, <1>5, <1>6, <1>7, <1>8 DEF Next, K

(* Where a supplicant may be setting itself up.                            *)
LEMMA StepSetUp ==
  ASSUME OneCaller, "killed" \notin Faults, CloseInv, [Next]_vars
  PROVE  SetUpIn("wpa_supplicant", BeforeSlept)'
<1> LibraryTypeOK(StaLabels, Args) /\ SetUpIn("wpa_supplicant", BeforeSlept)
  BY IInvOK DEF CloseInv, SessionInv
<1> USE DEF LibraryTypeOK
<1> SUFFICES ASSUME NEW p \in Pids, SettingUp(p, "wpa_supplicant")',
                    \A b \in Callers : pc'[b] \notin BeforeSlept
             PROVE  FALSE
  BY DEF SetUpIn
<1>1. ASSUME NEW c \in Callers, StartSupplicant(c) PROVE FALSE
  BY <1>1 DEF StartSupplicant, Goto, BeforeSlept
<1>2. SettingUp(p, "wpa_supplicant")
  BY <1>1, KeepsOrStarts DEF Keeps
<1>3. PICK c \in Callers : pc[c] \in BeforeSlept
  BY <1>2 DEF SetUpIn
<1>4. CASE CallerStep(c)
  BY <1>2, <1>3, <1>4
     DEF BeforeSlept, SettingUp, CallerStep, FopenWpaConf, BuildWpaConf, RejectArgs,
         FopenConfig, StartSupplicant, StartDaemon, StartUdhcpc, UdhcpcReturns,
         SleepSTA, FopenUdhcpcPid, FopenWpaPid, FopenPidFile, KillUdhcpc, KillWpa,
         KillFromPidFile, FcloseSTA, FclosePidFiles, Goto
<1>5. ~ CallerCalls(c) /\ ~ CallerExits(c)
  BY <1>3 DEF BeforeSlept, CallerCalls, OpenSTA, CloseSTA, RestartSTA, Enter,
              CallerExits
<1>6. CASE Lease(c) \/ EnvironmentStep \/ UNCHANGED vars
  BY <1>3, <1>6 DEF Lease, EnvironmentStep, vars, callVars
<1>7. QED
  BY <1>4, <1>5, <1>6 DEF Next, OneCaller

LEMMA StepOwnFile == ASSUME CloseInv, [Next]_vars PROVE OwnFile("wpa_supplicant")'
<1>1. ASSUME NEW c \in Callers, StartSupplicant(c) PROVE OwnFile("wpa_supplicant")'
  <2>1. /\ PlatformTypeOK /\ "wpa_supplicant" \in Daemons /\ UNCHANGED pidFile
        /\ OwnFile("wpa_supplicant")
    BY <1>1, IInvOK, ConstantsOK
       DEF CloseInv, SessionInv, StartSupplicant, StartDaemon
  <2>2. CASE UNCHANGED proc
    BY <2>1, <2>2, UnchangedKeeps DEF Keeps
  <2>3. CASE ~ UNCHANGED proc
    BY <1>1, <2>1, <2>3, SpawnOwnFile DEF StartSupplicant, StartDaemon
  <2>4. QED
    BY <2>2, <2>3
<1>2. QED
  BY <1>1, KeepsOrStarts DEF Keeps

LEMMA StepOps ==
  ASSUME OneCaller, CloseInv, [Next]_vars, NEW c \in Callers
  PROVE  pc'[c] \in StaOpenLabels => call'[c].op # "wifiCloseSTA"
<1>1. /\ LibraryTypeOK(StaLabels, Args)
      /\ pc[c] \in StaOpenLabels => call[c].op # "wifiCloseSTA"
  BY IInvOK DEF CloseInv, SessionInv
<1> USE <1>1 DEF LibraryTypeOK
<1>2. CASE CallerStep(c)
  BY <1>2 DEF CallerStep, FopenWpaConf, BuildWpaConf, RejectArgs, FopenConfig,
              StartSupplicant, StartDaemon, StartUdhcpc, UdhcpcReturns, SleepSTA,
              FopenUdhcpcPid, FopenWpaPid, FopenPidFile, KillUdhcpc, KillWpa,
              KillFromPidFile, FcloseSTA, FclosePidFiles, ReturnClose, Return, Goto,
              StaOpenLabels, StaWritten, CloseLabels, Restarts
<1>3. CASE CallerCalls(c) \/ CallerExits(c)
  BY <1>3 DEF CallerCalls, OpenSTA, CloseSTA, RestartSTA, Enter, CallerExits,
              StaOpenLabels, StaWritten
<1>4. CASE Lease(c) \/ EnvironmentStep \/ UNCHANGED vars
  BY <1>4 DEF Lease, EnvironmentStep, vars, callVars
<1>5. QED
  BY <1>2, <1>3, <1>4 DEF Next, OneCaller

(* Between reading the supplicant's pid file and killing it, and after.    *)
LEMMA StepTells ==
  ASSUME OneCaller, CloseInv, [Next]_vars, NEW c \in Callers
  PROVE  /\ pc'[c] \in {"kill_1", "kill_2"} => StreamTells(c, "wpa_supplicant")'
         /\ pc'[c] = "fclose" \/ Closed0(c)' => NoneUp("wpa_supplicant")'
<1> DEFINE Tells == pc'[c] \in {"kill_1", "kill_2"} => StreamTells(c, "wpa_supplicant")'
           Downs == pc'[c] = "fclose" \/ Closed0(c)' => NoneUp("wpa_supplicant")'
<1>1. /\ LibraryTypeOK(StaLabels, Args) /\ PlatformTypeOK /\ StaStreamsOf(c)
      /\ "wpa_supplicant" \in Daemons /\ "udhcpc" \in Daemons
      /\ OneInstance("wpa_supplicant") /\ OwnFile("wpa_supplicant")
      /\ SetUpIn("wpa_supplicant", BeforeSlept)
      /\ pc[c] \in {"kill_1", "kill_2"} => StreamTells(c, "wpa_supplicant")
      /\ pc[c] = "fclose" \/ Closed0(c) => NoneUp("wpa_supplicant")
      /\ ret[c] # "none" => pc[c] = "idle"
  BY IInvOK, ConstantsOK DEF CloseInv, SessionInv, StaStreamsOf, StreamsOf
<1> USE <1>1 DEF LibraryTypeOK, PlatformTypeOK
<1>2. ASSUME pc'[c] \notin {"kill_1", "kill_2", "fclose"}, ~ Closed0(c)'
      PROVE  Tells /\ Downs
  BY <1>2
<1>3. CASE FopenWpaPid(c)
  <2>1. stream[c]["wpa_supplicant"].pid = NoPid
    BY <1>3 DEF FopenWpaPid, FopenPidFile, StaStreamsOf, StreamsOf, Held
  <2>2. \A p \in Pids : ~ SettingUp(p, "wpa_supplicant")
    BY <1>3 DEF FopenWpaPid, FopenPidFile, SetUpIn, BeforeSlept, OneCaller
  <2>3. StreamTells(c, "wpa_supplicant")'
    BY <1>3, <2>1, <2>2, FopenTells DEF FopenWpaPid
  <2>4. pc'[c] = "kill_1" /\ ~ Closed0(c)'
    BY <1>3 DEF FopenWpaPid, FopenPidFile, Goto, Closed0
  <2>5. QED
    BY <2>3, <2>4
<1>4. CASE KillUdhcpc(c)
  <2>1. CASE stream[c]["udhcpc"].pid # NoPid
    <3>1. StreamTells(c, "wpa_supplicant") /\ UNCHANGED stream /\ pc'[c] = "kill_2"
          /\ ~ Closed0(c)'
      BY <1>4, <2>1 DEF KillUdhcpc, KillFromPidFile, Goto, Closed0
    <3>2. Keeps("wpa_supplicant")
      BY <1>4, KillKeeps DEF KillUdhcpc
    <3>3. QED
      BY <3>1, <3>2 DEF Keeps
  <2>2. CASE stream[c]["udhcpc"].pid = NoPid
    BY <1>2, <1>4, <2>2
       DEF KillUdhcpc, KillFromPidFile, ReturnClose, Return, Goto, Closed0
  <2>3. QED
    BY <2>1, <2>2
<1>5. CASE KillWpa(c)
  <2>1. CASE stream[c]["wpa_supplicant"].pid # NoPid
    <3>1. NoneUp("wpa_supplicant")' /\ pc'[c] = "fclose"
      BY <1>5, <2>1, KillDowns DEF KillWpa, KillFromPidFile, Goto
    <3>2. QED
      BY <3>1
  <2>2. CASE stream[c]["wpa_supplicant"].pid = NoPid
    BY <1>2, <1>5, <2>2
       DEF KillWpa, KillFromPidFile, ReturnClose, Return, Goto, Closed0
  <2>3. QED
    BY <2>1, <2>2
<1>6. CASE FcloseSTA(c)
  <2>1. NoneUp("wpa_supplicant")'
    BY <1>6 DEF FcloseSTA, FclosePidFiles, NoneUp, Up
  <2>2. pc'[c] \in {"idle", "fopen"}
    BY <1>6 DEF FcloseSTA, FclosePidFiles, ReturnClose, Return, Goto
  <2>3. QED
    BY <2>1, <2>2
<1>7. CASE CallerStep(c) /\ pc[c] \notin CloseLabels
  <2>1. pc[c] \in StaOpenLabels /\ call'[c].op = call[c].op
    BY <1>7 DEF CallerStep, FopenWpaConf, BuildWpaConf, RejectArgs, FopenConfig,
                StartSupplicant, StartDaemon, StartUdhcpc, UdhcpcReturns, SleepSTA,
                FopenUdhcpcPid, FopenWpaPid, FopenPidFile, KillUdhcpc, KillWpa,
                KillFromPidFile, FcloseSTA, FclosePidFiles, Return, Goto,
                StaOpenLabels, StaWritten, CloseLabels
  <2>2. pc'[c] \in {"idle"} \cup StaOpenLabels
    BY <1>7 DEF CallerStep, FopenWpaConf, BuildWpaConf, RejectArgs, FopenConfig,
                StartSupplicant, StartDaemon, StartUdhcpc, UdhcpcReturns, SleepSTA,
                FopenUdhcpcPid, FopenWpaPid, FopenPidFile, KillUdhcpc, KillWpa,
                KillFromPidFile, FcloseSTA, FclosePidFiles, Return, Goto,
                StaOpenLabels, StaWritten, CloseLabels
  <2>3. QED
    BY <1>2, <2>1, <2>2 DEF CloseInv, Closed0, StaOpenLabels, StaWritten
<1>8. CASE FopenUdhcpcPid(c)
  BY <1>2, <1>8 DEF FopenUdhcpcPid, FopenPidFile, Goto, Closed0
<1>9. ASSUME CallerStep(c), pc[c] \in CloseLabels
      PROVE  \/ FopenUdhcpcPid(c) \/ FopenWpaPid(c) \/ KillUdhcpc(c) \/ KillWpa(c)
             \/ FcloseSTA(c)
  BY <1>9 DEF CallerStep, FopenWpaConf, BuildWpaConf, RejectArgs, FopenConfig,
              StartSupplicant, StartDaemon, StartUdhcpc, UdhcpcReturns, SleepSTA,
              CloseLabels
<1>10. CASE CallerCalls(c) \/ CallerExits(c)
  BY <1>2, <1>10 DEF CallerCalls, OpenSTA, CloseSTA, RestartSTA, Enter, CallerExits,
                    Closed0
<1>11. CASE Lease(c)
  BY <1>11, UnchangedKeeps DEF Lease, callVars, Keeps, Closed0
<1>12. CASE EnvironmentStep
  BY <1>12, PlatformKeeps DEF EnvironmentStep, callVars, Keeps, Closed0
<1>13. CASE UNCHANGED vars
  BY <1>13, UnchangedKeeps DEF vars, platformVars, callVars, Keeps, Closed0
<1>14. \/ CallerStep(c) \/ CallerCalls(c) \/ CallerExits(c) \/ Lease(c)
       \/ EnvironmentStep \/ UNCHANGED vars
  BY Zenon DEF Next, OneCaller
<1>15. CASE CallerStep(c) /\ pc[c] \in CloseLabels
  BY <1>3, <1>4, <1>5, <1>6, <1>8, <1>9, <1>15
<1>16. QED
  BY <1>7, <1>10, <1>11, <1>12, <1>13, <1>14, <1>15

(* A wifiCloseSTA that returns 0 has told the supplicant to stop, whatever *)
(* calls came before it and whatever daemons crashed (wifi.c:263-294).     *)
THEOREM StaCloseDowns ==
  ASSUME OneCaller, "killed" \notin Faults PROVE Spec => []CloseDownsSupplicant
<1>1. CloseInv /\ [Next]_vars => CloseInv'
  BY SessionInductive, StepSetUp, StepOwnFile, StepOps, StepTells DEF CloseInv
<1>2. CloseInv => CloseDownsSupplicant
  BY DEF CloseInv, CloseDownsSupplicant, NoneUp
<1>3. QED
  BY CloseInit, <1>1, <1>2, PTL DEF Spec

=============================================================================
