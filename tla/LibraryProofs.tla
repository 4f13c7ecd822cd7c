--------------------------- MODULE LibraryProofs ----------------------------
(***************************************************************************)
(* What the steps shared by the two modes preserve: the types of the       *)
(* platform's state and PidInv, the invariant that ties pid files, streams *)
(* and processes together.  One lemma per step; the proofs about a mode    *)
(* cite them.                                                              *)
(***************************************************************************)
EXTENDS Library, TLAPS

(* What a platform step must establish anew. *)
PlatformOK == PlatformTypeOK /\ PidInv

LEMMA NamesDisjoint ==
  /\ Free \notin {Foreign} /\ Free.kind \notin Daemons /\ Foreign.kind \notin Daemons
  /\ Free \in Process /\ Foreign \in Process /\ Closed \in Stream
BY PlatformAssumption DEF Free, Foreign, Process, Closed, Stream, Contents

LEMMA PlatformInitOK == PlatformInit => PlatformOK
BY PlatformAssumption, NamesDisjoint
   DEF PlatformInit, PlatformOK, PlatformTypeOK, PidInv, ProcessesKnown,
       PidFilesTrue, StreamsCoherent, StrayNeedsCrash, Closed, Stream

(* A new process does not take a number that a pid file or a stream still  *)
(* names.                                                                  *)
LEMMA SpawnOK ==
  ASSUME PlatformOK, NEW d \in Daemons, NEW p \in Pids, NEW content \in Contents,
         Spawn(d, p, content), UNCHANGED <<pidFile, stream, crashed, strays>>,
         waiting' \in [Callers -> Pids \cup {NoPid}]
  PROVE  PlatformOK'
<1> USE DEF PlatformOK, PlatformTypeOK, Spawn, Available
<1> DEFINE new == [kind |-> d, phase |-> "starting", conf |-> content]
<1>1. proc' = [proc EXCEPT ![p] = new] /\ new \in Process
  BY DEF Process
<1>2. PlatformTypeOK'
  BY <1>1
<1>3. ProcessesKnown'
  BY <1>1 DEF PidInv, ProcessesKnown
<1>4. \A e \in Daemons \ crashed : pidFile[e] # p
  BY PlatformAssumption DEF PidInv, PidFilesTrue, Free
<1>5. PidFilesTrue'
  BY <1>1, <1>4, PlatformAssumption DEF PidInv, PidFilesTrue, Stream
<1>6. QED
  BY <1>2, <1>3, <1>5 DEF PidInv, StreamsCoherent, StrayNeedsCrash

(* A kill reaches the daemon it is meant for unless that daemon crashed.   *)
LEMMA SignalOK ==
  ASSUME PlatformOK, NEW c \in Callers, NEW d \in Daemons,
         stream[c][d].pid # NoPid, Signal(d, stream[c][d].pid),
         UNCHANGED <<pidFile, stream, crashed>>
  PROVE  PlatformOK'
<1> USE DEF PlatformOK, PlatformTypeOK, Signal
<1> DEFINE p == stream[c][d].pid
<1>1. p \in Pids
  BY DEF Stream
<1>2. AfterTerm(proc[p]) \in Process
  BY <1>1, NamesDisjoint DEF AfterTerm, Process
<1>3. PlatformTypeOK'
  <2>1. waiting' \in [Callers -> Pids \cup {NoPid}]
    BY DEF Reap
  <2>2. strays' \in SUBSET Daemons
    OBVIOUS
  <2>3. QED
    BY <1>1, <1>2, <2>1, <2>2
<1>4. ProcessesKnown'
  BY <1>1, <1>2 DEF PidInv, ProcessesKnown, AfterTerm
<1>5. PidFilesTrue'
  BY <1>1 DEF PidInv, PidFilesTrue, AfterTerm, Process, Stream, Free
<1>6. StrayNeedsCrash'
  BY DEF PidInv, PidFilesTrue, StrayNeedsCrash
<1>7. QED
  BY <1>3, <1>4, <1>5, <1>6 DEF PidInv, StreamsCoherent

(* The daemons' own steps. *)
LEMMA WritePidFileOK ==
  ASSUME PlatformOK, NEW p \in Pids, WritePidFile(p)
  PROVE  PlatformOK'
<1> USE DEF PlatformOK, PlatformTypeOK, WritePidFile
<1> DEFINE d == proc[p].kind
<1>1. d \in Daemons
  BY DEF PidInv, ProcessesKnown, Free, Foreign
<1>2. PlatformTypeOK'
  <2>1. [proc[p] EXCEPT !.phase = "running"] \in Process
    BY DEF Process
  <2>2. stream' \in [Callers -> [Daemons -> Stream]]
    BY <1>1 DEF Stream
  <2>3. QED
    BY <1>1, <2>1, <2>2
<1>3. ProcessesKnown'
  BY <1>1 DEF PidInv, ProcessesKnown, Process
<1>4. \A q \in Pids : proc'[q].kind = proc[q].kind
  BY DEF Process
<1>5. PidFilesTrue'
  BY <1>1, <1>4 DEF PidInv, PidFilesTrue, Process, Stream
<1>6. StreamsCoherent'
  BY <1>1, PlatformAssumption DEF PidInv, StreamsCoherent, Stream
<1>7. QED
  BY <1>2, <1>3, <1>5, <1>6 DEF PidInv, StrayNeedsCrash

LEMMA ExitOK ==
  ASSUME PlatformOK, NEW p \in Pids, Exit(p)
  PROVE  PlatformOK'
<1> USE DEF PlatformOK, PlatformTypeOK, Exit
<1> DEFINE d == proc[p].kind
<1>1. d \in Daemons
  BY DEF PidInv, ProcessesKnown, Free, Foreign
<1>2. PlatformTypeOK'
  <2>1. waiting' \in [Callers -> Pids \cup {NoPid}]
    BY DEF Reap
  <2>2. stream' \in [Callers -> [Daemons -> Stream]]
    <3>1. \A r \in Stream : [r EXCEPT !.linked = FALSE] \in Stream
      BY DEF Stream
    <3>2. QED
      BY <1>1, <3>1
  <2>3. QED
    BY <1>1, <2>1, <2>2, NamesDisjoint
<1>3. ProcessesKnown'
  BY DEF PidInv, ProcessesKnown
<1>4. PidFilesTrue'
  BY <1>1, NamesDisjoint DEF PidInv, PidFilesTrue, Stream, Free
<1>5. StreamsCoherent'
  BY <1>1 DEF PidInv, StreamsCoherent, Stream
<1>6. QED
  BY <1>2, <1>3, <1>4, <1>5 DEF PidInv, StrayNeedsCrash

LEMMA CrashOK ==
  ASSUME PlatformOK, NEW p \in Pids, Crash(p)
  PROVE  PlatformOK'
<1> USE DEF PlatformOK, PlatformTypeOK, Crash
<1>1. PlatformTypeOK'
  BY NamesDisjoint DEF Reap
<1>2. ProcessesKnown'
  BY DEF PidInv, ProcessesKnown
<1>3. PidFilesTrue'
  BY DEF PidInv, PidFilesTrue, Stream, Free
<1>4. QED
  BY <1>1, <1>2, <1>3 DEF PidInv, StreamsCoherent, StrayNeedsCrash

LEMMA OthersOK ==
  ASSUME PlatformOK, NEW p \in Pids, Quit(p) \/ ForeignStart(p) \/ ForeignExit(p)
  PROVE  PlatformOK'
<1> USE DEF PlatformOK, PlatformTypeOK
<1>1. CASE Quit(p)
  <2>1. [proc[p] EXCEPT !.phase = "dying"] \in Process
    BY DEF Process
  <2>2. PidFilesTrue'
    BY <1>1 DEF PidInv, PidFilesTrue, Quit, Process, Stream
  <2>3. ProcessesKnown'
    BY <1>1, <2>1 DEF PidInv, ProcessesKnown, Quit
  <2>4. QED
    BY <1>1, <2>1, <2>2, <2>3 DEF Quit, PidInv, StreamsCoherent, StrayNeedsCrash
<1>2. CASE ForeignStart(p)
  <2>1. \A e \in Daemons \ crashed : pidFile[e] # p
    BY <1>2, PlatformAssumption DEF ForeignStart, Available, PidInv, PidFilesTrue, Free
  <2>2. PidFilesTrue'
    BY <1>2, <2>1 DEF ForeignStart, Available, PidInv, PidFilesTrue, Stream
  <2>3. QED
    BY <1>2, <2>2, NamesDisjoint
       DEF ForeignStart, PidInv, ProcessesKnown, StreamsCoherent, StrayNeedsCrash
<1>3. CASE ForeignExit(p)
  <2>1. \A e \in Daemons \ crashed : pidFile[e] # p
    BY <1>3, NamesDisjoint, PlatformAssumption DEF ForeignExit, PidInv, PidFilesTrue
  <2>2. PidFilesTrue'
    BY <1>3, <2>1 DEF ForeignExit, PidInv, PidFilesTrue, Stream, Free
  <2>3. QED
    BY <1>3, <2>2, NamesDisjoint
       DEF ForeignExit, PidInv, ProcessesKnown, StreamsCoherent, StrayNeedsCrash
<1>4. QED
  BY <1>1, <1>2, <1>3

LEMMA PlatformNextOK ==
  ASSUME PlatformOK, PlatformNext
  PROVE  PlatformOK'
BY WritePidFileOK, ExitOK, CrashOK, OthersOK DEF PlatformNext

-----------------------------------------------------------------------------
(* The callers' steps, as far as the platform goes. *)

LEMMA PlatformUnchangedOK ==
  ASSUME PlatformOK, UNCHANGED platformVars
  PROVE  PlatformOK'
BY DEF PlatformOK, PlatformTypeOK, PidInv, ProcessesKnown, PidFilesTrue,
       StreamsCoherent, StrayNeedsCrash, platformVars

LEMMA FopenPidFileOK ==
  ASSUME PlatformOK, NEW c \in Callers, NEW d \in Daemons, NEW from, NEW to,
         FopenPidFile(c, d, from, to)
  PROVE  PlatformOK'
<1> USE DEF PlatformOK, PlatformTypeOK, FopenPidFile
<1>1. CASE UNCHANGED stream
  BY <1>1, PlatformUnchangedOK DEF platformVars
<1>2. CASE ~ UNCHANGED stream
  <2> DEFINE s == [pid |-> pidFile[d], linked |-> TRUE]
  <2>1. s \in Stream /\ s.pid # NoPid /\ stream' = [stream EXCEPT ![c][d] = s]
    BY <1>2 DEF Stream
  <2>2. PlatformTypeOK'
    BY <2>1
  <2>3. PidFilesTrue'
    BY <2>1 DEF PidInv, PidFilesTrue
  <2>4. StreamsCoherent'
    BY <2>1 DEF PidInv, StreamsCoherent
  <2>5. QED
    BY <2>2, <2>3, <2>4 DEF PidInv, ProcessesKnown, StrayNeedsCrash
<1>3. QED
  BY <1>1, <1>2

LEMMA ForgetStreamsOK ==
  ASSUME PlatformOK, NEW c \in Callers, ForgetStreams(c),
         UNCHANGED <<proc, pidFile, crashed, strays>>,
         waiting' \in [Callers -> Pids \cup {NoPid}]
  PROVE  PlatformOK'
<1> USE DEF PlatformOK, PlatformTypeOK, ForgetStreams
<1>1. PlatformTypeOK'
  BY NamesDisjoint
<1>2. PidFilesTrue'
  BY DEF PidInv, PidFilesTrue, Closed
<1>3. StreamsCoherent'
  BY DEF PidInv, StreamsCoherent, Closed
<1>4. QED
  BY <1>1, <1>2, <1>3 DEF PidInv, ProcessesKnown, StrayNeedsCrash

LEMMA KillFromPidFileOK ==
  ASSUME PlatformOK, NEW c \in Callers, NEW d \in Daemons,
         NEW from, NEW to, KillFromPidFile(c, d, from, to)
  PROVE  PlatformOK'
<1>1. CASE stream[c][d].pid # NoPid
  BY <1>1, SignalOK DEF KillFromPidFile
<1>2. CASE stream[c][d].pid = NoPid
  <2>1. waiting' \in [Callers -> Pids \cup {NoPid}]
    BY <1>2 DEF KillFromPidFile, PlatformOK, PlatformTypeOK
  <2>2. QED
    BY <1>2, <2>1, ForgetStreamsOK DEF KillFromPidFile
<1>3. QED
  BY <1>1, <1>2

LEMMA StartDaemonOK ==
  ASSUME PlatformOK, NEW c \in Callers, NEW d \in Daemons, NEW content \in Contents,
         NEW from, StartDaemon(c, d, content, from)
  PROVE  PlatformOK'
<1>1. CASE UNCHANGED proc
  BY <1>1, PlatformUnchangedOK DEF StartDaemon, platformVars
<1>2. CASE \E p \in Pids : Spawn(d, p, content)
  BY <1>2, SpawnOK DEF StartDaemon, PlatformOK, PlatformTypeOK
<1>3. QED
  BY <1>1, <1>2 DEF StartDaemon

LEMMA FclosePidFilesOK ==
  ASSUME PlatformOK, NEW c \in Callers, FclosePidFiles(c)
  PROVE  PlatformOK'
BY ForgetStreamsOK DEF FclosePidFiles, PlatformOK, PlatformTypeOK

LEMMA CallerExitsOK ==
  ASSUME PlatformOK, NEW c \in Callers, CallerExits(c)
  PROVE  PlatformOK'
<1>1. waiting' \in [Callers -> Pids \cup {NoPid}]
  BY DEF CallerExits, PlatformOK, PlatformTypeOK
<1>2. QED
  BY <1>1, ForgetStreamsOK DEF CallerExits

-----------------------------------------------------------------------------
(* The callers' steps, as far as the call itself goes. *)

LEMMA EnterTypeOK ==
  ASSUME NEW Labels, NEW Args, LibraryTypeOK(Labels, Args), NEW c \in Callers,
         NEW op \in Ops, NEW args \in Args, NEW to \in Labels,
         Enter(c, op, args, to)
  PROVE  LibraryTypeOK(Labels, Args)'
BY DEF LibraryTypeOK, Enter

LEMMA ReturnTypeOK ==
  ASSUME NEW Labels, NEW Args, LibraryTypeOK(Labels, Args), NEW c \in Callers,
         "idle" \in Labels, NEW r \in {"ok", "fail"}, Return(c, r),
         fds' \in [Callers -> 0..MaxFds], conf' \in [Exclusive -> Contents]
  PROVE  LibraryTypeOK(Labels, Args)'
BY DEF LibraryTypeOK, Return

LEMMA GotoTypeOK ==
  ASSUME NEW Labels, NEW Args, LibraryTypeOK(Labels, Args), NEW c \in Callers,
         NEW to \in Labels, Goto(c, to),
         fds' \in [Callers -> 0..MaxFds], conf' \in [Exclusive -> Contents]
  PROVE  LibraryTypeOK(Labels, Args)'
BY DEF LibraryTypeOK, Goto

LEMMA RejectArgsTypeOK ==
  ASSUME NEW Labels, NEW Args, LibraryTypeOK(Labels, Args), NEW c \in Callers,
         "idle" \in Labels, NEW from, RejectArgs(c, from)
  PROVE  LibraryTypeOK(Labels, Args)'
<1>1. fds' \in [Callers -> 0..MaxFds] /\ conf' \in [Exclusive -> Contents]
  BY DEF RejectArgs, LibraryTypeOK
<1>2. QED
  BY <1>1, ReturnTypeOK DEF RejectArgs

LEMMA FopenConfigTypeOK ==
  ASSUME NEW Labels, NEW Args, LibraryTypeOK(Labels, Args), NEW c \in Callers,
         {"idle", "build"} \subseteq Labels, NEW d \in Exclusive, FopenConfig(c, d)
  PROVE  LibraryTypeOK(Labels, Args)'
<1>1. CASE RejectArgs(c, "fopen")
  BY <1>1, RejectArgsTypeOK
<1>2. CASE ~ RejectArgs(c, "fopen")
  <2>1. fds[c] + 1 \in 0..MaxFds
    BY <1>2, LibraryAssumption DEF LibraryTypeOK, FopenConfig
  <2>2. Empty \in Contents
    BY DEF Contents
  <2>3. fds' \in [Callers -> 0..MaxFds] /\ conf' \in [Exclusive -> Contents]
    BY <1>2, <2>1, <2>2 DEF LibraryTypeOK, FopenConfig
  <2>4. QED
    BY <1>2, <2>3, GotoTypeOK DEF FopenConfig
<1>3. QED
  BY <1>1, <1>2

LEMMA WriteConfigTypeOK ==
  ASSUME NEW Labels, NEW Args, LibraryTypeOK(Labels, Args), NEW c \in Callers,
         NEW d \in Exclusive, NEW content \in Contents,
         WriteConfig(c, d, content), fds[c] >= 1
  PROVE  fds' \in [Callers -> 0..MaxFds] /\ conf' \in [Exclusive -> Contents]
<1> USE DEF LibraryTypeOK, WriteConfig
<1>1. fds[c] - 1 \in 0..MaxFds
  BY LibraryAssumption
<1>2. fds' \in [Callers -> 0..MaxFds]
  BY <1>1
<1>3. conf' \in [Exclusive -> Contents]
  BY DEF Contents
<1>4. QED
  BY <1>2, <1>3

LEMMA FopenPidFileTypeOK ==
  ASSUME NEW Labels, NEW Args, LibraryTypeOK(Labels, Args), NEW c \in Callers,
         NEW d \in Daemons, NEW from, NEW to \in Labels,
         FopenPidFile(c, d, from, to)
  PROVE  LibraryTypeOK(Labels, Args)'
<1> USE DEF LibraryTypeOK, FopenPidFile
<1>1. fds' \in [Callers -> 0..MaxFds]
  BY LibraryAssumption
<1>2. QED
  BY <1>1, GotoTypeOK

LEMMA ReturnCloseTypeOK ==
  ASSUME NEW Labels, NEW Args, LibraryTypeOK(Labels, Args), NEW c \in Callers,
         {"idle", "fopen"} \subseteq Labels, NEW r \in {"ok", "fail"},
         ReturnClose(c, r),
         fds' \in [Callers -> 0..MaxFds], UNCHANGED conf
  PROVE  LibraryTypeOK(Labels, Args)'
<1>1. conf' \in [Exclusive -> Contents]
  BY DEF LibraryTypeOK
<1>2. QED
  BY <1>1, GotoTypeOK, ReturnTypeOK DEF ReturnClose

LEMMA KillFromPidFileTypeOK ==
  ASSUME NEW Labels, NEW Args, LibraryTypeOK(Labels, Args), NEW c \in Callers,
         {"idle", "fopen"} \subseteq Labels, NEW d \in Daemons, NEW from,
         NEW to \in Labels, KillFromPidFile(c, d, from, to)
  PROVE  LibraryTypeOK(Labels, Args)'
<1>1. fds' \in [Callers -> 0..MaxFds] /\ UNCHANGED conf
  BY DEF KillFromPidFile, LibraryTypeOK
<1>2. conf' \in [Exclusive -> Contents]
  BY <1>1 DEF LibraryTypeOK
<1>3. QED
  BY <1>1, <1>2, GotoTypeOK, ReturnCloseTypeOK DEF KillFromPidFile

LEMMA FclosePidFilesTypeOK ==
  ASSUME NEW Labels, NEW Args, LibraryTypeOK(Labels, Args), NEW c \in Callers,
         {"idle", "fopen"} \subseteq Labels, FclosePidFiles(c), fds[c] >= 2
  PROVE  LibraryTypeOK(Labels, Args)'
<1>1. fds[c] - 2 \in 0..MaxFds
  BY LibraryAssumption DEF LibraryTypeOK
<1>2. fds' \in [Callers -> 0..MaxFds]
  BY <1>1 DEF FclosePidFiles, LibraryTypeOK
<1>3. QED
  BY <1>2, ReturnCloseTypeOK DEF FclosePidFiles

LEMMA CallerExitsTypeOK ==
  ASSUME NEW Labels, NEW Args, LibraryTypeOK(Labels, Args), NEW c \in Callers,
         "idle" \in Labels, CallerExits(c)
  PROVE  LibraryTypeOK(Labels, Args)'
<1>1. fds' \in [Callers -> 0..MaxFds] /\ ret' \in [Callers -> {"none", "ok", "fail"}]
  BY LibraryAssumption DEF CallerExits, LibraryTypeOK
<1>2. call' \in [Callers -> [op: Ops, args: Args, fds: 0..MaxFds]]
  BY LibraryAssumption DEF CallerExits, LibraryTypeOK, Ops
<1>3. QED
  BY <1>1, <1>2 DEF CallerExits, LibraryTypeOK

-----------------------------------------------------------------------------
(* StreamsOf, for the two daemons d1 and d2 of a mode.                     *)

LEMMA StreamsFrame ==
  ASSUME NEW c, NEW d1, NEW d2, NEW k \in {d1, d2}, NEW Written,
         StreamsOf(c, d1, d2, k, Written),
         pc'[c] = pc[c], call'[c] = call[c], ret'[c] = ret[c], fds'[c] = fds[c],
         \A d \in {d1, d2} : Held(c, d)' = Held(c, d)
  PROVE  StreamsOf(c, d1, d2, k, Written)'
BY DEF StreamsOf, Lost, MayLose

(* No step of a daemon gives a stream a number or takes its number away.   *)
LEMMA PlatformHeld ==
  ASSUME PlatformOK, PlatformNext, NEW c \in Callers, NEW d \in Daemons
  PROVE  Held(c, d)' = Held(c, d)
<1> USE DEF PlatformOK, PlatformTypeOK, Held
<1>1. ASSUME NEW p \in Pids, WritePidFile(p) PROVE Held(c, d)' = Held(c, d)
  BY <1>1, PlatformAssumption
     DEF WritePidFile, PidInv, StreamsCoherent, ProcessesKnown, Free, Foreign, Stream
<1>2. ASSUME NEW p \in Pids, Exit(p) PROVE Held(c, d)' = Held(c, d)
  BY <1>2 DEF Exit, Stream
<1>3. ASSUME NEW p \in Pids, Quit(p) \/ Crash(p) \/ ForeignStart(p) \/ ForeignExit(p)
      PROVE  Held(c, d)' = Held(c, d)
  BY <1>3 DEF Quit, Crash, ForeignStart, ForeignExit
<1>4. QED
  BY <1>1, <1>2, <1>3 DEF PlatformNext

(* fopen of a pid file: one more stream open if and only if one more held. *)
LEMMA FopenHeld ==
  ASSUME PlatformTypeOK, NEW Labels, NEW Args, LibraryTypeOK(Labels, Args),
         NEW c \in Callers, NEW d \in Daemons, NEW from, NEW to,
         FopenPidFile(c, d, from, to), Held(c, d) = 0
  PROVE  /\ fds'[c] = fds[c] + Held(c, d)'
         /\ \A e \in Daemons \ {d} : Held(c, e)' = Held(c, e)
<1> USE DEF PlatformTypeOK, LibraryTypeOK, Held, FopenPidFile
<1>1. CASE UNCHANGED <<stream, fds>>
  BY <1>1, LibraryAssumption
<1>2. CASE ~ UNCHANGED <<stream, fds>>
  <2>1. stream'[c][d].pid = pidFile[d] /\ pidFile[d] # NoPid /\ fds'[c] = fds[c] + 1
    BY <1>2
  <2>2. QED
    BY <1>2, <2>1, LibraryAssumption
<1>3. QED
  BY <1>1, <1>2

(* A mode: which daemons, which is killed first, what follows the fclose.  *)
Mode(d1, d2, k, Written) ==
  /\ {d1, d2} \subseteq Daemons /\ d1 # d2 /\ k \in {d1, d2}
  /\ Written \cap (CloseLabels \cup {"idle", "fopen", "build"}) = {}

(* What the lemmas below assume of the state.                              *)
StreamTypes ==
  /\ PlatformTypeOK
  /\ \E Labels, Args : LibraryTypeOK(Labels, Args)

LEMMA StreamNumbers ==
  ASSUME StreamTypes, NEW c \in Callers
  PROVE  fds[c] \in Nat /\ call[c].fds \in Nat
<1>1. PICK Labels, Args : LibraryTypeOK(Labels, Args)
  BY DEF StreamTypes
<1>2. QED
  BY <1>1, LibraryAssumption DEF LibraryTypeOK

LEMMA StepHeld ==
  ASSUME NEW c, NEW d, UNCHANGED platformVars
  PROVE  Held(c, d)' = Held(c, d)
BY DEF Held, platformVars

(* One lemma per step: it takes the streams of the caller that makes it    *)
(* from one accounted state to the next.                                   *)

LEMMA EnterStreams ==
  ASSUME NEW d1, NEW d2, NEW k, NEW Written, Mode(d1, d2, k, Written), StreamTypes,
         NEW c \in Callers, StreamsOf(c, d1, d2, k, Written),
         NEW op, NEW args, NEW to, Enter(c, op, args, to),
         to = "fopen" \/ (to = "pid_1" /\ op \in Closes \cup Restarts)
  PROVE  StreamsOf(c, d1, d2, k, Written)'
<1>1. \A d \in {d1, d2} : Held(c, d)' = Held(c, d)
  BY StepHeld DEF Enter
<1>2. /\ fds'[c] = fds[c] /\ pc'[c] = to /\ ret'[c] = "none"
      /\ call'[c].fds = fds[c] /\ call'[c].op = op
  BY DEF Enter, StreamTypes, LibraryTypeOK
<1>3. \A d \in {d1, d2} : Held(c, d) = 0
  BY DEF Enter, StreamsOf
<1>4. fds[c] - fds[c] = 0
  BY StreamNumbers
<1>5. QED
  BY <1>1, <1>2, <1>3, <1>4 DEF StreamsOf, Mode, Lost, MayLose, CloseLabels

LEMMA RejectArgsStreams ==
  ASSUME NEW d1, NEW d2, NEW k, NEW Written, Mode(d1, d2, k, Written), StreamTypes,
         NEW c \in Callers, StreamsOf(c, d1, d2, k, Written),
         NEW from \in {"fopen", "build"}, RejectArgs(c, from)
  PROVE  StreamsOf(c, d1, d2, k, Written)'
<1>1. \A d \in {d1, d2} : Held(c, d)' = Held(c, d)
  BY StepHeld DEF RejectArgs
<1>2. /\ pc'[c] = "idle" /\ ret'[c] = "fail"
      /\ call'[c] = call[c] /\ fds'[c] = fds[c]
  BY DEF RejectArgs, Return, StreamTypes, LibraryTypeOK
<1>3. QED
  BY <1>1, <1>2, StreamNumbers
     DEF RejectArgs, StreamsOf, Mode, Lost, MayLose, CloseLabels

LEMMA FopenConfigStreams ==
  ASSUME NEW d1, NEW d2, NEW k, NEW Written, Mode(d1, d2, k, Written), StreamTypes,
         NEW c \in Callers, StreamsOf(c, d1, d2, k, Written),
         NEW d, FopenConfig(c, d)
  PROVE  StreamsOf(c, d1, d2, k, Written)'
<1>1. CASE RejectArgs(c, "fopen")
  BY <1>1, RejectArgsStreams
<1>2. CASE ~ RejectArgs(c, "fopen")
  <2>1. \A e \in {d1, d2} : Held(c, e)' = Held(c, e)
    BY <1>2, StepHeld DEF FopenConfig
  <2>2. /\ pc[c] = "fopen" /\ pc'[c] = "build" /\ ret'[c] = ret[c]
        /\ call'[c] = call[c] /\ fds'[c] = fds[c] + 1 /\ call[c].args # NoArgs
    BY <1>2 DEF FopenConfig, Goto, StreamTypes, LibraryTypeOK
  <2>3. QED
    BY <2>1, <2>2, StreamNumbers DEF StreamsOf, Mode, Lost, MayLose, CloseLabels
<1>3. QED
  BY <1>1, <1>2

LEMMA WriteConfigStreams ==
  ASSUME NEW d1, NEW d2, NEW k, NEW Written, Mode(d1, d2, k, Written), StreamTypes,
         NEW c \in Callers, StreamsOf(c, d1, d2, k, Written),
         NEW d, NEW content, NEW to \in Written,
         WriteConfig(c, d, content), Goto(c, to), UNCHANGED platformVars
  PROVE  StreamsOf(c, d1, d2, k, Written)'
<1>1. \A e \in {d1, d2} : Held(c, e)' = Held(c, e)
  BY StepHeld
<1>2. /\ pc[c] = "build" /\ pc'[c] = to /\ ret'[c] = ret[c]
      /\ call'[c] = call[c] /\ fds'[c] = fds[c] - 1
  BY DEF WriteConfig, Goto, StreamTypes, LibraryTypeOK
<1>3. QED
  BY <1>1, <1>2, StreamNumbers DEF StreamsOf, Mode, Lost, MayLose, CloseLabels

(* The steps between the fclose and the return: commands and waiting.      *)
LEMMA CommandStreams ==
  ASSUME NEW d1, NEW d2, NEW k, NEW Written, Mode(d1, d2, k, Written), StreamTypes,
         NEW c \in Callers, StreamsOf(c, d1, d2, k, Written), pc[c] \in Written,
         \/ \E to \in Written : Goto(c, to)
         \/ Return(c, "ok") \/ Return(c, "fail"),
         UNCHANGED <<fds, stream>>
  PROVE  StreamsOf(c, d1, d2, k, Written)'
<1>1. \A d \in {d1, d2} : Held(c, d)' = Held(c, d)
  BY DEF Held
<1>2. /\ call'[c] = call[c] /\ fds'[c] = fds[c]
      /\ \/ pc'[c] \in Written /\ ret'[c] = ret[c]
         \/ pc'[c] = "idle" /\ ret'[c] \in {"ok", "fail"}
  BY DEF Goto, Return, StreamTypes, LibraryTypeOK
<1>3. QED
  BY <1>1, <1>2, StreamNumbers DEF StreamsOf, Mode, Lost, MayLose, CloseLabels

LEMMA FopenFirstStreams ==
  ASSUME NEW d1, NEW d2, NEW k, NEW Written, Mode(d1, d2, k, Written), StreamTypes,
         NEW c \in Callers, StreamsOf(c, d1, d2, k, Written),
         FopenPidFile(c, d1, "pid_1", "pid_2")
  PROVE  StreamsOf(c, d1, d2, k, Written)'
<1>1. Held(c, d1) = 0 /\ Held(c, d2) = 0 /\ d1 \in Daemons /\ d2 \in Daemons \ {d1}
  BY DEF FopenPidFile, StreamsOf, Mode
<1>2. fds'[c] = fds[c] + Held(c, d1)' /\ Held(c, d2)' = Held(c, d2)
  BY <1>1, FopenHeld DEF StreamTypes
<1>3. /\ pc[c] = "pid_1" /\ pc'[c] = "pid_2"
      /\ ret'[c] = ret[c] /\ call'[c] = call[c]
  BY DEF FopenPidFile, Goto, StreamTypes, LibraryTypeOK
<1>4. Held(c, d1)' \in 0..1 /\ Held(c, d2)' \in 0..1
  BY DEF Held
<1>5. QED
  BY <1>1, <1>2, <1>3, <1>4, StreamNumbers
     DEF StreamsOf, Mode, Lost, MayLose, CloseLabels

LEMMA FopenSecondStreams ==
  ASSUME NEW d1, NEW d2, NEW k, NEW Written, Mode(d1, d2, k, Written), StreamTypes,
         NEW c \in Callers, StreamsOf(c, d1, d2, k, Written),
         FopenPidFile(c, d2, "pid_2", "kill_1")
  PROVE  StreamsOf(c, d1, d2, k, Written)'
<1>1. Held(c, d2) = 0 /\ d2 \in Daemons /\ d1 \in Daemons \ {d2}
  BY DEF FopenPidFile, StreamsOf, Mode
<1>2. fds'[c] = fds[c] + Held(c, d2)' /\ Held(c, d1)' = Held(c, d1)
  BY <1>1, FopenHeld DEF StreamTypes
<1>3. /\ pc[c] = "pid_2" /\ pc'[c] = "kill_1"
      /\ ret'[c] = ret[c] /\ call'[c] = call[c]
  BY DEF FopenPidFile, Goto, StreamTypes, LibraryTypeOK
<1>4. Held(c, d1) \in 0..1 /\ Held(c, d2)' \in 0..1
  BY DEF Held
<1>5. QED
  BY <1>1, <1>2, <1>3, <1>4, StreamNumbers
     DEF StreamsOf, Mode, Lost, MayLose, CloseLabels

(* The end of a close, whether it returns or a restart goes on.            *)
LEMMA ReturnCloseStreams ==
  ASSUME NEW d1, NEW d2, NEW k, NEW Written, Mode(d1, d2, k, Written), StreamTypes,
         NEW c \in Callers, StreamsOf(c, d1, d2, k, Written), pc[c] \in CloseLabels,
         NEW r \in {"ok", "fail"}, ReturnClose(c, r), ForgetStreams(c),
         fds'[c] - call[c].fds \in 0..(IF r = "fail" THEN 1 ELSE 0)
  PROVE  StreamsOf(c, d1, d2, k, Written)'
<1>1. \A d \in {d1, d2} : Held(c, d)' = 0
  BY DEF ForgetStreams, Held, Closed, StreamTypes, PlatformTypeOK, Mode
<1>2. ret[c] = "none" /\ call[c].op \in Closes \cup Restarts
  BY DEF StreamsOf, StreamTypes, LibraryTypeOK, CloseLabels
<1>3. call'[c] = call[c]
  BY DEF ReturnClose, Goto, Return, StreamTypes, LibraryTypeOK
<1>4. CASE call[c].op \in Restarts
  <2>1. pc'[c] = "fopen" /\ ret'[c] = "none"
    BY <1>2, <1>4 DEF ReturnClose, Goto, StreamTypes, LibraryTypeOK
  <2>2. QED
    BY <1>1, <1>3, <1>4, <2>1 DEF StreamsOf, Lost, Mode, CloseLabels
<1>5. CASE call[c].op \notin Restarts
  <2>1. pc'[c] = "idle" /\ ret'[c] = r
    BY <1>5 DEF ReturnClose, Return, StreamTypes, LibraryTypeOK
  <2>2. QED
    BY <1>1, <1>3, <1>5, <2>1 DEF StreamsOf, Lost, MayLose, Mode, CloseLabels
<1>6. QED
  BY <1>4, <1>5

LEMMA KillStreams ==
  ASSUME NEW d1, NEW d2, NEW k, NEW Written, Mode(d1, d2, k, Written), StreamTypes,
         NEW c \in Callers, StreamsOf(c, d1, d2, k, Written), NEW d, NEW from, NEW to,
         KillFromPidFile(c, d, from, to),
         \/ from = "kill_1" /\ to = "kill_2" /\ d = k
         \/ from = "kill_2" /\ to = "fclose" /\ d \in {d1, d2} \ {k}
  PROVE  StreamsOf(c, d1, d2, k, Written)'
<1>1. pc[c] = from /\ UNCHANGED fds
  BY DEF KillFromPidFile
<1>2. CASE stream[c][d].pid # NoPid
  <2>1. /\ \A e \in {d1, d2} : Held(c, e)' = Held(c, e)
        /\ pc'[c] = to /\ call'[c] = call[c] /\ ret'[c] = ret[c]
    BY <1>2 DEF KillFromPidFile, Goto, Held, StreamTypes, LibraryTypeOK
  <2>2. Held(c, d) = 1
    BY <1>2 DEF Held
  <2>3. QED
    BY <1>1, <2>1, <2>2, StreamNumbers
       DEF StreamsOf, Mode, Lost, MayLose, CloseLabels
<1>3. CASE stream[c][d].pid = NoPid
  <2>1. Held(c, d) = 0 /\ \A e \in {d1, d2} : Held(c, e) \in 0..1
    BY <1>3 DEF Held
  <2>2. fds[c] - call[c].fds \in 0..1 /\ pc[c] \in CloseLabels
    BY <1>1, <2>1 DEF StreamsOf, Mode, CloseLabels
  <2>3. QED
    BY <1>1, <1>3, <2>2, ReturnCloseStreams DEF KillFromPidFile
<1>4. QED
  BY <1>2, <1>3

LEMMA FcloseStreams ==
  ASSUME NEW d1, NEW d2, NEW k, NEW Written, Mode(d1, d2, k, Written), StreamTypes,
         NEW c \in Callers, StreamsOf(c, d1, d2, k, Written), FclosePidFiles(c)
  PROVE  StreamsOf(c, d1, d2, k, Written)'
<1>1. fds[c] - call[c].fds = 2 /\ pc[c] \in CloseLabels
  BY DEF FclosePidFiles, StreamsOf, CloseLabels
<1>2. fds'[c] = fds[c] - 2
  BY DEF FclosePidFiles, StreamTypes, LibraryTypeOK
<1>3. fds'[c] - call[c].fds = 0
  BY <1>1, <1>2, StreamNumbers
<1>4. QED
  BY <1>1, <1>3, ReturnCloseStreams DEF FclosePidFiles

LEMMA CallerExitsStreams ==
  ASSUME NEW d1, NEW d2, NEW k, NEW Written, Mode(d1, d2, k, Written), StreamTypes,
         NEW c \in Callers, CallerExits(c)
  PROVE  StreamsOf(c, d1, d2, k, Written)'
<1>1. \A d \in {d1, d2} : Held(c, d)' = 0
  BY DEF CallerExits, ForgetStreams, Held, Closed, StreamTypes, PlatformTypeOK, Mode
<1>2. pc'[c] = "idle" /\ ret'[c] = "none"
  BY DEF CallerExits, StreamTypes, LibraryTypeOK
<1>3. QED
  BY <1>1, <1>2 DEF StreamsOf, Mode, CloseLabels

(* How many streams a call is sure to have open when it closes some.       *)
LEMMA OpenStreams ==
  ASSUME NEW d1, NEW d2, NEW k, NEW Written, StreamTypes,
         NEW c \in Callers, StreamsOf(c, d1, d2, k, Written)
  PROVE  /\ pc[c] = "build" => fds[c] >= 1
         /\ pc[c] \in {"build"} \cup Written => call[c].args # NoArgs
         /\ pc[c] = "fclose" => fds[c] >= 2
BY StreamNumbers DEF StreamsOf, Lost, CloseLabels

LEMMA StreamsAccounted ==
  ASSUME NEW d1, NEW d2, NEW k, NEW Written, StreamTypes,
         \A c \in Callers : StreamsOf(c, d1, d2, k, Written)
  PROVE  StreamAccounting
<1> SUFFICES ASSUME NEW c \in Callers, ret[c] # "none"
             PROVE  call[c].fds <= fds[c] /\ fds[c] <= call[c].fds + MayLose(c)
  BY DEF StreamAccounting
<1>1. fds[c] - call[c].fds \in 0..MayLose(c)
  BY DEF StreamsOf
<1>2. QED
  BY <1>1, StreamNumbers DEF MayLose, Lost

-----------------------------------------------------------------------------
(* Service: the sessions of a mode are the instances of its exclusive      *)
(* daemon d, and N the configurations that valid arguments give.           *)

(* The control socket keeps a second instance away.                        *)
OneInstance(d) == \A p, q \in Pids : Up(p, d) /\ Up(q, d) => p = q

(* No step but a start adds an instance.                                   *)
NoneStarted(d) ==
  \A p \in Pids : /\ Up(p, d)' => Up(p, d)
                  /\ proc'[p].kind = d => /\ proc[p].kind = d
                                          /\ proc'[p].conf = proc[p].conf

LEMMA UnchangedStartsNone ==
  ASSUME NEW d, UNCHANGED proc PROVE NoneStarted(d)
BY DEF NoneStarted, Up

LEMMA SignalStartsNone ==
  ASSUME PlatformTypeOK, NEW d \in Daemons, NEW e \in Daemons, NEW p \in Pids,
         Signal(e, p)
  PROVE  NoneStarted(d)
BY PlatformAssumption
   DEF PlatformTypeOK, NoneStarted, Signal, AfterTerm, Up, Free, Process

LEMMA KillStartsNone ==
  ASSUME PlatformTypeOK, NEW d \in Daemons, NEW e \in Daemons, NEW c \in Callers,
         NEW from, NEW to, KillFromPidFile(c, e, from, to)
  PROVE  NoneStarted(d)
<1>1. CASE stream[c][e].pid # NoPid
  BY <1>1, SignalStartsNone DEF KillFromPidFile, PlatformTypeOK, Stream
<1>2. CASE stream[c][e].pid = NoPid
  BY <1>2, UnchangedStartsNone DEF KillFromPidFile
<1>3. QED
  BY <1>1, <1>2

LEMMA SpawnStartsNone ==
  ASSUME PlatformTypeOK, NEW d, NEW e, e # d, NEW p \in Pids, NEW content,
         Spawn(e, p, content)
  PROVE  NoneStarted(d)
BY DEF PlatformTypeOK, NoneStarted, Spawn, Up

LEMMA PlatformStartsNone ==
  ASSUME PlatformTypeOK, NEW d \in Daemons, PlatformNext PROVE NoneStarted(d)
<1> USE DEF PlatformTypeOK, NoneStarted, Up, Process, Free, Foreign
<1> d # "none" /\ d # "other"
  BY PlatformAssumption
<1>1. ASSUME NEW p \in Pids, WritePidFile(p) PROVE NoneStarted(d)
  BY <1>1 DEF WritePidFile
<1>2. ASSUME NEW p \in Pids, Quit(p) PROVE NoneStarted(d)
  BY <1>2 DEF Quit
<1>3. ASSUME NEW p \in Pids, Exit(p) \/ Crash(p) PROVE NoneStarted(d)
  BY <1>3 DEF Exit, Crash
<1>4. ASSUME NEW p \in Pids, ForeignStart(p) \/ ForeignExit(p) PROVE NoneStarted(d)
  BY <1>4 DEF ForeignStart, ForeignExit
<1>5. QED
  BY <1>1, <1>2, <1>3, <1>4 DEF PlatformNext

LEMMA NoneStartedOK ==
  ASSUME NEW d, NEW N, OneInstance(d), Configured(d, N), NoneStarted(d)
  PROVE  /\ OneInstance(d)' /\ Configured(d, N)'
         /\ Instances(d)' = Instances(d) \/ (Instances(d)' = {} /\ Instances(d) # {})
<1>1. OneInstance(d)'
  BY DEF OneInstance, NoneStarted
<1>2. Configured(d, N)'
  BY DEF Configured, NoneStarted
<1>3. Instances(d)' \subseteq Instances(d)
  BY DEF Instances, NoneStarted, Up
<1>4. \A s, t \in Instances(d) : s = t
  BY DEF Instances, OneInstance
<1>5. CASE Instances(d)' = {}
  BY <1>1, <1>2, <1>5
<1>6. ASSUME NEW s \in Instances(d)' PROVE Instances(d) \subseteq Instances(d)'
  BY <1>3, <1>4
<1>7. QED
  BY <1>1, <1>2, <1>3, <1>5, <1>6

LEMMA StartedOK ==
  ASSUME PlatformTypeOK, NEW d \in Exclusive, NEW N, Configured(d, N),
         NEW p \in Pids, NEW content \in N, Spawn(d, p, content)
  PROVE  /\ OneInstance(d)' /\ Configured(d, N)'
         /\ Instances(d) = {} /\ Instances(d)' = {[id |-> p, network |-> content]}
<1>1. ~ \E q \in Pids : Up(q, d)
  BY DEF Spawn, CanStart
<1>2. /\ Up(p, d)' /\ proc'[p].conf = content
      /\ \A q \in Pids : Up(q, d)' => q = p
  BY <1>1 DEF Spawn, Up, PlatformTypeOK
<1>3. OneInstance(d)'
  BY <1>2 DEF OneInstance
<1>4. Configured(d, N)'
  BY DEF Spawn, Configured, PlatformTypeOK
<1>5. Instances(d) = {}
  BY <1>1 DEF Instances
<1>6. Instances(d)' = {[id |-> p, network |-> content]}
  BY <1>2 DEF Instances
<1>7. QED
  BY <1>3, <1>4, <1>5, <1>6

LEMMA NoInstances ==
  ASSUME NEW d \in Daemons, NEW N, PlatformInit
  PROVE  OneInstance(d) /\ Configured(d, N) /\ Instances(d) = {}
BY PlatformAssumption DEF PlatformInit, OneInstance, Configured, Instances, Up, Free

-----------------------------------------------------------------------------
(* A close that returns 0 leaves no instance of daemon d, an exclusive one,*)
(* up: the pid file it reads is that of the instance that is up, as soon   *)
(* as that instance has set itself up; labels in L are where one may still *)
(* be at it.                                                               *)
SettingUp(p, d) == proc[p].kind = d /\ proc[p].phase = "starting"
SetUpIn(d, L) ==
  \A p \in Pids : SettingUp(p, d) => \E c \in Callers : pc[c] \in L
OwnFile(d) ==
  \A p \in Pids : proc[p].kind = d /\ proc[p].phase = "running" /\ pidFile[d] # NoPid
                     => pidFile[d] = p
StreamTells(c, d) ==
  stream[c][d].pid # NoPid => \A p \in Pids : Up(p, d) => p = stream[c][d].pid
NoneUp(d) == \A p \in Pids : ~ Up(p, d)

(* What a step that starts no instance of d keeps.                         *)
Keeps(d) ==
  /\ \A p \in Pids : SettingUp(p, d)' => SettingUp(p, d)
  /\ OwnFile(d)'
  /\ NoneUp(d) => NoneUp(d)'
  /\ \A c \in Callers : StreamTells(c, d) /\ stream'[c][d].pid = stream[c][d].pid
                           => StreamTells(c, d)'

LEMMA UnchangedKeeps ==
  ASSUME NEW d, OwnFile(d), UNCHANGED <<proc, pidFile>>
  PROVE  Keeps(d)
BY DEF Keeps, OwnFile, NoneUp, StreamTells, SettingUp, Up

LEMMA PlatformKeeps ==
  ASSUME PlatformTypeOK, NEW d \in Daemons, OneInstance(d), OwnFile(d), PlatformNext
  PROVE  /\ Keeps(d)
         /\ \A c \in Callers : StreamTells(c, d) => StreamTells(c, d)'
<1> USE DEF PlatformTypeOK, Keeps, OneInstance, OwnFile, NoneUp, StreamTells,
            SettingUp, Up, Process, Stream, Free, Foreign
<1> DEFINE Goal == /\ Keeps(d)
                   /\ \A c \in Callers : StreamTells(c, d) => StreamTells(c, d)'
<1> d # "none" /\ d # "other" /\ NoPid \notin Pids
  BY PlatformAssumption
<1>1. ASSUME NEW p \in Pids, WritePidFile(p) PROVE Goal
  BY <1>1 DEF WritePidFile
<1>2. ASSUME NEW p \in Pids, Quit(p) PROVE Goal
  BY <1>2 DEF Quit
<1>3. ASSUME NEW p \in Pids, Exit(p) PROVE Goal
  BY <1>3 DEF Exit
<1>4. ASSUME NEW p \in Pids, Crash(p) PROVE Goal
  BY <1>4 DEF Crash
<1>5. ASSUME NEW p \in Pids, ForeignStart(p) PROVE Goal
  BY <1>5 DEF ForeignStart
<1>6. ASSUME NEW p \in Pids, ForeignExit(p) PROVE Goal
  BY <1>6 DEF ForeignExit
<1> HIDE DEF Goal
<1>7. Goal
  BY <1>1, <1>2, <1>3, <1>4, <1>5, <1>6 DEF PlatformNext
<1>8. QED
  BY <1>7 DEF Goal

LEMMA SignalKeeps ==
  ASSUME PlatformTypeOK, NEW d \in Daemons, OwnFile(d), NEW e, NEW p \in Pids,
         Signal(e, p), UNCHANGED pidFile
  PROVE  Keeps(d)
BY PlatformAssumption
   DEF PlatformTypeOK, Keeps, OwnFile, NoneUp, StreamTells, SettingUp, Up, Signal,
       AfterTerm, Process, Free

LEMMA SpawnKeeps ==
  ASSUME PlatformTypeOK, NEW d \in Daemons, OwnFile(d), NEW e, e # d,
         NEW p \in Pids, NEW content, Spawn(e, p, content), UNCHANGED pidFile
  PROVE  Keeps(d)
BY DEF PlatformTypeOK, Keeps, OwnFile, NoneUp, StreamTells, SettingUp, Up, Spawn

(* A start of d itself.                                                    *)
LEMMA SpawnOwnFile ==
  ASSUME PlatformTypeOK, NEW d \in Daemons, OwnFile(d),
         NEW p \in Pids, NEW content, Spawn(d, p, content), UNCHANGED pidFile
  PROVE  OwnFile(d)'
BY DEF PlatformTypeOK, OwnFile, Spawn

(* fopen of the pid file of d, when no instance is setting itself up.      *)
LEMMA FopenTells ==
  ASSUME PlatformTypeOK, NEW d \in Daemons, OwnFile(d), NEW c \in Callers,
         stream[c][d].pid = NoPid, \A p \in Pids : ~ SettingUp(p, d),
         NEW from, NEW to, FopenPidFile(c, d, from, to)
  PROVE  StreamTells(c, d)'
BY DEF PlatformTypeOK, OwnFile, StreamTells, SettingUp, Up, FopenPidFile

LEMMA KillKeeps ==
  ASSUME PlatformTypeOK, NEW d \in Daemons, OwnFile(d), NEW c \in Callers,
         NEW e \in Daemons, NEW from, NEW to, KillFromPidFile(c, e, from, to)
  PROVE  Keeps(d)
<1>1. CASE stream[c][e].pid # NoPid
  BY <1>1, SignalKeeps DEF KillFromPidFile, PlatformTypeOK, Stream
<1>2. CASE stream[c][e].pid = NoPid
  BY <1>2, UnchangedKeeps DEF KillFromPidFile
<1>3. QED
  BY <1>1, <1>2

(* The kill of d itself.                                                   *)
LEMMA KillDowns ==
  ASSUME PlatformTypeOK, NEW d \in Daemons, NEW c \in Callers, StreamTells(c, d),
         stream[c][d].pid # NoPid, NEW from, NEW to, KillFromPidFile(c, d, from, to)
  PROVE  NoneUp(d)'
BY DEF PlatformTypeOK, StreamTells, NoneUp, Up, KillFromPidFile, Signal, AfterTerm,
       Process, Stream, Free

=============================================================================
