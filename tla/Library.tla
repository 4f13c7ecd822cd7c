------------------------------ MODULE Library -------------------------------
(***************************************************************************)
(* The part of libwifi that station mode and access-point mode have in     *)
(* common: how a call opens, fills and closes its configuration file, how  *)
(* it starts daemons with system(), and how it kills them through their    *)
(* pid files (src/src/wifi.c, src/includes/utils.h).                       *)
(*                                                                         *)
(* A call is a sequence of steps; pc[c] names the next one.  Between two   *)
(* steps the daemons run, other processes come and go, and other callers   *)
(* take steps of their own.  Labels "fopen" and "build" are the two halves *)
(* of writing the configuration; from and to are the labels of a step that *)
(* differ from one use to another.                                         *)
(***************************************************************************)
EXTENDS Platform

CONSTANTS
  MaxFds,     (* streams a process may have open at once (RLIMIT_NOFILE)   *)
  NoArgs      (* a NULL argument pointer                                   *)

ASSUME LibraryAssumption == MaxFds \in Nat

VARIABLES
  pc,         (* Callers -> the next step of its call, "idle" outside one  *)
  call,       (* Callers -> [op, args, fds]: its last call, what it was    *)
              (* called with and the streams it had open on entry          *)
  ret,        (* Callers -> what that call returned: "none" until it has,  *)
              (* "ok" for 0, "fail" for -1                                 *)
  fds,        (* Callers -> number of streams it has open                  *)
  conf        (* Exclusive -> content of the daemon's configuration file   *)

callVars == <<pc, call, ret, fds>>

Restarts == {"wifiRestartSTA", "wifiRestartAP"}
Closes == {"wifiCloseSTA", "wifiCloseAP"}
Ops == {"none", "wifiOpenSTA", "wifiOpenAP"} \cup Closes \cup Restarts

(* The steps of a close; both modes kill two daemons. *)
CloseLabels == {"pid_1", "pid_2", "kill_1", "kill_2", "fclose"}

LibraryTypeOK(Labels, Args) ==
  /\ pc \in [Callers -> Labels]
  /\ call \in [Callers -> [op: Ops, args: Args, fds: 0..MaxFds]]
  /\ ret \in [Callers -> {"none", "ok", "fail"}]
  /\ fds \in [Callers -> 0..MaxFds]
  /\ conf \in [Exclusive -> Contents]

LibraryInit ==
  /\ pc = [c \in Callers |-> "idle"]
  /\ call = [c \in Callers |-> [op |-> "none", args |-> NoArgs, fds |-> 0]]
  /\ ret = [c \in Callers |-> "none"]
  /\ fds = [c \in Callers |-> 0]
  /\ conf = [d \in Exclusive |-> NoFile]

-----------------------------------------------------------------------------
Goto(c, to) ==
  /\ pc' = [pc EXCEPT ![c] = to]
  /\ UNCHANGED <<call, ret>>

Return(c, r) ==
  /\ pc' = [pc EXCEPT ![c] = "idle"]
  /\ ret' = [ret EXCEPT ![c] = r]
  /\ UNCHANGED call

(* A caller that is not in a call makes one.  A restart begins with the    *)
(* steps of a close.                                                       *)
Enter(c, op, args, to) ==
  /\ pc[c] = "idle"
  /\ pc' = [pc EXCEPT ![c] = to]
  /\ call' = [call EXCEPT ![c] = [op |-> op, args |-> args, fds |-> fds[c]]]
  /\ ret' = [ret EXCEPT ![c] = "none"]
  /\ UNCHANGED <<fds, conf, platformVars>>

(* wifiRestart* ignores what wifiClose* returned and goes on to wifiOpen*. *)
ReturnClose(c, r) ==
  IF call[c].op \in Restarts THEN Goto(c, "fopen") ELSE Return(c, r)

-----------------------------------------------------------------------------
(* The configuration file of an open.                                      *)

(* An ASSERT on the arguments: the call returns -1.  Between fopen and     *)
(* fclose the stream stays open.                                           *)
RejectArgs(c, from) ==
  /\ pc[c] = from
  /\ Return(c, "fail")
  /\ UNCHANGED <<fds, conf, platformVars>>

(* fopen(path, "w") of the configuration file of daemon d: the old content *)
(* is gone from here on.  ASSERT rejects a NULL argument before the file   *)
(* is opened, and returns -1 when fopen fails.                             *)
FopenConfig(c, d) ==
  \/ RejectArgs(c, "fopen")
  \/ /\ pc[c] = "fopen"
     /\ call[c].args # NoArgs
     /\ fds[c] < MaxFds
     /\ fds' = [fds EXCEPT ![c] = @ + 1]
     /\ conf' = [conf EXCEPT ![d] = Empty]
     /\ Goto(c, "build")
     /\ UNCHANGED platformVars

(* Variant: without the fclose (wifi.c:66, 233). *)
WriteConfigKeepOpen(c, d, content) ==
  /\ pc[c] = "build"
  /\ conf' = [conf EXCEPT ![d] = content]
  /\ UNCHANGED fds

(* fprintf and fclose.  The content reaches the file here, at offset 0: if *)
(* another caller has written to it meanwhile, the rest of the longer of   *)
(* the two texts may remain.                                               *)
WriteConfig(c, d, content) ==
  /\ pc[c] = "build"
  /\ conf' \in {[conf EXCEPT ![d] = x] :
                  x \in {content} \cup (IF conf[d] = Empty THEN {} ELSE {Torn})}
  /\ fds' = [fds EXCEPT ![c] = @ - 1]

(* system() of a command that starts daemon d in the background: it        *)
(* returns when the daemon has forked, and the library ignores whether it  *)
(* has.                                                                    *)
StartDaemon(c, d, content, from) ==
  /\ pc[c] = from
  /\ \/ \E p \in Pids : Spawn(d, p, content)
     \/ UNCHANGED proc
  /\ UNCHANGED <<fds, conf, pidFile, stream, waiting, crashed, strays>>

-----------------------------------------------------------------------------
(* The pid files of a close.                                               *)

(* fopen(path, "r") of the pid file of daemon d: NULL if there is no such  *)
(* file or the process has no stream left.                                 *)
FopenPidFile(c, d, from, to) ==
  /\ pc[c] = from
  /\ IF pidFile[d] # NoPid /\ fds[c] < MaxFds
     THEN /\ stream' = [stream EXCEPT ![c][d] = [pid |-> pidFile[d],
                                                 linked |-> TRUE]]
          /\ fds' = [fds EXCEPT ![c] = @ + 1]
     ELSE UNCHANGED <<stream, fds>>
  /\ Goto(c, to)
  /\ UNCHANGED <<conf, proc, pidFile, waiting, crashed, strays>>

(* The local stream variables go out of scope when a close returns; the    *)
(* streams themselves stay open unless they were closed.                   *)
ForgetStreams(c) == stream' = [stream EXCEPT ![c] = [d \in Daemons |-> Closed]]

(* Variant: `line` keeps the number that was read from the other file,     *)
(* without the second fgets (wifi.c:286, 328).                             *)
KillFromStaleLine(c, d, from, to) ==
  /\ pc[c] = from
  /\ IF stream[c][d].pid # NoPid
     THEN /\ \E e \in Daemons : /\ stream[c][e].pid # NoPid
                                /\ Signal(d, stream[c][e].pid)
          /\ Goto(c, to)
          /\ UNCHANGED stream
     ELSE /\ ReturnClose(c, "fail")
          /\ ForgetStreams(c)
          /\ UNCHANGED <<proc, waiting, strays>>
  /\ UNCHANGED <<fds, conf, pidFile, crashed>>

(* fgets the number from the stream on d's pid file and kill it; or return *)
(* -1 at once if that stream is NULL, leaving the other one open.          *)
KillFromPidFile(c, d, from, to) ==
  /\ pc[c] = from
  /\ IF stream[c][d].pid # NoPid
     THEN /\ Signal(d, stream[c][d].pid)
          /\ Goto(c, to)
          /\ UNCHANGED stream
     ELSE /\ ReturnClose(c, "fail")
          /\ ForgetStreams(c)
          /\ UNCHANGED <<proc, waiting, strays>>
  /\ UNCHANGED <<fds, conf, pidFile, crashed>>

(* Variant: one of them closed twice. *)
FcloseTwice(c) ==
  /\ pc[c] = "fclose"
  /\ fds' = [fds EXCEPT ![c] = @ - 3]
  /\ ForgetStreams(c)
  /\ ReturnClose(c, "ok")
  /\ UNCHANGED <<conf, proc, pidFile, waiting, crashed, strays>>

(* fclose of both pid-file streams, and return 0. *)
FclosePidFiles(c) ==
  /\ pc[c] = "fclose"
  /\ fds' = [fds EXCEPT ![c] = @ - 2]
  /\ ForgetStreams(c)
  /\ ReturnClose(c, "ok")
  /\ UNCHANGED <<conf, proc, pidFile, waiting, crashed, strays>>

-----------------------------------------------------------------------------
(* A process that links the library ends, and its successor starts: after  *)
(* its last call has returned or, if the model has that fault, in the      *)
(* middle of one.  Its streams are closed; the daemons, their pid files    *)
(* and the configuration files stay as they are.                           *)
CallerExits(c) ==
  /\ pc[c] = "idle" \/ "killed" \in Faults
  /\ pc' = [pc EXCEPT ![c] = "idle"]
  /\ call' = [call EXCEPT ![c] = [op |-> "none", args |-> call[c].args,
                                  fds |-> 0]]
  /\ ret' = [ret EXCEPT ![c] = "none"]
  /\ fds' = [fds EXCEPT ![c] = 0]
  /\ waiting' = [waiting EXCEPT ![c] = NoPid]
  /\ ForgetStreams(c)
  /\ UNCHANGED <<conf, proc, pidFile, crashed, strays>>

-----------------------------------------------------------------------------
(* A call that returns 0 has closed what it opened; one that returns -1    *)
(* has lost at most one stream, and a restart one for each half that       *)
(* failed (the early returns at wifi.c:29, 39, 50, 270, 282 and 95, 129,   *)
(* 147, 310, 324).                                                         *)
Lost(c) == IF call[c].op \in Restarts THEN 1 ELSE 0
MayLose(c) == Lost(c) + (IF ret[c] = "fail" THEN 1 ELSE 0)
StreamAccounting ==
  \A c \in Callers : ret[c] # "none" =>
     call[c].fds <= fds[c] /\ fds[c] <= call[c].fds + MayLose(c)

(* Why: a close holds the streams it has opened so far, d1 first and then  *)
(* d2, and gets past the first kill only if it holds the one on k; before  *)
(* an open, a call has lost none but in the close half of a restart.       *)
(* Written is the set of labels after the fclose of the configuration.     *)
Held(c, d) == IF stream[c][d].pid = NoPid THEN 0 ELSE 1
StreamsOf(c, d1, d2, k, Written) ==
  LET own == fds[c] - call[c].fds
      h1 == Held(c, d1)
      h2 == Held(c, d2)
  IN
  /\ pc[c] \notin {"pid_2", "kill_1", "kill_2", "fclose"} => h1 = 0 /\ h2 = 0
  /\ pc[c] = "pid_2" => h2 = 0
  /\ pc[c] = "kill_2" => Held(c, k) = 1
  /\ pc[c] = "fclose" => h1 = 1 /\ h2 = 1
  /\ pc[c] \in CloseLabels => /\ own = h1 + h2
                              /\ call[c].op \in Closes \cup Restarts
  /\ pc[c] \in {"fopen"} \cup Written => own \in 0..Lost(c)
  /\ pc[c] = "build" => own - 1 \in 0..Lost(c)
  /\ pc[c] \in {"build"} \cup Written => call[c].args # NoArgs
  /\ ret[c] # "none" => pc[c] = "idle"
  /\ ret[c] # "none" => own \in 0..MayLose(c)

=============================================================================
