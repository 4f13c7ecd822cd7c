------------------------------ MODULE Platform ------------------------------
(***************************************************************************)
(* What libwifi runs on: the process table of the device, the pid files    *)
(* under /var/run that its daemons keep (includes/wifi.h:28-31), and the    *)
(* pid-file streams that callers of the library hold open.  The daemons    *)
(* are not part of the repository: they are modelled by what               *)
(* src/src/wifi.c asks of them on their command lines (-B, -P, --pidfile)   *)
(* and through `kill <pid>`.                                               *)
(*                                                                         *)
(* A daemon writes its pid file some time after the command that started   *)
(* it has returned, takes SIGTERM, and removes its pid file by name as it  *)
(* exits.  A daemon that crashes leaves the file behind, and the number    *)
(* may then be given to a process that has nothing to do with libwifi.     *)
(***************************************************************************)
EXTENDS Naturals, FiniteSets

CONSTANTS
  Callers,    (* processes that link libwifi                               *)
  Daemons,    (* programs the library starts and kills through pid files   *)
  Exclusive,  (* daemons with a control socket: one live instance at most  *)
  Pids,       (* process numbers; a small set, so numbers are reused       *)
  NoPid,
  Configs,    (* contents a complete configuration file can have           *)
  NoFile,     (* a configuration file that does not exist                  *)
  Empty,      (* one that fopen("w") has just truncated                    *)
  Torn,       (* one that two callers have written over each other         *)
  Faults      (* subset of {"crash", "killed"}: the faults of this model   *)

ASSUME PlatformAssumption ==
  /\ Exclusive \subseteq Daemons
  /\ {"none", "other"} \cap Daemons = {}
  /\ NoPid \notin Pids
  /\ {NoFile, Empty, Torn} \cap Configs = {}
  /\ Faults \subseteq {"crash", "killed"}

VARIABLES
  proc,       (* Pids -> the process with that number, or Free             *)
  pidFile,    (* Daemons -> the number in its pid file, NoPid if no file   *)
  stream,     (* Callers -> Daemons -> pid-file stream held, or Closed     *)
  waiting,    (* Callers -> the foreground child its system() waits for    *)
  crashed,    (* history: daemons that have left a pid file by crashing    *)
  strays      (* history: daemons whose pid file led to signalling a       *)
              (* process that is not that daemon                           *)

platformVars == <<proc, pidFile, stream, waiting, crashed, strays>>

Contents == Configs \cup {NoFile, Empty, Torn}
Process == [kind: Daemons \cup {"none", "other"},
            phase: {"none", "starting", "running", "dying"},
            conf: Contents]
Stream == [pid: Pids \cup {NoPid}, linked: BOOLEAN]

Free == [kind |-> "none", phase |-> "none", conf |-> NoFile]
Foreign == [kind |-> "other", phase |-> "running", conf |-> NoFile]
Closed == [pid |-> NoPid, linked |-> FALSE]

PlatformTypeOK ==
  /\ proc \in [Pids -> Process]
  /\ pidFile \in [Daemons -> Pids \cup {NoPid}]
  /\ stream \in [Callers -> [Daemons -> Stream]]
  /\ waiting \in [Callers -> Pids \cup {NoPid}]
  /\ crashed \in SUBSET Daemons
  /\ strays \in SUBSET Daemons

PlatformInit ==
  /\ proc = [p \in Pids |-> Free]
  /\ pidFile = [d \in Daemons |-> NoPid]
  /\ stream = [c \in Callers |-> [d \in Daemons |-> Closed]]
  /\ waiting = [c \in Callers |-> NoPid]
  /\ crashed = {}
  /\ strays = {}

-----------------------------------------------------------------------------
(* A number can be given to a new process when no process has it and no    *)
(* caller is between reading it and killing it: numbers wrap around far    *)
(* more slowly than one close takes.                                       *)
Available(p) ==
  /\ proc[p] = Free
  /\ \A c \in Callers, d \in Daemons : stream[c][d].pid # p

(* Daemon d is up: it has not been told to stop. *)
Up(p, d) == proc[p].kind = d /\ proc[p].phase \in {"starting", "running"}

(* The second instance of a daemon with a control socket finds the socket  *)
(* in use and gives up.  One that is shutting down may or may not still    *)
(* hold it.                                                                *)
CanStart(d) == d \in Exclusive => ~ \E p \in Pids : Up(p, d)

(* system() waits for child p no longer, in any caller. *)
Reap(p) == [c \in Callers |-> IF waiting[c] = p THEN NoPid ELSE waiting[c]]

(* Variant: without `ctrl_interface` in the file (wifi.c:25, 199) nothing   *)
(* keeps a second instance away.                                           *)
SpawnUnguarded(d, p, content) ==
  /\ Available(p)
  /\ proc' = [proc EXCEPT ![p] = [kind |-> d, phase |-> "starting",
                                  conf |-> content]]

Spawn(d, p, content) ==
  /\ CanStart(d)
  /\ Available(p)
  /\ proc' = [proc EXCEPT ![p] = [kind |-> d, phase |-> "starting",
                                  conf |-> content]]

(* SIGTERM: a daemon that has set itself up shuts down in its own time;    *)
(* any other process dies at once.                                         *)
AfterTerm(r) ==
  IF r.kind \in Daemons /\ r.phase # "starting"
  THEN [r EXCEPT !.phase = "dying"] ELSE Free

(* `kill p`, for the number p that was read from the pid file of daemon d. *)
Signal(d, p) ==
  /\ proc' = [proc EXCEPT ![p] = AfterTerm(@)]
  /\ waiting' = IF AfterTerm(proc[p]) = Free THEN Reap(p) ELSE waiting
  /\ strays' = IF proc[p].kind \in {d, "none"} THEN strays
                                               ELSE strays \cup {d}

-----------------------------------------------------------------------------
(* Steps the daemons and other processes take by themselves. *)

(* Variant: the wrong *_PID_PATH on the command line of the daemon. *)
WriteWrongPidFile(p) ==
  /\ proc[p].phase = "starting"
  /\ proc' = [proc EXCEPT ![p].phase = "running"]
  /\ \E d \in Daemons : pidFile' = [pidFile EXCEPT ![d] = p]
  /\ UNCHANGED <<stream, waiting, crashed, strays>>

(* The daemon writes its number into its pid file.  An open stream on the  *)
(* file reads the new number, one on a file removed since does not.        *)
WritePidFile(p) ==
  LET d == proc[p].kind IN
  /\ proc[p].phase = "starting"
  /\ proc' = [proc EXCEPT ![p].phase = "running"]
  /\ pidFile' = [pidFile EXCEPT ![d] = p]
  /\ stream' = [c \in Callers |->
                  [stream[c] EXCEPT ![d].pid = IF stream[c][d].linked
                                               THEN p ELSE @]]
  /\ UNCHANGED <<waiting, crashed, strays>>

(* The daemon stops of its own accord, e.g. because its interface is gone. *)
Quit(p) ==
  /\ proc[p].kind \in Daemons
  /\ proc[p].phase = "running"
  /\ proc' = [proc EXCEPT ![p].phase = "dying"]
  /\ UNCHANGED <<pidFile, stream, waiting, crashed, strays>>

(* A daemon that shuts down removes the pid file of its name, whatever     *)
(* number is in it by then.                                                *)
Exit(p) ==
  LET d == proc[p].kind IN
  /\ proc[p].phase = "dying"
  /\ proc' = [proc EXCEPT ![p] = Free]
  /\ pidFile' = [pidFile EXCEPT ![d] = NoPid]
  /\ stream' = [c \in Callers |-> [stream[c] EXCEPT ![d].linked = FALSE]]
  /\ waiting' = Reap(p)
  /\ UNCHANGED <<crashed, strays>>

Crash(p) ==
  LET d == proc[p].kind IN
  /\ "crash" \in Faults
  /\ d \in Daemons
  /\ proc' = [proc EXCEPT ![p] = Free]
  /\ waiting' = Reap(p)
  /\ crashed' = IF pidFile[d] = p THEN crashed \cup {d} ELSE crashed
  /\ UNCHANGED <<pidFile, stream, strays>>

ForeignStart(p) ==
  /\ Available(p)
  /\ proc' = [proc EXCEPT ![p] = Foreign]
  /\ UNCHANGED <<pidFile, stream, waiting, crashed, strays>>

ForeignExit(p) ==
  /\ proc[p] = Foreign
  /\ proc' = [proc EXCEPT ![p] = Free]
  /\ UNCHANGED <<pidFile, stream, waiting, crashed, strays>>

PlatformNext ==
  \E p \in Pids : \/ WritePidFile(p) \/ Quit(p) \/ Exit(p) \/ Crash(p)
                  \/ ForeignStart(p) \/ ForeignExit(p)

-----------------------------------------------------------------------------
(* A number without a daemon behind it is free or has gone to a process    *)
(* that libwifi does not know.                                             *)
ProcessesKnown ==
  \A p \in Pids : proc[p].kind \notin Daemons => proc[p] \in {Free, Foreign}

(* The pid file of a daemon that has never crashed is removed before its   *)
(* number can go to another process, however many instances have written   *)
(* to it (wpa_supplicant -P, udhcpc --pidfile, wifi.c:70-71).              *)
PidFilesTrue ==
  \A d \in Daemons \ crashed :
    /\ pidFile[d] # NoPid => /\ proc[pidFile[d]].kind = d
                            /\ proc[pidFile[d]].phase # "starting"
    /\ \A c \in Callers : stream[c][d].pid # NoPid =>
                              proc[stream[c][d].pid].kind \in {d, "none"}

(* A stream on the present pid file reads what is in it. *)
StreamsCoherent ==
  \A c \in Callers, d \in Daemons : stream[c][d].linked =>
     pidFile[d] # NoPid /\ stream[c][d].pid = pidFile[d]

(* Only a crash can make the library signal a process that is not its own: *)
(* a close kills whatever number it reads (wifi.c:273-275, 286-288,        *)
(* 314-316, 328-330), and without a crash the file always names the daemon *)
(* or is gone.                                                             *)
StrayNeedsCrash == strays \subseteq crashed

(* The instances of daemon d that are up, and what each was started on.    *)
Instances(d) == {[id |-> p, network |-> proc[p].conf] : p \in {q \in Pids : Up(q, d)}}

(* Daemon d runs on nothing but the configurations in N. *)
Configured(d, N) == \A p \in Pids : proc[p].kind = d => proc[p].conf \in N

(* Inductive over the steps of daemons and callers alike. *)
PidInv == ProcessesKnown /\ PidFilesTrue /\ StreamsCoherent /\ StrayNeedsCrash

=============================================================================
