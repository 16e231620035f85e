----------------------------- MODULE Singleton -----------------------------
(***************************************************************************)
(* Start-up and replacement of the daemon (internal/lifecycle, with the    *)
(* calls internal/daemon makes of it): any number of daemon processes are  *)
(* launched, lock and rewrite the pidfile, terminate their predecessor,    *)
(* reap its GLiNER sidecar, start their own, run, and are stopped, killed  *)
(* or crash between any two steps.                                         *)
(*                                                                         *)
(* flock(2) is on the open file: the lock goes when the process does, and  *)
(* a sidecar does not inherit it.  A sidecar is named by the daemon that   *)
(* spawned it; sidecar.port names the port of one.  Packet filter rules    *)
(* are in ProxyRouting.tla.                                                *)
(***************************************************************************)
CONSTANTS
  Pids,     \* process ids; a daemon launched under each at most once
  NoPid,    \* no process; a pidfile that is absent, empty or unparseable
  Faults    \* what the environment does: a subset of AllFaults

AllFaults == {"exit", "stop", "reuse", "unkillable"}

ASSUME SingletonAssumption == NoPid \notin Pids /\ Faults \subseteq AllFaults

VARIABLES
  pc,         \* pc[p]: where process p is
  target,     \* target[p]: the predecessor p terminates, or sidecar it reaps
  lock,       \* the process that holds the flock, or NoPid
  pidfile,    \* the process redactr.pid names, or NoPid
  signalled,  \* processes a SIGTERM or SIGINT is on its way to
  doomed,     \* processes a SIGKILL is on its way to
  strangers,  \* pids of ended daemons in use by other programs
  unwaited,   \* processes whose parent runs and does not wait for them
  sidecar,    \* sidecar[p]: "none" | "starting" | "listening" | "dead" | "taken"
  portfile    \* whose sidecar's port sidecar.port holds, or NoPid

vars == <<pc, target, lock, pidfile, signalled, doomed, strangers, unwaited,
          sidecar, portfile>>

files == <<pidfile, portfile>>

(* The stations of a process, in the order it goes through them: acquiring *)
(* (open .. retry), holding the lock (claim .. release), the rest.         *)
Acquiring == {"open", "read", "check", "term", "poll", "kill", "retry"}
Building == {"claim", "write", "reap", "reaping", "unport", "spawn", "port", "serve"}
Stopping == {"stopping", "cleanup", "release"}
Holding == Building \cup {"running"} \cup Stopping
Stations == {"new", "released", "gone"} \cup Acquiring \cup Holding

Daemon(p) == pc[p] \notin {"new", "gone"}

(* A process that has ended stays in the process table until its parent    *)
(* waits for it or ends.  An agent starts a daemon and does not wait.      *)
Zombie(p) == pc[p] = "gone" /\ p \in unwaited

(* kill(pid, 0) finds a process, ours or not, ended or not. *)
ProcessAlive(p) == Daemon(p) \/ Zombie(p) \/ p \in strangers

Init ==
  /\ pc = [p \in Pids |-> "new"]
  /\ target = [p \in Pids |-> NoPid]
  /\ lock = NoPid
  /\ pidfile = NoPid
  /\ signalled = {}
  /\ doomed = {}
  /\ strangers = {}
  /\ unwaited = {}
  /\ sidecar = [p \in Pids |-> "none"]
  /\ portfile = NoPid

Goto(p, station) == pc' = [pc EXCEPT ![p] = station]

(* A process ends: the kernel closes its files, which drops the lock, and  *)
(* forgets signals on their way to it.                                     *)
Ends(p) ==
  /\ Goto(p, "gone")
  /\ lock' = IF lock = p THEN NoPid ELSE lock
  /\ signalled' = signalled \ {p}
  /\ doomed' = doomed \ {p}

-----------------------------------------------------------------------------
(* AcquireSingleton *)

(* Mutant: the pidfile is opened with O_TRUNC. *)
LaunchTruncates(p) ==
  /\ pc[p] = "new"
  /\ Goto(p, "open")
  /\ pidfile' = NoPid
  /\ UNCHANGED <<target, lock, signalled, doomed, strangers, unwaited, sidecar, portfile>>

(* OpenFile(O_RDWR|O_CREATE): the content is left as it is.  A shell waits *)
(* for what it starts.                                                     *)
Launch(p) ==
  /\ pc[p] = "new"
  /\ Goto(p, "open")
  /\ unwaited' \in {unwaited, unwaited \cup {p}}
  /\ UNCHANGED <<target, lock, signalled, doomed, strangers, sidecar, files>>

(* Mutant: the lock is taken for granted once the predecessor is gone. *)
FlockAssumed(p) ==
  /\ pc[p] \in {"open", "retry"}
  /\ pc[p] = "open" => lock = NoPid
  /\ lock' = p
  /\ Goto(p, "claim")
  /\ UNCHANGED <<target, signalled, doomed, strangers, unwaited, sidecar, files>>

(* Mutant: the lock is not tried again after the predecessor is gone. *)
FlockOnce(p) ==
  /\ pc[p] = "open"
  /\ lock = NoPid
  /\ lock' = p
  /\ Goto(p, "claim")
  /\ UNCHANGED <<target, signalled, doomed, strangers, unwaited, sidecar, files>>

(* tryFlock, the first time (station open) and after a replacement (retry). *)
FlockGets(p) ==
  /\ pc[p] \in {"open", "retry"}
  /\ lock = NoPid
  /\ lock' = p
  /\ Goto(p, "claim")
  /\ UNCHANGED <<target, signalled, doomed, strangers, unwaited, sidecar, files>>

FlockBlocked(p) ==
  /\ pc[p] = "open"
  /\ lock # NoPid
  /\ Goto(p, "read")
  /\ UNCHANGED <<target, lock, signalled, doomed, strangers, unwaited, sidecar, files>>

(* "flock after replace": the second attempt is the last. *)
ReplaceFails(p) ==
  /\ pc[p] = "retry"
  /\ lock # NoPid
  /\ Ends(p)
  /\ UNCHANGED <<target, strangers, unwaited, sidecar, files>>

(* Mutant: an unparseable pidfile is not an error. *)
ReadPidUnchecked(p) ==
  /\ pc[p] = "read"
  /\ target' = [target EXCEPT ![p] = pidfile]
  /\ Goto(p, "check")
  /\ UNCHANGED <<lock, signalled, doomed, strangers, unwaited, sidecar, files>>

(* readPid: unparseable, or our own pid, is an error. *)
ReadPid(p) ==
  /\ pc[p] = "read"
  /\ pidfile \in Pids \ {p}
  /\ target' = [target EXCEPT ![p] = pidfile]
  /\ Goto(p, "check")
  /\ UNCHANGED <<lock, signalled, doomed, strangers, unwaited, sidecar, files>>

ReadPidFails(p) ==
  /\ pc[p] = "read"
  /\ pidfile \notin Pids \ {p}
  /\ Ends(p)
  /\ UNCHANGED <<target, strangers, unwaited, sidecar, files>>

(* IsOurProcess (ps -o comm=): a zombie still has its name, and another    *)
(* program passes if its name holds "redactr" or is "go".                  *)
IsOurs(p) ==
  /\ pc[p] = "check"
  /\ ProcessAlive(target[p])
  /\ Goto(p, "term")
  /\ UNCHANGED <<target, lock, signalled, doomed, strangers, unwaited, sidecar, files>>

IsNotOurs(p) ==
  /\ pc[p] = "check"
  /\ ~Daemon(target[p]) /\ ~Zombie(target[p])
  /\ Ends(p)
  /\ UNCHANGED <<target, strangers, unwaited, sidecar, files>>

(* A signal is accepted for a zombie, to no effect. *)
Reached(q) == {q} \ {z \in Pids : Zombie(z)}

(* terminateAndWait: SIGTERM goes to whatever has the pid by now; ESRCH    *)
(* means it is gone already.                                               *)
Sigterm(p) ==
  /\ pc[p] = "term"
  /\ IF ProcessAlive(target[p])
     THEN signalled' = signalled \cup Reached(target[p]) /\ Goto(p, "poll")
     ELSE signalled' = signalled /\ Goto(p, "retry")
  /\ UNCHANGED <<target, lock, doomed, strangers, unwaited, sidecar, files>>

PollGone(p) ==
  /\ pc[p] \in {"poll", "kill"}
  /\ ~ProcessAlive(target[p])
  /\ Goto(p, "retry")
  /\ UNCHANGED <<target, lock, signalled, doomed, strangers, unwaited, sidecar, files>>

(* The grace is over: SIGKILL, ESRCH ignored, and a second wait ... *)
Sigkill(p) ==
  /\ pc[p] = "poll"
  /\ doomed' = IF ProcessAlive(target[p]) THEN doomed \cup Reached(target[p]) ELSE doomed
  /\ Goto(p, "kill")
  /\ UNCHANGED <<target, lock, signalled, strangers, unwaited, sidecar, files>>

(* ... of 40 probes (2 s), after which it is an error: a process may hang  *)
(* in the kernel for longer than that, and a zombie stays.                 *)
StillAlive(p) ==
  /\ pc[p] = "kill"
  /\ ProcessAlive(target[p])
  /\ "unkillable" \in Faults \/ Zombie(target[p])
  /\ Ends(p)
  /\ UNCHANGED <<target, strangers, unwaited, sidecar, files>>

(* finalizeClaim: the pidfile is empty between its two steps. *)
TruncatePidfile(p) ==
  /\ pc[p] = "claim"
  /\ pidfile' = NoPid
  /\ Goto(p, "write")
  /\ UNCHANGED <<target, lock, signalled, doomed, strangers, unwaited, sidecar, portfile>>

WritePidfile(p) ==
  /\ pc[p] = "write"
  /\ pidfile' = p
  /\ Goto(p, "reap")
  /\ UNCHANGED <<target, lock, signalled, doomed, strangers, unwaited, sidecar, portfile>>

-----------------------------------------------------------------------------
(* ReapOrphans, called by Build: the pid comes from lsof on the port, so a *)
(* sidecar that does not listen yet is not found, and then the file stays; *)
(* another program that listens there is taken for the sidecar.            *)
FindSidecar(p) ==
  /\ pc[p] = "reap"
  /\ IF portfile \in Pids /\ sidecar[portfile] \in {"listening", "taken"}
     THEN target' = [target EXCEPT ![p] = portfile] /\ Goto(p, "reaping")
     ELSE target' = target /\ Goto(p, "spawn")
  /\ UNCHANGED <<lock, signalled, doomed, strangers, unwaited, sidecar, files>>

(* terminateAndWait as above; its error is logged and the reaping goes on. *)
ReapSidecar(p) ==
  /\ pc[p] = "reaping"
  /\ \/ sidecar' = [sidecar EXCEPT ![target[p]] = "dead"]
     \/ "unkillable" \in Faults /\ sidecar' = sidecar
  /\ Goto(p, "unport")
  /\ UNCHANGED <<target, lock, signalled, doomed, strangers, unwaited, files>>

RemovePortfile(p) ==
  /\ pc[p] = "unport"
  /\ portfile' = NoPid
  /\ Goto(p, "spawn")
  /\ UNCHANGED <<target, lock, signalled, doomed, strangers, unwaited, sidecar, pidfile>>

(* Daemon.Start: Manager.StartLazy spawns, then writes sidecar.port; no    *)
(* sidecar when no GLiNER rule is on or python3 does not start.            *)
SpawnSidecar(p) ==
  /\ pc[p] = "spawn"
  /\ sidecar' = [sidecar EXCEPT ![p] = "starting"]
  /\ Goto(p, "port")
  /\ UNCHANGED <<target, lock, signalled, doomed, strangers, unwaited, files>>

NoSidecar(p) ==
  /\ pc[p] = "spawn"
  /\ Goto(p, "serve")
  /\ UNCHANGED <<target, lock, signalled, doomed, strangers, unwaited, sidecar, files>>

WritePortfile(p) ==
  /\ pc[p] = "port"
  /\ portfile' = p
  /\ Goto(p, "serve")
  /\ UNCHANGED <<target, lock, signalled, doomed, strangers, unwaited, sidecar, pidfile>>

(* The rest of Start, and Run's signal.Notify. *)
Serve(p) ==
  /\ pc[p] = "serve"
  /\ Goto(p, "running")
  /\ UNCHANGED <<target, lock, signalled, doomed, strangers, unwaited, sidecar, files>>

-----------------------------------------------------------------------------
(* Signals, and Daemon.Stop.  Only a running daemon has a handler; before  *)
(* that SIGTERM ends the process; during Stop it is swallowed.             *)
HandleSigterm(p) ==
  /\ p \in signalled
  /\ pc[p] = "running"
  /\ signalled' = signalled \ {p}
  /\ Goto(p, "stopping")
  /\ UNCHANGED <<target, lock, doomed, strangers, unwaited, sidecar, files>>

DieOfSignal(p) ==
  /\ Daemon(p)
  /\ \/ p \in doomed
     \/ p \in signalled /\ pc[p] \in Acquiring \cup Building
  /\ Ends(p)
  /\ UNCHANGED <<target, strangers, unwaited, sidecar, files>>

(* Mutant: Stop releases the lock before it removes the state files. *)
StopReleasesFirst(p) ==
  /\ pc[p] = "stopping"
  /\ sidecar' = [sidecar EXCEPT ![p] = IF @ = "none" THEN @ ELSE "dead"]
  /\ lock' = NoPid
  /\ Goto(p, "cleanup")
  /\ UNCHANGED <<target, signalled, doomed, strangers, unwaited, files>>

(* Stop: sidecarMgr.Stop, the state files, the lock, and the process ends. *)
StopSidecar(p) ==
  /\ pc[p] = "stopping"
  /\ sidecar' = [sidecar EXCEPT ![p] = IF @ = "none" THEN @ ELSE "dead"]
  /\ Goto(p, "cleanup")
  /\ UNCHANGED <<target, lock, signalled, doomed, strangers, unwaited, files>>

RemoveStateFiles(p) ==
  /\ pc[p] = "cleanup"
  /\ portfile' = NoPid
  /\ Goto(p, "release")
  /\ UNCHANGED <<target, lock, signalled, doomed, strangers, unwaited, sidecar, pidfile>>

Release(p) ==
  /\ pc[p] = "release"
  /\ lock' = NoPid
  /\ Goto(p, "released")
  /\ UNCHANGED <<target, signalled, doomed, strangers, unwaited, sidecar, files>>

Exit(p) ==
  /\ pc[p] = "released"
  /\ Ends(p)
  /\ UNCHANGED <<target, strangers, unwaited, sidecar, files>>

-----------------------------------------------------------------------------
(* The environment.  A crash, a kill -9, or an error from Build or Start,  *)
(* on which Run returns without calling Stop.                              *)
Crash(p) ==
  /\ "exit" \in Faults
  /\ Daemon(p)
  /\ Ends(p)
  /\ UNCHANGED <<target, strangers, unwaited, sidecar, files>>

(* The user stops a daemon (SIGINT or SIGTERM). *)
UserStop(p) ==
  /\ "stop" \in Faults
  /\ Daemon(p)
  /\ signalled' = signalled \cup {p}
  /\ UNCHANGED <<pc, target, lock, doomed, strangers, unwaited, sidecar, files>>

(* The pid of an ended daemon goes to another program. *)
Reuse(p) ==
  /\ "reuse" \in Faults
  /\ pc[p] = "gone" /\ ~Zombie(p)
  /\ strangers' = strangers \cup {p}
  /\ UNCHANGED <<pc, target, lock, signalled, doomed, unwaited, sidecar, files>>

StrangerEnds(p) ==
  /\ p \in strangers
  /\ strangers' = strangers \ {p}
  /\ signalled' = signalled \ {p}
  /\ doomed' = doomed \ {p}
  /\ UNCHANGED <<pc, target, lock, unwaited, sidecar, files>>

(* The parent ends: init waits for its children. *)
ParentEnds(p) ==
  /\ p \in unwaited
  /\ unwaited' = unwaited \ {p}
  /\ UNCHANGED <<pc, target, lock, signalled, doomed, strangers, sidecar, files>>

SidecarListens(p) ==
  /\ sidecar[p] = "starting"
  /\ sidecar' = [sidecar EXCEPT ![p] = "listening"]
  /\ UNCHANGED <<pc, target, lock, signalled, doomed, strangers, unwaited, files>>

(* A sidecar ends by itself, and its port goes to another program. *)
SidecarEnds(p) ==
  /\ "exit" \in Faults
  /\ sidecar[p] \in {"starting", "listening"}
  /\ sidecar' = [sidecar EXCEPT ![p] = "dead"]
  /\ UNCHANGED <<pc, target, lock, signalled, doomed, strangers, unwaited, files>>

PortTaken(p) ==
  /\ "reuse" \in Faults
  /\ sidecar[p] = "dead"
  /\ sidecar' = [sidecar EXCEPT ![p] = "taken"]
  /\ UNCHANGED <<pc, target, lock, signalled, doomed, strangers, unwaited, files>>

-----------------------------------------------------------------------------
Step(p) ==
  \/ FlockGets(p) \/ FlockBlocked(p) \/ ReplaceFails(p) \/ ReadPid(p) \/ ReadPidFails(p)
  \/ IsOurs(p) \/ IsNotOurs(p) \/ Sigterm(p) \/ PollGone(p) \/ Sigkill(p) \/ StillAlive(p)
  \/ TruncatePidfile(p) \/ WritePidfile(p)
  \/ FindSidecar(p) \/ ReapSidecar(p) \/ RemovePortfile(p)
  \/ SpawnSidecar(p) \/ NoSidecar(p) \/ WritePortfile(p) \/ Serve(p)
  \/ HandleSigterm(p) \/ DieOfSignal(p)
  \/ StopSidecar(p) \/ RemoveStateFiles(p) \/ Release(p) \/ Exit(p)

Environment(p) ==
  \/ Launch(p) \/ Crash(p) \/ UserStop(p) \/ Reuse(p) \/ StrangerEnds(p)
  \/ ParentEnds(p) \/ SidecarListens(p) \/ SidecarEnds(p) \/ PortTaken(p)

Next == \E p \in Pids : Step(p) \/ Environment(p)

Spec == Init /\ [][Next]_vars

-----------------------------------------------------------------------------
(* Files, signals and stations are well formed; a process that checks,     *)
(* signals or reaps has a target: readPid's errors are caught.             *)
TypeOK ==
  /\ pc \in [Pids -> Stations]
  /\ target \in [Pids -> Pids \cup {NoPid}]
  /\ \A p \in Pids : pc[p] \in {"check", "term", "poll", "kill", "reaping"} => target[p] \in Pids
  /\ lock \in Pids \cup {NoPid}
  /\ pidfile \in Pids \cup {NoPid}
  /\ signalled \subseteq Pids
  /\ doomed \subseteq Pids
  /\ strangers \subseteq Pids
  /\ unwaited \subseteq Pids
  /\ sidecar \in [Pids -> {"none", "starting", "listening", "dead", "taken"}]
  /\ portfile \in Pids \cup {NoPid}

(* No two daemons build, run or stop at once over one state directory,     *)
(* though each may be replacing the other, be killed or release at any     *)
(* point: nobody passes AcquireSingleton without the flock, and Release    *)
(* comes after everything else Stop does.                                  *)
OneDaemon == \A p, q \in Pids : pc[p] \in Holding /\ pc[q] \in Holding => p = q

(* The pidfile names the daemon that holds the lock, from finalizeClaim on *)
(* and whatever newcomers do meanwhile: a successor that finds the lock    *)
(* taken knows whom to replace.                                            *)
PidfileNamesHolder ==
  \A p \in Pids : pc[p] \in Holding \ {"claim", "write"} => pidfile = p

(* The strengthening that makes both inductive. *)
LockHeld == \A p \in Pids : pc[p] \in Holding => lock = p

SingletonInv == LockHeld /\ PidfileNamesHolder

(* sidecar.port names the sidecar of the daemon that is up, so that the    *)
(* next one finds it if this one crashes: no predecessor's Stop or reaping *)
(* removes the file under it.                                              *)
SidecarOnFile ==
  \A p \in Pids :
    pc[p] \in {"serve", "running", "stopping"} /\ sidecar[p] # "none" => portfile = p

(* Its strengthening: a process that has not got to StartLazy has no       *)
(* sidecar, and what is being reaped was one.                              *)
SidecarInv ==
  /\ SidecarOnFile
  /\ \A p \in Pids :
       pc[p] \in {"new"} \cup Acquiring \cup (Building \ {"port", "serve"}) => sidecar[p] = "none"
  /\ \A p \in Pids : pc[p] = "reaping" => sidecar[target[p]] # "none"

(* A daemon that is up has reaped the sidecars of those before it. *)
CleanStart ==
  \A p, q \in Pids :
    pc[p] = "running" /\ q # p => sidecar[q] \notin {"starting", "listening"}

(* No signal is ever sent to another program that has a daemon's old pid.  *)
StrangersSpared == (signalled \cup doomed) \cap strangers = {}

(* The daemon that has passed AcquireSingleton and not released yet.  *)
Owner ==
  IF \E p \in Pids : pc[p] \in Holding
  THEN CHOOSE p \in Pids : pc[p] \in Holding ELSE NoPid

Slot == INSTANCE DaemonSlot
          WITH owner <- Owner, former <- {p \in Pids : pc[p] \in {"released", "gone"}}

(* Locking, replacement, signals and crashes implement the directory that  *)
(* belongs to one daemon at a time: no step hands it from one to the next  *)
(* while the first still builds, runs or stops.                            *)
ImplementsSlot == Slot!Spec
=============================================================================
