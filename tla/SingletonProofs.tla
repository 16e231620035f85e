-------------------------- MODULE SingletonProofs --------------------------
(***************************************************************************)
(* Mutual exclusion of daemons, and what the pidfile says, for any number  *)
(* of processes and any faults; then the same system with the agents of    *)
(* Agents.tla: what is proved of Singleton carries over, the control       *)
(* socket belongs to the daemon that holds the lock, and the container of  *)
(* an agent gets the proxy of the daemon that switched it on for it.       *)
(***************************************************************************)
EXTENDS Agents, TLAPS

USE DEF Goto, Ends, files, Daemon, Zombie, ProcessAlive

(* The stations a proof case speaks of. *)
LEMMA StationFacts ==
  /\ Acquiring \cap Holding = {}
  /\ Building \subseteq Holding /\ Stopping \subseteq Holding /\ "running" \in Holding
  /\ {"new", "released", "gone"} \cap Holding = {}
  /\ Acquiring \cup Holding \cup {"new", "released", "gone"} \subseteq Stations
  BY DEF Acquiring, Building, Stopping, Holding, Stations

(* The steps that end a process, and so drop its lock, leave the files. *)
LEMMA EndSteps ==
  ASSUME NEW p \in Pids,
         \/ ReplaceFails(p) \/ ReadPidFails(p) \/ IsNotOurs(p) \/ StillAlive(p)
         \/ DieOfSignal(p) \/ Exit(p) \/ Crash(p)
  PROVE  Ends(p) /\ UNCHANGED <<target, strangers, unwaited, sidecar, files>>
  BY DEF ReplaceFails, ReadPidFails, IsNotOurs, StillAlive, DieOfSignal, Exit, Crash

(* A step keeps the types. *)
LEMMA TypesKept == TypeOK /\ [Next]_vars => TypeOK'
  <1> SUFFICES ASSUME TypeOK, [Next]_vars PROVE TypeOK'
    OBVIOUS
  <1>1. ASSUME NEW p \in Pids, Step(p) \/ Environment(p) PROVE TypeOK'
    <2> USE DEF TypeOK
    <2>s. "gone" \in Stations /\ "released" \in Stations /\ "running" \in Stations
          /\ Acquiring \subseteq Stations /\ Building \subseteq Stations
          /\ Stopping \subseteq Stations
      BY DEF Stations, Holding
    <2>1. CASE FlockGets(p) \/ FlockBlocked(p) \/ ReadPid(p) \/ IsOurs(p) \/ Launch(p)
      BY <2>1, <2>s DEF FlockGets, FlockBlocked, ReadPid, IsOurs, Launch, Acquiring, Building
    <2>2. CASE Sigterm(p) \/ PollGone(p) \/ Sigkill(p)
      <3>1. CASE Sigterm(p)
        BY <3>1, <2>s DEF Sigterm, Reached, Acquiring
      <3>2. CASE PollGone(p)
        BY <3>2, <2>s DEF PollGone, Acquiring
      <3>3. CASE Sigkill(p)
        BY <3>3, <2>s DEF Sigkill, Reached, Acquiring
      <3> QED BY <2>2, <3>1, <3>2, <3>3
    <2>3. CASE TruncatePidfile(p) \/ WritePidfile(p) \/ FindSidecar(p) \/ ReapSidecar(p)
               \/ RemovePortfile(p)
      BY <2>3, <2>s DEF TruncatePidfile, WritePidfile, FindSidecar, ReapSidecar,
                        RemovePortfile, Building
    <2>4. CASE SpawnSidecar(p) \/ NoSidecar(p) \/ WritePortfile(p) \/ Serve(p)
      BY <2>4, <2>s DEF SpawnSidecar, NoSidecar, WritePortfile, Serve, Building
    <2>5. CASE HandleSigterm(p) \/ StopSidecar(p) \/ RemoveStateFiles(p) \/ Release(p)
      BY <2>5, <2>s DEF HandleSigterm, StopSidecar, RemoveStateFiles, Release, Stopping
    <2>6. CASE \/ ReplaceFails(p) \/ ReadPidFails(p) \/ IsNotOurs(p) \/ StillAlive(p)
               \/ DieOfSignal(p) \/ Exit(p) \/ Crash(p)
      BY <2>6, <2>s, EndSteps
    <2>7. CASE \/ UserStop(p) \/ Reuse(p) \/ StrangerEnds(p) \/ ParentEnds(p)
               \/ SidecarListens(p) \/ SidecarEnds(p) \/ PortTaken(p)
      BY <2>7 DEF UserStop, Reuse, StrangerEnds, ParentEnds, SidecarListens, SidecarEnds, PortTaken
    <2> QED BY <1>1, <2>1, <2>2, <2>3, <2>4, <2>5, <2>6, <2>7 DEF Step, Environment
  <1>2. CASE UNCHANGED vars
    BY <1>2 DEF vars, TypeOK
  <1> QED BY <1>1, <1>2 DEF Next

(* Every reachable state is well typed. *)
THEOREM SingletonTypes == Spec => []TypeOK
  <1>1. Init => TypeOK
    BY DEF Init, TypeOK, Stations
  <1> QED BY <1>1, TypesKept, PTL DEF Spec

-----------------------------------------------------------------------------
(* A step of p moves no other process, and only a lock holder writes. *)
LEMMA SingletonStep ==
  ASSUME TypeOK, SingletonInv, NEW p \in Pids, Step(p) \/ Environment(p)
  PROVE  SingletonInv'
  <1> USE DEF TypeOK
  <1>i. /\ \A q \in Pids : pc[q] \in Holding => lock = q
        /\ \A q \in Pids : pc[q] \in Holding \ {"claim", "write"} => pidfile = q
    BY DEF SingletonInv, LockHeld, PidfileNamesHolder
  <1>n. \A q \in Pids : q # NoPid
    BY SingletonAssumption
  \* Steps that take neither the lock nor the pidfile.
  <1>q. ASSUME NEW station, pc' = [pc EXCEPT ![p] = station],
               lock' = lock, pidfile' = pidfile,
               station \in Holding \ {"claim", "write"} =>
                 pc[p] \in Holding \ {"claim", "write"},
               station \in {"claim", "write"} => pc[p] \in Holding
        PROVE  SingletonInv'
    <2>1. LockHeld'
      BY <1>q, <1>i, StationFacts DEF LockHeld
    <2>2. PidfileNamesHolder'
      BY <1>q, <1>i DEF PidfileNamesHolder
    <2> QED BY <2>1, <2>2 DEF SingletonInv
  <1>1. CASE FlockGets(p)
    <2>1. \A q \in Pids : pc[q] \notin Holding
      BY <1>1, <1>i, <1>n DEF FlockGets
    <2>2. LockHeld'
      BY <1>1, <2>1 DEF FlockGets, LockHeld
    <2>3. PidfileNamesHolder'
      BY <1>1, <2>1 DEF FlockGets, PidfileNamesHolder
    <2> QED BY <2>2, <2>3 DEF SingletonInv
  <1>2. CASE FlockBlocked(p) \/ ReadPid(p) \/ IsOurs(p) \/ Launch(p) \/ PollGone(p) \/ Sigkill(p)
    BY <1>2, <1>q DEF FlockBlocked, ReadPid, IsOurs, Launch, PollGone, Sigkill,
                      Holding, Building, Stopping
  <1>3. CASE Sigterm(p)
    BY <1>3, <1>q DEF Sigterm, Holding, Building, Stopping
  <1>4. CASE TruncatePidfile(p)
    <2>1. pc[p] \in Holding
      BY <1>4 DEF TruncatePidfile, Holding, Building
    <2>2. \A q \in Pids : q # p => pc[q] \notin Holding
      BY <2>1, <1>i
    <2>3. LockHeld'
      BY <1>4, <2>1, <2>2, <1>i DEF TruncatePidfile, LockHeld
    <2>4. PidfileNamesHolder'
      BY <1>4, <2>2 DEF TruncatePidfile, PidfileNamesHolder
    <2> QED BY <2>3, <2>4 DEF SingletonInv
  <1>5. CASE WritePidfile(p)
    <2>1. pc[p] \in Holding
      BY <1>5 DEF WritePidfile, Holding, Building
    <2>2. \A q \in Pids : q # p => pc[q] \notin Holding
      BY <2>1, <1>i
    <2>3. LockHeld'
      BY <1>5, <2>1, <2>2, <1>i DEF WritePidfile, LockHeld
    <2>4. PidfileNamesHolder'
      BY <1>5, <2>2 DEF WritePidfile, PidfileNamesHolder
    <2> QED BY <2>3, <2>4 DEF SingletonInv
  <1>6. CASE FindSidecar(p)
    BY <1>6, <1>q DEF FindSidecar, Holding, Building, Stopping
  <1>7. CASE ReapSidecar(p) \/ RemovePortfile(p) \/ SpawnSidecar(p) \/ NoSidecar(p)
             \/ WritePortfile(p) \/ Serve(p)
    BY <1>7, <1>q DEF ReapSidecar, RemovePortfile, SpawnSidecar, NoSidecar, WritePortfile,
                      Serve, Holding, Building, Stopping
  <1>8. CASE HandleSigterm(p) \/ StopSidecar(p) \/ RemoveStateFiles(p)
    BY <1>8, <1>q DEF HandleSigterm, StopSidecar, RemoveStateFiles, Holding, Building, Stopping
  <1>9. CASE Release(p)
    <2>1. pc[p] \in Holding
      BY <1>9 DEF Release, Holding, Stopping
    <2>2. \A q \in Pids : q # p => pc[q] \notin Holding
      BY <2>1, <1>i
    <2>3. \A q \in Pids : pc'[q] \notin Holding
      BY <1>9, <2>2, StationFacts DEF Release
    <2> QED BY <2>3 DEF SingletonInv, LockHeld, PidfileNamesHolder
  <1>10. CASE \/ ReplaceFails(p) \/ ReadPidFails(p) \/ IsNotOurs(p) \/ StillAlive(p)
              \/ DieOfSignal(p) \/ Exit(p) \/ Crash(p)
    <2>1. /\ pc' = [pc EXCEPT ![p] = "gone"] /\ pidfile' = pidfile
          /\ lock' = IF lock = p THEN NoPid ELSE lock
      BY <1>10, EndSteps
    <2>2. LockHeld'
      BY <2>1, <1>i, StationFacts DEF LockHeld
    <2>3. PidfileNamesHolder'
      BY <2>1, <1>i, StationFacts DEF PidfileNamesHolder
    <2> QED BY <2>2, <2>3 DEF SingletonInv
  <1>11. CASE \/ UserStop(p) \/ Reuse(p) \/ StrangerEnds(p) \/ ParentEnds(p)
              \/ SidecarListens(p) \/ SidecarEnds(p) \/ PortTaken(p)
    <2>1. pc' = pc /\ lock' = lock /\ pidfile' = pidfile
      BY <1>11 DEF UserStop, Reuse, StrangerEnds, ParentEnds, SidecarListens, SidecarEnds, PortTaken
    <2> QED BY <2>1, <1>i DEF SingletonInv, LockHeld, PidfileNamesHolder
  <1> QED BY <1>1, <1>2, <1>3, <1>4, <1>5, <1>6, <1>7, <1>8, <1>9, <1>10, <1>11
          DEF Step, Environment

(* LockHeld and PidfileNamesHolder hold together. *)
LEMMA SingletonInductive == Spec => []SingletonInv
  <1>1. Init => SingletonInv
    BY StationFacts DEF Init, SingletonInv, LockHeld, PidfileNamesHolder
  <1>2. TypeOK /\ SingletonInv /\ [Next]_vars => SingletonInv'
    <2> SUFFICES ASSUME TypeOK, SingletonInv, [Next]_vars PROVE SingletonInv'
      OBVIOUS
    <2>1. CASE UNCHANGED vars
      BY <2>1 DEF vars, SingletonInv, LockHeld, PidfileNamesHolder
    <2> QED BY <2>1, SingletonStep DEF Next
  <1> QED BY <1>1, <1>2, SingletonTypes, PTL DEF Spec

(* lifecycle.go: at most one daemon is past AcquireSingleton and not past  *)
(* Release, for any number of processes, crashes and signals.              *)
THEOREM MutualExclusion == Spec => []OneDaemon
  <1>1. SingletonInv => OneDaemon
    BY DEF SingletonInv, LockHeld, OneDaemon
  <1> QED BY <1>1, SingletonInductive, PTL

(* finalizeClaim: the pidfile names the daemon a successor is to replace.  *)
THEOREM PidfileCorrect == Spec => []PidfileNamesHolder
  <1>1. SingletonInv => PidfileNamesHolder
    BY DEF SingletonInv
  <1> QED BY <1>1, SingletonInductive, PTL

-----------------------------------------------------------------------------
(* The port file follows the lock: a step of p writes or removes it only   *)
(* while p holds the lock, so never under another daemon that is up.       *)
LEMMA SidecarStep ==
  ASSUME TypeOK, SingletonInv, SidecarInv, NEW p \in Pids, Step(p) \/ Environment(p)
  PROVE  SidecarInv'
  <1> USE DEF TypeOK
  <1> DEFINE Up == {"serve", "running", "stopping"}
             Early == {"new"} \cup Acquiring \cup (Building \ {"port", "serve"})
  <1>i. /\ \A q \in Pids : pc[q] \in Up /\ sidecar[q] # "none" => portfile = q
        /\ \A q \in Pids : pc[q] \in Early => sidecar[q] = "none"
        /\ \A q \in Pids : pc[q] = "reaping" => sidecar[target[q]] # "none"
    BY DEF SidecarInv, SidecarOnFile
  <1>e. /\ \A x \in Early : x \notin Up
        /\ Up \subseteq Holding /\ "reaping" \in Early /\ "gone" \notin Up \cup Early
    BY DEF Acquiring, Building, Holding, Stopping
  \* Steps that leave the sidecars and the port file alone.
  <1>q. ASSUME NEW station, pc' = [pc EXCEPT ![p] = station],
               sidecar' = sidecar, portfile' = portfile, target' = target,
               station \in Up => pc[p] \in Up \/ pc[p] = "spawn",
               station \in Early => pc[p] \in Early,
               station # "reaping"
        PROVE  SidecarInv'
    <2>0. "spawn" \in Early
      BY DEF Building
    <2>1. SidecarOnFile'
      BY <1>q, <1>i, <2>0 DEF SidecarOnFile
    <2>2. \A q \in Pids : pc'[q] \in Early => sidecar'[q] = "none"
      BY <1>q, <1>i
    <2>3. \A q \in Pids : pc'[q] = "reaping" => sidecar'[target'[q]] # "none"
      BY <1>q, <1>i
    <2> QED BY <2>1, <2>2, <2>3 DEF SidecarInv
  \* While p holds the lock nobody else is up.
  <1>h. pc[p] \in Holding => \A q \in Pids : q # p => pc[q] \notin Up
    BY <1>e DEF SingletonInv, LockHeld
  <1>1. CASE FlockGets(p) \/ FlockBlocked(p) \/ IsOurs(p) \/ Launch(p) \/ PollGone(p) \/ Sigkill(p)
    BY <1>1, <1>q DEF FlockGets, FlockBlocked, IsOurs, Launch, PollGone, Sigkill,
                      Acquiring, Building
  <1>2. CASE Sigterm(p)
    BY <1>2, <1>q DEF Sigterm, Acquiring, Building
  <1>3. CASE ReadPid(p)
    <2>1. /\ pc' = [pc EXCEPT ![p] = "check"] /\ sidecar' = sidecar /\ portfile' = portfile
          /\ target' = [target EXCEPT ![p] = pidfile] /\ pc[p] = "read"
      BY <1>3 DEF ReadPid
    <2>2. "read" \in Early /\ "check" \notin Up
      BY DEF Acquiring
    <2>3. SidecarOnFile'
      BY <2>1, <2>2, <1>i DEF SidecarOnFile
    <2>4. \A q \in Pids : pc'[q] \in Early => sidecar'[q] = "none"
      BY <2>1, <2>2, <1>i
    <2>5. \A q \in Pids : pc'[q] = "reaping" => sidecar'[target'[q]] # "none"
      BY <2>1, <1>i
    <2> QED BY <2>3, <2>4, <2>5 DEF SidecarInv
  <1>4. CASE TruncatePidfile(p) \/ WritePidfile(p) \/ NoSidecar(p) \/ Serve(p)
    BY <1>4, <1>q DEF TruncatePidfile, WritePidfile, NoSidecar, Serve, Acquiring, Building
  <1>5. CASE FindSidecar(p)
    <2>1. CASE portfile \in Pids /\ sidecar[portfile] \in {"listening", "taken"}
      <3>1. /\ pc' = [pc EXCEPT ![p] = "reaping"] /\ sidecar' = sidecar /\ portfile' = portfile
            /\ target' = [target EXCEPT ![p] = portfile] /\ pc[p] = "reap"
        BY <1>5, <2>1 DEF FindSidecar
      <3>2. "reap" \in Early /\ "reaping" \notin Up
        BY DEF Building
      <3>3. SidecarOnFile'
        BY <3>1, <3>2, <1>i DEF SidecarOnFile
      <3>4. \A q \in Pids : pc'[q] \in Early => sidecar'[q] = "none"
        BY <3>1, <3>2, <1>i
      <3>5. \A q \in Pids : pc'[q] = "reaping" => sidecar'[target'[q]] # "none"
        BY <3>1, <2>1, <1>i
      <3> QED BY <3>3, <3>4, <3>5 DEF SidecarInv
    <2>2. CASE ~(portfile \in Pids /\ sidecar[portfile] \in {"listening", "taken"})
      BY <1>5, <2>2, <1>q DEF FindSidecar, Building
    <2> QED BY <2>1, <2>2
  <1>6. CASE ReapSidecar(p)
    <2>1. /\ pc' = [pc EXCEPT ![p] = "unport"] /\ portfile' = portfile /\ target' = target
          /\ sidecar' \in {sidecar, [sidecar EXCEPT ![target[p]] = "dead"]}
          /\ pc[p] = "reaping" /\ target[p] \in Pids /\ sidecar[target[p]] # "none"
      BY <1>6, <1>i DEF ReapSidecar
    <2>2. "unport" \in Early /\ "unport" \notin Up /\ "reaping" \in Holding
      BY DEF Building, Holding
    <2>3. SidecarOnFile'
      BY <2>1, <2>2, <1>h DEF SidecarOnFile
    <2>4. \A q \in Pids : pc'[q] \in Early => sidecar'[q] = "none"
      BY <2>1, <2>2, <1>i, <1>e
    <2>5. \A q \in Pids : pc'[q] = "reaping" => sidecar'[target'[q]] # "none"
      BY <2>1, <1>i
    <2> QED BY <2>3, <2>4, <2>5 DEF SidecarInv
  <1>7. CASE RemovePortfile(p) \/ RemoveStateFiles(p)
    <2>1. PICK station \in {"spawn", "release"} :
            /\ pc' = [pc EXCEPT ![p] = station] /\ sidecar' = sidecar /\ target' = target
            /\ station = "spawn" => pc[p] = "unport"
            /\ pc[p] \in Holding
      BY <1>7 DEF RemovePortfile, RemoveStateFiles, Holding, Building, Stopping
    <2>2. "unport" \in Early /\ "release" \notin Early /\ {"spawn", "release"} \cap Up = {}
      BY DEF Acquiring, Building
    <2>3. SidecarOnFile'
      BY <2>1, <2>2, <1>h DEF SidecarOnFile
    <2>4. \A q \in Pids : pc'[q] \in Early => sidecar'[q] = "none"
      BY <2>1, <2>2, <1>i
    <2>5. \A q \in Pids : pc'[q] = "reaping" => sidecar'[target'[q]] # "none"
      BY <2>1, <1>i
    <2> QED BY <2>3, <2>4, <2>5 DEF SidecarInv
  <1>8. CASE SpawnSidecar(p)
    <2>1. /\ pc' = [pc EXCEPT ![p] = "port"] /\ portfile' = portfile /\ target' = target
          /\ sidecar' = [sidecar EXCEPT ![p] = "starting"] /\ pc[p] = "spawn"
      BY <1>8 DEF SpawnSidecar
    <2>2. "port" \notin Up \cup Early
      BY DEF Acquiring
    <2>3. SidecarOnFile'
      BY <2>1, <2>2, <1>i DEF SidecarOnFile
    <2>4. \A q \in Pids : pc'[q] \in Early => sidecar'[q] = "none"
      BY <2>1, <2>2, <1>i
    <2>5. \A q \in Pids : pc'[q] = "reaping" => sidecar'[target'[q]] # "none"
      BY <2>1, <1>i
    <2> QED BY <2>3, <2>4, <2>5 DEF SidecarInv
  <1>9. CASE WritePortfile(p)
    <2>1. /\ pc' = [pc EXCEPT ![p] = "serve"] /\ portfile' = p /\ target' = target
          /\ sidecar' = sidecar /\ pc[p] \in Holding
      BY <1>9 DEF WritePortfile, Holding, Building
    <2>2. "serve" \notin Early
      BY DEF Acquiring
    <2>3. SidecarOnFile'
      BY <2>1, <1>h DEF SidecarOnFile
    <2>4. \A q \in Pids : pc'[q] \in Early => sidecar'[q] = "none"
      BY <2>1, <2>2, <1>i
    <2>5. \A q \in Pids : pc'[q] = "reaping" => sidecar'[target'[q]] # "none"
      BY <2>1, <1>i
    <2> QED BY <2>3, <2>4, <2>5 DEF SidecarInv
  <1>10. CASE HandleSigterm(p) \/ Release(p)
    BY <1>10, <1>q DEF HandleSigterm, Release, Acquiring, Building
  <1>11. CASE StopSidecar(p)
    <2>1. /\ pc' = [pc EXCEPT ![p] = "cleanup"] /\ portfile' = portfile /\ target' = target
          /\ \A q \in Pids : q # p => sidecar'[q] = sidecar[q]
          /\ sidecar \in [Pids -> {"none", "starting", "listening", "dead", "taken"}]
          /\ sidecar'[p] = (IF sidecar[p] = "none" THEN "none" ELSE "dead")
      BY <1>11 DEF StopSidecar
    <2>2. "cleanup" \notin Up \cup Early
      BY DEF Acquiring, Building
    <2>3. SidecarOnFile'
      BY <2>1, <2>2, <1>i DEF SidecarOnFile
    <2>4. \A q \in Pids : pc'[q] \in Early => sidecar'[q] = "none"
      BY <2>1, <2>2, <1>i
    <2>5. \A q \in Pids : pc'[q] = "reaping" => sidecar'[target'[q]] # "none"
      BY <2>1, <1>i
    <2> QED BY <2>3, <2>4, <2>5 DEF SidecarInv
  <1>12. CASE \/ ReplaceFails(p) \/ ReadPidFails(p) \/ IsNotOurs(p) \/ StillAlive(p)
              \/ DieOfSignal(p) \/ Exit(p) \/ Crash(p)
    <2>1. Ends(p) /\ UNCHANGED <<target, sidecar, files>>
      BY <1>12, EndSteps
    <2> QED BY <2>1, <1>q, <1>e
  <1>13. CASE UserStop(p) \/ Reuse(p) \/ StrangerEnds(p) \/ ParentEnds(p)
    <2>1. UNCHANGED <<pc, sidecar, portfile, target>>
      BY <1>13 DEF UserStop, Reuse, StrangerEnds, ParentEnds
    <2> QED BY <2>1, <1>i DEF SidecarInv, SidecarOnFile
  <1>14. CASE SidecarListens(p) \/ SidecarEnds(p) \/ PortTaken(p)
    <2>1. /\ UNCHANGED <<pc, portfile, target>> /\ sidecar[p] # "none"
          /\ \E state \in {"listening", "dead", "taken"} :
               sidecar' = [sidecar EXCEPT ![p] = state]
      BY <1>14 DEF SidecarListens, SidecarEnds, PortTaken
    <2>2. SidecarOnFile'
      BY <2>1, <1>i DEF SidecarOnFile
    <2>3. \A q \in Pids : pc'[q] \in Early => sidecar'[q] = "none"
      BY <2>1, <1>i
    <2>4. \A q \in Pids : pc'[q] = "reaping" => sidecar'[target'[q]] # "none"
      BY <2>1, <1>i
    <2> QED BY <2>2, <2>3, <2>4 DEF SidecarInv
  <1> QED BY <1>1, <1>2, <1>3, <1>4, <1>5, <1>6, <1>7, <1>8, <1>9, <1>10, <1>11, <1>12,
             <1>13, <1>14 DEF Step, Environment

(* sidecar/manager.go and Daemon.Stop: the sidecar of the daemon that is   *)
(* up is the one sidecar.port names.                                       *)
THEOREM SidecarFileCorrect == Spec => []SidecarOnFile
  <1>1. Init => SidecarInv
    BY DEF Init, SidecarInv, SidecarOnFile
  <1>2. TypeOK /\ SingletonInv /\ SidecarInv /\ [Next]_vars => SidecarInv'
    <2> SUFFICES ASSUME TypeOK, SingletonInv, SidecarInv, [Next]_vars PROVE SidecarInv'
      OBVIOUS
    <2>1. CASE UNCHANGED vars
      BY <2>1 DEF vars, SidecarInv, SidecarOnFile
    <2> QED BY <2>1, SidecarStep DEF Next
  <1>3. SidecarInv => SidecarOnFile
    BY DEF SidecarInv
  <1> QED BY <1>1, <1>2, <1>3, SingletonTypes, SingletonInductive, PTL DEF Spec
-----------------------------------------------------------------------------
(* Who has had the directory, or was turned away. *)
Finished == {"released", "gone"}

(* What a step does to the stations: at most one changes; the directory is *)
(* entered only under a free lock and left only for good.                  *)
LEMMA StationSteps ==
  ASSUME TypeOK, NEW p \in Pids, Step(p) \/ Environment(p)
  PROVE  \/ pc' = pc
         \/ \E s \in Stations :
              /\ pc' = [pc EXCEPT ![p] = s]
              /\ pc[p] \in Finished => s \in Finished
              /\ s \in Holding /\ pc[p] \notin Holding => lock = NoPid
              /\ pc[p] \in Holding => s \in Holding \cup Finished
  <1> USE DEF Finished
  <1>1. CASE FlockGets(p)
    BY <1>1, StationFacts DEF FlockGets, Building
  <1>2. CASE FlockBlocked(p) \/ ReadPid(p) \/ IsOurs(p) \/ Launch(p) \/ PollGone(p) \/ Sigkill(p)
    BY <1>2, StationFacts DEF FlockBlocked, ReadPid, IsOurs, Launch, PollGone, Sigkill, Acquiring
  <1>3. CASE Sigterm(p)
    BY <1>3, StationFacts DEF Sigterm, Acquiring
  <1>4. CASE TruncatePidfile(p) \/ WritePidfile(p) \/ FindSidecar(p) \/ ReapSidecar(p)
             \/ RemovePortfile(p)
    BY <1>4, StationFacts DEF TruncatePidfile, WritePidfile, FindSidecar, ReapSidecar,
                              RemovePortfile, Building
  <1>5. CASE SpawnSidecar(p) \/ NoSidecar(p) \/ WritePortfile(p) \/ Serve(p)
    BY <1>5, StationFacts DEF SpawnSidecar, NoSidecar, WritePortfile, Serve, Building
  <1>6. CASE HandleSigterm(p) \/ StopSidecar(p) \/ RemoveStateFiles(p) \/ Release(p)
    BY <1>6, StationFacts DEF HandleSigterm, StopSidecar, RemoveStateFiles, Release, Stopping
  <1>7. CASE \/ ReplaceFails(p) \/ ReadPidFails(p) \/ IsNotOurs(p) \/ StillAlive(p)
             \/ DieOfSignal(p) \/ Exit(p) \/ Crash(p)
    BY <1>7, EndSteps, StationFacts
  <1>8. CASE \/ UserStop(p) \/ Reuse(p) \/ StrangerEnds(p) \/ ParentEnds(p)
             \/ SidecarListens(p) \/ SidecarEnds(p) \/ PortTaken(p)
    BY <1>8 DEF UserStop, Reuse, StrangerEnds, ParentEnds, SidecarListens, SidecarEnds, PortTaken
  <1> QED BY <1>1, <1>2, <1>3, <1>4, <1>5, <1>6, <1>7, <1>8 DEF Step, Environment

(* The owner of the refinement mapping is the process that holds the lock. *)
LEMMA OwnerIs ==
  ASSUME LockHeld
  PROVE  /\ \A p \in Pids : pc[p] \in Holding => Owner = p
         /\ (\A p \in Pids : pc[p] \notin Holding) => Owner = NoPid
  BY Zenon DEF LockHeld, Owner

(* A step of the processes is a step of the slot, or none of its business. *)
LEMMA SlotStep ==
  ASSUME TypeOK, LockHeld, LockHeld', NEW p \in Pids, Step(p) \/ Environment(p)
  PROVE  [Slot!Next]_Slot!vars
  <1> DEFINE former == {q \in Pids : pc[q] \in Finished}
  <1>o. /\ \A q \in Pids : pc[q] \in Holding => Owner = q
        /\ (\A q \in Pids : pc[q] \notin Holding) => Owner = NoPid
    BY OwnerIs
  <1>p. /\ \A q \in Pids : pc'[q] \in Holding => Owner' = q
        /\ (\A q \in Pids : pc'[q] \notin Holding) => Owner' = NoPid
    BY Zenon DEF LockHeld, Owner
  <1>n. \A q \in Pids : q # NoPid
    BY SingletonAssumption
  <1>f. Finished \cap Holding = {}
    BY StationFacts DEF Finished
  <1>1. CASE pc' = pc
    <2>1. Owner' = Owner /\ former' = former
      BY <1>1 DEF Owner
    <2> QED BY <2>1 DEF Slot!vars, Finished
  <1>2. ASSUME NEW s \in Stations,
               pc' = [pc EXCEPT ![p] = s],
               pc[p] \in Finished => s \in Finished,
               s \in Holding /\ pc[p] \notin Holding => lock = NoPid,
               pc[p] \in Holding => s \in Holding \cup Finished
        PROVE  [Slot!Next]_Slot!vars
    <2>0. pc \in [Pids -> Stations] /\ pc'[p] = s /\ \A q \in Pids : q # p => pc'[q] = pc[q]
      BY <1>2 DEF TypeOK
    <2>1. CASE s \in Holding /\ pc[p] \notin Holding
      <3>1. \A q \in Pids : pc[q] \notin Holding
        BY <2>1, <1>2, <1>n DEF LockHeld
      <3>2. Owner = NoPid /\ Owner' = p
        BY <3>1, <2>0, <2>1, <1>o, <1>p
      <3>3. former' = former /\ p \notin former
        BY <2>0, <2>1, <1>2, <1>f
      <3>4. Slot!Take(p)
        BY <3>2, <3>3 DEF Slot!Take, Finished
      <3> QED BY <3>4 DEF Slot!Next
    <2>2. CASE s \in Holding /\ pc[p] \in Holding
      <3>1. Owner = p /\ Owner' = p
        BY <2>0, <2>2, <1>o, <1>p
      <3>2. former' = former
        BY <2>0, <2>2, <1>f
      <3> QED BY <3>1, <3>2 DEF Slot!vars, Finished
    <2>3. CASE s \notin Holding /\ pc[p] \in Holding
      <3>1. \A q \in Pids : pc'[q] \notin Holding
        BY <2>0, <2>3 DEF LockHeld
      <3>2. Owner = p /\ Owner' = NoPid
        BY <3>1, <2>3, <1>o, <1>p
      <3>3. former' = former \cup {p}
        BY <2>0, <2>3, <1>2
      <3>4. Slot!Leave
        BY <3>2, <3>3, <1>n DEF Slot!Leave, Finished
      <3> QED BY <3>4 DEF Slot!Next
    <2>4. CASE s \notin Holding /\ pc[p] \notin Holding
      <3>1. Owner' = Owner /\ Owner # p
        <4>1. CASE \E q \in Pids : pc[q] \in Holding
          BY <4>1, <2>0, <2>4, <1>o, <1>p
        <4>2. CASE \A q \in Pids : pc[q] \notin Holding
          BY <4>2, <2>0, <2>4, <1>o, <1>p, <1>n
        <4> QED BY <4>1, <4>2
      <3>2. CASE s \in Finished /\ pc[p] \notin Finished
        <4>1. former' = former \cup {p} /\ p \notin former
          BY <2>0, <3>2
        <4>2. Slot!TurnedAway(p)
          BY <3>1, <4>1 DEF Slot!TurnedAway, Finished
        <4> QED BY <4>2 DEF Slot!Next
      <3>3. CASE s \in Finished <=> pc[p] \in Finished
        <4>1. former' = former
          BY <2>0, <3>3
        <4> QED BY <3>1, <4>1 DEF Slot!vars, Finished
      <3> QED BY <3>2, <3>3, <1>2
    <2> QED BY <2>1, <2>2, <2>3, <2>4
  <1> QED BY <1>1, <1>2, StationSteps

(* internal/lifecycle: whatever processes are launched, replaced, stopped  *)
(* or killed, the state directory goes from one daemon to nobody to the    *)
(* next, and to none of them twice.                                        *)
THEOREM SlotImplemented == Spec => ImplementsSlot
  <1>1. Init => Slot!Init
    BY StationFacts DEF Init, Slot!Init, Owner
  <1>2. TypeOK /\ LockHeld /\ LockHeld' /\ [Next]_vars => [Slot!Next]_Slot!vars
    <2> SUFFICES ASSUME TypeOK, LockHeld, LockHeld', [Next]_vars PROVE [Slot!Next]_Slot!vars
      OBVIOUS
    <2>1. CASE UNCHANGED vars
      BY <2>1 DEF vars, Slot!vars, Owner
    <2> QED BY <2>1, SlotStep DEF Next
  <1>3. SingletonInv => LockHeld
    BY DEF SingletonInv
  <1> QED BY <1>1, <1>2, <1>3, SingletonTypes, SingletonInductive, PTL
          DEF Spec, ImplementsSlot, Slot!Spec

-----------------------------------------------------------------------------
(* Agents.tla, which adds agents, the socket and the proxy to Singleton.   *)

(* An agent's step is no step of a daemon, or launches one; a daemon's is  *)
(* one of Singleton or is about the socket only.                           *)
LEMMA StepRefines == TypeOK /\ [AgentsNext]_allVars => [Next]_vars
<1> SUFFICES ASSUME TypeOK, [AgentsNext]_allVars PROVE [Next]_vars
  OBVIOUS
<1>1. ASSUME NEW p \in Pids, StartsDaemon(p) PROVE Next
  BY <1>1 DEF StartsDaemon, Next, Environment
<1>l. ASSUME NEW a \in AgentIds, TypeOK, Leaves(a) PROVE [Next]_vars
  BY <1>l DEF Leaves, ParentEnds, TypeOK, Next, Environment
<1>2. ASSUME NEW p \in Pids, DaemonStep(p) PROVE [Next]_vars
  BY <1>2 DEF DaemonStep, BindSocket, StopControlSocket, Next
<1>3. ASSUME NEW p \in Pids, Others(p) \/ DaemonCrashes(p) PROVE Next
  BY <1>1, <1>3 DEF Others, DaemonCrashes, Next, Environment
<1>4. ASSUME NEW a \in AgentIds, AgentStep(a) \/ SessionEnds(a) PROVE [Next]_vars
  <2>1. CASE SessionEnds(a)
    BY <2>1 DEF SessionEnds, ParentEnds, TypeOK, Next, Environment
  <2>2. CASE Spawn(a)
    BY <1>1, <2>2 DEF Spawn
  <2>3. CASE EnableProxy(a)
    BY <1>l, <2>3 DEF EnableProxy
  <2>4. CASE Fails(a)
    BY <1>l, <2>4 DEF Fails
  <2>5. CASE Dial(a) \/ Waits(a) \/ LaunchPolicy(a)
    BY <2>5 DEF Dial, Waits, LaunchPolicy
  <2> QED BY <1>4, <2>1, <2>2, <2>3, <2>4, <2>5 DEF AgentStep
<1>5. CASE UNCHANGED allVars
  BY <1>5 DEF allVars
<1> QED BY <1>2, <1>3, <1>4, <1>5 DEF AgentsNext

(* The daemons that agents and users start behave as those of Singleton,   *)
(* so that what holds of them there holds here.                            *)
THEOREM AgentsRefine == AgentsSpec => Spec
<1>1. AgentsInit => Init /\ TypeOK
  BY DEF AgentsInit, Init, TypeOK, Stations
<1> QED BY <1>1, StepRefines, TypesKept, PTL DEF AgentsSpec, Spec

(* The lock, the pidfile and the types, under agents. *)
LEMMA AgentsLock == AgentsSpec => [](TypeOK /\ LockHeld)
<1>1. SingletonInv => LockHeld
  BY DEF SingletonInv
<1> QED BY <1>1, AgentsRefine, SingletonTypes, SingletonInductive, PTL

-----------------------------------------------------------------------------
(* Where a daemon may go from where it is.                                 *)
GoesFrom(s, t) ==
  /\ s # "gone"
  /\ s = "new" <=> t = "open"
  /\ t = "running" => s = "serve"
  /\ t = "serve" => s \in {"spawn", "port"}
  /\ s = "serve" => t \in {"running", "gone"}
  /\ s = "running" => t \in {"stopping", "gone"}
  /\ s = "stopping" => t \in {"cleanup", "gone"}
  /\ s = "cleanup" => t \in {"release", "gone"}
  /\ s = "release" => t \in {"released", "gone"}
  /\ s = "released" => t = "gone"

(* A step of a daemon goes on from where it is, and moves nobody else. *)
LEMMA DaemonMoves ==
  ASSUME TypeOK, NEW p \in Pids, Step(p) \/ Launch(p) \/ Crash(p)
  PROVE  GoesFrom(pc[p], pc'[p]) /\ pc' = [pc EXCEPT ![p] = pc'[p]]
<1> USE DEF Goto, GoesFrom
<1>0. pc \in [Pids -> Stations]
  BY DEF TypeOK
<1>q. ASSUME NEW s, pc' = [pc EXCEPT ![p] = s], GoesFrom(pc[p], s)
      PROVE  GoesFrom(pc[p], pc'[p]) /\ pc' = [pc EXCEPT ![p] = pc'[p]]
  BY <1>0, <1>q
<1>1. CASE FlockGets(p) \/ FlockBlocked(p) \/ ReadPid(p) \/ IsOurs(p) \/ Launch(p)
  BY <1>1, <1>q DEF FlockGets, FlockBlocked, ReadPid, IsOurs, Launch
<1>2. CASE Sigterm(p) \/ PollGone(p) \/ Sigkill(p)
  BY <1>2, <1>q DEF Sigterm, PollGone, Sigkill
<1>3. CASE TruncatePidfile(p) \/ WritePidfile(p) \/ FindSidecar(p) \/ ReapSidecar(p)
           \/ RemovePortfile(p)
  BY <1>3, <1>q DEF TruncatePidfile, WritePidfile, FindSidecar, ReapSidecar, RemovePortfile
<1>4. CASE SpawnSidecar(p) \/ NoSidecar(p) \/ WritePortfile(p) \/ Serve(p)
  BY <1>4, <1>q DEF SpawnSidecar, NoSidecar, WritePortfile, Serve
<1>5. CASE HandleSigterm(p) \/ StopSidecar(p) \/ RemoveStateFiles(p) \/ Release(p)
  BY <1>5, <1>q DEF HandleSigterm, StopSidecar, RemoveStateFiles, Release
<1>6. CASE \/ ReplaceFails(p) \/ ReadPidFails(p) \/ IsNotOurs(p) \/ StillAlive(p)
           \/ DieOfSignal(p) \/ Exit(p) \/ Crash(p)
  <2>1. pc' = [pc EXCEPT ![p] = "gone"]
    BY <1>6, EndSteps DEF Ends
  <2>2. pc[p] \notin {"new", "gone"}
    BY <1>6 DEF ReplaceFails, ReadPidFails, IsNotOurs, StillAlive, DieOfSignal, Exit, Crash, Daemon
  <2> QED BY <1>q, <2>1, <2>2
<1> QED BY <1>1, <1>2, <1>3, <1>4, <1>5, <1>6 DEF Step

(* What a step does to the daemons: nothing, or one goes on. *)
LEMMA OneMoves ==
  ASSUME TypeOK, [AgentsNext]_allVars
  PROVE  \/ pc' = pc
         \/ \E p \in Pids :
              /\ GoesFrom(pc[p], pc'[p]) /\ pc' = [pc EXCEPT ![p] = pc'[p]]
              /\ sockfile' = sockfile
              /\ Serves(p) => sockfile = p
              /\ StopsOn(p) => sockfile = NoPid
<1> DEFINE Move(p) == /\ GoesFrom(pc[p], pc'[p]) /\ pc' = [pc EXCEPT ![p] = pc'[p]]
                      /\ sockfile' = sockfile
                      /\ Serves(p) => sockfile = p
                      /\ StopsOn(p) => sockfile = NoPid
<1>1. ASSUME NEW p \in Pids, StartsDaemon(p) PROVE Move(p)
  <2>1. pc'[p] = "open" /\ sockfile' = sockfile
    BY <1>1 DEF StartsDaemon, Launch, Goto, TypeOK
  <2> QED BY <1>1, <2>1, DaemonMoves DEF StartsDaemon, Serves, StopsOn
<1>2. ASSUME NEW p \in Pids, DaemonStep(p) PROVE pc' = pc \/ Move(p)
  BY <1>2, DaemonMoves DEF DaemonStep, BindSocket, StopControlSocket, vars, socketVars
<1>3. ASSUME NEW p \in Pids, DaemonCrashes(p) PROVE Move(p)
  <2>1. pc'[p] = "gone" /\ sockfile' = sockfile
    BY <1>3 DEF DaemonCrashes, Crash, Ends, Goto, TypeOK, socketVars
  <2> QED BY <1>3, <2>1, DaemonMoves DEF DaemonCrashes, Serves, StopsOn
<1>4. ASSUME NEW p \in Pids, Others(p) PROVE pc' = pc \/ Move(p)
  BY <1>1, <1>4 DEF Others, SidecarListens
<1>5. ASSUME NEW a \in AgentIds, AgentStep(a) \/ SessionEnds(a)
      PROVE  pc' = pc \/ \E p \in Pids : Move(p)
  <2>1. CASE Spawn(a)
    BY <1>1, <2>1 DEF Spawn
  <2>2. CASE ~Spawn(a)
    BY <1>5, <2>2 DEF AgentStep, SessionEnds, Dial, Waits, EnableProxy, LaunchPolicy, Fails,
         Leaves, ParentEnds, vars
  <2> QED BY <2>1, <2>2
<1>6. CASE UNCHANGED allVars
  BY <1>6 DEF allVars, vars
<1> QED BY <1>2, <1>3, <1>4, <1>5, <1>6 DEF AgentsNext
-----------------------------------------------------------------------------
(* The socket.                                                             *)

(* The strengthening of SocketIsHolders: the file was bound by a daemon    *)
(* that has not closed it, so it serves, runs, is about to close it, or    *)
(* has ended; a process id is used once, so nobody answers in its place.   *)
SocketInv ==
  \A p \in Pids :
    /\ sockfile = p => pc[p] \in {"serve", "running", "stopping", "gone"}
    /\ pc[p] = "running" => sockfile = p

(* The socket is bound in Start and closed in Stop, and by nobody else. *)
LEMMA SocketWriters ==
  ASSUME [AgentsNext]_allVars
  PROVE  \/ sockfile' = sockfile
         \/ \E p \in Pids : /\ pc' = pc
                            /\ \/ pc[p] = "serve" /\ sockfile' = p
                               \/ pc[p] = "stopping" /\ sockfile' = NoPid
<1>1. ASSUME NEW p \in Pids, DaemonStep(p), sockfile' # sockfile
      PROVE  /\ pc' = pc
             /\ \/ pc[p] = "serve" /\ sockfile' = p
                \/ pc[p] = "stopping" /\ sockfile' = NoPid
  BY <1>1 DEF DaemonStep, BindSocket, StopControlSocket, vars, socketVars
<1>2. ASSUME NEW p \in Pids, Others(p) \/ DaemonCrashes(p) PROVE sockfile' = sockfile
  BY <1>2 DEF Others, DaemonCrashes, StartsDaemon, socketVars
<1>3. ASSUME NEW a \in AgentIds, AgentStep(a) \/ SessionEnds(a) PROVE sockfile' = sockfile
  <2>1. CASE EnableProxy(a)
    BY <2>1 DEF EnableProxy
  <2>2. CASE Spawn(a)
    BY <2>2 DEF Spawn, StartsDaemon
  <2>3. CASE Dial(a) \/ Waits(a) \/ LaunchPolicy(a) \/ Fails(a) \/ SessionEnds(a)
    BY <2>3 DEF Dial, Waits, LaunchPolicy, Fails, SessionEnds, socketVars
  <2> QED BY <1>3, <2>1, <2>2, <2>3 DEF AgentStep
<1>4. CASE UNCHANGED allVars
  BY <1>4 DEF allVars, socketVars
<1> QED BY <1>1, <1>2, <1>3, <1>4 DEF AgentsNext

(* SocketInv holds in every reachable state. *)
LEMMA SocketInvariant == AgentsSpec => []SocketInv
<1>1. AgentsInit => SocketInv
  <2>1. AgentsInit => sockfile = NoPid /\ pc = [p \in Pids |-> "new"]
    BY DEF AgentsInit, Init
  <2> QED BY <2>1, SingletonAssumption DEF SocketInv
<1>2. TypeOK /\ LockHeld /\ SocketInv /\ [AgentsNext]_allVars => SocketInv'
  <2> SUFFICES ASSUME TypeOK, LockHeld, SocketInv, [AgentsNext]_allVars PROVE SocketInv'
    OBVIOUS
  <2>0. pc \in [Pids -> Stations] /\ NoPid \notin Pids
    BY SingletonAssumption DEF TypeOK
  <2>1. ASSUME NEW p \in Pids, pc' = pc, pc[p] = "serve", sockfile' = p PROVE SocketInv'
    <3>1. \A q \in Pids : pc[q] = "running" => q = p
      BY <2>1 DEF LockHeld, Holding, Building
    <3> QED BY <2>1, <3>1 DEF SocketInv
  <2>2. ASSUME NEW p \in Pids, pc' = pc, pc[p] = "stopping", sockfile' = NoPid PROVE SocketInv'
    <3>1. \A q \in Pids : pc[q] = "running" => q = p
      BY <2>2 DEF LockHeld, Holding, Stopping
    <3> QED BY <2>0, <2>2, <3>1 DEF SocketInv
  <2>3. ASSUME NEW p \in Pids, sockfile' = sockfile,
               GoesFrom(pc[p], pc'[p]), pc' = [pc EXCEPT ![p] = pc'[p]],
               Serves(p) => sockfile = p, StopsOn(p) => sockfile = NoPid
        PROVE  SocketInv'
    <3>1. \A q \in Pids : q # p => pc'[q] = pc[q]
      BY <2>0, <2>3
    <3>2. sockfile = p => pc'[p] \in {"serve", "running", "stopping", "gone"}
      BY <2>0, <2>3 DEF SocketInv, GoesFrom, StopsOn
    <3>3. pc'[p] = "running" => sockfile = p
      BY <2>3 DEF GoesFrom, Serves
    <3> QED BY <2>3, <3>1, <3>2, <3>3 DEF SocketInv
  <2>4. CASE pc' = pc /\ sockfile' = sockfile
    BY <2>4 DEF SocketInv
  <2> QED BY <2>1, <2>2, <2>3, <2>4, OneMoves, SocketWriters
<1> QED BY <1>1, <1>2, AgentsLock, PTL DEF AgentsSpec

(* Who answers at the socket is at one of three stations, with the lock. *)
LEMMA WhoAnswers ==
  ASSUME SocketInv, LockHeld, NEW p \in Pids, Reaches(p)
  PROVE  pc[p] \in {"serve", "running", "stopping"} /\ lock = p
<1>1. pc[p] \in {"serve", "running", "stopping"}
  BY DEF SocketInv, Reaches, Daemon
<1> QED BY <1>1 DEF LockHeld, Holding, Building, Stopping

(* daemon/socket.go's "singleton lock guarantees no live peer": who        *)
(* answers at the control socket holds the lock, and whoever runs answers. *)
THEOREM SocketBelongs == AgentsSpec => []SocketIsHolders
<1>1. SocketInv /\ LockHeld => SocketIsHolders
  BY WhoAnswers DEF SocketInv, SocketIsHolders
<1> QED BY <1>1, AgentsLock, SocketInvariant, PTL

-----------------------------------------------------------------------------
(* The proxy an agent's container gets.                                    *)

Over == Stopping \cup {"released", "gone"}

(* The strengthening of BoundOrReplaced: the daemon that an agent had      *)
(* switch the proxy on serves, runs or is over, and its proxy has been     *)
(* started until the agent asks for the address.                           *)
BoundInv ==
  \A a \in AgentIds :
    /\ agent[a] \in {"policy", "launched"} =>
         asked[a] \in Pids /\ pc[asked[a]] \in {"serve", "running"} \cup Over
    /\ agent[a] = "policy" => asked[a] \in proxied
    /\ agent[a] = "launched" /\ bound[a] # asked[a] => pc[asked[a]] \in Over

(* Nobody comes back from where they are to an earlier station. *)
LEMMA StaysOver ==
  ASSUME TypeOK, [AgentsNext]_allVars, NEW p \in Pids
  PROVE  /\ pc[p] \in {"serve", "running"} \cup Over => pc'[p] \in {"serve", "running"} \cup Over
         /\ pc[p] \in Over => pc'[p] \in Over
<1>1. CASE pc' = pc
  BY <1>1
<1>2. ASSUME NEW q \in Pids, GoesFrom(pc[q], pc'[q]), pc' = [pc EXCEPT ![q] = pc'[q]]
      PROVE  /\ pc[p] \in {"serve", "running"} \cup Over => pc'[p] \in {"serve", "running"} \cup Over
             /\ pc[p] \in Over => pc'[p] \in Over
  <2>1. CASE p = q
    BY <1>2, <2>1 DEF GoesFrom, Over, Stopping
  <2>2. CASE p # q
    <3>1. pc'[p] = pc[p]
      BY <1>2, <2>2 DEF TypeOK
    <3> QED BY <3>1
  <2> QED BY <2>1, <2>2
<1> QED BY <1>1, <1>2, OneMoves

(* A proxy that was started stays so, in this part of the model. *)
LEMMA ProxiedGrows ==
  ASSUME [AgentsNext]_allVars
  PROVE  proxied \subseteq proxied'
<1>1. ASSUME NEW p \in Pids, DaemonStep(p) \/ Others(p) \/ DaemonCrashes(p)
      PROVE  proxied \subseteq proxied'
  BY <1>1 DEF DaemonStep, BindSocket, StopControlSocket, Others, StartsDaemon, DaemonCrashes,
       socketVars
<1>2. ASSUME NEW a \in AgentIds, AgentStep(a) \/ SessionEnds(a) PROVE proxied \subseteq proxied'
  BY <1>2 DEF AgentStep, SessionEnds, Dial, Spawn, StartsDaemon, Waits, EnableProxy, LaunchPolicy, Fails,
       socketVars
<1>3. CASE UNCHANGED allVars
  BY <1>3 DEF allVars, socketVars
<1> QED BY <1>1, <1>2, <1>3 DEF AgentsNext

(* The stations, requests and addresses of the agents. *)
AgentsTypeOK ==
  /\ agent \in [AgentIds ->
       {"idle", "spawn", "wait", "enable", "policy", "launched", "failed"}]
  /\ asked \in [AgentIds -> Pids \cup {NoPid}]
  /\ bound \in [AgentIds -> Pids \cup {NoPid}]

(* AgentsTypeOK holds in every reachable state. *)
LEMMA AgentsTypes == AgentsSpec => []AgentsTypeOK
<1> USE DEF AgentsTypeOK
<1>1. AgentsInit => AgentsTypeOK
  BY DEF AgentsInit
<1>2. AgentsTypeOK /\ [AgentsNext]_allVars => AgentsTypeOK'
  <2> SUFFICES ASSUME AgentsTypeOK, [AgentsNext]_allVars PROVE AgentsTypeOK'
    OBVIOUS
  <2>1. ASSUME NEW p \in Pids, DaemonStep(p) \/ Others(p) \/ DaemonCrashes(p)
        PROVE  AgentsTypeOK'
    BY <2>1 DEF DaemonStep, BindSocket, StopControlSocket, Others, DaemonCrashes, agentVars
  <2>2. ASSUME NEW a \in AgentIds, AgentStep(a) \/ SessionEnds(a) PROVE AgentsTypeOK'
    <3>0. CASE SessionEnds(a)
      BY <3>0 DEF SessionEnds, agentVars
    <3>1. CASE EnableProxy(a)
      BY <3>1 DEF EnableProxy, Moves
    <3>2. CASE LaunchPolicy(a)
      BY <3>2 DEF LaunchPolicy, Moves
    <3>3. CASE Dial(a) \/ Spawn(a) \/ Waits(a) \/ Fails(a)
      BY <3>3 DEF Dial, Spawn, Waits, Fails, Moves
    <3> QED BY <2>2, <3>0, <3>1, <3>2, <3>3 DEF AgentStep
  <2>3. CASE UNCHANGED allVars
    BY <2>3 DEF allVars, agentVars
  <2> QED BY <2>1, <2>2, <2>3 DEF AgentsNext
<1> QED BY <1>1, <1>2, PTL DEF AgentsSpec

(* Only an agent's own step disturbs what BoundInv says of it. *)
LEMMA BoundStep ==
  ASSUME TypeOK, LockHeld, SocketInv, AgentsTypeOK, BoundInv, [AgentsNext]_allVars
  PROVE  BoundInv'
<1> DEFINE Good(a, st, who, where) ==
      /\ st \in {"policy", "launched"} =>
           who \in Pids /\ pc'[who] \in {"serve", "running"} \cup Over
      /\ st = "policy" => who \in proxied'
      /\ st = "launched" /\ where # who => pc'[who] \in Over
<1>k. ASSUME NEW a \in AgentIds PROVE Good(a, agent[a], asked[a], bound[a])
  BY StaysOver, ProxiedGrows DEF BoundInv
<1>s. (\A a \in AgentIds : Good(a, agent'[a], asked'[a], bound'[a])) => BoundInv'
  BY DEF BoundInv
<1>1. ASSUME UNCHANGED <<agent, asked, bound>> PROVE BoundInv'
  BY <1>1, <1>k, <1>s
<1>2. ASSUME NEW p \in Pids, DaemonStep(p) \/ Others(p) \/ DaemonCrashes(p)
      PROVE  BoundInv'
  BY <1>1, <1>2 DEF DaemonStep, BindSocket, StopControlSocket, Others, DaemonCrashes, agentVars
<1>3. ASSUME NEW a \in AgentIds, AgentStep(a) \/ SessionEnds(a) PROVE BoundInv'
  <2>0. CASE SessionEnds(a)
    BY <1>1, <2>0 DEF SessionEnds, agentVars
  <2>q. ASSUME Good(a, agent'[a], asked'[a], bound'[a]),
               \A b \in AgentIds : b # a => agent'[b] = agent[b] /\ asked'[b] = asked[b]
                                            /\ bound'[b] = bound[b]
        PROVE  BoundInv'
    BY <2>q, <1>k, <1>s
  <2>1. CASE Dial(a) \/ Spawn(a) \/ Waits(a) \/ Fails(a)
    <3>1. /\ agent'[a] \notin {"policy", "launched"}
          /\ \A b \in AgentIds : b # a => agent'[b] = agent[b]
          /\ asked' = asked /\ bound' = bound
      BY <2>1 DEF Dial, Spawn, Waits, Fails, Moves, AgentsTypeOK
    <3> QED BY <2>q, <3>1
  <2>2. CASE EnableProxy(a)
    <3>1. PICK p \in Pids : Reaches(p) /\ proxied' = proxied \cup {p}
                            /\ asked' = [asked EXCEPT ![a] = p]
      BY <2>2 DEF EnableProxy
    <3>2. /\ agent'[a] \in {"policy", "failed"}
          /\ \A b \in AgentIds : b # a => agent'[b] = agent[b]
          /\ bound' = bound /\ pc' = pc
      BY <2>2 DEF EnableProxy, Moves, Leaves, ParentEnds, AgentsTypeOK, vars
    <3>3. asked'[a] = p /\ \A b \in AgentIds : b # a => asked'[b] = asked[b]
      BY <3>1 DEF AgentsTypeOK
    <3>4. pc[p] \in {"serve", "running"} \cup Over
      BY <3>1, WhoAnswers DEF Over, Stopping
    <3> QED BY <2>q, <3>1, <3>2, <3>3, <3>4
  <2>3. CASE LaunchPolicy(a)
    <3>1. PICK p \in Pids : /\ Reaches(p)
                            /\ bound' = [bound EXCEPT ![a] = IF p \in proxied THEN p ELSE NoPid]
      BY <2>3 DEF LaunchPolicy
    <3>2. /\ agent[a] = "policy" /\ agent'[a] = "launched"
          /\ \A b \in AgentIds : b # a => agent'[b] = agent[b]
          /\ asked' = asked /\ pc' = pc
      BY <2>3 DEF LaunchPolicy, Moves, AgentsTypeOK, vars
    <3>3. /\ bound'[a] = (IF p \in proxied THEN p ELSE NoPid)
          /\ \A b \in AgentIds : b # a => bound'[b] = bound[b]
      BY <3>1 DEF AgentsTypeOK
    <3>4. /\ asked[a] \in Pids /\ asked[a] \in proxied
          /\ pc[asked[a]] \in {"serve", "running"} \cup Over
      BY <3>2 DEF BoundInv
    \* Who answers now has the lock, so the daemon of before does not.
    <3>5. p # asked[a] => pc[asked[a]] \in Over
      <4>1. lock = p
        BY <3>1, WhoAnswers
      <4> QED BY <3>4, <4>1 DEF LockHeld, Holding, Building
    <3>6. Good(a, agent'[a], asked'[a], bound'[a])
      BY <3>2, <3>3, <3>4, <3>5
    <3> QED BY <2>q, <3>2, <3>3, <3>6
  <2> QED BY <1>3, <2>0, <2>1, <2>2, <2>3 DEF AgentStep
<1>4. CASE UNCHANGED allVars
  BY <1>1, <1>4 DEF allVars, agentVars
<1> QED BY <1>2, <1>3, <1>4 DEF AgentsNext

(* A container that does not have the proxy of the daemon its agent asked  *)
(* has it because that daemon was stopped or ended: two agents, or a       *)
(* daemon started beside them, never mix up proxies that are up.           *)
THEOREM BoundCorrect == AgentsSpec => []BoundOrReplaced
<1>1. AgentsInit => BoundInv
  BY DEF AgentsInit, BoundInv
<1>2. TypeOK /\ LockHeld /\ SocketInv /\ AgentsTypeOK /\ BoundInv /\ [AgentsNext]_allVars
        => BoundInv'
  BY BoundStep
<1>3. BoundInv => BoundOrReplaced
  BY DEF BoundInv, BoundOrReplaced, Over
<1> QED BY <1>1, <1>2, <1>3, AgentsLock, SocketInvariant, AgentsTypes, PTL DEF AgentsSpec
=============================================================================
