------------------------------- MODULE Agents -------------------------------
(***************************************************************************)
(* `redactr claude` and `redactr code` (internal/cli) with the daemons of  *)
(* Singleton.tla: an agent looks for the control socket, starts a daemon   *)
(* if nobody answers, has the proxy switched on and asks for the address   *)
(* it gives to its container.  Each request dials anew, so that between    *)
(* two of them the daemon may have been replaced.  The agent is the parent *)
(* of the daemon it starts, and runs as long as its container does.        *)
(*                                                                         *)
(* A daemon adds to Singleton.tla its socket, bound last in Start and      *)
(* closed first in Stop, and whether its proxy listens.  No GLiNER rule is *)
(* on here: no agent depends on a sidecar, and Singleton.tla has them.     *)
(* Switching the proxy off and the packet filter rules are in              *)
(* ProxyRouting.tla.                                                       *)
(***************************************************************************)
EXTENDS Singleton, Naturals

CONSTANTS
  AgentIds,
  MaxCrashes  \* bound of the model: how many daemons crash

ASSUME AgentsAssumption == MaxCrashes \in Nat

VARIABLES
  sockfile,  \* the daemon that bound redactr.sock last; NoPid: no file
  enabled,   \* proxy.enabled in config.yaml
  loaded,    \* loaded[p]: proxy.enabled as p read it in Build
  proxied,   \* daemons whose Proxy.listener is set
  agent,     \* agent[a]: "idle" | "spawn" | "wait" | "enable" | "policy" | "launched" | "failed"
  asked,     \* asked[a]: the daemon that switched its proxy on for a
  bound,     \* bound[a]: the daemon whose proxy address a's container got; NoPid: none
  child,     \* child[a]: the daemon a has started, or NoPid
  crashes    \* history: how many daemons have crashed

socketVars == <<sockfile, enabled, loaded, proxied>>
agentVars == <<agent, asked, bound, child, crashes>>
allVars == <<vars, socketVars, agentVars>>

(* A fresh installation: the proxy is off by default. *)
AgentsInit ==
  /\ Init
  /\ sockfile = NoPid
  /\ enabled = FALSE
  /\ loaded = [p \in Pids |-> FALSE]
  /\ proxied = {}
  /\ agent = [a \in AgentIds |-> "idle"]
  /\ asked = [a \in AgentIds |-> NoPid]
  /\ bound = [a \in AgentIds |-> NoPid]
  /\ child = [a \in AgentIds |-> NoPid]
  /\ crashes = 0

(* A file that an ended daemon left behind refuses connections. *)
Reaches(p) == sockfile = p /\ Daemon(p)

Dialable == \E p \in Pids : Reaches(p)

-----------------------------------------------------------------------------
(* The daemons.  Build reads the configuration before it takes the lock.   *)
StartsDaemon(p) ==
  /\ Launch(p)
  /\ loaded' = [loaded EXCEPT ![p] = enabled]
  /\ UNCHANGED <<sockfile, enabled, proxied>>

(* Mutant: the socket is bound before the lock is taken. *)
BindSocketEarly(p) ==
  /\ pc[p] = "open"
  /\ sockfile # p
  /\ proxied' = IF loaded[p] THEN proxied \cup {p} ELSE proxied
  /\ sockfile' = p
  /\ UNCHANGED <<vars, enabled, loaded, agentVars>>

(* The end of Start: the proxy, if it was on in what Build read, and then  *)
(* startControlSocket, in place of whatever is at the path.                *)
BindSocket(p) ==
  /\ pc[p] = "serve"
  /\ sockfile # p
  /\ proxied' = IF loaded[p] THEN proxied \cup {p} ELSE proxied
  /\ sockfile' = p
  /\ UNCHANGED <<vars, enabled, loaded, agentVars>>

(* The beginning of Stop: requests that are under way are cut off. *)
StopControlSocket(p) ==
  /\ pc[p] = "stopping"
  /\ sockfile # NoPid
  /\ sockfile' = NoPid
  /\ UNCHANGED <<vars, enabled, loaded, proxied, agentVars>>

Serves(p) == pc[p] = "serve" /\ pc'[p] = "running"
StopsOn(p) == pc[p] = "stopping" /\ pc'[p] = "cleanup"

DaemonStep(p) ==
  \/ BindSocket(p)
  \/ StopControlSocket(p)
  \/ /\ Step(p)
     /\ ~SpawnSidecar(p)
     /\ Serves(p) => sockfile = p
     /\ StopsOn(p) => sockfile = NoPid
     /\ UNCHANGED <<socketVars, agentVars>>

-----------------------------------------------------------------------------
(* An agent: RunAgent, and RunCode up to the devcontainer it writes.       *)
Moves(a, station) == agent' = [agent EXCEPT ![a] = station]

(* The agent's process ends, and with it the parent of its daemon. *)
Leaves(a) == IF child[a] \in unwaited THEN ParentEnds(child[a]) ELSE UNCHANGED vars

(* ensureDaemon: one dial, ... *)
Dial(a) ==
  /\ agent[a] = "idle"
  /\ Moves(a, IF Dialable THEN "enable" ELSE "spawn")
  /\ UNCHANGED <<vars, socketVars, asked, bound, child, crashes>>

(* ... a daemon of its own, if nobody answered then (cmd.Start, with no    *)
(* Wait after it), ...                                                     *)
Spawn(a) ==
  /\ agent[a] = "spawn"
  /\ \E p \in Pids :
       /\ StartsDaemon(p)
       /\ unwaited' = unwaited \cup {p}
       /\ child' = [child EXCEPT ![a] = p]
  /\ Moves(a, "wait")
  /\ UNCHANGED <<asked, bound, crashes>>

(* ... and up to 50 dials in 10 s: whoever answers will do. *)
Waits(a) ==
  /\ agent[a] = "wait"
  /\ Dialable
  /\ Moves(a, "enable")
  /\ UNCHANGED <<vars, socketVars, asked, bound, child, crashes>>

(* Mutant: the daemon answers before the dashboard has started the proxy.  *)
EnableProxyAnswersFirst(a) ==
  /\ agent[a] = "enable"
  /\ \E p \in Pids :
       /\ Reaches(p)
       /\ asked' = [asked EXCEPT ![a] = p]
       /\ Moves(a, "policy")
  /\ UNCHANGED <<vars, socketVars, bound, child, crashes>>

(* EnableProxy: the daemon has the dashboard's handler start the proxy and *)
(* save the configuration.  The handler may wait for a password then, and  *)
(* the agent gives up after 5 s; what was done stays done.                 *)
EnableProxy(a) ==
  /\ agent[a] = "enable"
  /\ \E p \in Pids :
       /\ Reaches(p)
       /\ proxied' = proxied \cup {p}
       /\ loaded' = [loaded EXCEPT ![p] = TRUE]
       /\ asked' = [asked EXCEPT ![a] = p]
  /\ enabled' = TRUE
  /\ \/ Moves(a, "policy") /\ UNCHANGED vars
     \/ Moves(a, "failed") /\ Leaves(a)
  /\ UNCHANGED <<sockfile, bound, child, crashes>>

(* LaunchPolicy, and the container with Proxy.Addr as it is then: empty if *)
(* the proxy of the daemon that answers has not been started.              *)
LaunchPolicy(a) ==
  /\ agent[a] = "policy"
  /\ \E p \in Pids :
       /\ Reaches(p)
       /\ bound' = [bound EXCEPT ![a] = IF p \in proxied THEN p ELSE NoPid]
  /\ Moves(a, "launched")
  /\ UNCHANGED <<vars, socketVars, asked, child, crashes>>

(* No process, no answer in time, nobody at the socket, or an error from   *)
(* the daemon: the command ends.                                           *)
Fails(a) ==
  /\ agent[a] \in {"spawn", "wait", "enable", "policy"}
  /\ Moves(a, "failed")
  /\ Leaves(a)
  /\ UNCHANGED <<socketVars, asked, bound, child, crashes>>

(* RunAgent ends when its container does. *)
SessionEnds(a) ==
  /\ agent[a] = "launched"
  /\ ParentEnds(child[a])
  /\ UNCHANGED <<socketVars, agentVars>>

AgentStep(a) ==
  Dial(a) \/ Spawn(a) \/ Waits(a) \/ EnableProxy(a) \/ LaunchPolicy(a) \/ Fails(a)

-----------------------------------------------------------------------------
(* Daemons are also started by hand, ... *)
Others(p) == StartsDaemon(p) /\ UNCHANGED <<unwaited, agentVars>>

(* ... and one may crash, which leaves its files, the socket's too. *)
DaemonCrashes(p) ==
  /\ crashes < MaxCrashes
  /\ Crash(p)
  /\ crashes' = crashes + 1
  /\ UNCHANGED <<socketVars, agent, asked, bound, child>>

AgentsNext ==
  \/ \E p \in Pids : DaemonStep(p) \/ Others(p) \/ DaemonCrashes(p)
  \/ \E a \in AgentIds : AgentStep(a) \/ SessionEnds(a)

AgentsSpec == AgentsInit /\ [][AgentsNext]_allVars

AgentsFairSpec ==
  /\ AgentsSpec
  /\ \A p \in Pids : WF_allVars(DaemonStep(p))
  /\ \A a \in AgentIds : WF_allVars(AgentStep(a))

-----------------------------------------------------------------------------
(* Whoever answers at the control socket holds the singleton lock, and a   *)
(* daemon that runs answers there: no predecessor's Stop and no newcomer's *)
(* Start takes the file from it ("singleton lock guarantees no live peer", *)
(* daemon/socket.go).                                                      *)
SocketIsHolders ==
  \A p \in Pids : /\ Reaches(p) => lock = p
                  /\ pc[p] = "running" => sockfile = p

(* An agent's container gets the proxy of the very daemon that switched it *)
(* on for this agent, unless that daemon was stopped in between.           *)
BoundOrReplaced ==
  \A a \in AgentIds :
    agent[a] = "launched" /\ bound[a] # asked[a] =>
      pc[asked[a]] \in Stopping \cup {"released", "gone"}

OneIsUp ==
  \E q \in Pids : /\ pc[q] = "running"
                  /\ \A r \in Pids \ {q} : pc[r] \in {"new", "gone"}

(* However many daemons are started at once, by agents or by hand, they do *)
(* not all give up or kill one another: when the starts cease one is up    *)
(* and the others are gone.  Not so if a daemon crashes, or if one that is *)
(* replaced becomes the zombie of the agent that started it.               *)
SomebodyRuns ==
  (\E p \in Pids : pc[p] = "open") ~>
    (crashes > 0 \/ (\E q \in Pids : Zombie(q)) \/ OneIsUp)

(* "A single `go run ./cmd/redactr` (or `redactr`) always produces a       *)
(* clean, ready process" (process-lifecycle-design.md): one that replaces  *)
(* the daemon of an agent too.                                             *)
StartSucceeds == (\E p \in Pids : pc[p] = "open") ~> (crashes > 0 \/ OneIsUp)

(* An agent that is launched has a proxy ("ensures the daemon + proxy are  *)
(* up", cli/agent.go).                                                     *)
LaunchedIsProxied == \A a \in AgentIds : agent[a] = "launched" => bound[a] # NoPid
=============================================================================
