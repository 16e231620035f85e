---------------------------- MODULE ProxyRouting ----------------------------
(***************************************************************************)
(* Switching the proxy on and off: POST /api/proxy/enable and disable      *)
(* (internal/api/routes.go), the proxy's listener (internal/proxy), the    *)
(* firewall controller and its reconcile loop (internal/firewall), start,  *)
(* stop and crash of the daemon, and the `redactr cleanup` command.        *)
(*                                                                         *)
(* The packet filter outlives the daemon: its anchor holds redirect rules  *)
(* from a set of IPs to the port of one daemon's transparent listener.     *)
(* Every change of it is a script run as administrator, which the user can *)
(* refuse.  Controller methods exclude each other, as they hold c.mu       *)
(* throughout, but they are no single step: the script changes the anchor, *)
(* then firewall.json is written, and the daemon can crash in between.     *)
(***************************************************************************)
EXTENDS Naturals, FiniteSets

CONSTANTS
  Clients,     \* concurrent callers of the API
  Ports,       \* ports for the proxy's listeners
  TPorts,      \* ports for the transparent listener
  NoPort,      \* nil listener, absent file
  Domains,     \* cfg.Proxy.InterceptedDomains
  IPs,         \* addresses the domains resolve to
  Serial,      \* TRUE: one caller at a time, none while starting or stopping
  Faults,      \* what goes wrong: a subset of AllFaults
  MaxStray     \* bound of the model: scripts waiting without their caller

(* "sudo": the prompt is refused; "reap": the one of a start is; "late": a *)
(* script outlives its caller (osascript ran into its 60 s limit, or the   *)
(* daemon ended) and runs later; "load": pfctl rejects the rules inside    *)
(* the script; "disk": firewall.json cannot be written; "dns": a lookup    *)
(* fails; "listen": no port; "crash"; "cleanup": the user runs the cleanup *)
(* command while the daemon is up.                                         *)
AllFaults ==
  {"sudo", "reap", "late", "load", "disk", "dns", "listen", "crash", "cleanup"}

ASSUME RoutingAssumption ==
  /\ NoPort \notin Ports \cup TPorts
  /\ TPorts # {} /\ Domains # {}
  /\ Serial \in BOOLEAN
  /\ Faults \subseteq AllFaults
  /\ MaxStray \in Nat

VARIABLES
  phase,      \* the daemon: "down" | "booting" | "bootfile" | "up" |
              \*   "unrouting" | "stopping" | "closing"
  boot,       \* Start's own: cfg.Proxy.Enabled as read, and the address bound
  on,         \* cfg.Proxy.Enabled, in memory and in config.yaml
  sockets,    \* ports with a live proxy listener
  listener,   \* Proxy.listener
  server,     \* the listener Proxy.server serves
  running,    \* Proxy.running
  tport,      \* port of the transparent listener
  file,       \* the address in state/proxy.pid, or NoPort
  fw,         \* the Controller: enabled, currentIPs
  saved,      \* state/firewall.json: active, IPs
  pf,         \* the anchor: IPs redirected, and the port they go to
  op,         \* the Controller method that holds c.mu: the rules it asks for,
              \*   and how far it is
  stray,      \* rules of the scripts that outlived their callers
  dns,        \* dns[d]: what d resolves to now
  calm,       \* TRUE once the environment stopped changing and failing
  client      \* client[c]: the handler that serves caller c

proxyVars == <<sockets, listener, server, running>>
fwVars == <<fw, saved, pf, op, stray>>
vars == <<phase, boot, on, proxyVars, tport, file, fwVars, dns, calm, client>>

Rules == [ips : SUBSET IPs, port : TPorts \cup {NoPort}]
NoRules == [ips |-> {}, port |-> NoPort]
Off == [on |-> FALSE, ips |-> {}]
Steps == {"idle", "update", "file", "firewall", "redirect", "unredirect", "stop",
          "unset", "unlink"}
Handler == [pc : Steps, port : Ports \cup {NoPort}]
Method == [at : {"none", "script", "loaded", "failed"}, rules : Rules]
NoOp == [at |-> "none", rules |-> NoRules]
NoBoot == [on |-> FALSE, port |-> NoPort]
Idle == [pc |-> "idle", port |-> NoPort]

(* A lookup that succeeds returns at least one address. *)
Addresses == (SUBSET IPs) \ {{}}

May(fault) == fault \in Faults /\ ~calm

Init ==
  /\ phase = "down"
  /\ boot = NoBoot
  /\ on \in BOOLEAN
  /\ sockets = {} /\ listener = NoPort /\ server = NoPort /\ running = FALSE
  /\ tport = NoPort
  /\ file = NoPort
  /\ fw = Off /\ saved = Off /\ pf = NoRules /\ op = NoOp /\ stray = {}
  /\ dns \in [Domains -> Addresses]
  /\ calm = FALSE
  /\ client = [c \in Clients |-> Idle]

-----------------------------------------------------------------------------
(* The administrator's script, resolution, and the Controller.             *)

MayOutlive(rules) == May("late") /\ Cardinality(stray \cup {rules}) <= MaxStray

(* What runWithSudo may return, and the rules it may leave, if it may be   *)
(* refused.  The script flushes the anchor and loads the new rules; its    *)
(* exit status is that of its last command, never that of the load.        *)
Scripts(refusal, rules) ==
  {[ok |-> TRUE, pf |-> rules, stray |-> stray]}
    \cup (IF May(refusal) THEN {[ok |-> FALSE, pf |-> pf, stray |-> stray]} ELSE {})
    \cup (IF MayOutlive(rules)
          THEN {[ok |-> FALSE, pf |-> pf, stray |-> stray \cup {rules}]} ELSE {})
    \cup (IF May("load") /\ rules # NoRules
          THEN {[ok |-> TRUE, pf |-> NoRules, stray |-> stray]} ELSE {})

(* resolveAll: the hosts that answer; it is an error if none does. *)
Answering == IF May("dns") THEN SUBSET Domains ELSE {Domains}
Resolved(ds) == UNION {dns[d] : d \in ds}

(* Enable, Disable and Reconcile take c.mu and call Redirect or Unredirect *)
(* of the manager, ...                                                     *)
Calls(rules) == op = NoOp /\ op' = [at |-> "script", rules |-> rules]

(* ... whose script runs when the user has answered the prompt.            *)
ScriptEnds ==
  /\ op.at = "script"
  /\ \E s \in Scripts("sudo", op.rules) :
       /\ pf' = s.pf
       /\ stray' = s.stray
       /\ op' = [op EXCEPT !.at = IF s.ok THEN "loaded" ELSE "failed"]
  /\ UNCHANGED <<phase, boot, on, proxyVars, tport, file, fw, saved, dns, calm, client>>

(* The Controller's fields that go with the rules: no rules is off. *)
Recorded(rules) == IF rules = NoRules THEN Off ELSE [on |-> TRUE, ips |-> rules.ips]

(* Mutant: the controller takes the new state over whatever the script said. *)
ReturnsEager ==
  /\ op.at \in {"loaded", "failed"}
  /\ op' = NoOp
  /\ fw' = Recorded(op.rules)
  /\ saved' = fw'
  /\ UNCHANGED <<pf, stray>>

(* The rest of the method.  An error leaves the fields and the file alone; *)
(* persist ignores that the file could not be opened, or not be filled.    *)
Returns ==
  /\ op.at \in {"loaded", "failed"}
  /\ op' = NoOp
  /\ IF op.at = "failed" THEN UNCHANGED <<fw, saved>>
     ELSE /\ fw' = Recorded(op.rules)
          /\ saved' \in {fw'} \cup (IF May("disk") THEN {saved, Off} ELSE {})
  /\ UNCHANGED <<pf, stray>>

(* Mutant: addresses that are no longer in use do not count as a change. *)
ReconcileOnlyAdds ==
  /\ phase \in {"booting", "bootfile", "up"}
  /\ fw.on
  /\ \E ds \in Answering \ {{}} :
       /\ ~(Resolved(ds) \subseteq fw.ips)
       /\ Calls([ips |-> Resolved(ds), port |-> tport])
  /\ UNCHANGED <<phase, boot, on, proxyVars, tport, file, fw, saved, pf, stray, dns,
                 calm, client>>

(* A tick of RunReconcileLoop that finds a changed set of addresses. *)
Reconcile ==
  /\ phase \in {"booting", "bootfile", "up"}
  /\ fw.on
  /\ \E ds \in Answering \ {{}} :
       /\ Resolved(ds) # fw.ips
       /\ Calls([ips |-> Resolved(ds), port |-> tport])
  /\ UNCHANGED <<phase, boot, on, proxyVars, tport, file, fw, saved, pf, stray, dns,
                 calm, client>>

(* The tick holds c.mu if neither a handler nor Daemon.Stop does. *)
ReconcileReturns ==
  /\ phase # "unrouting"
  /\ \A c \in Clients : client[c].pc \notin {"redirect", "unredirect"}
  /\ Returns
  /\ UNCHANGED <<phase, boot, on, proxyVars, tport, file, dns, calm, client>>

(* A script whose caller is gone has its effect now. *)
StrayRuns ==
  /\ \E rules \in stray :
       /\ pf' \in {rules} \cup (IF May("load") THEN {NoRules} ELSE {})
       /\ stray' = stray \ {rules}
  /\ UNCHANGED <<phase, boot, on, proxyVars, tport, file, fw, saved, op, dns, calm, client>>

-----------------------------------------------------------------------------
(* Proxy.Start and Proxy.Stop, each under p.mu.                            *)

(* Start binds a new listener whatever is running: an earlier one keeps    *)
(* accepting, and nothing refers to it any more.                           *)
ProxyStart(p) ==
  /\ p \in Ports \ sockets
  /\ sockets' = sockets \cup {p}
  /\ listener' = p
  /\ server' = p
  /\ running' = TRUE

(* Stop closes the current server's listener; Addr goes on naming it. *)
ProxyStop ==
  /\ sockets' = IF running THEN sockets \ {server} ELSE sockets
  /\ running' = FALSE
  /\ UNCHANGED <<listener, server>>

-----------------------------------------------------------------------------
(* POST /api/proxy/enable and /api/proxy/disable.                          *)

ServesApi == phase \in {"booting", "bootfile", "up", "unrouting", "stopping"}

Accepts(c) ==
  /\ ServesApi
  /\ client[c].pc = "idle"
  /\ Serial => phase = "up" /\ \A o \in Clients : client[o].pc = "idle"

Moves(c, pc) == client' = [client EXCEPT ![c].pc = pc]

Alive == phase # "down"

EnableStart(c, p) ==
  /\ Accepts(c)
  /\ ProxyStart(p)
  /\ client' = [client EXCEPT ![c] = [pc |-> "update", port |-> p]]
  /\ UNCHANGED <<phase, boot, on, tport, file, fwVars, dns, calm>>

(* net.Listen fails: Proxy.listener is nil now, the server runs on. *)
EnableListenFails(c) ==
  /\ Accepts(c)
  /\ May("listen")
  /\ listener' = NoPort
  /\ UNCHANGED <<phase, boot, on, sockets, server, running, tport, file, fwVars,
                 dns, calm, client>>

(* cfgMgr.Update, then writeProxyState ... *)
EnableUpdate(c) ==
  /\ Alive /\ client[c].pc = "update"
  /\ on' = TRUE
  /\ Moves(c, "file")
  /\ UNCHANGED <<phase, boot, proxyVars, tport, file, fwVars, dns, calm>>

(* Mutant: the state file gets the transparent listener's address. *)
EnableFileTransparent(c) ==
  /\ Alive /\ client[c].pc = "file"
  /\ file' = tport
  /\ Moves(c, "firewall")
  /\ UNCHANGED <<phase, boot, on, proxyVars, tport, fwVars, dns, calm>>

EnableFile(c) ==
  /\ Alive /\ client[c].pc = "file"
  /\ file' = client[c].port
  /\ Moves(c, "firewall")
  /\ UNCHANGED <<phase, boot, on, proxyVars, tport, fwVars, dns, calm>>

(* ... and the rules last, once c.mu is free and a domain resolved. *)
EnableFirewall(c) ==
  /\ Alive /\ client[c].pc = "firewall"
  /\ op = NoOp
  /\ \E ds \in Answering :
       IF ds = {}
       THEN client' = [client EXCEPT ![c] = Idle] /\ UNCHANGED op
       ELSE Moves(c, "redirect") /\ Calls([ips |-> Resolved(ds), port |-> tport])
  /\ UNCHANGED <<phase, boot, on, proxyVars, tport, file, fw, saved, pf, stray, dns, calm>>

(* An error is reported; the listener stays. *)
EnableReturns(c) ==
  /\ Alive /\ client[c].pc = "redirect"
  /\ Returns
  /\ client' = [client EXCEPT ![c] = Idle]
  /\ UNCHANGED <<phase, boot, on, proxyVars, tport, file, dns, calm>>

(* Disable takes the rules away first, if the controller is on, ... *)
DisableFirewall(c) ==
  /\ Accepts(c)
  /\ op = NoOp
  /\ IF fw.on THEN Moves(c, "unredirect") /\ Calls(NoRules)
             ELSE Moves(c, "stop") /\ UNCHANGED op
  /\ UNCHANGED <<phase, boot, on, proxyVars, tport, file, fw, saved, pf, stray, dns, calm>>

(* ... and goes on after an error. *)
DisableReturns(c) ==
  /\ Alive /\ client[c].pc = "unredirect"
  /\ Returns
  /\ Moves(c, "stop")
  /\ UNCHANGED <<phase, boot, on, proxyVars, tport, file, dns, calm>>

DisableStop(c) ==
  /\ Alive /\ client[c].pc = "stop"
  /\ ProxyStop
  /\ Moves(c, "unset")
  /\ UNCHANGED <<phase, boot, on, tport, file, fwVars, dns, calm>>

DisableUpdate(c) ==
  /\ Alive /\ client[c].pc = "unset"
  /\ on' = FALSE
  /\ Moves(c, "unlink")
  /\ UNCHANGED <<phase, boot, proxyVars, tport, file, fwVars, dns, calm>>

DisableFile(c) ==
  /\ Alive /\ client[c].pc = "unlink"
  /\ file' = NoPort
  /\ client' = [client EXCEPT ![c] = Idle]
  /\ UNCHANGED <<phase, boot, on, proxyVars, tport, fwVars, dns, calm>>

-----------------------------------------------------------------------------
(* The daemon.                                                             *)

(* Mutant: a start does not look for rules a predecessor left. *)
BootNoReap ==
  /\ phase = "down"
  /\ phase' = "booting"
  /\ boot' = [on |-> on, port |-> NoPort]
  /\ \E t \in TPorts : tport' = t
  /\ UNCHANGED <<on, proxyVars, file, fwVars, dns, calm, client>>

(* Build and the first half of Start: ReapOrphans flushes the anchor and   *)
(* ignores an error, the transparent listener and the API come up.  What   *)
(* firewall.json says is not read.                                         *)
Boot ==
  /\ phase = "down"
  /\ phase' = "booting"
  /\ boot' = [on |-> on, port |-> NoPort]
  /\ \E t \in TPorts : tport' = t
  /\ \E s \in Scripts("reap", NoRules) : pf' = s.pf /\ stray' = s.stray
  /\ UNCHANGED <<on, proxyVars, file, fw, saved, op, dns, calm, client>>

(* The second half: the proxy's listener, if the configuration that was    *)
(* read at the beginning had it on, and no rules.                          *)
BootProxyOn ==
  /\ phase = "booting"
  /\ boot.on
  /\ \E p \in Ports : ProxyStart(p) /\ boot' = [boot EXCEPT !.port = p]
  /\ phase' = "bootfile"
  /\ UNCHANGED <<on, tport, file, fwVars, dns, calm, client>>

(* Mutant: only the API writes the state file. *)
BootSkipsFile ==
  /\ phase = "bootfile"
  /\ phase' = "up"
  /\ boot' = NoBoot
  /\ UNCHANGED <<on, proxyVars, tport, file, fwVars, dns, calm, client>>

BootFile ==
  /\ phase = "bootfile"
  /\ file' = boot.port
  /\ phase' = "up"
  /\ boot' = NoBoot
  /\ UNCHANGED <<on, proxyVars, tport, fwVars, dns, calm, client>>

BootProxyOff ==
  /\ phase = "booting"
  /\ ~boot.on
  /\ phase' = "up"
  /\ boot' = NoBoot
  /\ UNCHANGED <<on, proxyVars, tport, file, fwVars, dns, calm, client>>

(* Daemon.Stop: Disable (the reconcile loop is cancelled by then), ... *)
StopFirewall ==
  /\ phase = "up"
  /\ Serial => \A c \in Clients : client[c].pc = "idle"
  /\ op = NoOp
  /\ IF fw.on THEN phase' = "unrouting" /\ Calls(NoRules)
             ELSE phase' = "stopping" /\ UNCHANGED op
  /\ UNCHANGED <<boot, on, proxyVars, tport, file, fw, saved, pf, stray, dns, calm, client>>

StopFirewallReturns ==
  /\ phase = "unrouting"
  /\ Returns
  /\ phase' = "stopping"
  /\ UNCHANGED <<boot, on, proxyVars, tport, file, dns, calm, client>>

(* ... Proxy.Stop, then the API's listener closes; handlers run on ... *)
StopProxy ==
  /\ phase = "stopping"
  /\ ProxyStop
  /\ phase' = "closing"
  /\ UNCHANGED <<boot, on, tport, file, fwVars, dns, calm, client>>

(* What the end of the process takes with it; a script may run on. *)
ProcessEnds ==
  /\ phase' = "down"
  /\ boot' = NoBoot
  /\ sockets' = {} /\ listener' = NoPort /\ server' = NoPort /\ running' = FALSE
  /\ tport' = NoPort
  /\ fw' = Off
  /\ op' = NoOp
  /\ stray' \in {stray} \cup (IF op.at = "script" /\ MayOutlive(op.rules)
                              THEN {stray \cup {op.rules}} ELSE {})
  /\ client' = [c \in Clients |-> Idle]

(* ... and the state files go, with the process.  The flush by Cleanup in  *)
(* between runs pfctl as the user and has no effect.                       *)
StopFiles ==
  /\ phase = "closing"
  /\ ProcessEnds
  /\ file' = NoPort
  /\ UNCHANGED <<on, saved, pf, dns, calm>>

(* Start fails for want of a port, and Run returns its error. *)
BootListenFails ==
  /\ phase = "booting"
  /\ boot.on
  /\ May("listen")
  /\ ProcessEnds
  /\ UNCHANGED <<on, file, saved, pf, dns, calm>>

Crash ==
  /\ Alive
  /\ May("crash")
  /\ ProcessEnds
  /\ UNCHANGED <<on, file, saved, pf, dns, calm>>

(* `redactr cleanup`, a process of its own: the file goes in any case. *)
CleanupCommand ==
  /\ May("cleanup")
  /\ \E s \in Scripts("sudo", NoRules) : pf' = s.pf /\ stray' = s.stray
  /\ saved' = Off
  /\ UNCHANGED <<phase, boot, on, proxyVars, tport, file, fw, op, dns, calm, client>>

(* The environment. *)
DnsChanges(d) ==
  /\ ~calm
  /\ \E s \in Addresses : dns' = [dns EXCEPT ![d] = s]
  /\ UNCHANGED <<phase, boot, on, proxyVars, tport, file, fwVars, calm, client>>

CalmsDown ==
  /\ ~calm
  /\ calm' = TRUE
  /\ UNCHANGED <<phase, boot, on, proxyVars, tport, file, fwVars, dns, client>>

Handle(c) ==
  \/ EnableUpdate(c) \/ EnableFile(c) \/ EnableFirewall(c) \/ EnableReturns(c)
  \/ DisableReturns(c) \/ DisableStop(c) \/ DisableUpdate(c) \/ DisableFile(c)

Request(c) ==
  \/ \E p \in Ports : EnableStart(c, p)
  \/ EnableListenFails(c)
  \/ DisableFirewall(c)

Next ==
  \/ \E c \in Clients : Request(c) \/ Handle(c)
  \/ Reconcile \/ ReconcileReturns \/ ScriptEnds \/ StrayRuns
  \/ Boot \/ BootProxyOn \/ BootFile \/ BootProxyOff \/ BootListenFails
  \/ StopFirewall \/ StopFirewallReturns \/ StopProxy \/ StopFiles
  \/ Crash \/ CleanupCommand
  \/ \E d \in Domains : DnsChanges(d)
  \/ CalmsDown

Spec == Init /\ [][Next]_vars

(* The ticker of RunReconcileLoop fires every five minutes, a script comes *)
(* to an end within its 60 s, and whoever holds c.mu then goes on.         *)
FairSpec ==
  /\ Spec
  /\ WF_vars(Reconcile) /\ WF_vars(ScriptEnds)
  /\ WF_vars(ReconcileReturns) /\ WF_vars(StopFirewallReturns)
  /\ \A c \in Clients : WF_vars(EnableReturns(c)) /\ WF_vars(DisableReturns(c))

-----------------------------------------------------------------------------
(* State is well formed: proxy.pid only ever names a port of the proxy's   *)
(* listeners, the anchor only a transparent one.                           *)
TypeOK ==
  /\ phase \in {"down", "booting", "bootfile", "up", "unrouting", "stopping", "closing"}
  /\ boot \in [on : BOOLEAN, port : Ports \cup {NoPort}]
  /\ on \in BOOLEAN /\ running \in BOOLEAN /\ calm \in BOOLEAN
  /\ sockets \in SUBSET Ports
  /\ listener \in Ports \cup {NoPort} /\ server \in Ports \cup {NoPort}
  /\ file \in Ports \cup {NoPort}
  /\ tport \in TPorts \cup {NoPort}
  /\ fw \in [on : BOOLEAN, ips : SUBSET IPs]
  /\ saved \in [on : BOOLEAN, ips : SUBSET IPs]
  /\ pf \in Rules /\ op \in Method /\ stray \in SUBSET Rules
  /\ dns \in [Domains -> Addresses]
  /\ client \in [Clients -> Handler]

(* While the controller says it is active, the anchor holds exactly the    *)
(* rules it recorded, for the transparent listener of this very daemon,    *)
(* and firewall.json says the same: through refused prompts, failed        *)
(* lookups, concurrent enable, disable, reconcile and a crash at any step, *)
(* save while a method has changed the anchor and not yet returned.        *)
FirewallTracked ==
  fw.on /\ op.at # "loaded" =>
    pf = [ips |-> fw.ips, port |-> tport] /\ saved = fw /\ tport # NoPort

(* firewall.json is for recovery after crashes (internal/firewall/state.go *)
(* says so): rules that are in the anchor while no method is at work are   *)
(* on record there, also once the daemon that installed them is gone.      *)
RulesOnRecord == op = NoOp /\ pf # NoRules => saved.on /\ saved.ips = pf.ips

(* If the flush of a start is not refused and no script outlives its       *)
(* caller, a running daemon never has rules that point to the listener of  *)
(* a predecessor: ReapOrphans removes them whatever firewall.json says, so *)
(* also those of a daemon that crashed before it had them on record, or    *)
(* that could not remove them when it stopped.                             *)
NoStaleRules == Alive => pf = NoRules \/ pf.port = tport

Quiet == phase \in {"up", "down"} /\ \A c \in Clients : client[c].pc = "idle"

(* With one caller at a time, once the switch is done the proxy runs       *)
(* exactly if the configuration says so, and then proxy.pid, from which    *)
(* shells and sandboxes take the address, names a socket that accepts:     *)
(* also after a crash half way through a switch and the next start.        *)
SwitchConsistent ==
  Quiet /\ phase = "up" =>
    /\ running <=> on
    /\ on => file = server /\ server \in sockets

(* The anchor has the addresses the controller knows of, and no script is  *)
(* left to change that behind its back.                                    *)
InStep == stray = {} /\ op.at # "loaded" /\ pf.ips = fw.ips

(* Once the environment is calm (addresses stay, lookups and prompts       *)
(* succeed, no crash, no cleanup) and what went wrong before has left the  *)
(* controller in step with the anchor, the rules come to cover exactly     *)
(* what the domains resolve to: a reconcile that failed is tried again at  *)
(* a later tick, and a method that holds the lock does not keep it.        *)
RulesFollowDns ==
  (calm /\ fw.on /\ InStep) ~> (~fw.on \/ phase \in {"unrouting", "stopping", "closing"}
                                   \/ pf.ips = Resolved(Domains))

(* Off means closed: no listener accepts once the proxy has been disabled. *)
OffMeansClosed == Quiet /\ phase = "up" /\ ~on => sockets = {}

(* The tray is green (enabled, with an address) only if the proxy is live. *)
TrayGreen == Quiet /\ phase = "up" /\ on /\ listener # NoPort => listener \in sockets

(* Enabled means listening and routed, unless a prompt was refused. *)
EnabledIsRouted == Quiet /\ phase = "up" /\ on => fw.on

(* IsActive reports whether redirect rules are installed. *)
ActiveMeansInstalled == fw.on => pf.port = tport

(* A graceful shutdown leaves no rules behind. *)
ShutdownFlushes == [][StopFiles => pf' = NoRules]_vars

(* A lookup that fails for one host leaves that host's rules in place: a   *)
(* reconcile drops no address some domain still resolves to.               *)
KeepsHostRules == [][Reconcile => pf.ips \cap Resolved(Domains) \subseteq op'.rules.ips]_vars

=============================================================================
