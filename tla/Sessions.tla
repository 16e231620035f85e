------------------------------ MODULE Sessions ------------------------------
(***************************************************************************)
(* Session discovery and monitoring.  sessions.Lister finds the AI tools   *)
(* among the running processes and calls each protected, runaway or        *)
(* unknown.  Two callers share it: GET /api/sessions (the dashboard) and   *)
(* monitorLoop, which reports the verdicts to the control plane.  A        *)
(* listing is a sequence of ps, DNS lookups, and a ps and an lsof for each *)
(* process, while tools start, connect and exit, addresses of AI hosts     *)
(* change, and the proxy is switched on and off.  `redactr shell` starts   *)
(* tools bound to the proxy.                                               *)
(*                                                                         *)
(* Only connections to port 443 or 80 of a remote address, and to local    *)
(* ports, are modelled.  The steps of the proxy switch that ProxyRouting   *)
(* tells apart are merged here.                                            *)
(***************************************************************************)
EXTENDS Naturals, FiniteSets

CONSTANTS
  Procs,       \* process ids
  Hosts,       \* AIHosts
  Addrs,       \* addresses of AI hosts
  Ports,       \* local ports the proxy may get
  NoPort,      \* no address
  Elsewhere,   \* the address of some other proxy
  MaxConns,    \* bound: connections a tool has at a time
  Faults       \* what may go wrong

ASSUME SessionsAssumption ==
  /\ Procs # {} /\ Hosts # {} /\ Addrs # {} /\ Ports # {}
  /\ NoPort \notin Ports /\ Elsewhere \notin Ports \cup {NoPort}
  /\ Ports \cap Addrs = {}
  /\ MaxConns \in Nat
  /\ Faults \subseteq {"scan", "lookup", "send", "write", "crash"}

Callers == {"dashboard", "monitor"}

VARIABLES
  on,          \* the proxy listens and is enabled in the configuration
  addr,        \* Proxy.Addr(), which outlives Stop
  proxyFile,   \* state/proxy.pid
  dns,         \* dns[h]: the address of AI host h
  hostIPs,     \* Lister.hostIPs
  expired,     \* hostIPsAt is 60 s ago or more
  proxyAddr,   \* Lister.proxyAddr
  proc,        \* proc[p]: the AI tools that run
  call,        \* call[l]: the listings in progress
  verdicts,    \* the verdicts of the batch the server stored last
  calm         \* from now on the environment is steady

daemon == <<on, addr, proxyFile>>
lister == <<hostIPs, expired, proxyAddr, call, verdicts>>
vars == <<daemon, lister, dns, proc, calm>>

Happens(fault) == fault \in Faults /\ ~calm

-----------------------------------------------------------------------------
(* Processes and listings.                                                 *)
Proc == [runs : BOOLEAN, bound : BOOLEAN, env : Ports \cup {NoPort, Elsewhere},
         conns : SUBSET (Addrs \cup Ports)]

Gone == [runs |-> FALSE, bound |-> FALSE, env |-> NoPort, conns |-> {}]

Verdicts == {"protected", "runaway", "unknown"}

(* One process under examination: what ps -E said of it. *)
Call == [pc : {"idle", "scan", "refresh", "each", "conns", "post"}, todo : SUBSET Procs,
         at : Procs, bound : BOOLEAN, proxied : BOOLEAN,
         rows : SUBSET [pid : Procs, verdict : Verdicts]]

NoCall == [pc |-> "idle", todo |-> {}, at |-> CHOOSE p \in Procs : TRUE,
           bound |-> FALSE, proxied |-> FALSE, rows |-> {}]

Init ==
  /\ on = FALSE /\ addr = NoPort /\ proxyFile = NoPort
  /\ dns \in [Hosts -> Addrs]
  /\ hostIPs = {} /\ expired = TRUE /\ proxyAddr = NoPort
  /\ proc = [p \in Procs |-> Gone]
  /\ call = [l \in Callers |-> NoCall]
  /\ verdicts = {}
  /\ calm = FALSE

-----------------------------------------------------------------------------
(* Lister.List                                                             *)

(* GET /api/sessions tells the lister the proxy's address first. *)
DashboardOpens ==
  /\ call["dashboard"].pc = "idle"
  /\ proxyAddr' = addr
  /\ call' = [call EXCEPT !["dashboard"].pc = "scan"]
  /\ UNCHANGED <<daemon, hostIPs, expired, verdicts, dns, proc, calm>>

(* The ticker of monitorLoop. *)
MonitorTick ==
  /\ call["monitor"].pc = "idle"
  /\ call' = [call EXCEPT !["monitor"].pc = "scan"]
  /\ UNCHANGED <<daemon, hostIPs, expired, proxyAddr, verdicts, dns, proc, calm>>

(* scanProcesses, with the tools that classifyTool recognises. *)
ScanProcesses(l) ==
  /\ call[l].pc = "scan"
  /\ call' = [call EXCEPT ![l].pc = "refresh", ![l].todo = {p \in Procs : proc[p].runs}]
  /\ UNCHANGED <<daemon, hostIPs, expired, proxyAddr, verdicts, dns, proc, calm>>

(* Mutant: an error ends the loop instead of the tick. *)
ScanFailureEndsLoop(l) ==
  /\ call[l].pc = "scan"
  /\ Happens("scan")
  /\ call' = [call EXCEPT ![l].pc = IF l = "monitor" THEN "post" ELSE "idle",
                          ![l].rows = {}]
  /\ UNCHANGED <<daemon, hostIPs, expired, proxyAddr, verdicts, dns, proc, calm>>

(* ps fails: the request is answered with an error, the tick is skipped. *)
ScanFails(l) ==
  /\ call[l].pc = "scan"
  /\ Happens("scan")
  /\ call' = [call EXCEPT ![l] = NoCall]
  /\ UNCHANGED <<daemon, hostIPs, expired, proxyAddr, verdicts, dns, proc, calm>>

(* The hosts whose lookup answers within its 2 s. *)
Answering == IF Happens("lookup") THEN SUBSET Hosts ELSE {Hosts}

(* refreshHostIPs, under the lister's lock: young addresses are kept, and  *)
(* so are old ones if no lookup answers.                                   *)
RefreshHostIPs(l) ==
  /\ call[l].pc = "refresh"
  /\ \E hs \in IF expired \/ hostIPs = {} THEN Answering ELSE {{}} :
       IF hs # {} THEN hostIPs' = {dns[h] : h \in hs} /\ expired' = FALSE
       ELSE UNCHANGED <<hostIPs, expired>>
  /\ call' = [call EXCEPT ![l].pc = "each"]
  /\ UNCHANGED <<daemon, proxyAddr, verdicts, dns, proc, calm>>

(* detectProxyEnv: any proxy counts. *)
HasProxyEnv(seen) == seen.env # NoPort

(* What ps -E or lsof say of a process: nothing if it is gone, and if they *)
(* fail.                                                                   *)
Seen(p) == {proc[p]} \cup (IF Happens("scan") THEN {Gone} ELSE {})

(* processEnv.  The dashboard's listing examines each process in the same   *)
(* way; that changes nothing here and its rows are only its answer, so from *)
(* here on the steps are those of the monitor's listing.                    *)
ReadEnv(p) ==
  /\ call["monitor"].pc = "each"
  /\ p \in call["monitor"].todo
  /\ \E seen \in Seen(p) :
       call' = [call EXCEPT !["monitor"].pc = "conns", !["monitor"].at = p,
                            !["monitor"].todo = @ \ {p},
                            !["monitor"].bound = seen.bound,
                            !["monitor"].proxied = HasProxyEnv(seen)]
  /\ UNCHANGED <<daemon, hostIPs, expired, proxyAddr, verdicts, dns, proc, calm>>

(* classifyConnections *)
ViaProxy(conns) == proxyAddr \in conns
DirectAIConn(conns) == conns \cap hostIPs

(* Mutant: the default case is missing. *)
DecideNoDefault(c, conns) ==
  IF c.bound THEN "protected"
  ELSE IF DirectAIConn(conns) # {} THEN "runaway"
  ELSE IF c.proxied \/ ViaProxy(conns) THEN "protected"
  ELSE "none"

(* Mutant: a connection to the proxy is taken for a direct one. *)
DecideProxyIsDirect(c, conns) ==
  IF c.bound THEN "protected"
  ELSE IF DirectAIConn(conns) # {} \/ ViaProxy(conns) THEN "runaway"
  ELSE IF c.proxied THEN "protected"
  ELSE "unknown"

(* decide: the bound flag comes first, then a direct connection. *)
Decide(c, conns) ==
  IF c.bound THEN "protected"
  ELSE IF DirectAIConn(conns) # {} THEN "runaway"
  ELSE IF c.proxied \/ ViaProxy(conns) THEN "protected"
  ELSE "unknown"

(* processConnections, classifyConnections and decide. *)
ReadConns ==
  /\ call["monitor"].pc = "conns"
  /\ \E seen \in Seen(call["monitor"].at) :
       call' = [call EXCEPT !["monitor"].pc = "each",
         !["monitor"].bound = FALSE, !["monitor"].proxied = FALSE,
         !["monitor"].rows = @ \cup {[pid |-> call["monitor"].at,
                                     verdict |-> Decide(call["monitor"], seen.conns)]}]
  /\ UNCHANGED <<daemon, hostIPs, expired, proxyAddr, verdicts, dns, proc, calm>>

(* The monitor's list is complete; an empty list is not reported. *)
ListDone ==
  /\ call["monitor"].pc = "each"
  /\ call["monitor"].todo = {}
  /\ call' = [call EXCEPT !["monitor"] = IF @.rows # {} THEN [@ EXCEPT !.pc = "post"] ELSE NoCall]
  /\ UNCHANGED <<daemon, hostIPs, expired, proxyAddr, verdicts, dns, proc, calm>>

(* The dashboard gets its list. *)
DashboardAnswered ==
  /\ call["dashboard"].pc = "each"
  /\ call' = [call EXCEPT !["dashboard"] = NoCall]
  /\ UNCHANGED <<daemon, hostIPs, expired, proxyAddr, verdicts, dns, proc, calm>>

(* monitor.Report: the server stores the batch (handlePostEvents). *)
ReportStored ==
  /\ call["monitor"].pc = "post"
  /\ call["monitor"].rows # {}
  /\ verdicts' = {row.verdict : row \in call["monitor"].rows}
  /\ call' = [call EXCEPT !["monitor"] = NoCall]
  /\ UNCHANGED <<daemon, hostIPs, expired, proxyAddr, dns, proc, calm>>

(* The server is not reached or refuses: the batch is dropped. *)
ReportDropped ==
  /\ call["monitor"].pc = "post"
  /\ Happens("send")
  /\ call' = [call EXCEPT !["monitor"] = NoCall]
  /\ UNCHANGED <<daemon, hostIPs, expired, proxyAddr, verdicts, dns, proc, calm>>

(* Sixty seconds pass after a refresh. *)
Expires ==
  /\ ~expired
  /\ expired' = TRUE
  /\ UNCHANGED <<daemon, hostIPs, proxyAddr, call, verdicts, dns, proc, calm>>

ListStep(l) == ScanProcesses(l) \/ ScanFails(l) \/ RefreshHostIPs(l)

MonitorStep ==
  \/ ListStep("monitor")
  \/ \E p \in Procs : ReadEnv(p)
  \/ ReadConns \/ ListDone

-----------------------------------------------------------------------------
(* Tools.                                                                  *)

(* discoverProxyAddr: the state file, or else what /api/proxy/status of a  *)
(* dashboard that answers says.                                            *)
ProxyAddresses ==
  IF proxyFile # NoPort THEN {proxyFile}
  ELSE IF on THEN {addr} ELSE {}

(* RunShell, and a tool started in that shell. *)
LaunchBound(p) ==
  /\ ~proc[p].runs
  /\ \E a \in ProxyAddresses :
       proc' = [proc EXCEPT ![p] = [Gone EXCEPT !.runs = TRUE, !.bound = TRUE, !.env = a]]
  /\ UNCHANGED <<daemon, lister, dns, calm>>

(* A tool started elsewhere, perhaps with an environment of its own. *)
LaunchPlain(p, e) ==
  /\ ~proc[p].runs
  /\ proc' = [proc EXCEPT ![p] = [Gone EXCEPT !.runs = TRUE, !.env = e]]
  /\ UNCHANGED <<daemon, lister, dns, calm>>

(* A tool connects to an AI host or to the proxy; connections end. *)
Connects(p) ==
  /\ proc[p].runs /\ Cardinality(proc[p].conns) < MaxConns
  /\ \E c \in {dns[h] : h \in Hosts} \cup (IF on THEN {addr} ELSE {}) :
       /\ c \notin proc[p].conns
       /\ proc' = [proc EXCEPT ![p].conns = @ \cup {c}]
  /\ UNCHANGED <<daemon, lister, dns, calm>>

Disconnects(p) ==
  /\ \E c \in proc[p].conns : proc' = [proc EXCEPT ![p].conns = @ \ {c}]
  /\ UNCHANGED <<daemon, lister, dns, calm>>

(* A tool exits, by itself or by POST /api/sessions/{pid}/stop. *)
Exits(p) ==
  /\ proc[p].runs
  /\ proc' = [proc EXCEPT ![p] = Gone]
  /\ UNCHANGED <<daemon, lister, dns, calm>>

-----------------------------------------------------------------------------
(* The daemon and the rest of the world.                                   *)

(* handleProxyEnable: writeProxyState ignores that it cannot write. *)
ProxyOn(p) ==
  /\ ~on
  /\ on' = TRUE /\ addr' = p
  /\ \/ proxyFile' = p
     \/ Happens("write") /\ UNCHANGED proxyFile
  /\ UNCHANGED <<lister, dns, proc, calm>>

(* handleProxyDisable *)
ProxyOff ==
  /\ on
  /\ on' = FALSE /\ proxyFile' = NoPort
  /\ proc' = [p \in Procs |-> [proc[p] EXCEPT !.conns = @ \ {addr}]]
  /\ UNCHANGED <<addr, lister, dns, calm>>

(* The daemon crashes and is started again.  The state file stays; the new *)
(* daemon has its proxy off and an empty lister.                           *)
Restart ==
  /\ Happens("crash")
  /\ on' = FALSE /\ addr' = NoPort
  /\ hostIPs' = {} /\ expired' = TRUE /\ proxyAddr' = NoPort
  /\ call' = [l \in Callers |-> NoCall]
  /\ proc' = [p \in Procs |-> [proc[p] EXCEPT !.conns = @ \ {addr}]]
  /\ UNCHANGED <<proxyFile, verdicts, dns, calm>>

DnsChanges ==
  /\ ~calm
  /\ \E h \in Hosts : \E a \in Addrs \ {dns[h]} : dns' = [dns EXCEPT ![h] = a]
  /\ UNCHANGED <<daemon, lister, proc, calm>>

CalmsDown ==
  /\ ~calm
  /\ calm' = TRUE
  /\ UNCHANGED <<daemon, lister, dns, proc>>

-----------------------------------------------------------------------------
Next ==
  \/ DashboardOpens \/ ListStep("dashboard") \/ DashboardAnswered
  \/ MonitorTick \/ MonitorStep
  \/ ReportStored \/ ReportDropped \/ Expires
  \/ \E p \in Procs : \/ LaunchBound(p) \/ Connects(p) \/ Disconnects(p) \/ Exits(p)
                      \/ \E e \in {NoPort, Elsewhere} : LaunchPlain(p, e)
  \/ (\E p \in Ports : ProxyOn(p)) \/ ProxyOff
  \/ Restart \/ DnsChanges \/ CalmsDown

Spec == Init /\ [][Next]_vars

(* The ticker of monitorLoop fires (60 s), its goroutine is scheduled, its *)
(* commands and its request end (each has a timeout), and time passes.     *)
(* Nothing is assumed of the dashboard, of users and of tools.             *)
FairSpec ==
  /\ Spec
  /\ WF_vars(MonitorTick) /\ WF_vars(MonitorStep)
  /\ WF_vars(ReportStored \/ ReportDropped) /\ WF_vars(Expires)

-----------------------------------------------------------------------------
(* Processes, listings and verdicts are well formed. *)
TypeOK ==
  /\ on \in BOOLEAN /\ expired \in BOOLEAN /\ calm \in BOOLEAN
  /\ addr \in Ports \cup {NoPort}
  /\ proxyFile \in Ports \cup {NoPort}
  /\ proxyAddr \in Ports \cup {NoPort}
  /\ dns \in [Hosts -> Addrs]
  /\ hostIPs \subseteq Addrs
  /\ proc \in [Procs -> Proc]
  /\ call \in [Callers -> Call]
  /\ verdicts \subseteq Verdicts

Direct(p) == \E h \in Hosts : dns[h] \in proc[p].conns

(* A tool outside a bound shell that goes on talking to an AI host is, as  *)
(* long as the environment is calm, reported runaway: failed scans, lookups*)
(* and reports before, stale addresses and the other caller of the lister  *)
(* do not prevent it.                                                      *)
RunawayReported ==
  \A p \in Procs :
    <>[](calm /\ proc[p].runs /\ ~proc[p].bound /\ Direct(p))
      => <>[]("runaway" \in verdicts)

(* When the tools that run have no connection but to the proxy, the alarm  *)
(* ends.                                                                   *)
AlarmEnds ==
  <>[](/\ calm /\ \E p \in Procs : proc[p].runs
       /\ \A p \in Procs : proc[p].conns \cap Addrs = {})
    => <>[]("runaway" \notin verdicts)

(* A session that talks to an AI host directly is not listed as protected. *)
ProtectedIsRouted ==
  [][LET m == call["monitor"] IN
     ReadConns /\ DirectAIConn(proc[m.at].conns) # {} =>
       [pid |-> m.at, verdict |-> "protected"] \notin call'["monitor"].rows]_vars

(* A session whose connections all go to the proxy ends up as protected. *)
RoutedIsProtected ==
  <>[](/\ calm /\ on
       /\ \A p \in Procs : proc[p].runs /\ proc[p].conns = {addr})
    => <>[](verdicts = {"protected"})

(* `redactr shell` does not bind a shell to a proxy that is not running. *)
ShellIsBound ==
  [][\A p \in Procs : LaunchBound(p) => on /\ proc'[p].env = addr]_vars
=============================================================================
