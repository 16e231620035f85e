------------------------- MODULE ProxyRoutingProofs -------------------------
(***************************************************************************)
(* Proofs about the packet filter's rules in ProxyRouting, for any number  *)
(* of callers, domains, addresses and ports.                               *)
(***************************************************************************)
EXTENDS ProxyRouting, TLAPS

(* What a run of the administrator's script may leave, when the only thing *)
(* that can go wrong with it is that the prompt is refused.                *)
LEMMA ScriptOutcome ==
  ASSUME Faults \cap {"late", "load"} = {},
         NEW refusal, NEW rules, NEW s \in Scripts(refusal, rules)
  PROVE  /\ (s.ok = TRUE /\ s.pf = rules) \/ (s.ok = FALSE /\ s.pf = pf)
         /\ s.stray = stray
BY DEF Scripts, MayOutlive, May

(* When no script outlives its caller, it leaves the rules it was asked    *)
(* for or none, or those it found if the prompt is refused.                *)
LEMMA ScriptLoads ==
  ASSUME "late" \notin Faults, NEW refusal, NEW rules, NEW s \in Scripts(refusal, rules)
  PROVE  /\ s.pf \in {rules, NoRules} \/ (refusal \in Faults /\ s.pf = pf)
         /\ s.stray = stray
BY DEF Scripts, MayOutlive, May

(* Addresses a resolution returns. *)
LEMMA ResolvedType ==
  ASSUME TypeOK, NEW ds \in SUBSET Domains
  PROVE  Resolved(ds) \in SUBSET IPs
BY DEF TypeOK, Resolved, Addresses

(* Scripts and the controller's methods keep the types of what they touch. *)
LEMMA NoRulesType == NoRules \in Rules
BY DEF NoRules, Rules

(* A script leaves well-formed rules, in the anchor and behind. *)
LEMMA ScriptType ==
  ASSUME pf \in Rules, stray \in SUBSET Rules,
         NEW refusal, NEW rules \in Rules, NEW s \in Scripts(refusal, rules)
  PROVE  s.pf \in Rules /\ s.stray \in SUBSET Rules
<1>1. s \in {[ok |-> TRUE, pf |-> rules, stray |-> stray],
             [ok |-> FALSE, pf |-> pf, stray |-> stray],
             [ok |-> FALSE, pf |-> pf, stray |-> stray \cup {rules}],
             [ok |-> TRUE, pf |-> NoRules, stray |-> stray]}
  BY DEF Scripts
<1> QED
  BY <1>1, NoRulesType

(* The off states and a controller that is on are well formed. *)
LEMMA SwitchTypes ==
  /\ Off \in [on : BOOLEAN, ips : SUBSET IPs]
  /\ NoBoot \in [on : BOOLEAN, port : Ports \cup {NoPort}]
  /\ \A x \in SUBSET IPs : [on |-> TRUE, ips |-> x] \in [on : BOOLEAN, ips : SUBSET IPs]
BY Zenon DEF Off, NoBoot

(* The rules Enable and Reconcile ask for are well formed. *)
LEMMA NewRulesType ==
  ASSUME TypeOK, NEW ds \in Answering
  PROVE  /\ Resolved(ds) \in SUBSET IPs
         /\ [ips |-> Resolved(ds), port |-> tport] \in Rules
<1>1. ds \in SUBSET Domains
  BY DEF Answering
<1>2. Resolved(ds) \in SUBSET IPs
  BY <1>1, ResolvedType
<1> QED
  BY <1>2 DEF TypeOK, Rules

(* A handler that moves to its next step stays well formed. *)
LEMMA MovesType ==
  ASSUME client \in [Clients -> Handler], NEW c \in Clients,
         NEW pc \in Steps, Moves(c, pc)
  PROVE  client' \in [Clients -> Handler]
BY DEF Moves, Handler

(* A caller without a handler is well formed. *)
LEMMA IdleType == Idle \in Handler /\ [c \in Clients |-> Idle] \in [Clients -> Handler]
BY DEF Idle, Handler, Steps

(* A method that is called, or is not at work, is well formed. *)
LEMMA MethodType ==
  /\ NoOp \in Method
  /\ \A rules \in Rules : Calls(rules) => op' \in Method
BY NoRulesType DEF NoOp, Method, Calls

(* The rest of a controller method keeps the types of what it records. *)
LEMMA ReturnsTypes ==
  ASSUME TypeOK, Returns
  PROVE  /\ fw' \in [on : BOOLEAN, ips : SUBSET IPs]
         /\ saved' \in [on : BOOLEAN, ips : SUBSET IPs]
         /\ pf' \in Rules /\ op' \in Method /\ stray' \in SUBSET Rules
<1>1. op' \in Method /\ pf' \in Rules /\ stray' \in SUBSET Rules
  BY MethodType DEF Returns, TypeOK
<1>2. op.rules.ips \in SUBSET IPs
  BY DEF TypeOK, Method, Rules
<1>3. Recorded(op.rules) \in [on : BOOLEAN, ips : SUBSET IPs]
  BY <1>2, SwitchTypes DEF Recorded
<1>4. CASE op.at = "failed"
  BY <1>1, <1>4 DEF Returns, TypeOK
<1>5. CASE op.at # "failed"
  <2>1. fw' = Recorded(op.rules) /\ saved' \in {fw', saved, Off}
    BY <1>5 DEF Returns
  <2> QED
    BY <1>1, <1>3, <2>1, SwitchTypes DEF TypeOK
<1> QED
  BY <1>4, <1>5

(* What the end of the process leaves of a method that was at work. *)
LEMMA EndsTypes ==
  ASSUME TypeOK, ProcessEnds
  PROVE  op' \in Method /\ stray' \in SUBSET Rules
<1>1. op.rules \in Rules
  BY DEF TypeOK, Method
<1>2. stray' \in {stray, stray \cup {op.rules}}
  BY DEF ProcessEnds
<1> QED
  BY <1>1, <1>2, MethodType DEF TypeOK, ProcessEnds

-----------------------------------------------------------------------------
(* Type correctness: Spec => []TypeOK. *)
THEOREM RoutingTypes == Spec => []TypeOK
<1>1. Init => TypeOK
  BY RoutingAssumption, NoRulesType, MethodType, IdleType, SwitchTypes DEF Init, TypeOK
<1>2. TypeOK /\ [Next]_vars => TypeOK'
  <2> SUFFICES ASSUME TypeOK, [Next]_vars PROVE TypeOK'
    OBVIOUS
  <2> USE DEF TypeOK
  <2>1. ASSUME NEW c \in Clients, NEW p \in Ports, EnableStart(c, p) PROVE TypeOK'
    BY <2>1 DEF EnableStart, ProxyStart, fwVars, Handler, Steps
  <2>2. ASSUME NEW c \in Clients, EnableListenFails(c) PROVE TypeOK'
    BY <2>2 DEF EnableListenFails, fwVars
  <2>3. ASSUME NEW c \in Clients, EnableUpdate(c) PROVE TypeOK'
    <3>1. client' \in [Clients -> Handler]
      BY <2>3, MovesType DEF EnableUpdate, Steps
    <3> QED
      BY <2>3, <3>1 DEF EnableUpdate, proxyVars, fwVars
  <2>4. ASSUME NEW c \in Clients, EnableFile(c) PROVE TypeOK'
    <3>1. client[c].port \in Ports \cup {NoPort}
      BY DEF Handler
    <3>2. client' \in [Clients -> Handler]
      BY <2>4, MovesType DEF EnableFile, Steps
    <3> QED
      BY <2>4, <3>1, <3>2 DEF EnableFile, proxyVars, fwVars
  <2>5. ASSUME NEW c \in Clients, EnableFirewall(c) PROVE TypeOK'
    <3>1. PICK ds \in Answering :
            \/ client' = [client EXCEPT ![c] = Idle] /\ UNCHANGED op
            \/ Moves(c, "redirect") /\ Calls([ips |-> Resolved(ds), port |-> tport])
      BY <2>5, Zenon DEF EnableFirewall
    <3>2. client' \in [Clients -> Handler] /\ op' \in Method
      BY <3>1, IdleType, MovesType, MethodType, NewRulesType DEF Steps
    <3> QED
      BY <2>5, <3>2 DEF EnableFirewall, proxyVars
  <2>6. ASSUME NEW c \in Clients, DisableFirewall(c) PROVE TypeOK'
    <3>1. client' \in [Clients -> Handler] /\ op' \in Method
      BY <2>6, MovesType, MethodType, NoRulesType DEF DisableFirewall, Steps
    <3> QED
      BY <2>6, <3>1 DEF DisableFirewall, proxyVars
  <2>23. ASSUME NEW c \in Clients, EnableReturns(c) PROVE TypeOK'
    BY <2>23, ReturnsTypes, IdleType DEF EnableReturns, proxyVars
  <2>24. ASSUME NEW c \in Clients, DisableReturns(c) PROVE TypeOK'
    <3>1. client' \in [Clients -> Handler]
      BY <2>24, MovesType DEF DisableReturns, Steps
    <3> QED
      BY <2>24, <3>1, ReturnsTypes DEF DisableReturns, proxyVars
  <2>7. ASSUME NEW c \in Clients, DisableStop(c) PROVE TypeOK'
    <3>1. client' \in [Clients -> Handler]
      BY <2>7, MovesType DEF DisableStop, Steps
    <3>2. sockets' \in SUBSET Ports /\ running' \in BOOLEAN
      BY <2>7 DEF DisableStop, ProxyStop
    <3> QED
      BY <2>7, <3>1, <3>2 DEF DisableStop, ProxyStop, fwVars
  <2>8. ASSUME NEW c \in Clients, DisableUpdate(c) PROVE TypeOK'
    <3>1. client' \in [Clients -> Handler]
      BY <2>8, MovesType DEF DisableUpdate, Steps
    <3> QED
      BY <2>8, <3>1, ZenonT(30) DEF DisableUpdate, proxyVars, fwVars
  <2>9. ASSUME NEW c \in Clients, DisableFile(c) PROVE TypeOK'
    BY <2>9, IdleType DEF DisableFile, proxyVars, fwVars
  <2>10. CASE Reconcile
    <3>1. op' \in Method
      BY <2>10, NewRulesType, MethodType DEF Reconcile
    <3> QED
      BY <2>10, <3>1 DEF Reconcile, proxyVars
  <2>25. CASE ReconcileReturns
    BY <2>25, ReturnsTypes DEF ReconcileReturns, proxyVars
  <2>26. CASE ScriptEnds
    <3>1. PICK s \in Scripts("sudo", op.rules) :
            /\ pf' = s.pf /\ stray' = s.stray
            /\ op' = [op EXCEPT !.at = IF s.ok THEN "loaded" ELSE "failed"]
      BY <2>26 DEF ScriptEnds
    <3>2. op.rules \in Rules /\ op' \in Method
      BY <3>1 DEF Method
    <3>3. pf' \in Rules /\ stray' \in SUBSET Rules
      BY <3>1, <3>2, ScriptType
    <3> QED
      BY <2>26, <3>2, <3>3 DEF ScriptEnds, proxyVars
  <2>27. CASE StrayRuns
    <3>1. pf' \in Rules /\ stray' \in SUBSET Rules
      BY <2>27, NoRulesType DEF StrayRuns
    <3> QED
      BY <2>27, <3>1 DEF StrayRuns, proxyVars
  <2>11. CASE Boot
    <3>1. PICK s \in Scripts("reap", NoRules) : pf' = s.pf /\ stray' = s.stray
      BY <2>11 DEF Boot
    <3>2. pf' \in Rules /\ stray' \in SUBSET Rules
      BY <3>1, ScriptType, NoRulesType
    <3> QED
      BY <2>11, <3>2 DEF Boot, proxyVars
  <2>12. CASE BootProxyOn
    BY <2>12 DEF BootProxyOn, ProxyStart, fwVars
  <2>13. CASE BootFile
    BY <2>13 DEF BootFile, NoBoot, proxyVars, fwVars
  <2>14. CASE BootProxyOff
    BY <2>14 DEF BootProxyOff, NoBoot, proxyVars, fwVars
  <2>15. CASE StopFirewall
    <3>1. op' \in Method
      BY <2>15, MethodType, NoRulesType DEF StopFirewall
    <3> QED
      BY <2>15, <3>1 DEF StopFirewall, proxyVars
  <2>28. CASE StopFirewallReturns
    BY <2>28, ReturnsTypes DEF StopFirewallReturns, proxyVars
  <2>16. CASE StopProxy
    BY <2>16 DEF StopProxy, ProxyStop, fwVars
  <2>17. CASE StopFiles
    BY <2>17, IdleType, SwitchTypes, EndsTypes DEF StopFiles, ProcessEnds
  <2>18. CASE Crash \/ BootListenFails
    BY <2>18, IdleType, SwitchTypes, EndsTypes DEF Crash, BootListenFails, ProcessEnds
  <2>19. CASE CleanupCommand
    <3>1. PICK s \in Scripts("sudo", NoRules) : pf' = s.pf /\ stray' = s.stray
      BY <2>19 DEF CleanupCommand
    <3>2. pf' \in Rules /\ stray' \in SUBSET Rules
      BY <3>1, ScriptType, NoRulesType
    <3> QED
      BY <2>19, <3>2 DEF CleanupCommand, Off, proxyVars
  <2>20. ASSUME NEW d \in Domains, DnsChanges(d) PROVE TypeOK'
    BY <2>20 DEF DnsChanges, proxyVars, fwVars
  <2>21. CASE CalmsDown
    BY <2>21 DEF CalmsDown, proxyVars, fwVars
  <2>22. CASE UNCHANGED vars
    BY <2>22 DEF vars, proxyVars, fwVars
  <2> QED
    BY <2>1, <2>2, <2>3, <2>4, <2>5, <2>6, <2>7, <2>8, <2>9, <2>10, <2>11, <2>12,
       <2>13, <2>14, <2>15, <2>16, <2>17, <2>18, <2>19, <2>20, <2>21, <2>22,
       <2>23, <2>24, <2>25, <2>26, <2>27, <2>28
       DEF Next, Request, Handle
<1> QED
  BY <1>1, <1>2, PTL DEF Spec

-----------------------------------------------------------------------------
(* The strengthening that makes FirewallTracked inductive: a method that   *)
(* has loaded its rules finds them in the anchor when it records them, no  *)
(* method and no controller is on between two daemons, and a daemon has    *)
(* its transparent listener from its start on.                             *)
FirewallInv ==
  /\ FirewallTracked
  /\ op.at = "loaded" => pf = op.rules
  /\ op.at # "none" => op.rules = NoRules \/ op.rules.port = tport
  /\ phase = "down" => ~fw.on /\ op.at = "none"
  /\ Alive => tport \in TPorts
  /\ stray = {}

(* Calling a method changes nothing but who holds the lock. *)
LEMMA CallTracked ==
  ASSUME FirewallInv, Alive, NEW rules, Calls(rules),
         rules = NoRules \/ rules.port = tport, phase' # "down",
         UNCHANGED <<tport, fw, saved, pf, stray>>
  PROVE  FirewallInv'
<1>1. op.at = "none" /\ op'.at = "script" /\ op'.rules = rules
  BY DEF Calls, NoOp
<1> QED
  BY <1>1 DEF FirewallInv, FirewallTracked, Alive

(* What a method records when it returns is what its script loaded. *)
LEMMA ReturnsTracked ==
  ASSUME TypeOK, FirewallInv, Alive, Returns, tport' = tport, phase' # "down",
         "disk" \notin Faults
  PROVE  FirewallInv'
<1>1. op'.at = "none" /\ pf' = pf /\ tport \in TPorts /\ stray' = {}
  BY DEF Returns, NoOp, FirewallInv
<1>2. CASE op.at = "failed"
  BY <1>1, <1>2 DEF Returns, FirewallInv, FirewallTracked, Alive
<1>3. CASE op.at = "loaded"
  <2>1. fw' = Recorded(op.rules) /\ saved' = fw' /\ pf = op.rules
    BY <1>3 DEF Returns, May, FirewallInv
  <2>2. op.rules \in Rules
    BY DEF TypeOK, Method
  <2>3. CASE op.rules = NoRules
    BY <1>1, <2>1, <2>3 DEF Recorded, Off, FirewallInv, FirewallTracked, Alive
  <2>4. CASE op.rules # NoRules
    <3>1. op.rules.port = tport /\ fw' = [on |-> TRUE, ips |-> op.rules.ips]
      BY <1>3, <2>1, <2>4 DEF FirewallInv, Recorded
    <3>2. op.rules = [ips |-> op.rules.ips, port |-> tport]
      BY <2>2, <3>1 DEF Rules
    <3>3. tport # NoPort
      BY <1>1, RoutingAssumption
    <3>4. FirewallTracked'
      BY <1>1, <2>1, <3>1, <3>2, <3>3 DEF FirewallTracked
    <3> QED
      BY <1>1, <3>4 DEF FirewallInv, Alive
  <2> QED
    BY <2>3, <2>4
<1> QED
  BY <1>2, <1>3 DEF Returns

(* With refused prompts, failed lookups and crashes as the only faults,    *)
(* what the controller says of the rules is true: they are in the anchor,  *)
(* lead to this daemon's listener, and firewall.json says the same.        *)
THEOREM FirewallCorrect ==
  ASSUME Faults \cap {"late", "load", "disk", "cleanup"} = {}
  PROVE  Spec => []FirewallTracked
<1>1. Init => FirewallInv
  BY DEF Init, FirewallInv, FirewallTracked, Off, NoOp, Alive
<1>2. TypeOK /\ FirewallInv /\ [Next]_vars => FirewallInv'
  <2> SUFFICES ASSUME TypeOK, FirewallInv, [Next]_vars PROVE FirewallInv'
    OBVIOUS
  <2>1. ASSUME UNCHANGED <<fw, saved, pf, op, stray, tport>>, phase' = "down" <=> phase = "down"
        PROVE  FirewallInv'
    BY <2>1 DEF FirewallInv, FirewallTracked, Alive
  <2>2. CASE \/ UNCHANGED vars \/ CalmsDown \/ \E d \in Domains : DnsChanges(d)
    BY <2>1, <2>2 DEF vars, fwVars, CalmsDown, DnsChanges
  <2>3. ASSUME NEW c \in Clients,
               \/ \E p \in Ports : EnableStart(c, p)
               \/ EnableListenFails(c) \/ EnableUpdate(c) \/ EnableFile(c)
               \/ DisableStop(c) \/ DisableUpdate(c) \/ DisableFile(c)
        PROVE  FirewallInv'
    BY <2>1, <2>3 DEF EnableStart, EnableListenFails, EnableUpdate, EnableFile, DisableStop,
         DisableUpdate, DisableFile, fwVars
  <2>4. ASSUME NEW c \in Clients, EnableFirewall(c) PROVE FirewallInv'
    <3>1. PICK ds \in Answering :
            \/ UNCHANGED op
            \/ Calls([ips |-> Resolved(ds), port |-> tport])
      BY <2>4, Zenon DEF EnableFirewall
    <3>2. UNCHANGED <<phase, tport, fw, saved, pf, stray>> /\ Alive
      BY <2>4 DEF EnableFirewall
    <3> QED
      BY <2>1, <3>1, <3>2, CallTracked DEF Alive
  <2>5. ASSUME NEW c \in Clients, DisableFirewall(c) PROVE FirewallInv'
    <3>1. UNCHANGED op \/ Calls(NoRules)
      BY <2>5 DEF DisableFirewall
    <3>2. UNCHANGED <<phase, tport, fw, saved, pf, stray>> /\ Alive
      BY <2>5 DEF DisableFirewall, Accepts, ServesApi, Alive
    <3> QED
      BY <2>1, <3>1, <3>2, CallTracked DEF Alive
  <2>6. CASE Reconcile
    <3>1. PICK ds \in Answering : Calls([ips |-> Resolved(ds), port |-> tport])
      BY <2>6 DEF Reconcile
    <3>2. UNCHANGED <<phase, tport, fw, saved, pf, stray>> /\ Alive
      BY <2>6 DEF Reconcile, Alive
    <3> QED
      BY <3>1, <3>2, CallTracked DEF Alive
  <2>7. CASE StopFirewall
    <3>1. UNCHANGED op \/ Calls(NoRules)
      BY <2>7 DEF StopFirewall
    <3>2. UNCHANGED <<tport, fw, saved, pf, stray>> /\ Alive /\ phase' # "down"
      BY <2>7 DEF StopFirewall, Alive
    <3> QED
      BY <2>1, <3>1, <3>2, CallTracked DEF Alive
  <2>8. CASE ReconcileReturns \/ StopFirewallReturns
             \/ \E c \in Clients : EnableReturns(c) \/ DisableReturns(c)
    <3>1. Returns /\ tport' = tport /\ stray' = stray
      BY <2>8 DEF ReconcileReturns, StopFirewallReturns, EnableReturns, DisableReturns, Returns
    <3>2. Alive /\ phase' # "down"
      <4>1. op.at # "none"
        BY <3>1 DEF Returns
      <4> QED
        BY <2>8, <4>1 DEF FirewallInv, Alive, ReconcileReturns, StopFirewallReturns,
             EnableReturns, DisableReturns
    <3> QED
      BY <3>1, <3>2, ReturnsTracked
  <2>9. CASE ScriptEnds
    <3>1. PICK s \in Scripts("sudo", op.rules) :
            /\ pf' = s.pf /\ stray' = s.stray
            /\ op' = [op EXCEPT !.at = IF s.ok THEN "loaded" ELSE "failed"]
      BY <2>9 DEF ScriptEnds
    <3>2. op'.rules = op.rules /\ op'.at = IF s.ok THEN "loaded" ELSE "failed"
      BY <3>1 DEF TypeOK, Method
    <3>3. /\ (s.ok = TRUE /\ s.pf = op.rules) \/ (s.ok = FALSE /\ s.pf = pf)
          /\ s.stray = stray
      BY ScriptOutcome
    <3>4. UNCHANGED <<phase, tport, fw, saved>> /\ op.at = "script"
      BY <2>9 DEF ScriptEnds
    <3>5. CASE s.ok = TRUE /\ s.pf = op.rules
      BY <3>1, <3>2, <3>3, <3>4, <3>5 DEF FirewallInv, FirewallTracked, Alive
    <3>6. CASE s.ok = FALSE /\ s.pf = pf
      BY <3>1, <3>2, <3>3, <3>4, <3>6 DEF FirewallInv, FirewallTracked, Alive
    <3> QED
      BY <3>3, <3>5, <3>6
  <2>10. CASE Boot
    <3>1. PICK s \in Scripts("reap", NoRules) : pf' = s.pf /\ stray' = s.stray
      BY <2>10 DEF Boot
    <3>2. stray' = {}
      BY <3>1, ScriptOutcome DEF FirewallInv
    <3>3. ~fw.on /\ op.at = "none" /\ fw' = fw /\ op' = op /\ phase' # "down" /\ tport' \in TPorts
      BY <2>10 DEF Boot, FirewallInv
    <3> QED
      BY <3>2, <3>3 DEF FirewallInv, FirewallTracked
  <2>11. CASE BootProxyOn \/ BootFile \/ BootProxyOff \/ StopProxy
    BY <2>1, <2>11 DEF BootProxyOn, BootFile, BootProxyOff, StopProxy, fwVars
  <2>12. CASE StopFiles \/ Crash \/ BootListenFails
    <3>1. fw' = Off /\ op' = NoOp /\ phase' = "down" /\ stray' = {}
      BY <2>12 DEF StopFiles, Crash, BootListenFails, ProcessEnds, MayOutlive, May, FirewallInv
    <3> QED
      BY <3>1 DEF Off, NoOp, FirewallInv, FirewallTracked, Alive
  <2>13. ~CleanupCommand /\ ~StrayRuns
    BY DEF CleanupCommand, May, StrayRuns, FirewallInv
  <2> QED
    BY <2>2, <2>3, <2>4, <2>5, <2>6, <2>7, <2>8, <2>9, <2>10, <2>11, <2>12, <2>13
       DEF Next, Request, Handle
<1>3. FirewallInv => FirewallTracked
  BY DEF FirewallInv
<1> QED
  BY <1>1, <1>2, <1>3, RoutingTypes, PTL DEF Spec

-----------------------------------------------------------------------------
(* The strengthening of NoStaleRules: a method asks for rules that lead to *)
(* this daemon's listener, and no script is left from an earlier one.      *)
StaleInv ==
  /\ NoStaleRules
  /\ op.at # "none" => op.rules = NoRules \/ op.rules.port = tport
  /\ phase = "down" => op.at = "none"
  /\ stray = {}

(* If the flush of a start is not refused and no script outlives its       *)
(* caller, no daemon runs with rules that lead to the listener of an       *)
(* earlier one: wherever that one crashed, between script and record too,  *)
(* whatever prompts were refused and whatever became of firewall.json.     *)
THEOREM StaleRulesReaped ==
  ASSUME Faults \cap {"reap", "late"} = {}
  PROVE  Spec => []NoStaleRules
<1>1. Init => StaleInv
  BY DEF Init, StaleInv, NoStaleRules, NoOp
<1>2. TypeOK /\ StaleInv /\ [Next]_vars => StaleInv'
  <2> SUFFICES ASSUME TypeOK, StaleInv, [Next]_vars PROVE StaleInv'
    OBVIOUS
  <2> USE DEF Alive
  <2>1. ASSUME UNCHANGED <<pf, op, stray, tport>>, phase' = "down" <=> phase = "down"
        PROVE  StaleInv'
    BY <2>1 DEF StaleInv, NoStaleRules
  <2>2. CASE \/ UNCHANGED vars \/ CalmsDown \/ \E d \in Domains : DnsChanges(d)
    BY <2>1, <2>2 DEF vars, fwVars, CalmsDown, DnsChanges
  <2>3. ASSUME NEW c \in Clients,
               \/ \E p \in Ports : EnableStart(c, p)
               \/ EnableListenFails(c) \/ EnableUpdate(c) \/ EnableFile(c)
               \/ DisableStop(c) \/ DisableUpdate(c) \/ DisableFile(c)
        PROVE  StaleInv'
    BY <2>1, <2>3 DEF EnableStart, EnableListenFails, EnableUpdate, EnableFile, DisableStop,
         DisableUpdate, DisableFile, fwVars
  <2>4. ASSUME NEW rules, Calls(rules), rules = NoRules \/ rules.port = tport,
               UNCHANGED <<pf, stray, tport>>, phase' # "down", phase # "down"
        PROVE  StaleInv'
    BY <2>4 DEF Calls, StaleInv, NoStaleRules
  <2>5. ASSUME NEW c \in Clients, EnableFirewall(c) PROVE StaleInv'
    <3>1. PICK ds \in Answering :
            \/ UNCHANGED op
            \/ Calls([ips |-> Resolved(ds), port |-> tport])
      BY <2>5, Zenon DEF EnableFirewall
    <3>2. UNCHANGED <<phase, tport, pf, stray>> /\ phase # "down"
      BY <2>5 DEF EnableFirewall
    <3> QED
      BY <2>1, <2>4, <3>1, <3>2
  <2>6. ASSUME NEW c \in Clients, DisableFirewall(c) PROVE StaleInv'
    BY <2>1, <2>4, <2>6 DEF DisableFirewall, Accepts, ServesApi
  <2>7. CASE Reconcile
    <3>1. PICK ds \in Answering : Calls([ips |-> Resolved(ds), port |-> tport])
      BY <2>7 DEF Reconcile
    <3>2. UNCHANGED <<phase, tport, pf, stray>> /\ phase # "down"
      BY <2>7 DEF Reconcile
    <3> QED
      BY <2>4, <3>1, <3>2
  <2>8. CASE StopFirewall
    BY <2>1, <2>4, <2>8 DEF StopFirewall
  <2>9. CASE ReconcileReturns \/ StopFirewallReturns
             \/ \E c \in Clients : EnableReturns(c) \/ DisableReturns(c)
    <3>1. op' = NoOp /\ UNCHANGED <<pf, stray, tport>> /\ phase # "down"
      BY <2>9 DEF ReconcileReturns, StopFirewallReturns, EnableReturns, DisableReturns,
           Returns, StaleInv
    <3> QED
      BY <3>1 DEF NoOp, StaleInv, NoStaleRules
  <2>10. CASE ScriptEnds
    <3>1. PICK s \in Scripts("sudo", op.rules) :
            /\ pf' = s.pf /\ stray' = s.stray
            /\ op' = [op EXCEPT !.at = IF s.ok THEN "loaded" ELSE "failed"]
      BY <2>10 DEF ScriptEnds
    <3>2. op'.rules = op.rules /\ op.at = "script" /\ UNCHANGED <<phase, tport>>
      BY <2>10, <3>1 DEF ScriptEnds, TypeOK, Method
    <3>3. s.pf \in {op.rules, NoRules, pf} /\ s.stray = stray
      BY ScriptLoads
    <3> QED
      BY <3>1, <3>2, <3>3 DEF StaleInv, NoStaleRules
  <2>11. CASE Boot
    <3>1. PICK s \in Scripts("reap", NoRules) : pf' = s.pf /\ stray' = s.stray
      BY <2>11 DEF Boot
    <3>2. pf' = NoRules /\ stray' = {}
      BY <3>1, ScriptLoads DEF StaleInv
    <3> QED
      BY <2>11, <3>2 DEF Boot, StaleInv, NoStaleRules
  <2>15. CASE CleanupCommand
    <3>1. PICK s \in Scripts("sudo", NoRules) : pf' = s.pf /\ stray' = s.stray
      BY <2>15 DEF CleanupCommand
    <3>2. pf' \in {NoRules, pf} /\ stray' = {}
      BY <3>1, ScriptLoads DEF StaleInv
    <3> QED
      BY <2>15, <3>2 DEF CleanupCommand, StaleInv, NoStaleRules
  <2>12. CASE BootProxyOn \/ BootFile \/ BootProxyOff \/ StopProxy
    BY <2>1, <2>12 DEF BootProxyOn, BootFile, BootProxyOff, StopProxy, fwVars
  <2>13. CASE StopFiles \/ Crash \/ BootListenFails
    BY <2>13 DEF StopFiles, Crash, BootListenFails, ProcessEnds, MayOutlive, May, NoOp, StaleInv,
         NoStaleRules
  <2>14. ~StrayRuns
    BY DEF StrayRuns, StaleInv
  <2> QED
    BY <2>2, <2>3, <2>5, <2>6, <2>7, <2>8, <2>9, <2>10, <2>11, <2>12, <2>13, <2>14,
       <2>15 DEF Next, Request, Handle
<1>3. StaleInv => NoStaleRules
  BY DEF StaleInv
<1> QED
  BY <1>1, <1>2, <1>3, RoutingTypes, PTL DEF Spec

-----------------------------------------------------------------------------
(* The switch, with one caller at a time.                                  *)

Busy(c) == client[c].pc # "idle"

(* The proxy listens, on the socket its server accepts from. *)
Listens == running /\ server \in sockets

(* What is settled when the handler of c has come to its next step. *)
HandlerAt(c) ==
  /\ client[c].pc \in {"update", "file", "firewall", "redirect"} => Listens
  /\ client[c].pc \in {"update", "file"} => client[c].port = server
  /\ client[c].pc \in {"file", "firewall", "redirect"} => on
  /\ client[c].pc \in {"firewall", "redirect"} => file = server
  /\ client[c].pc \in {"unset", "unlink"} => ~running
  /\ client[c].pc = "unlink" => ~on

(* The strengthening of SwitchConsistent: what each step of a handler and  *)
(* of Start has reached.                                                   *)
SwitchInv ==
  /\ SwitchConsistent
  /\ \A c, d \in Clients : Busy(c) /\ Busy(d) => c = d
  /\ \A c \in Clients : Busy(c) => phase = "up" /\ HandlerAt(c)
  /\ phase \in {"down", "booting"} => ~running
  /\ phase = "booting" => boot.on = on
  /\ phase = "bootfile" => on /\ Listens /\ boot.port = server

(* A step of the one handler that is at work. *)
LEMMA HandlerStep ==
  ASSUME TypeOK, SwitchInv, NEW c \in Clients, Busy(c),
         NEW h \in Handler, client' = [client EXCEPT ![c] = h],
         phase' = phase, boot' = boot,
         h.pc # "idle" => HandlerAt(c)',
         h.pc = "idle" => (running <=> on)' /\ (on => file = server /\ server \in sockets)'
  PROVE  SwitchInv'
<1>1. client \in [Clients -> Handler] /\ phase = "up"
  BY DEF TypeOK, SwitchInv
<1>2. \A d \in Clients : d # c => client'[d].pc = "idle"
  BY <1>1 DEF SwitchInv, Busy
<1>3. client'[c] = h
  BY <1>1
<1>4. SwitchConsistent'
  BY <1>3 DEF SwitchConsistent, Quiet
<1>5. \A d, e \in Clients : Busy(d)' /\ Busy(e)' => d = e
  BY <1>2 DEF Busy
<1>6. \A d \in Clients : Busy(d)' => phase' = "up" /\ HandlerAt(d)'
  BY <1>1, <1>2, <1>3 DEF Busy
<1> QED
  BY <1>1, <1>4, <1>5, <1>6 DEF SwitchInv

(* A step of the daemon while no handler is at work. *)
LEMMA DaemonStep ==
  ASSUME SwitchInv, \A c \in Clients : ~Busy(c), \A c \in Clients : ~Busy(c)',
         (phase = "up" => (running <=> on) /\ (on => file = server /\ server \in sockets))',
         (phase \in {"down", "booting"} => ~running)',
         (phase = "booting" => boot.on = on)',
         (phase = "bootfile" => on /\ Listens /\ boot.port = server)'
  PROVE  SwitchInv'
<1>1. SwitchConsistent'
  BY DEF SwitchConsistent
<1> QED
  BY <1>1 DEF SwitchInv

(* api/routes.go and Daemon.Start: whatever fails and wherever the daemon  *)
(* crashes, a switch that is done leaves configuration, listener and       *)
(* proxy.pid in agreement, as long as callers come one at a time.          *)
THEOREM SwitchCorrect ==
  ASSUME Serial
  PROVE  Spec => []SwitchConsistent
<1>1. Init => SwitchInv
  BY DEF Init, SwitchInv, SwitchConsistent, Busy, Idle
<1>2. TypeOK /\ SwitchInv /\ [Next]_vars => SwitchInv'
  <2> SUFFICES ASSUME TypeOK, SwitchInv, [Next]_vars PROVE SwitchInv'
    OBVIOUS
  <2>t. client \in [Clients -> Handler] /\ boot \in [on : BOOLEAN, port : Ports \cup {NoPort}]
    BY DEF TypeOK
  <2>q. (\A c \in Clients : ~Busy(c)) /\ phase = "up" =>
          (running <=> on) /\ (on => file = server /\ server \in sockets)
    BY DEF SwitchInv, SwitchConsistent, Quiet, Busy
  <2>1. ASSUME UNCHANGED <<phase, boot, on, proxyVars, file, client>> PROVE SwitchInv'
    BY <2>1 DEF proxyVars, SwitchInv, SwitchConsistent, Quiet, Busy, HandlerAt, Listens
  <2>2. CASE UNCHANGED vars \/ CalmsDown \/ Reconcile \/ ReconcileReturns \/ ScriptEnds
             \/ StrayRuns \/ CleanupCommand \/ \E d \in Domains : DnsChanges(d)
    BY <2>1, <2>2 DEF vars, CalmsDown, Reconcile, ReconcileReturns, ScriptEnds, StrayRuns,
         CleanupCommand, DnsChanges
  <2>3. ASSUME NEW c \in Clients, Accepts(c)
        PROVE  phase = "up" /\ \A d \in Clients : ~Busy(d)
    BY <2>3 DEF Accepts, Busy
  <2>4. ASSUME NEW c \in Clients, NEW p \in Ports, EnableStart(c, p) PROVE SwitchInv'
    <3>1. Accepts(c) /\ UNCHANGED <<phase, boot, on, file>>
          /\ client' = [client EXCEPT ![c] = [pc |-> "update", port |-> p]]
          /\ sockets' = sockets \cup {p} /\ server' = p /\ running' = TRUE
      BY <2>4 DEF EnableStart, ProxyStart
    <3>2. client'[c] = [pc |-> "update", port |-> p] /\ HandlerAt(c)' /\ Busy(c)'
      BY <3>1, <2>t DEF HandlerAt, Listens, Busy
    <3>3. \A d \in Clients : d # c => ~Busy(d)'
      BY <3>1, <2>t, <2>3 DEF Busy
    <3>4. phase' = "up" /\ ~(Quiet')
      BY <3>1, <3>2, <2>3 DEF Quiet, Busy
    <3> QED
      BY <3>2, <3>3, <3>4 DEF SwitchInv, SwitchConsistent
  <2>5. ASSUME NEW c \in Clients, EnableListenFails(c) PROVE SwitchInv'
    BY <2>5 DEF EnableListenFails, SwitchInv, SwitchConsistent, Quiet, Busy, HandlerAt, Listens
  <2>6. ASSUME NEW c \in Clients, DisableFirewall(c) PROVE SwitchInv'
    <3>1. Accepts(c) /\ UNCHANGED <<phase, boot, on, file, proxyVars>>
          /\ \E pc \in {"stop", "unredirect"} : client' = [client EXCEPT ![c].pc = pc]
      BY <2>6 DEF DisableFirewall, Moves
    <3>2. client'[c].pc \in {"stop", "unredirect"} /\ HandlerAt(c)' /\ Busy(c)'
      BY <3>1, <2>t DEF HandlerAt, Busy, Handler
    <3>3. \A d \in Clients : d # c => ~Busy(d)'
      BY <3>1, <2>t, <2>3 DEF Busy
    <3>4. phase' = "up" /\ ~(Quiet')
      BY <3>1, <3>2, <2>3 DEF Quiet, Busy
    <3> QED
      BY <3>2, <3>3, <3>4 DEF SwitchInv, SwitchConsistent
  <2>7. ASSUME NEW c \in Clients, Handle(c) PROVE SwitchInv'
    <3>0. Busy(c) /\ HandlerAt(c) /\ client[c] \in Handler /\ phase' = phase /\ boot' = boot
      BY <2>7, <2>t DEF Handle, EnableUpdate, EnableFile, EnableFirewall, EnableReturns,
           DisableReturns, DisableStop, DisableUpdate, DisableFile, Busy, SwitchInv
    <3>m. ASSUME NEW pc \in {"file", "firewall", "redirect", "stop", "unset", "unlink"},
                 Moves(c, pc)
          PROVE  /\ client' = [client EXCEPT ![c] = [client[c] EXCEPT !.pc = pc]]
                 /\ [client[c] EXCEPT !.pc = pc] \in Handler
                 /\ client'[c].pc = pc /\ client'[c].port = client[c].port
      BY <3>m, <3>0, <2>t DEF Moves, Handler, Steps
    <3>i. ASSUME client' = [client EXCEPT ![c] = Idle]
          PROVE  Idle \in Handler /\ client'[c].pc = "idle" /\ Idle.pc = "idle"
      BY <3>i, <2>t, IdleType DEF Idle
    <3>1. CASE EnableUpdate(c)
      <4>1. client'[c].pc = "file" /\ HandlerAt(c)'
        BY <3>1, <3>0, <3>m DEF EnableUpdate, HandlerAt, Listens, proxyVars
      <4> QED
        BY <3>1, <3>0, <3>m, <4>1, HandlerStep DEF EnableUpdate
    <3>2. CASE EnableFile(c)
      <4>1. client'[c].pc = "firewall" /\ HandlerAt(c)'
        BY <3>2, <3>0, <3>m DEF EnableFile, HandlerAt, Listens, proxyVars
      <4> QED
        BY <3>2, <3>0, <3>m, <4>1, HandlerStep DEF EnableFile
    <3>3. CASE EnableFirewall(c)
      <4>1. UNCHANGED <<phase, boot, on, file, running, server, sockets>>
            /\ client[c].pc = "firewall"
            /\ (client' = [client EXCEPT ![c] = Idle] \/ Moves(c, "redirect"))
        BY <3>3 DEF EnableFirewall, proxyVars
      <4>2. CASE client' = [client EXCEPT ![c] = Idle]
        <5>1. (running <=> on)' /\ (on => file = server /\ server \in sockets)'
          BY <3>0, <4>1 DEF HandlerAt, Listens
        <5> QED
          BY <3>0, <3>i, <4>2, <5>1, HandlerStep
      <4>3. CASE Moves(c, "redirect")
        <5>1. client'[c].pc = "redirect" /\ HandlerAt(c)'
          BY <3>0, <3>m, <4>1, <4>3 DEF HandlerAt, Listens
        <5> DEFINE h == [client[c] EXCEPT !.pc = "redirect"]
        <5>2. client' = [client EXCEPT ![c] = h] /\ h \in Handler /\ h.pc = "redirect"
          BY <2>t, <3>0, <3>m, <4>3 DEF Handler
        <5> QED
          BY <3>0, <5>1, <5>2, HandlerStep
      <4> QED
        BY <4>1, <4>2, <4>3
    <3>7. CASE EnableReturns(c)
      <4>1. (running <=> on)' /\ (on => file = server /\ server \in sockets)'
        BY <3>7, <3>0 DEF EnableReturns, HandlerAt, Listens, proxyVars
      <4> QED
        BY <3>7, <3>0, <3>i, <4>1, HandlerStep DEF EnableReturns
    <3>8. CASE DisableReturns(c)
      <4>1. client'[c].pc = "stop" /\ HandlerAt(c)'
        BY <3>8, <3>0, <3>m DEF DisableReturns, HandlerAt
      <4> QED
        BY <3>8, <3>0, <3>m, <4>1, HandlerStep DEF DisableReturns
    <3>4. CASE DisableStop(c)
      <4>1. client'[c].pc = "unset" /\ HandlerAt(c)'
        BY <3>4, <3>0, <3>m DEF DisableStop, ProxyStop, HandlerAt
      <4> QED
        BY <3>4, <3>0, <3>m, <4>1, HandlerStep DEF DisableStop
    <3>5. CASE DisableUpdate(c)
      <4>1. client'[c].pc = "unlink" /\ HandlerAt(c)'
        BY <3>5, <3>0, <3>m DEF DisableUpdate, HandlerAt, proxyVars
      <4> QED
        BY <3>5, <3>0, <3>m, <4>1, HandlerStep DEF DisableUpdate
    <3>6. CASE DisableFile(c)
      <4>1. (running <=> on)' /\ (on => file = server /\ server \in sockets)'
        BY <3>6, <3>0 DEF DisableFile, HandlerAt, proxyVars
      <4> QED
        BY <3>6, <3>0, <3>i, <4>1, HandlerStep DEF DisableFile
    <3> QED
      BY <2>7, <3>1, <3>2, <3>3, <3>4, <3>5, <3>6, <3>7, <3>8 DEF Handle
  <2>8. ASSUME phase # "up" PROVE \A c \in Clients : ~Busy(c)
    BY <2>8 DEF SwitchInv
  <2>9. CASE Boot
    BY <2>9, <2>8, DaemonStep DEF Boot, proxyVars, SwitchInv, Busy
  <2>10. CASE BootProxyOn
    <3>1. boot.on = on /\ \A c \in Clients : ~Busy(c) /\ ~Busy(c)'
      BY <2>10, <2>8 DEF BootProxyOn, SwitchInv, Busy
    <3>2. PICK p \in Ports : ProxyStart(p) /\ boot' = [boot EXCEPT !.port = p]
      BY <2>10 DEF BootProxyOn
    <3>3. boot'.port = p /\ server' = p /\ running' = TRUE /\ p \in sockets' /\ on' /\ phase' = "bootfile"
      BY <2>10, <2>t, <3>1, <3>2 DEF BootProxyOn, ProxyStart
    <3> QED
      BY <3>1, <3>3, DaemonStep DEF Listens
  <2>11. CASE BootFile
    BY <2>11, <2>8, DaemonStep DEF BootFile, proxyVars, SwitchInv, Busy, Listens
  <2>12. CASE BootProxyOff
    BY <2>12, <2>8, DaemonStep DEF BootProxyOff, proxyVars, SwitchInv, Busy
  <2>13. CASE StopFirewall
    BY <2>13, DaemonStep DEF StopFirewall, Busy
  <2>16. CASE StopFirewallReturns
    BY <2>16, <2>8, DaemonStep DEF StopFirewallReturns, Busy
  <2>14. CASE StopProxy
    BY <2>14, <2>8, DaemonStep DEF StopProxy, Busy
  <2>15. CASE StopFiles \/ Crash \/ BootListenFails
    <3>1. ProcessEnds
      BY <2>15 DEF StopFiles, Crash, BootListenFails
    <3>2. phase' = "down" /\ running' = FALSE /\ \A c \in Clients : ~Busy(c)'
      BY <3>1 DEF ProcessEnds, Busy, Idle
    <3> QED
      BY <3>2 DEF SwitchInv, SwitchConsistent
  <2> QED
    BY <2>2, <2>4, <2>5, <2>6, <2>7, <2>9, <2>10, <2>11, <2>12, <2>13, <2>14, <2>15, <2>16
       DEF Next, Request
<1>3. SwitchInv => SwitchConsistent
  BY DEF SwitchInv
<1> QED
  BY <1>1, <1>2, <1>3, RoutingTypes, PTL DEF Spec
=============================================================================
