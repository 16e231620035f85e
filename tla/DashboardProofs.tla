-------------------------- MODULE DashboardProofs --------------------------
(***************************************************************************)
(* What the dashboard is shown.                                            *)
(*                                                                         *)
(* The live feed: what a dashboard receives from the hub of Hub.tla, for   *)
(* any number of scans and clients and any sizes of the channel and the    *)
(* buffers.  The list of sessions: type correctness of Sessions.tla, for   *)
(* any processes, AI hosts, addresses, ports and faults, where two         *)
(* listings share the lister's addresses while processes, addresses and    *)
(* the proxy change under them.                                            *)
(***************************************************************************)
EXTENDS Hub, Sessions, SequenceTheorems, TLAPS

(* The reports after the first j, n of them, in order. *)
Reports(j, n) == [i \in 1..n |-> j + i]

(* How many reports Run has dealt with for a client since it joined. *)
Dealt(c) == taken - joined[c] - (IF c \in todo THEN 1 ELSE 0)

(* The numbers of reports, the channel and the sequences. *)
TypeInv ==
  /\ sent \in Nat /\ taken \in Nat
  /\ queue \in Seq(Nat)
  /\ clients \subseteq Clients /\ todo \subseteq clients
  /\ conn \in [Clients -> {"none", "upgraded", "open", "closed"}]
  /\ peer \in [Clients -> {"away", "reads", "stalls", "left"}]
  /\ buffer \in [Clients -> Seq(Nat)]
  /\ got \in [Clients -> Seq(Nat)]
  /\ joined \in [Clients -> Nat]

(* The channel holds, in order, the reports that Run has not taken. *)
QueueInv == queue = Reports(taken, sent - taken) /\ taken <= sent

(* A connection is registered once, and has been sent nothing before. *)
FreshInv ==
  \A c \in Clients :
    /\ peer[c] = "away" => conn[c] = "none"
    /\ conn[c] \in {"none", "upgraded"} =>
         c \notin clients /\ got[c] = <<>> /\ buffer[c] = <<>>

(* Gapless, also of clients that have left and are not removed yet. *)
StreamInv ==
  \A c \in clients : Dealt(c) \in Nat /\ got[c] \o buffer[c] = Reports(joined[c], Dealt(c))

HubInv == TypeInv /\ QueueInv /\ FreshInv /\ StreamInv

-----------------------------------------------------------------------------
(* Runs of reports.                                                        *)

(* One more at the end. *)
LEMMA ReportsAppend ==
  ASSUME NEW j \in Nat, NEW n \in Nat
  PROVE  Append(Reports(j, n), j + n + 1) = Reports(j, n + 1)
BY DEF Reports

(* One less at the front. *)
LEMMA ReportsTail ==
  ASSUME NEW j \in Nat, NEW n \in Nat, n # 0
  PROVE  /\ Reports(j, n) # <<>>
         /\ Head(Reports(j, n)) = j + 1
         /\ Tail(Reports(j, n)) = Reports(j + 1, n - 1)
<1>1. /\ Reports(j, n) \in Seq(Nat) /\ Len(Reports(j, n)) = n
      /\ Reports(j + 1, n - 1) \in Seq(Nat) /\ Len(Reports(j + 1, n - 1)) = n - 1
  BY DEF Reports
<1>2. Reports(j, n) # <<>> /\ Head(Reports(j, n)) = j + 1
  BY <1>1 DEF Reports
<1>3. /\ Tail(Reports(j, n)) \in Seq(Nat) /\ Len(Tail(Reports(j, n))) = n - 1
      /\ \A i \in 1..(n - 1) : Tail(Reports(j, n))[i] = Reports(j, n)[i + 1]
  BY <1>1, <1>2, HeadTailProperties
<1>4. \A i \in 1..(n - 1) : Reports(j, n)[i + 1] = Reports(j + 1, n - 1)[i]
  BY DEF Reports
<1>5. Tail(Reports(j, n)) = Reports(j + 1, n - 1)
  BY <1>1, <1>3, <1>4, SeqEqual
<1> QED BY <1>2, <1>5

(* No report at all. *)
LEMMA ReportsNone == \A j \in Nat : Reports(j, 0) = <<>>
BY DEF Reports

(* A report written to the buffer is at the end of what c is sent. *)
LEMMA ConcatAppend ==
  ASSUME NEW a \in Seq(Nat), NEW b \in Seq(Nat), NEW e \in Nat
  PROVE  a \o Append(b, e) = Append(a \o b, e)
OBVIOUS

(* A report read moves from the buffer to what was got. *)
LEMMA ConcatShift ==
  ASSUME NEW a \in Seq(Nat), NEW b \in Seq(Nat), b # <<>>
  PROVE  Append(a, Head(b)) \o Tail(b) = a \o b
OBVIOUS
-----------------------------------------------------------------------------
(* The hub starts empty. *)
LEMMA HubStarts == HubInit => HubInv
<1> SUFFICES ASSUME HubInit PROVE HubInv
  OBVIOUS
<1>1. TypeInv /\ FreshInv /\ StreamInv
  BY DEF HubInit, TypeInv, FreshInv, StreamInv
<1>2. QueueInv
  BY ReportsNone DEF HubInit, QueueInv
<1> QED BY <1>1, <1>2 DEF HubInv

(* The steps of scans: the channel takes the next report. *)
LEMMA ScanStep ==
  ASSUME HubInv, NEW s \in Scans, SaveReport(s) \/ Broadcast(s)
  PROVE  HubInv'
<1> USE DEF HubInv
<1>0. UNCHANGED <<taken, todo, clients, connVars>>
  BY DEF SaveReport, Broadcast, runVars
<1>1. FreshInv' /\ StreamInv'
  BY <1>0 DEF FreshInv, StreamInv, Dealt, connVars
<1>2. CASE SaveReport(s)
  BY <1>0, <1>1, <1>2 DEF SaveReport, TypeInv, QueueInv, connVars
<1>3. CASE Broadcast(s)
  <2>0. sent \in Nat /\ taken \in Nat /\ taken <= sent /\ queue \in Seq(Nat)
    BY DEF TypeInv, QueueInv
  <2>1. sent' = sent + 1 /\ queue' = Append(queue, sent + 1)
    BY <1>3 DEF Broadcast
  <2>2. queue' = Reports(taken, (sent + 1) - taken)
    <3> DEFINE n == sent - taken
    <3>0. n \in Nat
      BY <2>0
    <3>1. Append(Reports(taken, n), taken + n + 1) = Reports(taken, n + 1)
      <4> HIDE DEF n
      <4> QED BY <2>0, <3>0, ReportsAppend
    <3>2. taken + (sent - taken) + 1 = sent + 1 /\ (sent - taken) + 1 = (sent + 1) - taken
      BY <2>0
    <3> QED BY <2>1, <3>1, <3>2 DEF QueueInv
  <2>3. QueueInv'
    BY <1>0, <2>0, <2>1, <2>2 DEF QueueInv
  <2>4. TypeInv'
    BY <1>0, <2>0, <2>1 DEF TypeInv, connVars
  <2> QED BY <1>1, <2>3, <2>4
<1> QED BY <1>2, <1>3

(* Take: the next report is dealt with for nobody yet. *)
LEMMA TakeStep ==
  ASSUME HubInv, Take
  PROVE  HubInv'
<1> USE DEF HubInv
<1>0. /\ todo = {} /\ queue # <<>> /\ queue' = Tail(queue) /\ taken' = Head(queue)
      /\ todo' = clients /\ UNCHANGED <<sent, clients, connVars>>
  BY DEF Take, AtSelect, scanVars
<1>1. sent \in Nat /\ taken \in Nat /\ taken <= sent
  BY DEF TypeInv, QueueInv
<1>2. sent - taken \in Nat /\ sent - taken # 0
  BY <1>0, <1>1, ReportsNone DEF QueueInv
<1>3. taken' = taken + 1 /\ queue' = Reports(taken + 1, (sent - taken) - 1)
  BY <1>0, <1>1, <1>2, ReportsTail DEF QueueInv
<1>4. QueueInv'
  <2>1. (sent - taken) - 1 = sent' - taken' /\ taken' <= sent'
    BY <1>0, <1>1, <1>2, <1>3
  <2> QED BY <1>3, <2>1 DEF QueueInv
<1>5. TypeInv'
  <2>1. queue' \in Seq(Nat)
    BY <1>0, HeadTailProperties DEF TypeInv
  <2> QED BY <1>0, <1>1, <1>3, <2>1 DEF TypeInv, connVars
<1>6. FreshInv'
  BY <1>0 DEF FreshInv, connVars
<1>7. StreamInv'
  <2> SUFFICES ASSUME NEW c \in clients
               PROVE  Dealt(c)' \in Nat /\ got'[c] \o buffer'[c] = Reports(joined'[c], Dealt(c)')
    BY <1>0 DEF StreamInv
  <2>1. joined[c] \in Nat
    BY DEF TypeInv
  <2>2. Dealt(c)' = Dealt(c)
    BY <1>0, <1>1, <1>3, <2>1 DEF Dealt, connVars
  <2> QED BY <1>0, <2>2 DEF StreamInv, connVars
<1> QED BY <1>4, <1>5, <1>6, <1>7

(* Write: the report is one more that c is sent. *)
LEMMA WriteStep ==
  ASSUME HubInv, NEW c \in Clients, Write(c)
  PROVE  HubInv'
<1> USE DEF HubInv
<1>0. /\ c \in todo /\ c \in clients /\ todo' = todo \ {c}
      /\ buffer' = [buffer EXCEPT ![c] = Append(@, taken)]
      /\ UNCHANGED <<sent, queue, taken, clients, conn, peer, got, joined>>
  BY DEF Write, scanVars, TypeInv
<1>1. /\ taken \in Nat /\ joined[c] \in Nat /\ got[c] \in Seq(Nat) /\ buffer[c] \in Seq(Nat)
      /\ buffer'[c] = Append(buffer[c], taken)
      /\ \A d \in Clients : d # c => buffer'[d] = buffer[d]
  BY <1>0 DEF TypeInv
<1>2. TypeInv'
  <2>1. buffer'[c] \in Seq(Nat)
    BY <1>1
  <2> QED BY <1>0, <1>1, <2>1 DEF TypeInv
<1>3. QueueInv'
  BY <1>0 DEF QueueInv
<1>4. FreshInv'
  BY <1>0, <1>1 DEF FreshInv
<1>5. StreamInv'
  <2> SUFFICES ASSUME NEW d \in clients
               PROVE  Dealt(d)' \in Nat /\ got'[d] \o buffer'[d] = Reports(joined'[d], Dealt(d)')
    BY <1>0 DEF StreamInv
  <2>0. d \in Clients
    BY DEF TypeInv
  <2>1. CASE d # c
    <3>1. Dealt(d)' = Dealt(d)
      BY <1>0, <2>1 DEF Dealt
    <3> QED BY <1>0, <1>1, <2>0, <2>1, <3>1 DEF StreamInv
  <2>2. CASE d = c
    <3>1. Dealt(c) = taken - joined[c] - 1 /\ Dealt(c) \in Nat
      BY <1>0 DEF Dealt, StreamInv
    <3>2. Dealt(c)' = Dealt(c) + 1 /\ joined[c] + Dealt(c) + 1 = taken
      BY <1>0, <1>1, <3>1 DEF Dealt
    <3>3. got[c] \o buffer'[c] = Append(got[c] \o buffer[c], taken)
      BY <1>1, ConcatAppend
    <3>4. got[c] \o buffer[c] = Reports(joined[c], Dealt(c))
      BY <1>0 DEF StreamInv
    <3>5. Append(Reports(joined[c], Dealt(c)), taken) = Reports(joined[c], Dealt(c) + 1)
      BY <1>1, <3>1, <3>2, ReportsAppend
    <3>6. Dealt(c)' \in Nat
      BY <3>1, <3>2
    <3>7. got'[c] \o buffer'[c] = Reports(joined'[c], Dealt(c)')
      BY <1>0, <3>2, <3>3, <3>4, <3>5
    <3> QED BY <2>2, <3>6, <3>7
  <2> QED BY <2>1, <2>2
<1> QED BY <1>2, <1>3, <1>4, <1>5

(* Register: a new client has been sent nothing, and misses nothing. *)
LEMMA RegisterStep ==
  ASSUME HubInv, NEW c \in Clients, Register(c)
  PROVE  HubInv'
<1> USE DEF HubInv
<1>0. /\ todo = {} /\ conn[c] = "upgraded" /\ clients' = clients \cup {c}
      /\ conn' = [conn EXCEPT ![c] = "open"] /\ joined' = [joined EXCEPT ![c] = taken]
      /\ UNCHANGED <<sent, queue, taken, todo, peer, buffer, got>>
  BY DEF Register, AtSelect, scanVars, runVars
<1>1. /\ taken \in Nat /\ got[c] = <<>> /\ buffer[c] = <<>> /\ c \notin clients
      /\ joined'[c] = taken /\ \A d \in Clients : d # c => joined'[d] = joined[d]
  BY <1>0 DEF TypeInv, FreshInv
<1>2. TypeInv'
  BY <1>0 DEF TypeInv
<1>3. QueueInv'
  BY <1>0 DEF QueueInv
<1>4. FreshInv'
  BY <1>0 DEF FreshInv, TypeInv
<1>5. StreamInv'
  <2> SUFFICES ASSUME NEW d \in clients \cup {c}
               PROVE  Dealt(d)' \in Nat /\ got'[d] \o buffer'[d] = Reports(joined'[d], Dealt(d)')
    BY <1>0 DEF StreamInv
  <2>1. CASE d = c
    <3>1. Dealt(c)' = 0
      BY <1>0, <1>1 DEF Dealt
    <3>2. got'[c] \o buffer'[c] = <<>>
      BY <1>0, <1>1
    <3> QED BY <1>1, <2>1, <3>1, <3>2, ReportsNone
  <2>2. CASE d # c
    <3>1. d \in clients /\ joined'[d] = joined[d]
      BY <1>1, <2>2 DEF TypeInv
    <3>2. Dealt(d)' = Dealt(d)
      BY <1>0, <3>1 DEF Dealt
    <3> QED BY <1>0, <3>1, <3>2 DEF StreamInv
  <2> QED BY <2>1, <2>2
<1> QED BY <1>2, <1>3, <1>4, <1>5

(* Unregister and a failed write: one client less. *)
LEMMA RemoveStep ==
  ASSUME HubInv, NEW c \in Clients, Unregister(c) \/ WriteFails(c)
  PROVE  HubInv'
<1> USE DEF HubInv
<1>0. /\ clients' \subseteq clients /\ todo' \subseteq todo /\ todo' \subseteq clients'
      /\ \A d \in clients' : d \in todo' <=> d \in todo
      /\ conn' \in {conn, [conn EXCEPT ![c] = "closed"]}
      /\ conn' # conn => peer[c] = "left" \/ c \in clients
      /\ UNCHANGED <<sent, queue, taken, peer, buffer, got, joined>>
  <2>1. CASE Unregister(c)
    BY <2>1 DEF Unregister, Closes, AtSelect, scanVars, runVars, TypeInv
  <2>2. CASE WriteFails(c)
    BY <2>2 DEF WriteFails, Closes, scanVars, TypeInv
  <2> QED BY <2>1, <2>2
<1>2. TypeInv'
  BY <1>0 DEF TypeInv
<1>3. QueueInv'
  BY <1>0 DEF QueueInv
<1>4. FreshInv'
  BY <1>0 DEF FreshInv, TypeInv
<1>5. StreamInv'
  BY <1>0 DEF StreamInv, Dealt
<1> QED BY <1>2, <1>3, <1>4, <1>5

(* PeerReads: what is read was the first of the buffer. *)
LEMMA ReadStep ==
  ASSUME HubInv, NEW c \in Clients, PeerReads(c)
  PROVE  HubInv'
<1> USE DEF HubInv
<1>0. /\ buffer[c] # <<>>
      /\ got' = [got EXCEPT ![c] = Append(@, Head(buffer[c]))]
      /\ buffer' = [buffer EXCEPT ![c] = Tail(@)]
      /\ UNCHANGED <<sent, queue, taken, todo, clients, conn, peer, joined>>
  BY DEF PeerReads, scanVars, runVars
<1>1. /\ got[c] \in Seq(Nat) /\ buffer[c] \in Seq(Nat)
      /\ got'[c] = Append(got[c], Head(buffer[c])) /\ buffer'[c] = Tail(buffer[c])
      /\ \A d \in Clients : d # c => got'[d] = got[d] /\ buffer'[d] = buffer[d]
  BY <1>0 DEF TypeInv
<1>2. TypeInv'
  <2>1. got'[c] \in Seq(Nat) /\ buffer'[c] \in Seq(Nat)
    BY <1>0, <1>1
  <2> QED BY <1>0, <1>1, <2>1 DEF TypeInv
<1>3. QueueInv'
  BY <1>0 DEF QueueInv
<1>4. FreshInv'
  BY <1>0, <1>1 DEF FreshInv
<1>5. StreamInv'
  <2>1. got'[c] \o buffer'[c] = got[c] \o buffer[c]
    BY <1>0, <1>1, ConcatShift
  <2>2. \A d \in Clients : got'[d] \o buffer'[d] = got[d] \o buffer[d]
    BY <1>1, <2>1
  <2>3. \A d \in clients : Dealt(d)' = Dealt(d)
    BY <1>0 DEF Dealt
  <2> QED BY <1>0, <2>2, <2>3 DEF StreamInv, TypeInv
<1> QED BY <1>2, <1>3, <1>4, <1>5

(* Connections and dashboards that come, go, stall and resume. *)
LEMMA PeerStep ==
  ASSUME HubInv, NEW c \in Clients,
         Connect(c) \/ ReaderEnds(c) \/ PeerLeaves(c) \/ PeerStalls(c) \/ PeerResumes(c)
  PROVE  HubInv'
<1> USE DEF HubInv
<1>0. UNCHANGED <<sent, queue, taken, todo, clients, buffer, got, joined>>
  BY DEF Connect, ReaderEnds, PeerLeaves, PeerStalls, PeerResumes, scanVars, runVars
<1>1. /\ \/ conn' = conn
         \/ peer[c] = "away" /\ conn' = [conn EXCEPT ![c] = "upgraded"]
      /\ \E x \in {"reads", "stalls", "left"} : peer' \in {peer, [peer EXCEPT ![c] = x]}
      /\ conn' # conn => peer' = [peer EXCEPT ![c] = "reads"]
  BY DEF Connect, ReaderEnds, PeerLeaves, PeerStalls, PeerResumes
<1>2. TypeInv'
  <2>1. peer' \in [Clients -> {"away", "reads", "stalls", "left"}]
    BY <1>1 DEF TypeInv
  <2>2. conn' \in [Clients -> {"none", "upgraded", "open", "closed"}]
    BY <1>1 DEF TypeInv
  <2> QED BY <1>0, <2>1, <2>2 DEF TypeInv
<1>3. QueueInv' /\ StreamInv'
  BY <1>0 DEF QueueInv, StreamInv, Dealt
<1>4. FreshInv'
  BY <1>0, <1>1 DEF FreshInv, TypeInv
<1> QED BY <1>2, <1>3, <1>4

(* A dashboard misses no report that Run takes while it is registered, and *)
(* gets none twice or out of order, for any number of clients, however     *)
(* they come, stall and leave, and for any capacities.                     *)
THEOREM NoGaps == HubSpec => []Gapless
<1>1. HubInv /\ [HubNext]_hubVars => HubInv'
  <2> SUFFICES ASSUME HubInv, [HubNext]_hubVars PROVE HubInv'
    OBVIOUS
  <2>1. CASE UNCHANGED hubVars
    BY <2>1 DEF hubVars, scanVars, runVars, connVars, HubInv, TypeInv, QueueInv, FreshInv,
         StreamInv, Dealt
  <2> QED BY <2>1, ScanStep, TakeStep, WriteStep, RegisterStep, RemoveStep, ReadStep, PeerStep
          DEF HubNext, RunStep
<1>2. HubInv => Gapless
  BY DEF HubInv, StreamInv, Gapless, Dealt, Reports
<1> QED BY <1>1, <1>2, HubStarts, PTL DEF HubSpec

-----------------------------------------------------------------------------
(* Calls and processes at rest are well formed, and a call keeps its form  *)
(* when one of its fields is set.                                          *)
LEMMA RestTypes == NoCall \in Call /\ Gone \in Proc
<1>1. (CHOOSE p \in Procs : TRUE) \in Procs BY SessionsAssumption
<1> QED BY <1>1 DEF NoCall, Call, Gone, Proc

(* decide gives a verdict. *)
LEMMA DecideType == ASSUME NEW c, NEW conns PROVE Decide(c, conns) \in Verdicts
BY DEF Decide, Verdicts

(* A proxy that is on listens on a port: Addr() may be empty otherwise.    *)
(* What a tool can connect to depends on it.                               *)
OnHasPort == on => addr \in Ports

(* A process that ps and lsof report is a process, or nothing. *)
LEMMA SeenType == ASSUME TypeOK, NEW p \in Procs PROVE Seen(p) \subseteq Proc
BY RestTypes DEF Seen, TypeOK

(* The steps of a listing. *)
LEMMA ListTypes ==
  ASSUME TypeOK,
         \/ DashboardOpens \/ ListStep("dashboard") \/ DashboardAnswered
         \/ MonitorTick \/ MonitorStep \/ ReportStored \/ ReportDropped
  PROVE  TypeOK'
<1> USE DEF TypeOK, daemon
<1>0. "dashboard" \in Callers /\ "monitor" \in Callers BY DEF Callers
<1>1. CASE DashboardOpens
  BY <1>0, <1>1 DEF DashboardOpens, Call
<1>2. CASE DashboardAnswered
  BY <1>0, <1>2, RestTypes DEF DashboardAnswered
<1>3. CASE MonitorTick
  BY <1>0, <1>3 DEF MonitorTick, Call
<1>4. ASSUME NEW l \in Callers, ListStep(l) PROVE TypeOK'
  <2>1. CASE ScanProcesses(l)
    <3>1. [call[l] EXCEPT !.pc = "refresh", !.todo = {p \in Procs : proc[p].runs}] \in Call
      BY DEF Call
    <3>2. call' = [call EXCEPT ![l] =
                     [call[l] EXCEPT !.pc = "refresh", !.todo = {p \in Procs : proc[p].runs}]]
      BY <2>1 DEF ScanProcesses
    <3>3. call' \in [Callers -> Call] BY <3>1, <3>2
    <3> QED BY <2>1, <3>3 DEF ScanProcesses
  <2>2. CASE ScanFails(l) BY <2>2, RestTypes DEF ScanFails
  <2>3. CASE RefreshHostIPs(l)
    <3>1. call' \in [Callers -> Call] BY <2>3 DEF RefreshHostIPs, Call
    <3>2. hostIPs' \subseteq Addrs /\ expired' \in BOOLEAN
      <4> PICK hs \in IF expired \/ hostIPs = {} THEN Answering ELSE {{}} :
            IF hs # {} THEN hostIPs' = {dns[h] : h \in hs} /\ expired' = FALSE
            ELSE UNCHANGED <<hostIPs, expired>>
        BY <2>3 DEF RefreshHostIPs
      <4>1. hs \subseteq Hosts BY DEF Answering
      <4>2. {dns[h] : h \in hs} \subseteq Addrs BY <4>1
      <4>3. CASE hs = {} BY <4>3
      <4>4. CASE hs # {} BY <4>2, <4>4
      <4> QED BY <4>3, <4>4
    <3> QED BY <2>3, <3>1, <3>2 DEF RefreshHostIPs
  <2> QED BY <1>4, <2>1, <2>2, <2>3 DEF ListStep
<1>5. ASSUME NEW p \in Procs, ReadEnv(p) PROVE TypeOK'
  <2>1. \A seen \in Seen(p) : seen.bound \in BOOLEAN /\ HasProxyEnv(seen) \in BOOLEAN
    BY SeenType DEF Proc, HasProxyEnv
  <2>2. call' \in [Callers -> Call] BY <1>0, <1>5, <2>1 DEF ReadEnv, Call
  <2> QED BY <1>5, <2>2 DEF ReadEnv
<1>6. CASE ReadConns
  <2>1. call' \in [Callers -> Call]
    <3> PICK seen \in Seen(call["monitor"].at) :
          call' = [call EXCEPT !["monitor"].pc = "each",
            !["monitor"].bound = FALSE, !["monitor"].proxied = FALSE,
            !["monitor"].rows = @ \cup {[pid |-> call["monitor"].at,
                                     verdict |-> Decide(call["monitor"], seen.conns)]}]
      BY <1>6 DEF ReadConns
    <3>1. [pid |-> call["monitor"].at, verdict |-> Decide(call["monitor"], seen.conns)]
            \in [pid : Procs, verdict : Verdicts]
      BY <1>0, DecideType DEF Call
    <3> HIDE DEF TypeOK
    <3>2. call \in [Callers -> Call] BY DEF TypeOK
    <3> DEFINE row == [pid |-> call["monitor"].at,
                       verdict |-> Decide(call["monitor"], seen.conns)]
               c == [call["monitor"] EXCEPT !.pc = "each", !.bound = FALSE,
                                            !.proxied = FALSE, !.rows = @ \cup {row}]
    <3>3. call' = [call EXCEPT !["monitor"] = c] BY <1>0, <3>2 DEF Call
    <3>4. c \in Call
      <4> HIDE DEF row
      <4> QED BY <1>0, <3>1, <3>2 DEF Call, row
    <3> HIDE DEF c
    <3> QED BY <1>0, <3>2, <3>3, <3>4
  <2> QED BY <1>6, <2>1 DEF ReadConns
<1>7. CASE ListDone
  BY <1>0, <1>7, RestTypes DEF ListDone, Call
<1>8. CASE ReportStored
  <2>1. {row.verdict : row \in call["monitor"].rows} \subseteq Verdicts
    BY <1>0 DEF Call
  <2> QED BY <1>0, <1>8, <2>1, RestTypes DEF ReportStored
<1>9. CASE ReportDropped
  BY <1>0, <1>9, RestTypes DEF ReportDropped
<1> QED BY <1>0, <1>1, <1>2, <1>3, <1>4, <1>5, <1>6, <1>7, <1>8, <1>9 DEF MonitorStep

(* The steps of tools. *)
LEMMA ToolTypes ==
  ASSUME TypeOK, OnHasPort, NEW p \in Procs,
         \/ LaunchBound(p) \/ Connects(p) \/ Disconnects(p) \/ Exits(p)
         \/ \E e \in {NoPort, Elsewhere} : LaunchPlain(p, e)
  PROVE  TypeOK'
<1> USE DEF TypeOK, daemon, lister
<1>1. CASE LaunchBound(p)
  <2> PICK a \in ProxyAddresses :
        proc' = [proc EXCEPT ![p] = [Gone EXCEPT !.runs = TRUE, !.bound = TRUE, !.env = a]]
    BY <1>1 DEF LaunchBound
  <2>1. a \in Ports \cup {NoPort} BY DEF ProxyAddresses
  <2>2. [Gone EXCEPT !.runs = TRUE, !.bound = TRUE, !.env = a] \in Proc
    BY <2>1 DEF Gone, Proc
  <2> QED BY <1>1, <2>2 DEF LaunchBound
<1>2. ASSUME NEW e \in {NoPort, Elsewhere}, LaunchPlain(p, e) PROVE TypeOK'
  <2>1. [Gone EXCEPT !.runs = TRUE, !.env = e] \in Proc BY DEF Gone, Proc
  <2> QED BY <1>2, <2>1 DEF LaunchPlain
<1>3. CASE Connects(p)
  <2> PICK c \in {dns[h] : h \in Hosts} \cup (IF on THEN {addr} ELSE {}) :
        proc' = [proc EXCEPT ![p].conns = @ \cup {c}]
    BY <1>3 DEF Connects
  <2>1. c \in Addrs \cup Ports BY DEF OnHasPort
  <2> QED BY <1>3, <2>1 DEF Connects, Proc
<1>4. CASE Disconnects(p)
  BY <1>4 DEF Disconnects, Proc
<1>5. CASE Exits(p)
  BY <1>5, RestTypes DEF Exits
<1> QED BY <1>1, <1>2, <1>3, <1>4, <1>5

(* The steps of the daemon and of the network. *)
LEMMA WorldTypes ==
  ASSUME TypeOK,
         \/ Expires \/ (\E p \in Ports : ProxyOn(p)) \/ ProxyOff \/ Restart
         \/ DnsChanges \/ CalmsDown
  PROVE  TypeOK'
<1> USE DEF TypeOK, daemon, lister
<1>1. CASE Expires BY <1>1 DEF Expires
<1>2. ASSUME NEW p \in Ports, ProxyOn(p) PROVE TypeOK' BY <1>2 DEF ProxyOn
<1>3. CASE ProxyOff BY <1>3 DEF ProxyOff, Proc
<1>4. CASE Restart BY <1>4, RestTypes DEF Restart, Proc
<1>5. CASE DnsChanges BY <1>5 DEF DnsChanges
<1>6. CASE CalmsDown BY <1>6 DEF CalmsDown
<1> QED BY <1>1, <1>2, <1>3, <1>4, <1>5, <1>6

(* Only the switch and a restart touch on and addr. *)
LEMMA PortStep ==
  ASSUME OnHasPort, [Next]_vars
  PROVE  OnHasPort'
<1>1. ASSUME NEW p \in Ports, ProxyOn(p) PROVE OnHasPort' BY <1>1 DEF ProxyOn, OnHasPort
<1>2. CASE ProxyOff \/ Restart BY <1>2 DEF ProxyOff, Restart, OnHasPort
<1>3. CASE UNCHANGED daemon BY <1>3 DEF daemon, OnHasPort
<1>4. ASSUME \/ DashboardOpens \/ (\E l \in Callers : ListStep(l)) \/ DashboardAnswered
             \/ MonitorTick \/ (\E p \in Procs : ReadEnv(p)) \/ ReadConns \/ ListDone
             \/ ReportStored \/ ReportDropped \/ Expires \/ DnsChanges \/ CalmsDown
      PROVE  UNCHANGED daemon
  BY <1>4 DEF DashboardOpens, ListStep, ScanProcesses, ScanFails, RefreshHostIPs,
              DashboardAnswered, MonitorTick, ReadEnv, ReadConns, ListDone, ReportStored,
              ReportDropped, Expires, DnsChanges, CalmsDown
<1>5. ASSUME NEW p \in Procs,
             \/ LaunchBound(p) \/ Connects(p) \/ Disconnects(p) \/ Exits(p)
             \/ \E e \in {NoPort, Elsewhere} : LaunchPlain(p, e)
      PROVE  UNCHANGED daemon
  BY <1>5 DEF LaunchBound, Connects, Disconnects, Exits, LaunchPlain
<1>6. CASE UNCHANGED vars BY <1>6, <1>3 DEF vars
<1> QED BY <1>1, <1>2, <1>3, <1>4, <1>5, <1>6 DEF Next, MonitorStep, Callers

(* Whatever starts, exits, connects, is resolved anew or is switched on or *)
(* off between the steps of the two listings, sessions.Lister examines     *)
(* processes and gives verdicts only: a pid that is gone, a failed ps or   *)
(* lookup and a restart in the middle leave well formed listings.          *)
THEOREM SessionTypes == Spec => []TypeOK
<1>1. Init => TypeOK /\ OnHasPort
  BY RestTypes DEF Init, TypeOK, OnHasPort
<1>2. TypeOK /\ OnHasPort /\ [Next]_vars => TypeOK'
  <2> SUFFICES ASSUME TypeOK, OnHasPort, [Next]_vars PROVE TypeOK'
    OBVIOUS
  <2>1. CASE UNCHANGED vars BY <2>1 DEF vars, daemon, lister, TypeOK
  <2> QED BY <2>1, ListTypes, ToolTypes, WorldTypes DEF Next
<1>3. OnHasPort /\ [Next]_vars => OnHasPort'
  BY PortStep
<1> QED BY <1>1, <1>2, <1>3, PTL DEF Spec
=============================================================================
