-------------------------------- MODULE Hub --------------------------------
(***************************************************************************)
(* The WebSocket hub of the dashboard (internal/api/ws.go) and those who   *)
(* wait for it: a scan (a proxied request, or POST /api/scan) stores its   *)
(* report (internal/store) and hands it to the hub before it is forwarded  *)
(* or answered.                                                            *)
(*                                                                         *)
(* One goroutine, Run, receives from three channels.  register and         *)
(* unregister are unbuffered: a send is the same step as its receipt.      *)
(* broadcast is buffered (256 in the code).  A connection takes what fits  *)
(* into its buffers, and WriteMessage, which has no deadline, waits while  *)
(* they are full.  A report is the number it has in the order in which the *)
(* channel accepted them; the database it is stored in is not modelled.    *)
(***************************************************************************)
EXTENDS Naturals, Sequences

CONSTANTS
  Scans,      \* scans, each with one report
  Clients,    \* dashboards, each connecting at most once
  QueueSize,  \* capacity of the channel broadcast
  SendBuffer, \* messages a connection holds that its client has not read
  Stalling    \* clients that may stop reading without leaving

ASSUME HubAssumption ==
  /\ QueueSize \in Nat \ {0}
  /\ SendBuffer \in Nat
  /\ Stalling \subseteq Clients

VARIABLES
  scan,      \* scan[s]: "idle" | "send" | "done"
  sent,      \* how many reports the channel has accepted
  queue,     \* the channel broadcast
  taken,     \* the report Run took last
  todo,      \* the clients Run has still to write it to; {} at its select
  clients,   \* Hub.clients
  conn,      \* conn[c]: "none" | "upgraded" | "open" | "closed"
  reader,    \* reader[c]: HandleWS's goroutine, "none" | "read" | "leave" | "done"
  peer,      \* peer[c]: the dashboard, "away" | "reads" | "stalls" | "left"
  buffer,    \* buffer[c]: written and not read yet
  got,       \* history: what c has read
  joined     \* history: joined[c]: taken when c was registered

scanVars == <<scan, sent>>
runVars == <<taken, todo>>
connVars == <<conn, reader, peer, buffer, got, joined>>
hubVars == <<scanVars, queue, runVars, clients, connVars>>

AtSelect == todo = {}

HubInit ==
  /\ scan = [s \in Scans |-> "idle"]
  /\ sent = 0
  /\ queue = <<>>
  /\ taken = 0 /\ todo = {}
  /\ clients = {}
  /\ conn = [c \in Clients |-> "none"]
  /\ reader = [c \in Clients |-> "none"]
  /\ peer = [c \in Clients |-> "away"]
  /\ buffer = [c \in Clients |-> <<>>]
  /\ got = [c \in Clients |-> <<>>]
  /\ joined = [c \in Clients |-> 0]

-----------------------------------------------------------------------------
(* A scan: SaveReport, then Broadcast, which waits while the channel is    *)
(* full, and only then is the request forwarded or answered.               *)
SaveReport(s) ==
  /\ scan[s] = "idle"
  /\ scan' = [scan EXCEPT ![s] = "send"]
  /\ UNCHANGED <<sent, queue, runVars, clients, connVars>>

Broadcast(s) ==
  /\ scan[s] = "send"
  /\ Len(queue) < QueueSize
  /\ sent' = sent + 1
  /\ queue' = Append(queue, sent')
  /\ scan' = [scan EXCEPT ![s] = "done"]
  /\ UNCHANGED <<runVars, clients, connVars>>

-----------------------------------------------------------------------------
(* Run.                                                                    *)
Register(c) ==
  /\ AtSelect
  /\ conn[c] = "upgraded"
  /\ clients' = clients \cup {c}
  /\ conn' = [conn EXCEPT ![c] = "open"]
  /\ reader' = [reader EXCEPT ![c] = "read"]
  /\ joined' = [joined EXCEPT ![c] = taken]
  /\ UNCHANGED <<scanVars, queue, runVars, peer, buffer, got>>

Closes(c) ==
  /\ clients' = clients \ {c}
  /\ conn' = [conn EXCEPT ![c] = "closed"]

(* A client that a failed write has removed already is left alone. *)
Unregister(c) ==
  /\ AtSelect
  /\ reader[c] = "leave"
  /\ reader' = [reader EXCEPT ![c] = "done"]
  /\ IF c \in clients THEN Closes(c) ELSE UNCHANGED <<clients, conn>>
  /\ UNCHANGED <<scanVars, queue, runVars, peer, buffer, got, joined>>

Take ==
  /\ AtSelect
  /\ queue # <<>>
  /\ queue' = Tail(queue)
  /\ taken' = Head(queue)
  /\ todo' = clients
  /\ UNCHANGED <<scanVars, clients, connVars>>

(* Mutant: a message that does not fit is dropped. *)
WriteOrDrop(c) ==
  /\ c \in todo
  /\ buffer' = [buffer EXCEPT ![c] = IF Len(@) < SendBuffer THEN Append(@, taken) ELSE @]
  /\ todo' = todo \ {c}
  /\ UNCHANGED <<scanVars, queue, taken, clients, conn, reader, peer, got, joined>>

(* WriteMessage succeeds also for a while after the client has left, ...   *)
Write(c) ==
  /\ c \in todo
  /\ Len(buffer[c]) < SendBuffer
  /\ buffer' = [buffer EXCEPT ![c] = Append(@, taken)]
  /\ todo' = todo \ {c}
  /\ UNCHANGED <<scanVars, queue, taken, clients, conn, reader, peer, got, joined>>

(* Mutant: Run hands the client to its own channel unregister, and waits. *)
WriteFailsAndAsks(c) == c \in todo /\ peer[c] = "left" /\ UNCHANGED hubVars

(* ... or fails, on which the client is forgotten. *)
WriteFails(c) ==
  /\ c \in todo
  /\ peer[c] = "left"
  /\ Closes(c)
  /\ todo' = todo \ {c}
  /\ UNCHANGED <<scanVars, queue, taken, reader, peer, buffer, got, joined>>

-----------------------------------------------------------------------------
(* HandleWS and the dashboards.                                            *)
Connect(c) ==
  /\ peer[c] = "away"
  /\ peer' = [peer EXCEPT ![c] = "reads"]
  /\ conn' = [conn EXCEPT ![c] = "upgraded"]
  /\ UNCHANGED <<scanVars, queue, runVars, clients, reader, buffer, got, joined>>

(* ReadMessage fails: the client has left, or Run has closed. *)
ReaderEnds(c) ==
  /\ reader[c] = "read"
  /\ peer[c] = "left" \/ conn[c] = "closed"
  /\ reader' = [reader EXCEPT ![c] = "leave"]
  /\ UNCHANGED <<scanVars, queue, runVars, clients, conn, peer, buffer, got, joined>>

PeerReads(c) ==
  /\ peer[c] = "reads"
  /\ buffer[c] # <<>>
  /\ got' = [got EXCEPT ![c] = Append(@, Head(buffer[c]))]
  /\ buffer' = [buffer EXCEPT ![c] = Tail(@)]
  /\ UNCHANGED <<scanVars, queue, runVars, clients, conn, reader, peer, joined>>

PeerLeaves(c) ==
  /\ peer[c] \in {"reads", "stalls"}
  /\ peer' = [peer EXCEPT ![c] = "left"]
  /\ UNCHANGED <<scanVars, queue, runVars, clients, conn, reader, buffer, got, joined>>

(* A tab that is suspended, or a sleeping machine, keeps its connection.   *)
PeerStalls(c) ==
  /\ c \in Stalling
  /\ peer[c] = "reads"
  /\ peer' = [peer EXCEPT ![c] = "stalls"]
  /\ UNCHANGED <<scanVars, queue, runVars, clients, conn, reader, buffer, got, joined>>

PeerResumes(c) ==
  /\ peer[c] = "stalls"
  /\ peer' = [peer EXCEPT ![c] = "reads"]
  /\ UNCHANGED <<scanVars, queue, runVars, clients, conn, reader, buffer, got, joined>>

-----------------------------------------------------------------------------
RunStep ==
  \/ Take
  \/ \E c \in Clients : Register(c) \/ Unregister(c) \/ Write(c) \/ WriteFails(c)

HubNext ==
  \/ \E s \in Scans : SaveReport(s) \/ Broadcast(s)
  \/ RunStep
  \/ \E c \in Clients : \/ Connect(c) \/ ReaderEnds(c)
                        \/ PeerReads(c) \/ PeerLeaves(c) \/ PeerStalls(c) \/ PeerResumes(c)

HubSpec == HubInit /\ [][HubNext]_hubVars

(* Run and the goroutines that wait for it are scheduled (scans and        *)
(* connections are finitely many, so nothing is asked of select's choice), *)
(* and a client that is awake now and again reads.                         *)
HubFairSpec ==
  /\ HubSpec
  /\ WF_hubVars(RunStep)
  /\ \A s \in Scans : WF_hubVars(Broadcast(s))
  /\ \A c \in Clients : WF_hubVars(ReaderEnds(c)) /\ SF_hubVars(PeerReads(c))

(* Besides, no client stalls for ever: the code has no limit of its own.   *)
AwakeSpec == HubFairSpec /\ \A c \in Clients : WF_hubVars(PeerResumes(c))

-----------------------------------------------------------------------------
(* A dashboard gets every report that Run takes after its registration,    *)
(* once and in order, as long as it stays, whatever other clients do and   *)
(* however slowly it reads.                                                *)
Gapless ==
  \A c \in clients :
    peer[c] # "left" =>
      got[c] \o buffer[c] =
        [i \in 1..(taken - joined[c] - (IF c \in todo THEN 1 ELSE 0)) |-> joined[c] + i]

(* Somebody waits for the hub: a scan with its report (and the request it  *)
(* belongs to), a handler with a new connection, or the goroutine of a     *)
(* client that has left.                                                   *)
Waiting ==
  \/ \E s \in Scans : scan[s] = "send"
  \/ \E c \in Clients :
       \/ conn[c] = "upgraded"
       \/ peer[c] = "left" /\ (c \in clients \/ reader[c] # "done")

(* Where clients resume, nobody waits for ever.  Scans and connections are *)
(* finitely many here, so this is said of all of them at once.             *)
HubServes == Waiting ~> ~Waiting

(* A client that stalls does not hold up scans. *)
ScansGoOn == \A s \in Scans : (scan[s] = "send") ~> (scan[s] = "done")
=============================================================================
