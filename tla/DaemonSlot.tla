----------------------------- MODULE DaemonSlot -----------------------------
(***************************************************************************)
(* What internal/lifecycle promises of a state directory: it belongs to at *)
(* most one daemon at a time, passes to the next only by way of nobody,    *)
(* and never returns to one that had its turn or was turned away.          *)
(***************************************************************************)
CONSTANTS Pids, NoPid

VARIABLES
  owner,   \* the daemon the directory belongs to, or NoPid
  former   \* those that have left it or were turned away

vars == <<owner, former>>

Init == owner = NoPid /\ former = {}

(* AcquireSingleton succeeds. *)
Take(p) ==
  /\ owner = NoPid
  /\ p \notin former
  /\ owner' = p
  /\ former' = former

(* The daemon releases the directory, or ends. *)
Leave ==
  /\ owner # NoPid
  /\ owner' = NoPid
  /\ former' = former \cup {owner}

(* AcquireSingleton fails, or the process ends in it. *)
TurnedAway(p) ==
  /\ p # owner
  /\ p \notin former
  /\ owner' = owner
  /\ former' = former \cup {p}

Next == Leave \/ \E p \in Pids : Take(p) \/ TurnedAway(p)

Spec == Init /\ [][Next]_vars
=============================================================================
