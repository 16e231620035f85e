----------------------------- MODULE PolicyFeed -----------------------------
(***************************************************************************)
(* What the control plane promises of launch policies: an organisation's   *)
(* bundles are issued under growing versions and none is withdrawn or      *)
(* altered, and the copy a laptop keeps is always replaced by one that was *)
(* issued, never by an older one of the same organisation, as long as the  *)
(* laptop gets the replies meant for it: nothing in a bundle tells an old  *)
(* one that is served again.                                               *)
(***************************************************************************)
EXTENDS Integers

CONSTANTS
  Bundles,   \* records with at least org and version
  Laptops,
  None       \* no copy

VARIABLES
  log,       \* the bundles issued so far
  copy,      \* copy[l]: the bundle laptop l launches from, or None
  misled     \* laptops that got a reply not meant for them

vars == <<log, copy, misled>>

Init ==
  /\ log \subseteq Bundles
  /\ \A x, y \in log : x.org = y.org => x = y
  /\ copy = [l \in Laptops |-> None]
  /\ misled = {}

Issue(b) ==
  /\ \A x \in log : x.org = b.org => x.version < b.version
  /\ log' = log \cup {b}
  /\ UNCHANGED <<copy, misled>>

Fetch(l, b) ==
  /\ b \in log
  /\ l \notin misled /\ copy[l] # None /\ copy[l].org = b.org =>
       copy[l].version <= b.version
  /\ copy' = [copy EXCEPT ![l] = b]
  /\ UNCHANGED <<log, misled>>

Mislead(l) ==
  /\ misled' = misled \cup {l}
  /\ UNCHANGED <<log, copy>>

Next ==
  \/ \E b \in Bundles : Issue(b)
  \/ \E l \in Laptops, b \in Bundles : Fetch(l, b)
  \/ \E l \in Laptops : Mislead(l)

Spec == Init /\ [][Next]_vars
=============================================================================
