----------------------------- MODULE ScanCache -----------------------------
(***************************************************************************)
(* The LRU result cache of internal/scanner/cache.go, as operators on a    *)
(* cache value.  Every method of Cache runs under its mutex, so a method   *)
(* is one operator and a caller uses it in one step.                       *)
(*                                                                         *)
(* A cache is a record of                                                  *)
(*   items : the map, a function from the cached keys to their entries     *)
(*   order : the list, keys from most (front) to least recently used.      *)
(* Keys stand for the SHA-256 of the scanned text (no collisions); the     *)
(* hit and miss counters are statistics nothing reads back.                *)
(***************************************************************************)
EXTENDS Naturals, Sequences, SequencesExt

EmptyCache == [items |-> <<>>, order |-> <<>>]

(* Whether Get would hit. *)
Cached(c, k) == k \in DOMAIN c.items

(* list.MoveToFront of an element of the list: the ones before it move     *)
(* back by one place.                                                      *)
MoveToFront(order, k) ==
  LET at == CHOOSE i \in DOMAIN order : order[i] = k
  IN  [j \in DOMAIN order |-> IF j = 1 THEN k
                              ELSE IF j <= at THEN order[j - 1] ELSE order[j]]

(* Mutant: Get forgets to move the element to the front. *)
TouchKeepsOrder(c, k) == c

(* Get of a cached key: the entry is c.items[k], the list is reordered. *)
Touch(c, k) == [c EXCEPT !.order = MoveToFront(@, k)]

(* The two branches of Put: an existing key is overwritten in place; a new *)
(* key first evicts the back of the list when the list is full (a full     *)
(* empty list, maxSize = 0, evicts nothing and still inserts).             *)
Overwrite(c, k, v) ==
  [items |-> [c.items EXCEPT ![k] = v], order |-> MoveToFront(c.order, k)]

EvictOldest(c, maxSize) ==
  IF Len(c.order) >= maxSize /\ c.order # <<>>
  THEN [items |-> [k \in DOMAIN c.items \ {Last(c.order)} |-> c.items[k]],
        order |-> Front(c.order)]
  ELSE c

Insert(c, k, v) ==
  [items |-> [x \in DOMAIN c.items \cup {k} |-> IF x = k THEN v ELSE c.items[x]],
   order |-> <<k>> \o c.order]

(* Mutant: Put does not look whether the key is there already. *)
PutAlwaysInserts(c, k, v, maxSize) == Insert(EvictOldest(c, maxSize), k, v)

Put(c, k, v, maxSize) ==
  IF Cached(c, k) THEN Overwrite(c, k, v) ELSE Insert(EvictOldest(c, maxSize), k, v)

-----------------------------------------------------------------------------
(* What the two data structures must agree on. *)
Consistent(c, maxSize) ==
  /\ ToSet(c.order) = DOMAIN c.items
  /\ \A i, j \in DOMAIN c.order : c.order[i] = c.order[j] => i = j
  /\ Len(c.order) <= IF maxSize = 0 THEN 1 ELSE maxSize
=============================================================================
