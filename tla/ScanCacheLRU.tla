---------------------------- MODULE ScanCacheLRU ----------------------------
(***************************************************************************)
(* ScanCache run on its own: any sequence of Get, Put and Invalidate calls *)
(* (each atomic under Cache.mu), with the sequence of touched keys kept as *)
(* history so that the contents can be compared with the definition of     *)
(* "least recently used" instead of with the code's list.                  *)
(***************************************************************************)
EXTENDS ScanCache, FiniteSets

CONSTANTS
  Keys,        \* the texts that are scanned
  Values,      \* what a scan of a text can return
  Sizes,       \* the values of cache_max_size the daemon is started with
  MaxCalls     \* bound: touches recorded in the history

ASSUME SizesAssumption == Sizes \subseteq Nat

VARIABLES
  maxSize,     \* NewCache's argument, fixed for the life of the cache
  cache,       \* the Cache
  history,     \* keys touched since the last Invalidate, oldest first
  written      \* the last value put under each key since the last Invalidate

vars == <<maxSize, cache, history, written>>

Init ==
  /\ maxSize \in Sizes
  /\ cache = EmptyCache
  /\ history = <<>>
  /\ written = <<>>

(* A Get that misses changes nothing but the miss counter: no action. *)
DoGet(k) ==
  /\ Len(history) < MaxCalls
  /\ Cached(cache, k)
  /\ cache' = Touch(cache, k)
  /\ history' = Append(history, k)
  /\ UNCHANGED <<maxSize, written>>

DoPut(k, v) ==
  /\ Len(history) < MaxCalls
  /\ cache' = Put(cache, k, v, maxSize)
  /\ history' = Append(history, k)
  /\ written' = [x \in DOMAIN written \cup {k} |-> IF x = k THEN v ELSE written[x]]
  /\ UNCHANGED maxSize

DoInvalidate ==
  /\ history # <<>>
  /\ cache' = EmptyCache
  /\ history' = <<>>
  /\ written' = <<>>
  /\ UNCHANGED maxSize

Next ==
  \/ \E k \in Keys : DoGet(k) \/ \E v \in Values : DoPut(k, v)
  \/ DoInvalidate

Spec == Init /\ [][Next]_vars

-----------------------------------------------------------------------------
(* Distinct keys touched after the last touch of k. *)
TouchedSince(k) ==
  {history[i] : i \in {i \in DOMAIN history :
                         \A j \in DOMAIN history : history[j] = k => j < i}}

(* cache.go keeps a map and a list in step: the list holds every key of    *)
(* the map once and never exceeds maxSize (1 when maxSize is 0, because    *)
(* Put evicts before it inserts).                                          *)
CacheConsistent == Consistent(cache, maxSize)

(* cache.go Get/Put: the cached keys are exactly the maxSize most recently *)
(* touched ones, and each holds the value last put under it: no sequence   *)
(* of hits, overwrites and evictions drops a recent key, keeps an old one  *)
(* or leaves a superseded result.                                          *)
HoldsMostRecent ==
  /\ DOMAIN cache.items =
       {k \in ToSet(history) :
          Cardinality(TouchedSince(k)) < IF maxSize = 0 THEN 1 ELSE maxSize}
  /\ \A k \in DOMAIN cache.items : cache.items[k] = written[k]
=============================================================================
