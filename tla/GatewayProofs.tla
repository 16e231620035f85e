--------------------------- MODULE GatewayProofs ---------------------------
(***************************************************************************)
(* Theorems about Gateway for any number of requests, appliers, layers,    *)
(* texts, secrets and configurations.                                      *)
(***************************************************************************)
EXTENDS Gateway, FiniteSetTheorems, TLAPS

-----------------------------------------------------------------------------
(* The cache operators change no entry but the one that is put.            *)

(* Put leaves in the cache only what was there and what it is given. *)
LEMMA PutEntries ==
  ASSUME NEW c, NEW k, NEW v, NEW n
  PROVE  /\ DOMAIN Put(c, k, v, n).items \subseteq DOMAIN c.items \cup {k}
         /\ \A x \in DOMAIN Put(c, k, v, n).items :
              Put(c, k, v, n).items[x] = IF x = k THEN v ELSE c.items[x]
  <1>1. CASE Cached(c, k)
    BY <1>1 DEF Put, Cached, Overwrite
  <1>2. CASE ~Cached(c, k)
    <2> DEFINE e == EvictOldest(c, n)
    <2>1. /\ DOMAIN e.items \subseteq DOMAIN c.items
          /\ \A x \in DOMAIN e.items : e.items[x] = c.items[x]
      BY DEF EvictOldest
    <2>2. Put(c, k, v, n) = Insert(e, k, v)
      BY <1>2 DEF Put
    <2> HIDE DEF e
    <2> QED BY <2>1, <2>2 DEF Insert
  <1> QED BY <1>1, <1>2

-----------------------------------------------------------------------------
(* Type correctness.                                                       *)

(* A body's text is one of the texts, and its secrets are secrets. *)
LEMMA BodyTypes ==
  ASSUME NEW b \in Bodies
  PROVE  /\ b \in Body /\ b.text \in Texts
         /\ SecretsIn(b.text) \in SUBSET Secrets
         /\ \A n \in Lines(b.text) : LinesOf[b.text][n] \subseteq SecretsIn(b.text)
  <1>1. b \in Body /\ b.text \in Texts
    BY GatewayAssumption DEF Body
  <1>2. LinesOf[b.text] \in Seq(SUBSET Secrets)
    BY <1>1, GatewayAssumption
  <1> QED BY <1>1, <1>2 DEF SecretsIn, Lines

(* Whatever the rewriting does, the body holds no secret its text has not. *)
LEMMA ReplacedType ==
  ASSUME NEW b \in Bodies, NEW found
  PROVE  Replaced(b, found) \subseteq SecretsIn(b.text)
  <1>1. \A i \in DOMAIN b.parts : b.parts[i] \subseteq Lines(b.text)
    BY BodyTypes DEF Body
  <1>2. \A i \in DOMAIN b.parts : PartAfter(b, found, i) \subseteq SecretsIn(b.text)
    BY <1>1, BodyTypes DEF PartAfter, RedactedLine
  <1> QED BY <1>2 DEF Replaced

(* A request or applier at rest is well formed. *)
LEMMA IdleTypes == IdleRequest \in Request /\ IdleApplier \in Applier
  <1>1. (CHOOSE b \in Bodies : TRUE) \in Bodies /\ (CHOOSE c \in Configs : TRUE) \in Config
    BY GatewayAssumption
  <1>2. NoReport \in Report
    BY DEF NoReport, Report
  <1>3. IdleRequest \in Request
    BY <1>1, <1>2, GatewayAssumption DEF IdleRequest, Request, Statuses
  <1>4. IdleApplier \in Applier
    BY <1>1, GatewayAssumption DEF IdleApplier, Applier
  <1> QED BY <1>3, <1>4

(* What PutAndForward and CacheHit make of a report is well formed. *)
LEMMA ForwardedType ==
  ASSUME NEW b \in Bodies, NEW rep \in Report, NEW q \in Forwarded(b, rep)
  PROVE  q \in Request
  <1>1. StatusOf(rep) \in Statuses
    BY DEF StatusOf, Statuses
  <1>2. /\ SecretsIn(b.text) \in SUBSET Secrets
        /\ Replaced(b, rep.found) \in SUBSET Secrets
    BY BodyTypes, ReplacedType
  <1>3. AsItCame(b) \in Request
    BY <1>2, IdleTypes DEF AsItCame, Request
  <1>4. Rewritten(b, rep) \in Request
    BY <1>1, <1>2, IdleTypes DEF Rewritten, Request
  <1> QED BY <1>3, <1>4 DEF Forwarded

(* So is a request that goes upstream as it came. *)
LEMMA AsItCameType ==
  ASSUME NEW b \in Bodies
  PROVE  AsItCame(b) \in Request
  <1>1. SecretsIn(b.text) \in SUBSET Secrets
    BY BodyTypes
  <1> QED BY <1>1, IdleTypes DEF AsItCame, Request

(* A sink enforces a set of rules. *)
LEMMA RulesForType ==
  ASSUME NEW k, NEW c \in Config
  PROVE  RulesFor(k, c) \in SUBSET Secrets
  BY DEF RulesFor, Compiled, Config

(* What Build installs from a configuration is well formed. *)
LEMMA BootTypes ==
  ASSUME NEW c \in Config
  PROVE  /\ BootSinks(c) \in [Sinks -> SUBSET Secrets]
         /\ BootLayers(c) \in [Layers -> {"off", "loading", "ready", "failed"}]
  BY RulesForType DEF BootSinks, BootLayers

(* The steps of a request goroutine keep the types. *)
LEMMA RequestTypes ==
  ASSUME TypeOK, NEW r \in Requests, Arrival(r) \/ RequestStep(r)
  PROVE  TypeOK'
  <1> USE GatewayAssumption DEF TypeOK, settings, config
  <1>r. /\ req[r] \in Request /\ req[r].body \in Bodies /\ req[r].report \in Report
        /\ req[r].body.text \in Texts /\ SecretsIn(req[r].body.text) \in SUBSET Secrets
    BY BodyTypes DEF Request
  <1>w. req[r].pc = "wait" => req[r].at \in Layers
    BY <1>r DEF Request
  <1>1. ASSUME NEW b \in Bodies, NEW p \in Paths, NEW shape, PassThrough(r, b, p, shape)
        PROVE TypeOK'
    BY <1>1, AsItCameType DEF PassThrough
  <1>0. ASSUME NEW p \in Paths, NoBody(r, p) PROVE TypeOK'
    <2>1. [IdleRequest EXCEPT !.pc = "done", !.status = "passthrough"] \in Request
      BY IdleTypes DEF Request, Statuses
    <2> QED BY <1>0, <2>1 DEF NoBody
  <1>2. ASSUME NEW b \in Bodies, NEW p \in Paths, CacheHit(r, b, p) PROVE TypeOK'
    <2>1. cache.items[b.text] \in Report /\ cache'.items = cache.items
      BY <1>2 DEF CacheHit, Cached, Touch
    <2>2. PICK q \in Forwarded(b, cache.items[b.text]) : req' = [req EXCEPT ![r] = q]
      BY <1>2 DEF CacheHit
    <2>3. q \in Request
      BY <2>1, <2>2, ForwardedType
    <2> QED BY <1>2, <2>1, <2>2, <2>3 DEF CacheHit
  <1>3. ASSUME NEW b \in Bodies, NEW p \in Paths, CacheMiss(r, b, p) PROVE TypeOK'
    <2>1. [IdleRequest EXCEPT !.pc = "layer", !.body = b] \in Request
      BY IdleTypes DEF Request
    <2> QED BY <1>3, <2>1 DEF CacheMiss
  <1>4. CASE LayerStart(r)
    <2>1. [req[r] EXCEPT !.pc = "wait", !.armed = timed] \in Request
      BY <1>4, <1>r DEF LayerStart, Request
    <2> QED BY <1>4, <2>1 DEF LayerStart
  <1>11. CASE LayerUnready(r)
    <2>1. req[r].at \in Layers /\ req[r].at + 1 \in 1..(NumLayers + 1) /\ req[r].pc = "layer"
      BY <1>11 DEF LayerUnready, Layers
    <2>2. [req[r] EXCEPT !.at = @ + 1, !.report.unready = @ \cup {req[r].at}] \in Request
      BY <1>r, <2>1 DEF Request, Report
    <2> QED BY <1>11, <2>2 DEF LayerUnready
  <1>5. CASE LayerFinds(r)
    <2> DEFINE new == Found(req[r].at, req[r].body.text)
    <2>1. new \in SUBSET Secrets
      BY <1>r DEF Found
    <2>2. req[r].at + 1 \in 1..(NumLayers + 1)
      BY <1>5, <1>w DEF LayerFinds, Layers
    <2>3. [req[r] EXCEPT !.pc = "layer", !.at = @ + 1, !.armed = FALSE,
             !.report.found = @ \cup new] \in Request
      <3> HIDE DEF new
      <3> QED BY <1>r, <2>1, <2>2 DEF Request, Report
    <2> QED BY <1>5, <2>3 DEF LayerFinds
  <1>6. CASE LayerFails(r)
    <2>2. req[r].at + 1 \in 1..(NumLayers + 1) /\ req[r].at \in Layers
      BY <1>6, <1>w DEF LayerFails, Layers
    <2>3. [req[r] EXCEPT !.pc = "layer", !.at = @ + 1, !.armed = FALSE,
             !.report.failed = @ \cup {req[r].at}] \in Request
      BY <1>r, <2>2 DEF Request, Report
    <2> QED BY <1>6, <2>3 DEF LayerFails
  <1>7. CASE FilterBegin(r)
    BY <1>7, <1>r DEF FilterBegin, Request, Report
  <1>8. CASE FilterOne(r)
    <2>1. PICK s \in req[r].todo :
            req' = [req EXCEPT ![r].todo = @ \ {s},
                               ![r].report.found = IF s \in allowed THEN @ \ {s} ELSE @]
      BY <1>8 DEF FilterOne
    <2>2. [req[r] EXCEPT !.todo = @ \ {s},
             !.report.found = IF s \in allowed THEN @ \ {s} ELSE @] \in Request
      BY <1>r DEF Request, Report
    <2> QED BY <1>8, <2>1, <2>2 DEF FilterOne
  <1>9. CASE PutAndForward(r)
    <2>0. PICK q \in Forwarded(req[r].body, req[r].report) : req' = [req EXCEPT ![r] = q]
      BY <1>9 DEF PutAndForward
    <2>1. q \in Request
      BY <1>r, <2>0, ForwardedType
    <2>2. /\ DOMAIN cache'.items \subseteq Texts
          /\ \A t \in DOMAIN cache'.items : cache'.items[t] \in Report
      BY <1>9, <1>r, PutEntries DEF PutAndForward
    <2> QED BY <1>9, <2>0, <2>1, <2>2 DEF PutAndForward
  <1>10. CASE Respond(r)
    BY <1>10, IdleTypes DEF Respond
  <1>12. CASE ReportScan(r)
    <2>1. [req[r] EXCEPT !.pc = "done"] \in Request
      BY <1>r DEF Request
    <2> QED BY <1>12, <2>1 DEF ReportScan
  <1> QED BY <1>0, <1>1, <1>2, <1>3, <1>4, <1>5, <1>6, <1>7, <1>8, <1>9, <1>10, <1>11, <1>12
          DEF Arrival, RequestStep

(* An applier whose fields are set to values of their types is an applier. *)
LEMMA ApplierWith ==
  ASSUME NEW x \in Applier, NEW n \in 1..(NumLayers + 2), NEW c \in Config
  PROVE  /\ [x EXCEPT !.pc = "sink", !.kind = "watch", !.cfg = c, !.at = n] \in Applier
         /\ [x EXCEPT !.pc = "sink", !.cfg = c, !.at = n] \in Applier
         /\ [x EXCEPT !.at = n] \in Applier
  BY DEF Applier

(* So do the steps of an applier. *)
LEMMA ApplierTypes ==
  ASSUME TypeOK, NEW a \in Appliers, Change(a) \/ ApplierStep(a)
  PROVE  TypeOK'
  <1> USE GatewayAssumption DEF TypeOK, settings, config
  <1>a. applier[a] \in Applier /\ applier[a].cfg \in Config
    BY DEF Applier
  <1>n. 1 \in 1..(NumLayers + 2)
    OBVIOUS
  <1>1. ASSUME NEW c \in Configs, PutRules(a, c.rules) PROVE TypeOK'
    <2>1. [applier[a] EXCEPT !.pc = "get", !.kind = "put"] \in Applier
      BY <1>a DEF Applier
    <2>2. [cfg EXCEPT !.rules = c.rules] \in Config
      BY DEF Config
    <2> QED BY <1>1, <2>1, <2>2 DEF PutRules
  <1>2. ASSUME NEW c \in Configs \cup {file}, WatcherReload(a, c) PROVE TypeOK'
    <2>1. [applier[a] EXCEPT !.pc = "sink", !.kind = "watch", !.cfg = c, !.at = 1] \in Applier
      BY <1>a, <1>n, ApplierWith
    <2>2. applier' \in [Appliers -> Applier]
      BY <1>2, <2>1 DEF WatcherReload
    <2>3. cfg' \in Config /\ file' \in Config
      BY <1>2 DEF WatcherReload
    <2>4. synced' \in BOOLEAN /\ overlapped' \in BOOLEAN
      BY <1>2, Zenon DEF WatcherReload, OthersAtWork
    <2> QED BY <1>2, <2>2, <2>3, <2>4 DEF WatcherReload
  <1>3. CASE PutRulesGet(a)
    <2>1. [applier[a] EXCEPT !.pc = "sink", !.cfg = cfg, !.at = 1] \in Applier
      BY <1>a, <1>n, ApplierWith
    <2> QED BY <1>3, <2>1 DEF PutRulesGet
  <1>4. CASE ApplySink(a)
    <2>0. applier[a].at + 1 \in 1..(NumLayers + 2)
      BY <1>4, <1>a DEF ApplySink, Sinks, FileBlocker
    <2>1. [applier[a] EXCEPT !.at = @ + 1] \in Applier
      BY <2>0, <1>a, ApplierWith
    <2>2. installed' \in [Sinks -> SUBSET Secrets]
      BY <1>4, <1>a, RulesForType DEF ApplySink
    <2> QED BY <1>4, <2>1, <2>2 DEF ApplySink
  <1>5. CASE ApplyInvalidate(a)
    <2>1. cache'.items = <<>>
      BY <1>5 DEF ApplyInvalidate, EmptyCache
    <2>2. [applier[a] EXCEPT !.pc = "words"] \in Applier
      BY <1>a DEF Applier
    <2>3. applier' \in [Appliers -> Applier]
      BY <1>5, <2>2, IdleTypes DEF ApplyInvalidate
    <2> QED BY <1>5, <2>1, <2>3 DEF ApplyInvalidate
  <1>6. CASE ApplyWordsReset(a)
    BY <1>6, <1>a DEF ApplyWordsReset, Applier, Config
  <1>7. CASE ApplyWord(a)
    <2>1. PICK w \in applier[a].todo :
                 /\ allowed' = allowed \cup {w}
                 /\ applier' = [applier EXCEPT ![a].todo = @ \ {w}]
      BY <1>7 DEF ApplyWord
    <2>2. applier[a].todo \in SUBSET Secrets
      BY <1>a DEF Applier
    <2>3. [applier[a] EXCEPT !.todo = @ \ {w}] \in Applier
      BY <1>a, <2>2 DEF Applier
    <2>4. applier' \in [Appliers -> Applier]
      BY <2>1, <2>3
    <2>5. allowed' \in SUBSET Secrets
      BY <2>1, <2>2
    <2> QED BY <1>7, <2>4, <2>5 DEF ApplyWord
  <1>8. CASE ApplyTail(a)
    BY <1>8, <1>a, IdleTypes DEF ApplyTail, Config
  <1> QED BY <1>1, <1>2, <1>3, <1>4, <1>5, <1>6, <1>7, <1>8 DEF Change, ApplierStep

(* Every reachable state of the gateway is well typed. *)
THEOREM TypeCorrect == Spec => []TypeOK
  <1>1. Init => TypeOK
    <2> SUFFICES ASSUME Init PROVE TypeOK
      OBVIOUS
    <2>1. cfg \in Config /\ file \in Config
      BY GatewayAssumption DEF Init
    <2>2. /\ allowed \in SUBSET Secrets /\ timed \in BOOLEAN
          /\ threshold \in Nat /\ bypass \in SUBSET Paths
      BY <2>1 DEF Init, Config
    <2>3. /\ installed \in [Sinks -> SUBSET Secrets]
          /\ layerUp \in [Layers -> {"off", "loading", "ready", "failed"}]
      BY <2>1, BootTypes DEF Init
    <2>4. req \in [Requests -> Request] /\ applier \in [Appliers -> Applier]
      BY IdleTypes DEF Init
    <2>5. cache.items = <<>>
      BY DEF Init, EmptyCache
    <2>6. DOMAIN cache.items \subseteq Texts /\ \A t \in DOMAIN cache.items : cache.items[t] \in Report
      BY <2>5
    <2>7. up \in BOOLEAN /\ synced \in BOOLEAN /\ overlapped \in BOOLEAN /\ hubTakes \in BOOLEAN
      BY DEF Init
    <2> QED BY <2>1, <2>2, <2>3, <2>4, <2>6, <2>7 DEF TypeOK
  <1>2. TypeOK /\ [Next]_vars => TypeOK'
    <2> SUFFICES ASSUME TypeOK, [Next]_vars PROVE TypeOK'
      OBVIOUS
    <2> USE GatewayAssumption DEF TypeOK, settings, config
    <2>1. ASSUME NEW c \in Configs, PutConfig(c) PROVE TypeOK'
      BY <2>1 DEF PutConfig
    <2>7. ASSUME NEW c \in Configs, SaveFails(c) PROVE TypeOK'
      <3>1. cfg' \in Config BY <2>7 DEF SaveFails, Config
      <3> QED BY <2>7, <3>1 DEF SaveFails
    <2>8. CASE HubTurns
      BY <2>8 DEF HubTurns
    <2>2. ASSUME NEW l \in LazyLayers, LayerLoaded(l) PROVE TypeOK'
      BY <2>2 DEF LayerLoaded
    <2>3. CASE ClearCache
      BY <2>3 DEF ClearCache, EmptyCache
    <2>4. CASE MapFault
      BY <2>4 DEF MapFault
    <2>5. CASE Restart
      <3>1. cfg' \in Config /\ file' \in Config
        BY <2>5 DEF Restart
      <3>2. /\ allowed' \in SUBSET Secrets /\ timed' \in BOOLEAN
            /\ threshold' \in Nat /\ bypass' \in SUBSET Paths
        BY <2>5 DEF Restart, Config
      <3>3. /\ installed' \in [Sinks -> SUBSET Secrets]
            /\ layerUp' \in [Layers -> {"off", "loading", "ready", "failed"}]
        BY <2>5, BootTypes DEF Restart
      <3>4. req' \in [Requests -> Request] /\ applier' \in [Appliers -> Applier]
        BY <2>5, IdleTypes DEF Restart
      <3>5. cache'.items = <<>>
        BY <2>5 DEF Restart, EmptyCache
      <3>6. /\ DOMAIN cache'.items \subseteq Texts
            /\ \A t \in DOMAIN cache'.items : cache'.items[t] \in Report
        BY <3>5
      <3>7. up' \in BOOLEAN /\ synced' \in BOOLEAN /\ overlapped' \in BOOLEAN /\ hubTakes' \in BOOLEAN
        BY <2>5 DEF Restart
      <3> QED BY <3>1, <3>2, <3>3, <3>4, <3>6, <3>7
    <2>6. CASE UNCHANGED vars
      BY <2>6 DEF vars
    <2> QED BY <2>1, <2>2, <2>3, <2>4, <2>5, <2>6, <2>7, <2>8, RequestTypes, ApplierTypes DEF Next
  <1> QED BY <1>1, <1>2, PTL DEF Spec

-----------------------------------------------------------------------------
(* The status header is honest.                                            *)

(* A configuration that guards puts guarded rules in their layer. *)
LEMMA RulesForGuard ==
  ASSUME NEW c, Guards(c), NEW s \in Guarded, NEW k
  PROVE  LayerOf[s] = k => s \in RulesFor(k, c)
  BY DEF RulesFor, Compiled, Guards, Guarded

(* Every configuration a user may write guards the guarded secrets. *)
LEMMA ConfigsGuard ==
  ASSUME NEW c \in Configs
  PROVE  Guards(c)
  BY GatewayAssumption DEF Guards, Guarded

(* The rule of a guarded secret belongs to a layer, which is a sink. *)
LEMMA GuardedLayer == \A s \in Guarded : s \in Secrets /\ LayerOf[s] \in Layers /\ LayerOf[s] \in Sinks
  BY GatewayAssumption DEF Guarded, Compiled, Sinks, Layers, FileBlocker

(* A request or applier at rest lets nothing guarded through. *)
LEMMA IdleGuard ==
  /\ RequestGuard(IdleRequest)
  /\ Guards(IdleApplier.cfg)
  /\ IdleApplier.todo \cap Guarded = {}
  <1>1. (CHOOSE c \in Configs : TRUE) \in Configs
    BY GatewayAssumption
  <1> QED BY <1>1, ConfigsGuard DEF RequestGuard, IdleRequest, IdleApplier

(* A request that goes as it came has no status, so it promises nothing. *)
LEMMA UnguardedStatus ==
  ASSUME NEW b
  PROVE  RequestGuard(AsItCame(b))
  <1> DEFINE q == AsItCame(b)
  <1>1. q.pc = "done" /\ q.status = "none"
    BY DEF AsItCame, IdleRequest
  <1> HIDE DEF q
  <1>2. RequestGuard(q)
    BY <1>1 DEF RequestGuard
  <1> QED BY <1>2 DEF q

LEMMA UpTo ==
  ASSUME NEW n \in Nat
  PROVE  IsFiniteSet(1..n) /\ Cardinality(1..n) = n
  <1>1. 1 \in Int /\ n \in Int OBVIOUS
  <1>2. IsFiniteSet(1..n) /\ Cardinality(1..n) = IF 1 > n THEN 0 ELSE n - 1 + 1
    BY ONLY <1>1, FS_Interval
  <1> QED BY <1>2

(* In a body without an empty part there are no more parts than lines: a   *)
(* part's first line is no other part's.                                   *)
LEMMA PartsWithinLines ==
  ASSUME NEW b \in Bodies, \A i \in DOMAIN b.parts : b.parts[i] # {}
  PROVE  Len(b.parts) <= Len(LinesOf[b.text])
  <1> DEFINE P == 1..Len(b.parts)
             L == 1..Len(LinesOf[b.text])
             f == [i \in P |-> CHOOSE n \in b.parts[i] : TRUE]
  <1>1. /\ b.parts \in Seq(SUBSET Nat) /\ DOMAIN b.parts = P
        /\ LinesOf[b.text] \in Seq(SUBSET Secrets)
    BY BodyTypes, GatewayAssumption DEF Body
  <1>2. Len(b.parts) \in Nat /\ Len(LinesOf[b.text]) \in Nat
    BY <1>1
  <1>3. \A i \in P : f[i] \in b.parts[i]
    BY <1>1
  <1>4. \A i \in P : f[i] \in L
    BY <1>1, <1>3, BodyTypes DEF Body, Lines
  <1>n. \A n \in L : n \in Nat
    BY <1>2
  <1>5. ASSUME NEW i \in P, NEW j \in P, i < j PROVE f[i] # f[j]
    <2>1. f[i] < f[j] BY <1>1, <1>3, <1>5, BodyTypes DEF Body
    <2> HIDE DEF f, L
    <2>2. f[i] \in Nat /\ f[j] \in Nat BY <1>n, <1>4
    <2> QED BY <2>1, <2>2
  <1>6. f \in Injection(P, L)
    <2>1. f \in [P -> L] BY <1>4
    <2>2. \A i, j \in P : f[i] = f[j] => i = j
      <3> SUFFICES ASSUME NEW i \in P, NEW j \in P, f[i] = f[j], i # j PROVE FALSE
        OBVIOUS
      <3>1. i < j \/ j < i BY <1>2
      <3> QED BY <1>5, <3>1
    <2> HIDE DEF f, P, L
    <2> QED BY <2>1, <2>2 DEF Injection, IsInjective
  <1>7. IsFiniteSet(L) /\ Cardinality(L) = Len(LinesOf[b.text])
    BY <1>2, UpTo
  <1>8. IsFiniteSet(P) /\ Cardinality(P) = Len(b.parts)
    BY <1>2, UpTo
  <1>9. Cardinality(P) <= Cardinality(L)
    <2> HIDE DEF f, P, L
    <2> QED BY <1>6, <1>7, FS_Injection
  <1> QED BY <1>7, <1>8, <1>9

(* Where no secret reaches from one line into the next, the redacted text  *)
(* has as many lines as the text.                                          *)
LEMMA LinesStay ==
  ASSUME NEW t \in Texts, NEW found,
         \A n \in Lines(t) :
           n + 1 \in Lines(t) => LinesOf[t][n] \cap LinesOf[t][n + 1] = {}
  PROVE  LineCount(t, found) = Len(LinesOf[t])
  <1> DEFINE L == Len(LinesOf[t])
  <1>1. L \in Nat /\ L >= 1
    BY GatewayAssumption
  <1>2. \A m \in 1..(L - 1) : ~Joined(t, found, m)
    BY <1>1 DEF Joined, Lines
  <1>3. {m \in 1..(L - 1) : ~Joined(t, found, m)} = 1..(L - 1)
    BY <1>2
  <1>4. Cardinality(1..(L - 1)) = L - 1
    <2>1. L - 1 \in Nat BY <1>1
    <2> HIDE DEF L
    <2> QED BY <2>1, UpTo
  <1>5. LineCount(t, found) = 1 + Cardinality({m \in 1..(L - 1) : ~Joined(t, found, m)})
    BY DEF LineCount, LineNo
  <1>6. LineCount(t, found) = 1 + (L - 1)
    BY <1>3, <1>4, <1>5
  <1> HIDE DEF L
  <1>7. LineCount(t, found) = L BY <1>1, <1>6
  <1> QED BY <1>7 DEF L

(* ReplaceLastUserMessage takes everything that was found out of a         *)
(* straight body: every part gets a line of the redacted text.             *)
LEMMA StraightReplaced ==
  ASSUME NEW b \in Bodies, NEW found, Straight(b)
  PROVE  Replaced(b, found) \subseteq SecretsIn(b.text) \ found
  <1>1. CASE ~b.array
    BY <1>1 DEF Replaced
  <1>2. CASE b.array
    <2>1. Len(b.parts) <= Len(LinesOf[b.text])
      BY <1>2, PartsWithinLines DEF Straight
    <2>2. LineCount(b.text, found) = Len(LinesOf[b.text])
      BY <1>2, BodyTypes, LinesStay DEF Straight
    <2>3. b.parts \in Seq(SUBSET Nat) /\ LinesOf[b.text] \in Seq(SUBSET Secrets)
      BY BodyTypes, GatewayAssumption DEF Body
    <2>4. \A i \in DOMAIN b.parts : i <= LineCount(b.text, found)
      BY <2>1, <2>2, <2>3
    <2>5. ASSUME NEW i
          PROVE  RedactedLine(b.text, found, i) \subseteq SecretsIn(b.text) \ found
      <3> SUFFICES ASSUME NEW x \in RedactedLine(b.text, found, i)
                   PROVE  x \in SecretsIn(b.text) /\ x \notin found
        OBVIOUS
      <3>1. PICK n \in Lines(b.text) : x \in LinesOf[b.text][n]
        BY Zenon DEF RedactedLine
      <3>2. x \in SecretsIn(b.text)
        BY <3>1, Zenon DEF SecretsIn
      <3>3. x \notin found
        BY Zenon DEF RedactedLine
      <3> QED BY <3>2, <3>3
    <2>6. \A i \in DOMAIN b.parts : PartAfter(b, found, i) \subseteq SecretsIn(b.text) \ found
      BY <2>4, <2>5 DEF PartAfter
    <2> QED BY <1>2, <2>6 DEF Replaced
  <1> QED BY <1>1, <1>2

(* Forwarding from a complete report keeps the guard of the request. *)
LEMMA ForwardedGuard ==
  ASSUME NEW b \in Bodies, NEW rep \in Report, Accounted(b.text, rep, NumLayers + 1),
         NEW x \in Forwarded(b, rep)
  PROVE  RequestGuard(x)
  <1> DEFINE q == Rewritten(b, rep)
  <1>1. /\ q.pc = "report" /\ q.body = b /\ q.report = rep
        /\ q.sent = IF rep.found = {} THEN SecretsIn(b.text) ELSE Replaced(b, rep.found)
        /\ q.status = StatusOf(rep)
    BY DEF Rewritten, IdleRequest
  <1>2. x = q \/ x = AsItCame(b)
    BY DEF Forwarded
  <1> HIDE DEF q
  <1>3. Straight(b) => q.sent \subseteq SecretsIn(b.text) \ rep.found
    BY <1>1, StraightReplaced
  <1>4. RequestGuard(q)
    BY <1>1, <1>3 DEF RequestGuard
  <1> QED BY <1>2, <1>4, UnguardedStatus

(* The strengthened invariant implies the property. *)
LEMMA HonestInvImplies == TypeOK /\ HonestInv => HonestStatus
  <1> SUFFICES ASSUME TypeOK, HonestInv,
                      NEW r \in Requests, req[r].pc = "done", req[r].status # "none",
                      Straight(req[r].body), NEW s \in req[r].sent \cap Guarded
               PROVE  /\ req[r].status \in {"partial", "passthrough"}
                      /\ LayerOf[s] \in Skipped(req[r].report)
    BY DEF HonestStatus
  <1>1. /\ req[r].sent \subseteq SecretsIn(req[r].body.text) \ req[r].report.found
        /\ req[r].status = StatusOf(req[r].report)
        /\ Accounted(req[r].body.text, req[r].report, NumLayers + 1)
    BY DEF HonestInv, RequestGuard
  <1>2. LayerOf[s] < NumLayers + 1
    BY GuardedLayer, GatewayAssumption DEF Layers
  <1>3. LayerOf[s] \in Skipped(req[r].report)
    BY <1>1, <1>2 DEF Accounted
  <1>4. req[r].status \in {"partial", "passthrough"}
    BY <1>1, <1>3 DEF StatusOf
  <1> QED BY <1>3, <1>4

(* A step of one request goroutine touches only its own record and, by     *)
(* Touch and Put, the cache.                                               *)
LEMMA RequestGuarded ==
  ASSUME TypeOK, HonestInv, NEW r \in Requests, Arrival(r) \/ RequestStep(r)
  PROVE  HonestInv'
  <1> USE GatewayAssumption DEF config
  <1>r. /\ req \in [Requests -> Request] /\ req[r] \in Request
        /\ req[r].body \in Bodies /\ req[r].report \in Report
        /\ req[r].at \in 1..(NumLayers + 1) /\ RequestGuard(req[r])
    BY DEF TypeOK, Request, HonestInv
  <1>s. SettingsGuard /\ CacheGuard /\ \A x \in Requests : RequestGuard(req[x])
    BY DEF HonestInv
  \* What is left to show once the settings are unchanged.
  <1>q. ASSUME NEW q, req' = [req EXCEPT ![r] = q], RequestGuard(q),
               UNCHANGED <<cfg, file, installed, settings, applier>>, CacheGuard'
        PROVE  HonestInv'
    <2>1. SettingsGuard'
      BY <1>q, <1>s DEF SettingsGuard, settings, Guards
    <2>2. \A x \in Requests : RequestGuard(req'[x])
      BY <1>q, <1>r, <1>s
    <2> QED BY <1>q, <2>1, <2>2 DEF HonestInv
  <1>c. ASSUME cache'.items = cache.items PROVE CacheGuard'
    BY <1>c, <1>s DEF CacheGuard
  <1>1. ASSUME NEW b \in Bodies, NEW p \in Paths, NEW shape, PassThrough(r, b, p, shape)
        PROVE HonestInv'
    <2>1. req' = [req EXCEPT ![r] = AsItCame(b)]
          /\ UNCHANGED <<cfg, file, installed, settings, applier, cache>>
      BY <1>1 DEF PassThrough
    <2> QED BY <2>1, UnguardedStatus, <1>q, <1>c
  <1>0. ASSUME NEW p \in Paths, NoBody(r, p) PROVE HonestInv'
    <2> DEFINE q == [IdleRequest EXCEPT !.pc = "done", !.status = "passthrough"]
    <2>1. q.pc = "done" /\ q.sent = {}
      BY DEF IdleRequest
    <2>2. req' = [req EXCEPT ![r] = q] /\ UNCHANGED <<cfg, file, installed, settings, applier, cache>>
      BY <1>0 DEF NoBody
    <2> HIDE DEF q
    <2>3. RequestGuard(q)
      BY <2>1 DEF RequestGuard
    <2> QED BY <2>2, <2>3, <1>q, <1>c
  <1>2. ASSUME NEW b \in Bodies, NEW p \in Paths, CacheHit(r, b, p) PROVE HonestInv'
    <2>1. b.text \in DOMAIN cache.items /\ cache.items[b.text] \in Report
      BY <1>2 DEF CacheHit, Cached, TypeOK
    <2>2. PICK q \in Forwarded(b, cache.items[b.text]) : req' = [req EXCEPT ![r] = q]
      BY <1>2 DEF CacheHit
    <2>3. RequestGuard(q)
      BY <2>1, <2>2, <1>s, ForwardedGuard DEF CacheGuard
    <2>4. cache'.items = cache.items /\ UNCHANGED <<cfg, file, installed, settings, applier>>
      BY <1>2 DEF CacheHit, Touch
    <2> QED BY <2>2, <2>3, <2>4, <1>q, <1>c
  <1>3. ASSUME NEW b \in Bodies, NEW p \in Paths, CacheMiss(r, b, p) PROVE HonestInv'
    <2> DEFINE q == [IdleRequest EXCEPT !.pc = "layer", !.body = b]
    <2>1. q.pc = "layer" /\ q.at = 1 /\ q.body = b
      BY DEF IdleRequest
    <2>2. req' = [req EXCEPT ![r] = q] /\ UNCHANGED <<cfg, file, installed, settings, applier, cache>>
      BY <1>3 DEF CacheMiss
    <2> HIDE DEF q
    <2>3. RequestGuard(q)
      BY <2>1, GuardedLayer DEF RequestGuard, Accounted, Layers
    <2> QED BY <2>2, <2>3, <1>q, <1>c
  <1>4. CASE LayerStart(r)
    <2> DEFINE q == [req[r] EXCEPT !.pc = "wait", !.armed = timed]
    <2>1. req' = [req EXCEPT ![r] = q] /\ UNCHANGED <<cfg, file, installed, settings, applier, cache>>
      BY <1>4 DEF LayerStart
    <2>2. q.pc = "wait" /\ q.at = req[r].at /\ q.body = req[r].body /\ q.report = req[r].report
      BY <1>r DEF Request
    <2>3. req[r].pc = "layer"
      BY <1>4 DEF LayerStart
    <2> HIDE DEF q
    <2>4. RequestGuard(q)
      BY <2>2, <2>3, <1>r DEF RequestGuard
    <2> QED BY <2>1, <2>4, <1>q, <1>c
  <1>5. CASE LayerUnready(r)
    <2> DEFINE q == [req[r] EXCEPT !.at = @ + 1, !.report.unready = @ \cup {req[r].at}]
    <2>1. req' = [req EXCEPT ![r] = q] /\ UNCHANGED <<cfg, file, installed, settings, applier, cache>>
      BY <1>5 DEF LayerUnready
    <2>2. /\ q.pc = req[r].pc /\ q.at = req[r].at + 1 /\ q.body = req[r].body
          /\ q.report.found = req[r].report.found
          /\ q.report.unready = req[r].report.unready \cup {req[r].at}
          /\ q.report.failed = req[r].report.failed
      BY <1>r DEF Request, Report
    <2>3. req[r].pc = "layer"
      BY <1>5 DEF LayerUnready
    <2> HIDE DEF q
    <2>4. Accounted(q.body.text, q.report, q.at)
      BY <2>2, <2>3, <1>r, GuardedLayer DEF RequestGuard, Accounted, Skipped, Layers
    <2>5. RequestGuard(q)
      BY <2>2, <2>3, <2>4 DEF RequestGuard
    <2> QED BY <2>1, <2>5, <1>q, <1>c
  <1>6. CASE LayerFinds(r)
    <2> DEFINE new == Found(req[r].at, req[r].body.text)
               q == [req[r] EXCEPT !.pc = "layer", !.at = @ + 1, !.armed = FALSE,
                                   !.report.found = @ \cup new]
    <2>1. req' = [req EXCEPT ![r] = q] /\ UNCHANGED <<cfg, file, installed, settings, applier, cache>>
      BY <1>6, ZenonT(30) DEF LayerFinds
    <2>2. /\ q.pc = "layer" /\ q.at = req[r].at + 1 /\ q.body = req[r].body
          /\ q.report.found = req[r].report.found \cup new
          /\ q.report.unready = req[r].report.unready
          /\ q.report.failed = req[r].report.failed
      BY <1>r DEF Request, Report
    <2>3. req[r].pc = "wait"
      BY <1>6 DEF LayerFinds
    <2>4. \A s \in SecretsIn(req[r].body.text) \cap Guarded : LayerOf[s] = req[r].at => s \in new
      BY <1>s DEF SettingsGuard, Found
    <2> HIDE DEF q, new
    <2>5. Accounted(q.body.text, q.report, q.at)
      BY <2>2, <2>3, <2>4, <1>r, GuardedLayer DEF RequestGuard, Accounted, Skipped, Layers
    <2>6. RequestGuard(q)
      BY <2>2, <2>5 DEF RequestGuard
    <2> QED BY <2>1, <2>6, <1>q, <1>c
  <1>7. CASE LayerFails(r)
    <2> DEFINE q == [req[r] EXCEPT !.pc = "layer", !.at = @ + 1, !.armed = FALSE,
                                   !.report.failed = @ \cup {req[r].at}]
    <2>1. req' = [req EXCEPT ![r] = q] /\ UNCHANGED <<cfg, file, installed, settings, applier, cache>>
      BY <1>7, ZenonT(30) DEF LayerFails
    <2>2. /\ q.pc = "layer" /\ q.at = req[r].at + 1 /\ q.body = req[r].body
          /\ q.report.found = req[r].report.found
          /\ q.report.unready = req[r].report.unready
          /\ q.report.failed = req[r].report.failed \cup {req[r].at}
      BY <1>r DEF Request, Report
    <2>3. req[r].pc = "wait"
      BY <1>7 DEF LayerFails
    <2> HIDE DEF q
    <2>4. Accounted(q.body.text, q.report, q.at)
      BY <2>2, <2>3, <1>r, GuardedLayer DEF RequestGuard, Accounted, Skipped, Layers
    <2>5. RequestGuard(q)
      BY <2>2, <2>4 DEF RequestGuard
    <2> QED BY <2>1, <2>5, <1>q, <1>c
  <1>8. CASE FilterBegin(r)
    <2> DEFINE q == [req[r] EXCEPT !.pc = "filter",
                       !.todo = IF allowed = {} THEN {} ELSE req[r].report.found]
    <2>1. req' = [req EXCEPT ![r] = q] /\ UNCHANGED <<cfg, file, installed, settings, applier, cache>>
      BY <1>8 DEF FilterBegin
    <2>2. q.pc = "filter" /\ q.body = req[r].body /\ q.report = req[r].report
      BY <1>r DEF Request
    <2>3. req[r].pc = "layer" /\ req[r].at = NumLayers + 1
      BY <1>8 DEF FilterBegin
    <2> HIDE DEF q
    <2>4. RequestGuard(q)
      BY <2>2, <2>3, <1>r DEF RequestGuard
    <2> QED BY <2>1, <2>4, <1>q, <1>c
  <1>9. CASE FilterOne(r)
    <2>1. PICK s \in req[r].todo :
            req' = [req EXCEPT ![r].todo = @ \ {s},
                               ![r].report.found = IF s \in allowed THEN @ \ {s} ELSE @]
      BY <1>9 DEF FilterOne
    <2> DEFINE q == [req[r] EXCEPT !.todo = @ \ {s},
                       !.report.found = IF s \in allowed THEN @ \ {s} ELSE @]
    <2>2. req' = [req EXCEPT ![r] = q] /\ UNCHANGED <<cfg, file, installed, settings, applier, cache>>
      BY <1>9, <2>1, ZenonT(30) DEF FilterOne
    <2>3. /\ q.pc = req[r].pc /\ q.body = req[r].body
          /\ q.report.found = IF s \in allowed THEN req[r].report.found \ {s}
                              ELSE req[r].report.found
          /\ q.report.unready = req[r].report.unready
          /\ q.report.failed = req[r].report.failed
      BY <1>r DEF Request, Report
    <2>4. req[r].pc = "filter"
      BY <1>9 DEF FilterOne
    <2>5. s \in allowed => s \notin Guarded
      BY <1>s DEF SettingsGuard
    <2> HIDE DEF q
    <2>6. Accounted(q.body.text, q.report, NumLayers + 1)
      BY <2>3, <2>4, <2>5, <1>r DEF RequestGuard, Accounted, Skipped
    <2>7. RequestGuard(q)
      BY <2>3, <2>4, <2>6 DEF RequestGuard
    <2> QED BY <2>2, <2>7, <1>q, <1>c
  <1>10. CASE PutAndForward(r)
    <2>1. Accounted(req[r].body.text, req[r].report, NumLayers + 1)
      BY <1>10, <1>r DEF PutAndForward, RequestGuard
    <2>0. PICK q \in Forwarded(req[r].body, req[r].report) : req' = [req EXCEPT ![r] = q]
      BY <1>10 DEF PutAndForward
    <2>2. RequestGuard(q)
      BY <2>0, <2>1, <1>r, ForwardedGuard
    <2>3. cache' = Put(cache, req[r].body.text, req[r].report, MaxSize)
      BY <1>10 DEF PutAndForward
    <2>4. CacheGuard'
      <3> SUFFICES ASSUME NEW t \in DOMAIN cache'.items
                   PROVE  Accounted(t, cache'.items[t], NumLayers + 1)
        BY DEF CacheGuard
      <3>1. CASE t = req[r].body.text
        BY <2>1, <2>3, <3>1, PutEntries
      <3>2. CASE t # req[r].body.text
        <4>1. t \in DOMAIN cache.items /\ cache'.items[t] = cache.items[t]
          BY <2>3, <3>2, PutEntries
        <4> QED BY <4>1, <1>s DEF CacheGuard
      <3> QED BY <3>1, <3>2
    <2>5. UNCHANGED <<cfg, file, installed, settings, applier>>
      BY <1>10 DEF PutAndForward
    <2> QED BY <2>0, <2>2, <2>4, <2>5, <1>q
  <1>11. CASE Respond(r)
    <2>1. req' = [req EXCEPT ![r] = IdleRequest]
          /\ UNCHANGED <<cfg, file, installed, settings, applier, cache>>
      BY <1>11 DEF Respond
    <2> QED BY <2>1, IdleGuard, <1>q, <1>c
  <1>12. CASE ReportScan(r)
    <2> DEFINE q == [req[r] EXCEPT !.pc = "done"]
    <2>1. req' = [req EXCEPT ![r] = q] /\ UNCHANGED <<cfg, file, installed, settings, applier, cache>>
      BY <1>12 DEF ReportScan, config
    <2>2. /\ q.pc = "done" /\ q.body = req[r].body /\ q.report = req[r].report
          /\ q.sent = req[r].sent /\ q.status = req[r].status
      BY <1>r DEF Request
    <2>3. req[r].pc = "report"
      BY <1>12 DEF ReportScan
    <2> HIDE DEF q
    <2>4. RequestGuard(q)
      BY <2>2, <2>3, <1>r DEF RequestGuard
    <2> QED BY <2>1, <2>4, <1>q, <1>c
  <1> QED BY <1>0, <1>1, <1>2, <1>3, <1>4, <1>5, <1>6, <1>7, <1>8, <1>9, <1>10, <1>11, <1>12
          DEF Arrival, RequestStep

(* A step of one applier carries only configurations that guard.           *)
LEMMA ApplierGuarded ==
  ASSUME TypeOK, HonestInv, NEW a \in Appliers, Change(a) \/ ApplierStep(a)
  PROVE  HonestInv'
  <1> USE GatewayAssumption DEF config
  <1>r. applier \in [Appliers -> Applier] /\ applier[a] \in Applier
    BY DEF TypeOK
  <1>s. /\ SettingsGuard /\ CacheGuard /\ \A x \in Requests : RequestGuard(req[x])
        /\ Guards(cfg) /\ Guards(file) /\ Guards(applier[a].cfg) /\ applier[a].todo \cap Guarded = {}
    BY DEF HonestInv, SettingsGuard
  \* The requests are never touched, the cache at most emptied.
  <1>c. ASSUME cache' = cache \/ cache' = EmptyCache PROVE CacheGuard'
    BY <1>c, <1>s DEF CacheGuard, EmptyCache
  <1>q. ASSUME NEW q, applier' = [applier EXCEPT ![a] = q],
               Guards(q.cfg), q.todo \cap Guarded = {}, Guards(cfg'), Guards(file'),
               \A s \in Guarded : s \in installed'[LayerOf[s]],
               allowed' \cap Guarded = {},
               req' = req, cache' = cache \/ cache' = EmptyCache
        PROVE  HonestInv'
    <2>1. \A b \in Appliers : Guards(applier'[b].cfg) /\ applier'[b].todo \cap Guarded = {}
      BY <1>q, <1>r, <1>s DEF SettingsGuard
    <2>2. SettingsGuard'
      BY <2>1, <1>q DEF SettingsGuard, Guards
    <2> QED BY <2>2, <1>q, <1>c, <1>s DEF HonestInv
  <1>i. (\A s \in Guarded : s \in installed[LayerOf[s]]) /\ allowed \cap Guarded = {}
    BY <1>s DEF SettingsGuard
  <1>1. ASSUME NEW c \in Configs, PutRules(a, c.rules) PROVE HonestInv'
    <2> DEFINE q == [applier[a] EXCEPT !.pc = "get", !.kind = "put"]
    <2>1. /\ applier' = [applier EXCEPT ![a] = q] /\ cfg' = [cfg EXCEPT !.rules = c.rules]
          /\ file' = cfg'
          /\ UNCHANGED <<installed, allowed, req, cache>>
      BY <1>1 DEF PutRules, settings
    <2>2. q.cfg = applier[a].cfg /\ q.todo = applier[a].todo
      BY <1>r DEF Applier
    <2>3. cfg'.rules = c.rules /\ cfg'.allowed = cfg.allowed
      BY <2>1 DEF TypeOK, Config
    <2>4. Guards(cfg')
      BY <2>3, <1>s, ConfigsGuard DEF Guards
    <2> HIDE DEF q
    <2> QED BY <2>1, <2>2, <2>4, <1>s, <1>i, <1>q
  <1>2. ASSUME NEW c \in Configs \cup {file}, WatcherReload(a, c) PROVE HonestInv'
    <2> DEFINE q == [applier[a] EXCEPT !.pc = "sink", !.kind = "watch", !.cfg = c, !.at = 1]
    <2>1. /\ applier' = [applier EXCEPT ![a] = q] /\ cfg' = c /\ file' = c
          /\ UNCHANGED <<installed, allowed, req, cache>>
      BY <1>2 DEF WatcherReload, settings
    <2>2. q.cfg = c /\ q.todo = applier[a].todo
      BY <1>r DEF Applier
    <2>3. Guards(c)
      BY <1>s, ConfigsGuard
    <2> HIDE DEF q
    <2> QED BY <2>1, <2>2, <2>3, <1>s, <1>i, <1>q
  <1>3. CASE PutRulesGet(a)
    <2> DEFINE q == [applier[a] EXCEPT !.pc = "sink", !.cfg = cfg, !.at = 1]
    <2>1. /\ applier' = [applier EXCEPT ![a] = q]
          /\ UNCHANGED <<cfg, file, installed, allowed, req, cache>>
      BY <1>3 DEF PutRulesGet, settings
    <2>2. q.cfg = cfg /\ q.todo = applier[a].todo
      BY <1>r DEF Applier
    <2> HIDE DEF q
    <2> QED BY <2>1, <2>2, <1>s, <1>i, <1>q
  <1>4. CASE ApplySink(a)
    <2> DEFINE q == [applier[a] EXCEPT !.at = @ + 1]
               k == applier[a].at
    <2>1. /\ applier' = [applier EXCEPT ![a] = q] /\ k \in Sinks
          /\ installed' = [installed EXCEPT ![k] = RulesFor(k, applier[a].cfg)]
          /\ UNCHANGED <<cfg, file, allowed, req, cache>>
      BY <1>4 DEF ApplySink, settings
    <2>2. q.cfg = applier[a].cfg /\ q.todo = applier[a].todo
      BY <1>r DEF Applier
    <2> HIDE DEF q, k
    <2>3. ASSUME NEW s \in Guarded PROVE s \in installed'[LayerOf[s]]
      <3>1. LayerOf[s] \in Sinks /\ installed \in [Sinks -> SUBSET Secrets]
        BY GuardedLayer DEF TypeOK
      <3>2. LayerOf[s] = k => s \in RulesFor(k, applier[a].cfg)
        BY <1>s, RulesForGuard
      <3> QED BY <3>1, <3>2, <2>1, <1>i
    <2> QED BY <2>1, <2>2, <2>3, <1>s, <1>i, <1>q
  <1>5. CASE ApplyInvalidate(a)
    <2> DEFINE q == IF applier[a].kind = "put" THEN IdleApplier
                    ELSE [applier[a] EXCEPT !.pc = "words"]
    <2>1. /\ applier' = [applier EXCEPT ![a] = q] /\ cache' = EmptyCache
          /\ UNCHANGED <<cfg, file, installed, allowed, req>>
      BY <1>5 DEF ApplyInvalidate, settings
    <2>2. Guards(q.cfg) /\ q.todo \cap Guarded = {}
      BY <1>r, <1>s, IdleGuard DEF Applier
    <2> HIDE DEF q
    <2> QED BY <2>1, <2>2, <1>s, <1>i, <1>q
  <1>6. CASE ApplyWordsReset(a)
    <2> DEFINE q == [applier[a] EXCEPT !.pc = "tail", !.todo = applier[a].cfg.allowed]
    <2>1. /\ applier' = [applier EXCEPT ![a] = q] /\ allowed' = {}
          /\ UNCHANGED <<cfg, file, installed, req, cache>>
      BY <1>6 DEF ApplyWordsReset
    <2>2. q.cfg = applier[a].cfg /\ q.todo = applier[a].cfg.allowed
      BY <1>r DEF Applier
    <2>3. q.todo \cap Guarded = {}
      BY <2>2, <1>s DEF Guards
    <2> HIDE DEF q
    <2> QED BY <2>1, <2>2, <2>3, <1>s, <1>i, <1>q
  <1>7. CASE ApplyWord(a)
    <2>1. PICK w \in applier[a].todo :
            /\ allowed' = allowed \cup {w}
            /\ applier' = [applier EXCEPT ![a].todo = @ \ {w}]
      BY <1>7 DEF ApplyWord
    <2> DEFINE q == [applier[a] EXCEPT !.todo = @ \ {w}]
    <2>2. applier' = [applier EXCEPT ![a] = q] /\ UNCHANGED <<cfg, file, installed, req, cache>>
      BY <1>7, <2>1 DEF ApplyWord
    <2>3. q.cfg = applier[a].cfg /\ q.todo = applier[a].todo \ {w}
      BY <1>r DEF Applier
    <2>4. q.todo \cap Guarded = {} /\ allowed' \cap Guarded = {}
      BY <2>1, <2>3, <1>s, <1>i
    <2> HIDE DEF q
    <2> QED BY <2>2, <2>3, <2>4, <1>s, <1>i, <1>q
  <1>8. CASE ApplyTail(a)
    <2>1. /\ applier' = [applier EXCEPT ![a] = IdleApplier]
          /\ UNCHANGED <<cfg, file, installed, allowed, req, cache>>
      BY <1>8 DEF ApplyTail
    <2> QED BY <2>1, IdleGuard, <1>s, <1>i, <1>q
  <1> QED BY <1>1, <1>2, <1>3, <1>4, <1>5, <1>6, <1>7, <1>8 DEF Change, ApplierStep

(* What a start installs guards, if the configuration does. *)
LEMMA BootGuard ==
  ASSUME NEW c, Guards(c)
  PROVE  \A s \in Guarded : s \in BootSinks(c)[LayerOf[s]]
  BY GuardedLayer, RulesForGuard DEF BootSinks

(* The strengthened invariant is inductive. *)
LEMMA HonestInductive ==
  ASSUME TypeOK, HonestInv, [Next]_vars
  PROVE  HonestInv'
  <1> USE GatewayAssumption DEF config
  <1>s. /\ SettingsGuard /\ CacheGuard /\ \A x \in Requests : RequestGuard(req[x])
        /\ Guards(cfg) /\ Guards(file) /\ allowed \cap Guarded = {}
        /\ \A s \in Guarded : s \in installed[LayerOf[s]]
        /\ \A a \in Appliers : Guards(applier[a].cfg) /\ applier[a].todo \cap Guarded = {}
    BY DEF HonestInv, SettingsGuard
  <1>q. ASSUME UNCHANGED <<installed, allowed, req, applier>>, Guards(cfg'), Guards(file'),
               cache' = cache \/ cache' = EmptyCache
        PROVE  HonestInv'
    <2>1. SettingsGuard'
      BY <1>q, <1>s DEF SettingsGuard, Guards
    <2>2. CacheGuard'
      BY <1>q, <1>s DEF CacheGuard, EmptyCache
    <2> QED BY <2>1, <2>2, <1>q, <1>s DEF HonestInv
  <1>1. ASSUME NEW r \in Requests, Arrival(r) \/ RequestStep(r) PROVE HonestInv'
    BY <1>1, RequestGuarded
  <1>2. ASSUME NEW a \in Appliers, Change(a) \/ ApplierStep(a) PROVE HonestInv'
    BY <1>2, ApplierGuarded
  <1>3. ASSUME NEW c \in Configs, PutConfig(c) PROVE HonestInv'
    BY <1>3, <1>q, ConfigsGuard DEF PutConfig, settings
  <1>9. ASSUME NEW c \in Configs, SaveFails(c) PROVE HonestInv'
    <2>1. Guards(cfg')
      <3>1. CASE cfg' = c BY <3>1, ConfigsGuard
      <3>2. CASE cfg' = [cfg EXCEPT !.rules = c.rules]
        <4>1. cfg'.rules = c.rules /\ cfg'.allowed = cfg.allowed
          BY <3>2 DEF TypeOK, Config
        <4> QED BY <4>1, <1>s, ConfigsGuard DEF Guards
      <3> QED BY <1>9, <3>1, <3>2 DEF SaveFails
    <2> QED BY <1>9, <2>1, <1>q, <1>s DEF SaveFails, settings
  <1>10. CASE HubTurns
    BY <1>10, <1>q, <1>s DEF HubTurns, settings
  <1>4. ASSUME NEW l \in LazyLayers, LayerLoaded(l) PROVE HonestInv'
    BY <1>4, <1>q, <1>s DEF LayerLoaded, settings
  <1>5. CASE ClearCache
    BY <1>5, <1>q, <1>s DEF ClearCache, settings
  <1>6. CASE MapFault
    BY <1>6, <1>q, <1>s DEF MapFault, settings
  <1>7. CASE UNCHANGED vars
    BY <1>7, <1>q, <1>s DEF vars
  <1>8. CASE Restart
    <2>1. /\ installed' = BootSinks(file) /\ allowed' = file.allowed
          /\ cfg' = file /\ file' = file
          /\ cache' = EmptyCache
          /\ req' = [r \in Requests |-> IdleRequest]
          /\ applier' = [a \in Appliers |-> IdleApplier]
      BY <1>8 DEF Restart
    <2>2. SettingsGuard'
      BY <2>1, <1>s, IdleGuard, BootGuard DEF SettingsGuard, Guards
    <2>3. CacheGuard'
      BY <2>1 DEF CacheGuard, EmptyCache
    <2>4. \A r \in Requests : RequestGuard(req'[r])
      BY <2>1, IdleGuard
    <2> QED BY <2>2, <2>3, <2>4 DEF HonestInv
  <1> QED BY <1>1, <1>2, <1>3, <1>4, <1>5, <1>6, <1>7, <1>8, <1>9, <1>10 DEF Next

(* proxy.go 163-179 with coordinator.go: the X-Redactr-Status header never *)
(* claims more than was done, for any numbers of requests, appliers,       *)
(* layers, texts, secrets and configurations, and any cache size, for      *)
(* every body but those with an empty part or a secret over a line's end.  *)
THEOREM StatusIsHonest == Spec => []HonestStatus
  <1>1. Init => HonestInv
    <2> SUFFICES ASSUME Init PROVE HonestInv
      OBVIOUS
    <2>1. Guards(cfg) /\ file = cfg
      BY ConfigsGuard DEF Init
    <2>2. SettingsGuard
      BY <2>1, IdleGuard, BootGuard DEF Init, SettingsGuard, Guards
    <2>3. CacheGuard
      BY DEF Init, CacheGuard, EmptyCache
    <2>4. \A r \in Requests : RequestGuard(req[r])
      BY IdleGuard DEF Init
    <2> QED BY <2>2, <2>3, <2>4 DEF HonestInv
  <1>2. TypeOK /\ HonestInv /\ [Next]_vars => HonestInv'
    BY HonestInductive
  <1> QED BY <1>1, <1>2, TypeCorrect, HonestInvImplies, PTL DEF Spec

-----------------------------------------------------------------------------
(* A configuration is installed in full by a reload that has nobody beside *)
(* it.  The invariant says how far that reload has come: the sinks it is   *)
(* past and the words it has inserted.  Nobody else can be at work without *)
(* the appliers having overlapped, and no PUT without the file waiting for *)
(* a reload.                                                               *)
AllInstalled ==
  /\ installed = BootSinks(file)
  /\ allowed = file.allowed /\ timed = file.timed /\ bypass = file.bypass

Applying(x) ==
  /\ x.pc \in {"sink", "words", "tail"} /\ x.kind = "watch" /\ x.cfg = file
  /\ x.pc = "sink" => \A k \in Sinks : k < x.at => installed[k] = RulesFor(k, file)
  /\ x.pc \in {"words", "tail"} => installed = BootSinks(file)
  /\ x.pc = "tail" => allowed \cup x.todo = file.allowed

ApplyInv ==
  up /\ synced /\ ~overlapped =>
    /\ (\A a \in Appliers : applier[a].pc = "idle") => AllInstalled
    /\ \A a \in Appliers : applier[a].pc # "idle" =>
         Applying(applier[a]) /\ ~OthersAtWork(a)

(* Steps that touch neither the settings nor the applier. *)
LEMMA ApplyFrame ==
  ASSUME ApplyInv,
         UNCHANGED <<file, synced, overlapped, installed, allowed, timed, bypass, applier>>,
         up' => up
  PROVE  ApplyInv'
  BY DEF ApplyInv, Applying, AllInstalled, BootSinks, RulesFor, OthersAtWork

(* The requests touch none of it. *)
LEMMA RequestFrame ==
  ASSUME NEW r \in Requests, Arrival(r) \/ RequestStep(r)
  PROVE  UNCHANGED <<up, file, synced, overlapped, installed, allowed, timed, bypass, applier>>
  <1>1. CASE Arrival(r)
    BY <1>1 DEF Arrival, PassThrough, NoBody, CacheHit, CacheMiss, settings, config
  <1>2. CASE RequestStep(r)
    BY <1>2 DEF RequestStep, LayerUnready, LayerStart, LayerFinds, LayerFails,
                FilterBegin, FilterOne, PutAndForward, ReportScan, Respond, settings, config
  <1> QED BY <1>1, <1>2

(* An applier that begins: a reload alone installs everything anew, and    *)
(* anything else is on record.                                             *)
LEMMA ChangeApplies ==
  ASSUME TypeOK, ApplyInv, NEW a \in Appliers, Change(a)
  PROVE  ApplyInv'
  <1>1. applier \in [Appliers -> Applier] BY DEF TypeOK
  <1>2. ASSUME NEW c \in Configs, PutRules(a, c.rules) PROVE ApplyInv'
    BY <1>2 DEF PutRules, ApplyInv
  <1>3. ASSUME NEW c \in Configs \cup {file}, WatcherReload(a, c) PROVE ApplyInv'
    <2> SUFFICES ASSUME ~overlapped' PROVE ApplyInv'
      BY DEF ApplyInv
    <2>1. \A b \in Appliers : b # a => applier[b].pc = "idle" /\ applier'[b] = applier[b]
      BY <1>1, <1>3 DEF WatcherReload, OthersAtWork
    <2>2. /\ applier'[a].pc = "sink" /\ applier'[a].kind = "watch"
          /\ applier'[a].cfg = file' /\ applier'[a].at = 1
      BY <1>1, <1>3 DEF WatcherReload, Applier
    <2>3. Applying(applier[a])'
      BY <2>2 DEF Applying, Sinks
    <2>4. ~OthersAtWork(a)'
      BY <2>1 DEF OthersAtWork
    <2> QED BY <2>1, <2>2, <2>3, <2>4 DEF ApplyInv
  <1> QED BY <1>2, <1>3 DEF Change

(* An applier's steps change no other, and neither file nor record. *)
LEMMA ApplierFrame ==
  ASSUME TypeOK, NEW a \in Appliers, ApplierStep(a)
  PROVE  /\ UNCHANGED <<up, file, synced, overlapped>>
         /\ applier[a].pc # "idle"
         /\ \A b \in Appliers : b # a => applier'[b] = applier[b]
  <1>1. applier \in [Appliers -> Applier] BY DEF TypeOK
  <1> QED BY <1>1 DEF ApplierStep, PutRulesGet, ApplySink, ApplyInvalidate, ApplyWordsReset,
                      ApplyWord, ApplyTail, config

(* The reload moves from one part of Applying to the next. *)
LEMMA ApplierApplies ==
  ASSUME TypeOK, ApplyInv, up, NEW a \in Appliers, ApplierStep(a)
  PROVE  ApplyInv'
  <1> DEFINE x == applier[a]
  <1>1. /\ applier \in [Appliers -> Applier] /\ x \in Applier
        /\ UNCHANGED <<up, file, synced, overlapped>> /\ x.pc # "idle"
        /\ \A b \in Appliers : b # a => applier'[b] = applier[b]
    BY ApplierFrame DEF TypeOK
  <1> SUFFICES ASSUME synced, ~overlapped PROVE ApplyInv'
    BY <1>1 DEF ApplyInv
  <1>2. Applying(x) /\ \A b \in Appliers : b # a => applier[b].pc = "idle"
    BY <1>1 DEF ApplyInv, OthersAtWork
  <1>3. \A b \in Appliers : b # a => applier'[b].pc = "idle"
    BY <1>1, <1>2
  <1>g. SUFFICES IF applier'[a].pc = "idle" THEN AllInstalled' ELSE Applying(applier[a])'
    BY <1>3 DEF ApplyInv, OthersAtWork
  <1>5. ~PutRulesGet(a) BY <1>2 DEF PutRulesGet, Applying
  <1>6. CASE ApplySink(a)
    <2>1. /\ applier'[a].pc = "sink" /\ applier'[a].cfg = x.cfg
          /\ applier'[a].kind = x.kind /\ applier'[a].at = x.at + 1
          /\ x.pc = "sink" /\ x.at \in Sinks
      BY <1>1, <1>6 DEF ApplySink, Applier
    <2>2. x.cfg = file /\ \A k \in Sinks : k < x.at => installed[k] = RulesFor(k, file)
      BY <1>2, <2>1 DEF Applying
    <2>3. ASSUME NEW k \in Sinks, k < x.at + 1 PROVE installed'[k] = RulesFor(k, file)
      <3>1. installed'[x.at] = RulesFor(x.at, file)
        BY <1>6, <2>1, <2>2 DEF ApplySink, TypeOK
      <3>2. k # x.at => installed'[k] = installed[k]
        BY <1>6 DEF ApplySink, TypeOK
      <3>3. k = x.at \/ k < x.at BY <2>1, <2>3 DEF Sinks
      <3> QED BY <2>2, <3>1, <3>2, <3>3
    <2>4. x.kind = "watch" BY <1>2 DEF Applying
    <2> QED BY <1>1, <2>1, <2>2, <2>3, <2>4 DEF Applying, RulesFor
  <1>7. CASE ApplyInvalidate(a)
    <2>1. /\ x.pc = "sink" /\ x.at = NumLayers + 2 /\ installed' = installed
      BY <1>7 DEF ApplyInvalidate
    <2>2. /\ x.cfg = file /\ x.kind = "watch"
          /\ \A k \in Sinks : k < x.at => installed[k] = RulesFor(k, file)
      BY <1>2, <2>1 DEF Applying
    <2>3. \A k \in Sinks : installed[k] = RulesFor(k, file)
      BY <2>1, <2>2, GatewayAssumption DEF Sinks, FileBlocker
    <2>4. installed = BootSinks(file)
      BY <2>3 DEF BootSinks, TypeOK
    <2>5. (installed = BootSinks(file))' BY <1>1, <2>1, <2>4 DEF BootSinks, RulesFor
    <2>6. applier'[a].pc = "words" /\ applier'[a].cfg = x.cfg /\ applier'[a].kind = "watch"
      BY <1>1, <1>7, <2>2 DEF ApplyInvalidate, Applier
    <2> QED BY <1>1, <2>2, <2>5, <2>6 DEF Applying
  <1>8. CASE ApplyWordsReset(a)
    <2>1. /\ x.pc = "words" /\ installed' = installed /\ allowed' = {}
          /\ applier'[a].pc = "tail" /\ applier'[a].cfg = x.cfg /\ applier'[a].kind = x.kind
          /\ applier'[a].todo = x.cfg.allowed
      BY <1>1, <1>8 DEF ApplyWordsReset, Applier
    <2>2. x.cfg = file /\ x.kind = "watch" /\ installed = BootSinks(file)
      BY <1>2, <2>1 DEF Applying
    <2>3. (installed = BootSinks(file))' BY <1>1, <2>1, <2>2 DEF BootSinks, RulesFor
    <2>4. allowed' \cup applier'[a].todo = file'.allowed BY <1>1, <2>1, <2>2
    <2> QED BY <1>1, <2>1, <2>2, <2>3, <2>4 DEF Applying
  <1>9. CASE ApplyWord(a)
    <2> PICK w \in x.todo : /\ allowed' = allowed \cup {w}
                            /\ applier' = [applier EXCEPT ![a].todo = @ \ {w}]
      BY <1>9 DEF ApplyWord
    <2>1. /\ x.pc = "tail" /\ installed' = installed
          /\ applier'[a].pc = "tail" /\ applier'[a].cfg = x.cfg /\ applier'[a].kind = x.kind
          /\ applier'[a].todo = x.todo \ {w}
      BY <1>1, <1>9 DEF ApplyWord, Applier
    <2>2. /\ x.cfg = file /\ x.kind = "watch" /\ installed = BootSinks(file)
          /\ allowed \cup x.todo = file.allowed
      BY <1>2, <2>1 DEF Applying
    <2>3. (installed = BootSinks(file))' BY <1>1, <2>1, <2>2 DEF BootSinks, RulesFor
    <2>4. allowed' \cup applier'[a].todo = file'.allowed BY <1>1, <2>1, <2>2
    <2> QED BY <1>1, <2>1, <2>2, <2>3, <2>4 DEF Applying
  <1>10. CASE ApplyTail(a)
    <2>1. /\ x.pc = "tail" /\ x.todo = {}
          /\ UNCHANGED <<installed, allowed>>
          /\ timed' = x.cfg.timed /\ bypass' = x.cfg.bypass
          /\ applier'[a].pc = "idle"
      BY <1>1, <1>10 DEF ApplyTail, IdleApplier
    <2>2. x.cfg = file /\ installed = BootSinks(file) /\ allowed \cup x.todo = file.allowed
      BY <1>2, <2>1 DEF Applying
    <2>3. (installed = BootSinks(file))' BY <1>1, <2>1, <2>2 DEF BootSinks, RulesFor
    <2> QED BY <1>1, <2>1, <2>2, <2>3 DEF AllInstalled
  <1> QED BY <1>5, <1>6, <1>7, <1>8, <1>9, <1>10 DEF ApplierStep

LEMMA ApplyInductive ==
  ASSUME TypeOK, ApplyInv, [Next]_vars
  PROVE  ApplyInv'
  <1>1. ASSUME NEW r \in Requests, Arrival(r) \/ RequestStep(r) PROVE ApplyInv'
    BY <1>1, RequestFrame, ApplyFrame
  <1>2. ASSUME up, NEW a \in Appliers, Change(a) \/ ApplierStep(a) PROVE ApplyInv'
    BY <1>2, ChangeApplies, ApplierApplies
  <1>3. ASSUME NEW c \in Configs, PutConfig(c) PROVE ApplyInv'
    BY <1>3 DEF PutConfig, ApplyInv
  <1>9. ASSUME NEW c \in Configs, SaveFails(c) PROVE ApplyInv'
    BY <1>9, ApplyFrame DEF SaveFails, settings
  <1>10. CASE HubTurns BY <1>10, ApplyFrame DEF HubTurns, settings, config
  <1>4. ASSUME NEW l \in LazyLayers, LayerLoaded(l) PROVE ApplyInv'
    BY <1>4, ApplyFrame DEF LayerLoaded, settings, config
  <1>5. CASE ClearCache BY <1>5, ApplyFrame DEF ClearCache, settings, config
  <1>6. CASE MapFault BY <1>6 DEF MapFault, ApplyInv
  <1>7. CASE UNCHANGED vars BY <1>7, ApplyFrame DEF vars
  <1>8. CASE Restart
    <2>1. AllInstalled' /\ \A a \in Appliers : applier'[a].pc = "idle"
      BY <1>8 DEF Restart, AllInstalled, BootSinks, RulesFor, IdleApplier
    <2> QED BY <2>1 DEF ApplyInv
  <1> QED BY <1>1, <1>2, <1>3, <1>4, <1>5, <1>6, <1>7, <1>8, <1>9, <1>10 DEF Next

(* Nothing of a configuration is left out: once a reload that had nobody   *)
(* beside it is over, every layer, the file blocker, the allowed words,    *)
(* the timeout and the bypass rules are config.yaml's, across PUTs, saves  *)
(* that fail, crashes and restarts, for any number of appliers, layers and *)
(* configurations and any number of requests meanwhile.                    *)
THEOREM ChangesInstalled == Spec => []ConfigInstalled
  <1>1. Init => ApplyInv
    BY DEF Init, ApplyInv, AllInstalled, IdleApplier
  <1>2. TypeOK /\ ApplyInv /\ [Next]_vars => ApplyInv'
    BY ApplyInductive
  <1>3. ApplyInv => ConfigInstalled
    BY DEF ApplyInv, ConfigInstalled, Quiet, AllInstalled
  <1> QED BY <1>1, <1>2, <1>3, TypeCorrect, PTL DEF Spec
=============================================================================
