------------------------------ MODULE Gateway ------------------------------
(***************************************************************************)
(* The redaction path of the daemon while its configuration changes:       *)
(*   - proxied requests (internal/proxy/proxy.go, one goroutine each) that *)
(*     go through Coordinator.ScanAndRedact: cache, layered pipeline with  *)
(*     a timeout per layer, allowed-words filter, redaction, cache again;  *)
(*   - configuration appliers: PUT /api/rules (internal/api) and the       *)
(*     watcher callback (internal/daemon), which install a configuration   *)
(*     one component at a time with no lock around the whole;              *)
(*   - the GLiNER layer, which becomes ready some time after start-up.     *)
(*                                                                         *)
(* Data.  A text is a sequence of lines, each with the secrets that reach  *)
(* into it.  A secret is found by one detection rule, which belongs to one *)
(* layer, so the secret also names the rule, and a configuration's rules   *)
(* are the secrets whose rule is on.  Secrets do not overlap (Redaction.   *)
(* tla is about overlaps).  A body holds a text as a string or in parts.   *)
(***************************************************************************)
EXTENDS Naturals, Sequences, FiniteSets, ScanCache

CONSTANTS
  Requests,    \* concurrent proxied requests
  Appliers,    \* concurrent configuration appliers
  Texts,       \* last user messages
  Bodies,      \* request bodies
  Paths,       \* request paths a bypass rule can match
  Secrets,     \* secrets, with the rule that detects each
  NumLayers,   \* pipeline layers, in order 1..NumLayers
  LazyLayers,  \* layers behind a sidecar (GLiNER)
  LinesOf,     \* LinesOf[t]: the lines of text t
  LayerOf,     \* LayerOf[s]: the layer of the rule that finds s
  Uncompiled,  \* rules whose pattern regexp.Compile refuses
  Configs,     \* configurations a user may write to the file
  MaxSize      \* cfg.Scanning.CacheMaxSize

Layers == 1..NumLayers

Config == [rules : SUBSET Secrets, allowed : SUBSET Secrets,
           timed : BOOLEAN, threshold : Nat, bypass : SUBSET Paths]

Lines(t) == 1..Len(LinesOf[t])

(* ExtractLastUserMessage: the content is one string, or an array whose    *)
(* text and tool_result parts are joined by newlines.  parts[i] are the    *)
(* lines of the i-th of them; a tool_result without content adds none.     *)
Body ==
  {b \in [text : Texts, array : BOOLEAN, parts : Seq(SUBSET Nat)] :
     /\ \A i \in DOMAIN b.parts : b.parts[i] \subseteq Lines(b.text)
     /\ \A i, j \in DOMAIN b.parts :
          i < j => \A m \in b.parts[i], n \in b.parts[j] : m < n}

ASSUME GatewayAssumption ==
  /\ NumLayers \in Nat
  /\ LazyLayers \subseteq Layers
  /\ \A t \in Texts : LinesOf[t] \in Seq(SUBSET Secrets) /\ LinesOf[t] # <<>>
  /\ \A b \in Bodies : b \in Body
  /\ Bodies # {}
  /\ LayerOf \in [Secrets -> Layers]
  /\ Uncompiled \subseteq {s \in Secrets : LayerOf[s] \notin LazyLayers}
  /\ Configs \subseteq Config /\ Configs # {}
  /\ MaxSize \in Nat

(* Reconfigure fans out to the layers in order, then to the file blocker.  *)
FileBlocker == NumLayers + 1
Sinks == 1..FileBlocker

VARIABLES
  up,          \* FALSE after a Go runtime fault, until the next start
  cfg,         \* the configuration in config.Manager
  file,        \* the configuration in config.yaml
  synced,      \* FALSE while a write of the file awaits its reload
  overlapped,  \* appliers have been at work together since a reload began alone
  installed,   \* installed[k]: the rules sink k enforces
  layerUp,     \* layerUp[l]: "off" | "loading" | "ready" | "failed"
  allowed,     \* Coordinator.allowedWords
  timed,       \* Pipeline.timeoutMs > 0
  threshold,   \* entropy.Scanner's threshold
  bypass,      \* BypassMatcher.rules
  cache,       \* Coordinator.cache
  hubTakes,    \* Hub.Broadcast finds room for a report
  req,         \* req[r]: the request goroutines
  applier      \* applier[a]: the appliers

vars == <<up, cfg, file, synced, overlapped, installed, layerUp, allowed, timed,
          threshold, bypass, cache, hubTakes, req, applier>>

config == <<cfg, file, synced, overlapped>>
settings == <<allowed, timed, threshold, bypass>>

-----------------------------------------------------------------------------
(* Records.  A report says what was found and which layers did not run:    *)
(* not ready (unready), or an error or timeout (failed).                   *)
Report == [found : SUBSET Secrets, unready : SUBSET Layers, failed : SUBSET Layers]
NoReport == [found |-> {}, unready |-> {}, failed |-> {}]

Skipped(rep) == rep.unready \cup rep.failed

Statuses == {"none", "passthrough", "partial", "full", "clean"}

(* sent: the secrets the forwarded body still holds; status: the           *)
(* X-Redactr-Status header.  A request that waits, waits for a layer.      *)
Request ==
  {q \in [pc : {"idle", "layer", "wait", "filter", "report", "done"}, body : Bodies,
          at : 1..(NumLayers + 1), armed : BOOLEAN, todo : SUBSET Secrets,
          report : Report, sent : SUBSET Secrets, status : Statuses] :
     q.pc = "wait" => q.at \in Layers}

IdleRequest ==
  [pc |-> "idle", body |-> CHOOSE b \in Bodies : TRUE, at |-> 1, armed |-> FALSE,
   todo |-> {}, report |-> NoReport, sent |-> {}, status |-> "none"]

Applier ==
  [pc : {"idle", "get", "sink", "words", "tail"}, kind : {"put", "watch"},
   cfg : Config, at : 1..(NumLayers + 2), todo : SUBSET Secrets]

IdleApplier ==
  [pc |-> "idle", kind |-> "put", cfg |-> CHOOSE c \in Configs : TRUE,
   at |-> 1, todo |-> {}]

(* compilePatterns: a rule whose pattern does not compile is left out, on  *)
(* or off.                                                                 *)
Compiled(rules) == rules \ Uncompiled

(* What Effective/Reconfigure make of a configuration in each sink.        *)
RulesFor(k, c) == IF k = FileBlocker THEN c.rules
                  ELSE {s \in Compiled(c.rules) : LayerOf[s] = k}

SecretsIn(t) == UNION {LinesOf[t][n] : n \in Lines(t)}

(* What the rules installed in layer l find in text t. *)
Found(l, t) == {s \in SecretsIn(t) : LayerOf[s] = l /\ s \in installed[l]}

(* BypassMatcher.Match *)
Bypassed(p) == p \in bypass

(* What domain.Filter and ExtractLastUserMessage make of a request: a host *)
(* that is not intercepted, a body without a user message, or a chat.      *)
Shapes == {"foreign", "garbled", "chat"}

-----------------------------------------------------------------------------
(* ReplaceLastUserMessage.  A label holds no newline, so where a found     *)
(* secret reaches over the end of a line the redacted text has one line    *)
(* less.                                                                   *)
Joined(t, found, n) ==
  n + 1 \in Lines(t) /\ LinesOf[t][n] \cap LinesOf[t][n + 1] \cap found # {}

(* The line of the redacted text in which line n of the text ends up. *)
LineNo(t, found, n) == 1 + Cardinality({m \in 1..(n - 1) : ~Joined(t, found, m)})

LineCount(t, found) == LineNo(t, found, Len(LinesOf[t]))

RedactedLine(t, found, j) ==
  (UNION {LinesOf[t][n] : n \in {m \in Lines(t) : LineNo(t, found, m) = j}}) \ found

(* The text and tool_result parts get one line each of the redacted text,  *)
(* as long as there are any; then a part keeps what it held.               *)
PartAfter(b, found, i) ==
  IF i <= LineCount(b.text, found) THEN RedactedLine(b.text, found, i)
  ELSE UNION {LinesOf[b.text][n] : n \in b.parts[i]}

Replaced(b, found) ==
  IF b.array THEN UNION {PartAfter(b, found, i) : i \in DOMAIN b.parts}
  ELSE SecretsIn(b.text) \ found

(* A body the rewriting is right for: a string, or parts none of which is  *)
(* empty, with no secret that reaches from one line into the next.         *)
Straight(b) ==
  b.array =>
    /\ \A i \in DOMAIN b.parts : b.parts[i] # {}
    /\ \A n \in Lines(b.text) :
         n + 1 \in Lines(b.text) => LinesOf[b.text][n] \cap LinesOf[b.text][n + 1] = {}

-----------------------------------------------------------------------------
(* daemon.Build and Start: everything comes from the configuration; the    *)
(* sidecar is started only if one of its rules is on at that moment.       *)
BootSinks(c) == [k \in Sinks |-> RulesFor(k, c)]
BootLayers(c) ==
  [l \in Layers |-> IF l \notin LazyLayers THEN "ready"
                    ELSE IF RulesFor(l, c) # {} THEN "loading" ELSE "off"]

Init ==
  /\ up = TRUE
  /\ cfg \in Configs
  /\ file = cfg
  /\ synced = TRUE
  /\ overlapped = FALSE
  /\ installed = BootSinks(cfg)
  /\ layerUp = BootLayers(cfg)
  /\ allowed = cfg.allowed
  /\ timed = cfg.timed
  /\ threshold = cfg.threshold
  /\ bypass = cfg.bypass
  /\ cache = EmptyCache
  /\ hubTakes = TRUE
  /\ req = [r \in Requests |-> IdleRequest]
  /\ applier = [a \in Appliers |-> IdleApplier]

(* A fault takes the whole process down; the next start reads the file.    *)
Restart ==
  /\ ~up
  /\ up' = TRUE
  /\ cfg' = file
  /\ synced' = TRUE
  /\ overlapped' = FALSE
  /\ installed' = BootSinks(file)
  /\ layerUp' = BootLayers(file)
  /\ allowed' = file.allowed
  /\ timed' = file.timed
  /\ threshold' = file.threshold
  /\ bypass' = file.bypass
  /\ cache' = EmptyCache
  /\ hubTakes' = TRUE
  /\ req' = [r \in Requests |-> IdleRequest]
  /\ applier' = [a \in Appliers |-> IdleApplier]
  /\ UNCHANGED file

(* The health loop of daemon.Start: 120 probes, then it gives up. *)
LayerLoaded(l) ==
  /\ layerUp[l] = "loading"
  /\ \E s \in {"ready", "failed"} : layerUp' = [layerUp EXCEPT ![l] = s]
  /\ UNCHANGED <<up, config, hubTakes, installed, settings, cache, req, applier>>

-----------------------------------------------------------------------------
(* The request handler of proxy.go.                                        *)

(* Mutant: a layer that failed does not count as skipped. *)
StatusIgnoresFailures(rep) ==
  IF rep.unready = Layers THEN "passthrough"
  ELSE IF rep.unready # {} THEN "partial"
  ELSE IF rep.found = {} THEN "clean" ELSE "full"

(* proxy.go 163-179: what the report's layer results say. *)
StatusOf(rep) ==
  IF Skipped(rep) = Layers THEN "passthrough"
  ELSE IF Skipped(rep) # {} THEN "partial"
  ELSE IF rep.found = {} THEN "clean" ELSE "full"

(* What goes upstream: the body as it came, without a status; or the body  *)
(* rewritten from the report.  When there is something to redact,          *)
(* ReplaceLastUserMessage may fail, and then the body goes as it came.  A  *)
(* rewritten request has its scan reported before it goes.                 *)
AsItCame(b) ==
  [IdleRequest EXCEPT !.pc = "done", !.body = b, !.sent = SecretsIn(b.text)]

Rewritten(b, rep) ==
  [IdleRequest EXCEPT
     !.pc = "report", !.body = b, !.report = rep, !.status = StatusOf(rep),
     !.sent = IF rep.found = {} THEN SecretsIn(b.text) ELSE Replaced(b, rep.found)]

Forwarded(b, rep) ==
  {Rewritten(b, rep)} \cup (IF rep.found = {} THEN {} ELSE {AsItCame(b)})

(* The early returns: a host that is not intercepted, a path with a bypass *)
(* rule and a body that holds no user message.                             *)
PassThrough(r, b, p, shape) ==
  /\ req[r].pc = "idle"
  /\ shape = "chat" => Bypassed(p)
  /\ req' = [req EXCEPT ![r] = AsItCame(b)]
  /\ UNCHANGED <<up, config, hubTakes, installed, layerUp, settings, cache, applier>>

(* A request without a body reports "passthrough". *)
NoBody(r, p) ==
  /\ req[r].pc = "idle"
  /\ ~Bypassed(p)
  /\ req' = [req EXCEPT ![r] = [IdleRequest EXCEPT !.pc = "done", !.status = "passthrough"]]
  /\ UNCHANGED <<up, config, hubTakes, installed, layerUp, settings, cache, applier>>

(* ScanAndRedact: Cache.Get hits and its result is forwarded. *)
CacheHit(r, b, p) ==
  /\ req[r].pc = "idle"
  /\ ~Bypassed(p)
  /\ Cached(cache, b.text)
  /\ cache' = Touch(cache, b.text)
  /\ \E q \in Forwarded(b, cache.items[b.text]) : req' = [req EXCEPT ![r] = q]
  /\ UNCHANGED <<up, config, hubTakes, installed, layerUp, settings, applier>>

(* ScanAndRedact: Cache.Get misses and Pipeline.Scan starts. *)
CacheMiss(r, b, p) ==
  /\ req[r].pc = "idle"
  /\ ~Bypassed(p)
  /\ ~Cached(cache, b.text)
  /\ req' = [req EXCEPT ![r] = [IdleRequest EXCEPT !.pc = "layer", !.body = b]]
  /\ UNCHANGED <<up, config, hubTakes, installed, layerUp, settings, cache, applier>>

(* Pipeline.Scan's loop body.  A layer that is not ready is skipped;       *)
(* otherwise scanWithTimeout starts it, under a timer if one is set now.   *)
LayerUnready(r) ==
  /\ req[r].pc = "layer"
  /\ req[r].at \in Layers
  /\ layerUp[req[r].at] # "ready"
  /\ req' = [req EXCEPT ![r].at = @ + 1, ![r].report.unready = @ \cup {req[r].at}]
  /\ UNCHANGED <<up, config, hubTakes, installed, layerUp, settings, cache, applier>>

(* Mutant: the layer runs without its timer. *)
LayerStartUntimed(r) ==
  /\ req[r].pc = "layer"
  /\ req[r].at \in Layers
  /\ layerUp[req[r].at] = "ready"
  /\ req' = [req EXCEPT ![r].pc = "wait"]
  /\ UNCHANGED <<up, config, hubTakes, installed, layerUp, settings, cache, applier>>

LayerStart(r) ==
  /\ req[r].pc = "layer"
  /\ req[r].at \in Layers
  /\ layerUp[req[r].at] = "ready"
  /\ req' = [req EXCEPT ![r].pc = "wait", ![r].armed = timed]
  /\ UNCHANGED <<up, config, hubTakes, installed, layerUp, settings, cache, applier>>

(* The layer answers with what the rules installed in it find. *)
LayerFinds(r) ==
  /\ req[r].pc = "wait"
  /\ req' = [req EXCEPT ![r].pc = "layer", ![r].at = @ + 1, ![r].armed = FALSE,
       ![r].report.found = @ \cup Found(req[r].at, req[r].body.text)]
  /\ UNCHANGED <<up, config, hubTakes, installed, layerUp, settings, cache, applier>>

(* The layer is given up: its sidecar answers with an error, or its timer  *)
(* fires first and a late answer goes to a channel nobody reads.           *)
LayerFails(r) ==
  /\ req[r].pc = "wait"
  /\ req[r].armed \/ req[r].at \in LazyLayers
  /\ req' = [req EXCEPT ![r].pc = "layer", ![r].at = @ + 1, ![r].armed = FALSE,
                        ![r].report.failed = @ \cup {req[r].at}]
  /\ UNCHANGED <<up, config, hubTakes, installed, layerUp, settings, cache, applier>>

(* The allowed-words filter: the length test, then one lookup per finding  *)
(* in whatever map is installed at that moment.                            *)
FilterBegin(r) ==
  /\ req[r].pc = "layer"
  /\ req[r].at = NumLayers + 1
  /\ req' = [req EXCEPT ![r].pc = "filter",
                        ![r].todo = IF allowed = {} THEN {} ELSE req[r].report.found]
  /\ UNCHANGED <<up, config, hubTakes, installed, layerUp, settings, cache, applier>>

FilterOne(r) ==
  /\ req[r].pc = "filter"
  /\ \E s \in req[r].todo :
       req' = [req EXCEPT ![r].todo = @ \ {s},
                          ![r].report.found = IF s \in allowed THEN @ \ {s} ELSE @]
  /\ UNCHANGED <<up, config, hubTakes, installed, layerUp, settings, cache, applier>>

(* Redact, Cache.Put, and the body is rewritten. *)
PutAndForward(r) ==
  /\ req[r].pc = "filter"
  /\ req[r].todo = {}
  /\ cache' = Put(cache, req[r].body.text, req[r].report, MaxSize)
  /\ \E q \in Forwarded(req[r].body, req[r].report) : req' = [req EXCEPT ![r] = q]
  /\ UNCHANGED <<up, config, hubTakes, installed, layerUp, settings, applier>>

(* onScan: SaveReport, then Hub.Broadcast, which waits for room in the     *)
(* hub's queue.  Only then does the request go upstream.                   *)
ReportScan(r) ==
  /\ req[r].pc = "report"
  /\ hubTakes
  /\ req' = [req EXCEPT ![r].pc = "done"]
  /\ UNCHANGED <<up, config, hubTakes, installed, layerUp, settings, cache, applier>>

(* The hub's queue fills up, or is read again (Hub.tla). *)
HubTurns ==
  /\ hubTakes' = ~hubTakes
  /\ UNCHANGED <<up, config, installed, layerUp, settings, cache, req, applier>>

(* The response went back to the client. *)
Respond(r) ==
  /\ req[r].pc = "done"
  /\ req' = [req EXCEPT ![r] = IdleRequest]
  /\ UNCHANGED <<up, config, hubTakes, installed, layerUp, settings, cache, applier>>

-----------------------------------------------------------------------------
(* Configuration changes.                                                  *)

(* Whether an applier that begins finds others at work.  A reload that     *)
(* begins alone installs everything anew.                                  *)
OthersAtWork(a) == \E b \in Appliers \ {a} : applier[b].pc # "idle"

(* PUT /api/rules: Manager.Update, a step of its own (it holds only the    *)
(* manager's lock) ...                                                     *)
PutRules(a, rules) ==
  /\ applier[a].pc = "idle"
  /\ cfg' = [cfg EXCEPT !.rules = rules]
  /\ file' = cfg'
  /\ synced' = FALSE
  /\ overlapped' = (overlapped \/ OthersAtWork(a))
  /\ applier' = [applier EXCEPT ![a].pc = "get", ![a].kind = "put"]
  /\ UNCHANGED <<up, installed, layerUp, settings, cache, hubTakes, req>>

(* ... then Manager.Get, whose copy Coordinator.Reconfigure installs. *)
PutRulesGet(a) ==
  /\ applier[a].pc = "get"
  /\ applier' = [applier EXCEPT ![a].pc = "sink", ![a].cfg = cfg, ![a].at = 1]
  /\ UNCHANGED <<up, config, installed, layerUp, settings, cache, hubTakes, req>>

(* PUT /api/config: only Manager.Update; the watcher is to notice the file. *)
PutConfig(c) ==
  /\ cfg' = c
  /\ file' = c
  /\ synced' = FALSE
  /\ UNCHANGED <<up, overlapped, installed, layerUp, settings, cache, hubTakes, req, applier>>

(* Manager.Update by either handler, with a save that cannot open the file *)
(* (one that fails later truncates it, which is a change of the file): the *)
(* manager keeps the change, the handler answers 500 and installs nothing. *)
SaveFails(c) ==
  /\ cfg' \in {c, [cfg EXCEPT !.rules = c.rules]}
  /\ UNCHANGED <<up, file, synced, overlapped, installed, layerUp, settings, cache,
                 hubTakes, req, applier>>

(* The watcher: Manager.Reload takes over the file, with what was saved    *)
(* last or what the user wrote into it, and hands it to the callback.      *)
WatcherReload(a, c) ==
  /\ applier[a].pc = "idle"
  /\ cfg' = c
  /\ file' = c
  /\ synced' = TRUE
  /\ overlapped' = OthersAtWork(a)
  /\ applier' = [applier EXCEPT ![a].pc = "sink", ![a].kind = "watch",
                                ![a].cfg = c, ![a].at = 1]
  /\ UNCHANGED <<up, installed, layerUp, settings, cache, hubTakes, req>>

(* Mutant: the loop over the sinks advances by two. *)
ApplyEverySecondSink(a) ==
  /\ applier[a].pc = "sink"
  /\ applier[a].at \in Sinks
  /\ installed' = [installed EXCEPT ![applier[a].at] =
                     RulesFor(applier[a].at, applier[a].cfg)]
  /\ applier' = [applier EXCEPT ![a].at = @ + 2]
  /\ UNCHANGED <<up, config, hubTakes, layerUp, settings, cache, req>>

(* Coordinator.Reconfigure: one sink at a time ... *)
ApplySink(a) ==
  /\ applier[a].pc = "sink"
  /\ applier[a].at \in Sinks
  /\ installed' = [installed EXCEPT ![applier[a].at] =
                     RulesFor(applier[a].at, applier[a].cfg)]
  /\ applier' = [applier EXCEPT ![a].at = @ + 1]
  /\ UNCHANGED <<up, config, hubTakes, layerUp, settings, cache, req>>

(* ... then Cache.Invalidate.  A PUT is done; the watcher's callback goes  *)
(* on with SetAllowedWords, which first installs an empty map ...          *)
ApplyInvalidate(a) ==
  /\ applier[a].pc = "sink"
  /\ applier[a].at = NumLayers + 2
  /\ cache' = EmptyCache
  /\ applier' = [applier EXCEPT ![a] =
                   IF @.kind = "put" THEN IdleApplier ELSE [@ EXCEPT !.pc = "words"]]
  /\ UNCHANGED <<up, config, hubTakes, installed, layerUp, settings, req>>

ApplyWordsReset(a) ==
  /\ applier[a].pc = "words"
  /\ allowed' = {}
  /\ applier' = [applier EXCEPT ![a].pc = "tail", ![a].todo = applier[a].cfg.allowed]
  /\ UNCHANGED <<up, config, hubTakes, installed, layerUp, timed, threshold, bypass, cache, req>>

(* ... and then fills that map in place, ... *)
ApplyWord(a) ==
  /\ applier[a].pc = "tail"
  /\ \E w \in applier[a].todo :
       /\ allowed' = allowed \cup {w}
       /\ applier' = [applier EXCEPT ![a].todo = @ \ {w}]
  /\ UNCHANGED <<up, config, hubTakes, installed, layerUp, timed, threshold, bypass, cache, req>>

(* Mutant: the callback forgets the bypass rules. *)
ApplyTailKeepsBypass(a) ==
  /\ applier[a].pc = "tail"
  /\ applier[a].todo = {}
  /\ timed' = applier[a].cfg.timed
  /\ applier' = [applier EXCEPT ![a] = IdleApplier]
  /\ UNCHANGED <<up, config, hubTakes, installed, layerUp, allowed, threshold, bypass, cache, req>>

(* ... with SetTimeout and BypassMatcher.SetRules at the end.  The entropy *)
(* threshold is not among what the callback installs.                      *)
ApplyTail(a) ==
  /\ applier[a].pc = "tail"
  /\ applier[a].todo = {}
  /\ timed' = applier[a].cfg.timed
  /\ bypass' = applier[a].cfg.bypass
  /\ applier' = [applier EXCEPT ![a] = IdleApplier]
  /\ UNCHANGED <<up, config, hubTakes, installed, layerUp, allowed, threshold, cache, req>>

(* POST /api/cache/clear *)
ClearCache ==
  /\ cache # EmptyCache
  /\ cache' = EmptyCache
  /\ UNCHANGED <<up, config, hubTakes, installed, layerUp, settings, req, applier>>

(* allowedWords is a plain Go map.  An insertion that meets a lookup or    *)
(* another insertion may be detected by the runtime, which then ends the   *)
(* process ("concurrent map read and map write").                          *)
MapFault ==
  /\ \E a \in Appliers :
       /\ applier[a].pc = "tail" /\ applier[a].todo # {}
       /\ \/ \E r \in Requests : req[r].pc = "filter" /\ req[r].todo # {}
          \/ \E b \in Appliers \ {a} : applier[b].pc = "tail" /\ applier[b].todo # {}
  /\ up' = FALSE
  /\ UNCHANGED <<config, hubTakes, installed, layerUp, settings, cache, req, applier>>

-----------------------------------------------------------------------------
RequestStep(r) ==
  \/ LayerUnready(r) \/ LayerStart(r) \/ LayerFinds(r) \/ LayerFails(r)
  \/ FilterBegin(r) \/ FilterOne(r) \/ PutAndForward(r) \/ ReportScan(r) \/ Respond(r)

ApplierStep(a) ==
  \/ PutRulesGet(a) \/ ApplySink(a) \/ ApplyInvalidate(a)
  \/ ApplyWordsReset(a) \/ ApplyWord(a) \/ ApplyTail(a)

Arrival(r) ==
  \E b \in Bodies, p \in Paths :
    \/ \E shape \in Shapes : PassThrough(r, b, p, shape)
    \/ NoBody(r, p)
    \/ CacheHit(r, b, p)
    \/ CacheMiss(r, b, p)

Change(a) ==
  \/ \E c \in Configs : PutRules(a, c.rules)
  \/ \E c \in Configs \cup {file} : WatcherReload(a, c)

Next ==
  \/ up /\ \/ \E r \in Requests : Arrival(r) \/ RequestStep(r)
           \/ \E a \in Appliers : Change(a) \/ ApplierStep(a)
           \/ \E c \in Configs : PutConfig(c) \/ SaveFails(c)
           \/ \E l \in LazyLayers : LayerLoaded(l)
           \/ ClearCache
           \/ HubTurns
           \/ MapFault
  \/ Restart

Spec == Init /\ [][Next]_vars

(* The goroutine of a request is scheduled, an armed timer fires, the HTTP *)
(* client of a sidecar layer gives up after 5 s (gliner/client.go 62), a   *)
(* response goes back.  A sender that waits for a channel is served in its *)
(* turn when the hub reads again and again, whence the strong fairness.  A *)
(* layer is never owed to answer, a sidecar never to come up, the hub not  *)
(* to read, and nothing is assumed of users.                               *)
FairSpec ==
  /\ Spec
  /\ \A r \in Requests :
       /\ WF_vars(up /\ (LayerUnready(r) \/ LayerStart(r) \/ LayerFails(r) \/ FilterBegin(r)
                         \/ FilterOne(r) \/ PutAndForward(r) \/ Respond(r)))
       /\ SF_vars(up /\ ReportScan(r))

-----------------------------------------------------------------------------
(* Requests, appliers, settings and cached reports are well formed; in     *)
(* particular a request that waits, waits for an existing layer, and an    *)
(* applier's index never leaves the sinks.                                 *)
TypeOK ==
  /\ up \in BOOLEAN
  /\ cfg \in Config /\ file \in Config
  /\ synced \in BOOLEAN /\ overlapped \in BOOLEAN
  /\ hubTakes \in BOOLEAN
  /\ installed \in [Sinks -> SUBSET Secrets]
  /\ layerUp \in [Layers -> {"off", "loading", "ready", "failed"}]
  /\ allowed \in SUBSET Secrets
  /\ timed \in BOOLEAN
  /\ threshold \in Nat
  /\ bypass \in SUBSET Paths
  /\ DOMAIN cache.items \subseteq Texts
  /\ \A t \in DOMAIN cache.items : cache.items[t] \in Report
  /\ req \in [Requests -> Request]
  /\ applier \in [Appliers -> Applier]

(* Secrets no configuration lets through: their rule compiles and is       *)
(* always on, and they are never an allowed word.                          *)
Guarded == {s \in Compiled(Secrets) : \A c \in Configs : s \in c.rules /\ s \notin c.allowed}

(* What the X-Redactr-Status header promises: a request whose status is    *)
(* "full" or "clean" was forwarded without any guarded secret, and with    *)
(* "partial" only secrets of a skipped layer can be missing, whether the   *)
(* result was computed or came from the cache, and whatever was being      *)
(* reconfigured, evicted or invalidated meanwhile; for bodies that         *)
(* ReplaceLastUserMessage takes apart as they were put together.           *)
HonestStatus ==
  \A r \in Requests :
    req[r].pc = "done" /\ req[r].status # "none" /\ Straight(req[r].body) =>
      \A s \in req[r].sent \cap Guarded :
        /\ req[r].status \in {"partial", "passthrough"}
        /\ LayerOf[s] \in Skipped(req[r].report)

(* The strengthening that makes HonestStatus inductive: every guarded      *)
(* secret of a layer the scan is past is found or its layer is on record   *)
(* as skipped; cached reports are complete in that sense; and no           *)
(* configuration on its way into the daemon, nor a half-filled map of      *)
(* allowed words, lets a guarded secret through.                           *)
Accounted(t, rep, n) ==
  \A s \in SecretsIn(t) \cap Guarded :
    LayerOf[s] < n => s \in rep.found \/ LayerOf[s] \in Skipped(rep)

Guards(c) == Guarded \subseteq c.rules /\ Guarded \cap c.allowed = {}

SettingsGuard ==
  /\ Guards(cfg) /\ Guards(file)
  /\ \A s \in Guarded : s \in installed[LayerOf[s]]
  /\ allowed \cap Guarded = {}
  /\ \A a \in Appliers : Guards(applier[a].cfg) /\ applier[a].todo \cap Guarded = {}

CacheGuard ==
  \A t \in DOMAIN cache.items : Accounted(t, cache.items[t], NumLayers + 1)

RequestGuard(q) ==
  /\ q.pc \in {"layer", "wait"} => Accounted(q.body.text, q.report, q.at)
  /\ q.pc = "filter" => Accounted(q.body.text, q.report, NumLayers + 1)
  /\ q.pc \in {"report", "done"} /\ q.status # "none" =>
       \/ q.sent = {}
       \/ /\ Straight(q.body) => q.sent \subseteq SecretsIn(q.body.text) \ q.report.found
          /\ q.status = StatusOf(q.report)
          /\ Accounted(q.body.text, q.report, NumLayers + 1)

HonestInv ==
  SettingsGuard /\ CacheGuard /\ \A r \in Requests : RequestGuard(req[r])

Quiet == up /\ synced /\ \A a \in Appliers : applier[a].pc = "idle"

(* A request whose status is "full" does not hold anything that the scan   *)
(* found (README.md 47: sensitive data is replaced).                       *)
NothingFoundIsSent ==
  \A r \in Requests :
    req[r].pc = "done" /\ req[r].status = "full" =>
      req[r].sent \cap req[r].report.found = {}

(* Once no applier is at work, every layer, the file blocker, the allowed  *)
(* words, the timeout and the bypass rules are those of config.yaml, if    *)
(* the last reload had nobody beside it: Coordinator.Reconfigure and the   *)
(* callback install all of it, PUTs before it notwithstanding, and no      *)
(* change that could not be saved is enforced.                             *)
ConfigInstalled ==
  Quiet /\ ~overlapped =>
    /\ installed = BootSinks(file)
    /\ allowed = file.allowed
    /\ timed = file.timed
    /\ bypass = file.bypass

(* The same of the entropy threshold. *)
ThresholdInstalled == Quiet => threshold = file.threshold

(* Once nothing is in progress, a cached result is what the configuration  *)
(* gives for that text, but for the layers its report calls skipped: the   *)
(* cache is invalidated when the rules change.                             *)
CacheFresh ==
  Quiet /\ (\A r \in Requests : req[r].pc = "idle") =>
    \A t \in DOMAIN cache.items :
      LET rep == cache.items[t] IN
      rep.found = {s \in SecretsIn(t) \cap Compiled(file.rules) :
                     s \notin file.allowed /\ LayerOf[s] \notin Skipped(rep)}

(* A request that is answered from the cache does not miss a layer that    *)
(* was loading when the result was computed and is ready now.              *)
ReadyLayerUsed ==
  [][\A r \in Requests : \A b \in Bodies, p \in Paths : CacheHit(r, b, p) =>
       \A l \in req'[r].report.unready : layerUp[l] # "ready"]_vars

(* A rule that is switched on is enforced by its layer. *)
EnabledRuleEnforced == Quiet => \A s \in file.rules : s \in installed[LayerOf[s]]

(* A rule that is switched on has its layer at least started. *)
EnabledLayerStarted ==
  Quiet => \A l \in Layers : installed[l] # {} => layerUp[l] # "off"

(* SetAllowedWords never brings the process down. *)
NoFault == up

(* While the per-layer timeout stays in force and the hub reads its queue  *)
(* again and again, every request is answered, though a layer may never    *)
(* answer.                                                                 *)
RequestAnswered ==
  []timed /\ []<>hubTakes =>
    \A r \in Requests : (up /\ req[r].pc # "idle") ~> (~up \/ req[r].pc = "idle")

=============================================================================
