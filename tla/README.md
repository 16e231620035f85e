# A TLA+ model of redactr

redactr is a daemon on a developer's machine. It intercepts requests to AI
services, replaces secrets in the last user message by labels, and forwards the
rest. Around that path it keeps one daemon per machine, switches the routing of
traffic on and off, reloads its configuration, and, for organisations, pulls a
signed launch policy from a control plane.

This directory holds TLA+ modules translated from the source, the TLC
configurations that check them on small instances, and TLAPS proofs for every
value of the constants. `PROJECT.json` maps each definition to the lines it
models, lists runs, mutants, hazards and theorems.

    tlc -workers 2 -config Gateway.cfg MCGateway      # a run
    tlapm GatewayProofs.tla                           # the proofs of a module

## 1. Inventory

State in *italics*; "hard" says what a test would hardly reach.

| component (under `internal/`) | state and operations | works with | hard | what makes it correct |
|---|---|---|---|---|
| scan cache (`scanner/cache.go`) | *map and recency list*; Get, Put, Invalidate, under one mutex | coordinator | eviction at sizes 0 and 1, overwriting | it holds the most recently used texts with their last results |
| pipeline and coordinator (`scanner/pipeline.go`, `coordinator/`) | *allowed words, timeout, rules per layer, cache*; ScanAndRedact, Reconfigure, SetAllowedWords | proxy, API, watcher | a goroutine per request, a timer per layer, reconfiguration during a scan | an honest status, a fresh cache, all settings installed, every request answered |
| detection layers (`scanner/presidio`, `entropy`, `gliner`, the stub `contextgate`) | *rules; ready or not*; Scan, Reconfigure, Ready | sidecar over HTTP | lazy start, errors, silence | a layer enforces the installed rules |
| redactor (`redactor/`) and the pipeline's offsets | *findings, offsets*; applyRedactions, toOriginalPos, dedup, Redact | | shifts by labels, overlaps, labels seen as text | all that was found is hidden, positions stay in range |
| proxy (`proxy/`) | *listener, server, running*; Start, Stop, the request handler, ExtractLastUserMessage and ReplaceLastUserMessage | coordinator, API, hub | early returns and error paths that forward as it came; a message of several parts; Start twice | status header; what was found is replaced; closed when off |
| transparent listener (`proxy/transparent.go`, `sni.go`) | *port*; accept, tunnel | packet filter | | the port is the one the rules name |
| configuration (`config/`) | *config in memory, config.yaml, the watch, a timer*; Load, Save, Update, Reload, the watcher's debouncing, SIGHUP | API, daemon, editors, the next daemon | files rewritten in place by several processes, saves that fail, reloads in goroutines of their own, a gap before the watch | what is in the file gets installed, and nothing older afterwards |
| certificates (`certgen/ca.go`) | *ca.crt, ca.key*; LoadOrCreateCA | daemon, proxy | a crash between the two files, overlapping starts | one CA for all daemons, certificate and key of one pair |
| API (`api/`) | handlers for rules, config, cache, proxy switch; WebSocket hub with *clients, queue*; Run, Broadcast, HandleWS | all | handlers run concurrently; a client that does not read, a full queue, removal twice | the switch leaves consistent state; every dashboard gets every report, nobody waits for ever |
| lifecycle (`lifecycle/`) | *flock, redactr.pid*; AcquireSingleton, ReapOrphans, Release | daemon, sidecar | daemons replacing one another, crashes, pid reuse, zombies | one daemon; the pidfile names it |
| sidecar manager (`sidecar/`) | *python process, sidecar.port*; StartLazy, Stop | lifecycle | crash between spawn and port file | the running sidecar can be found |
| daemon (`daemon/`) | *redactr.sock*; Build, Start, Stop, Run, the loops, the control socket | all | order of start and stop, partial failure | whoever answers at the socket holds the lock |
| agents (`cli/client.go`, `agent.go`, `code.go`) | *the answer so far*; ensureDaemon, EnableProxy, LaunchPolicy | control socket | several agents start daemons at once; the daemon changes between two requests | somebody ends up running; a container gets the proxy that was switched on for it |
| firewall (`firewall/`) | *enabled, current IPs, firewall.json, pf anchor*; Enable, Disable, Reconcile, Cleanup | DNS, osascript | refused prompts, failed lookups, a crash between script and record, scripts and rules that outlive the daemon | controller, file and anchor agree; rules follow DNS |
| control-plane server (`server/`) | *tokens, devices, policies, images*; mint, enroll, revoke, put, build, get | laptops | lost replies, handlers of several transactions, crashes | token limits, unique versions |
| enrollment and policy sync (`cli/enroll.go`, `enrollment/`, `policysync/`, `policy/`) | *enrollment.json, policy.json, policy.etag*; RunEnroll, Sync | server | crash between the files, altered, replayed or lost replies | only genuine bundles, and while nobody replays old replies never an older one and eventually the current |
| session discovery and monitor (`sessions/`, `monitor/`, `cli/shell.go`) | *addresses of AI hosts, the proxy's address*; List for the dashboard and for the monitor loop, Report, `redactr shell` | ps, lsof, DNS, API, server | a listing of many commands while tools come and go; a lister shared by two callers; failed scans, lookups and posts | a tool that bypasses the proxy is reported, the alarm ends with its cause |
| licensing, MCP wrapper, local store, hooks, sandbox, tray icon, admin pages, python sidecar | see `PROJECT.json` "components" and section 6 | | | I/O and text composition, or state nothing changes |

Interactions: API handlers and the watcher callback change what request
goroutines read (settings, rules, cache) without a lock around the whole. The
pid and port files, firewall.json, the pf anchor and the policy files survive
the process and are read by the next one. DNS, prompts, python, the network and
users are environment.

## 2. Modules

| module | models | state and actions |
|---|---|---|
| `ScanCache` | `scanner/cache.go` as operators | used by the next two |
| `ScanCacheLRU` | the cache on its own | Get, Put, Invalidate with a history of touched keys |
| `Gateway` | request path against configuration changes | a request goes through layer / wait / filter / report / done, one step per cache access, per layer start and answer or timeout, per looked-up word, and for the report to the hub, which waits while its queue is full; a body is a string or parts of lines, which `Replaced` puts back as the code does; a save may fail and leave memory ahead of the file; an applier installs sink by sink, then invalidates the cache, then replaces the allowed words one by one, then the rest |
| `Redaction` | positions in pipeline and redactor | one step per layer, per allowed word and for Redact; a text is a sequence of cells |
| `Singleton` | lifecycle, sidecar manager, the parts of `daemon` that call them | one station per system call that another process can see; a process whose parent does not wait for it stays a zombie (*unwaited*), alive to kill(pid, 0) |
| `DaemonSlot` | what lifecycle promises (abstract) | *owner*, *former*; Take, Leave, TurnedAway. `Singleton` implements it with owner <- the process in `Holding`, former <- those released or gone |
| `Agents` | agents and the control socket, composed with `Singleton` (EXTENDS) | every daemon step of `Singleton`, with the socket bound last in Start and closed first in Stop; an agent dials, spawns, waits, enables, asks; it is the parent of the daemon it spawns and ends with its container. No GLiNER rule is on, so there are no sidecars here |
| `ProxyRouting` | proxy switch, firewall controller, daemon start and stop, `redactr cleanup` | handlers step by step; a controller method (*op*) excludes the others, as it holds `c.mu`, and is a call, the script and the return with the write of firewall.json, with crashes in between; *stray* are scripts that outlive their caller, at most `MaxStray` at a time |
| `ControlPlane` | server, enrollment, sync | one step per transaction, request, reply and file write; a reply may be lost, altered, replaced by an older one or given another ETag; *misled* remembers the laptops that were served one of the last two |
| `PolicyFeed` | what the control plane promises of policies (abstract) | *log*, *copy*, *misled*; Issue, Fetch, Mislead. A laptop that is not misled never fetches an older bundle. `ControlPlane` implements it with log <- issued, copy <- cached |
| `ConfigStore` | config.Manager, the watcher, the CA, over the start-ups of daemons that replace one another | one step per truncation and per write of a file, per event, timer, read, swap and install; a save may be refused before or fail after the truncation; rules and live settings are installed separately, and what only Build reads (entropy threshold, cache size, domains) is left out |
| `Hub` | the WebSocket hub with request goroutines and dashboards | Run's select case by case, one step per WriteMessage; a connection is a bounded buffer |
| `Sessions` | session discovery with its two callers, the monitor's reports, `redactr shell` | one step per command (ps, lookups, ps -E, lsof, post); tools start, connect and exit in between |
| `MC*` | instances for TLC: model values, sets of configurations, symmetry | |
| `*Proofs` | theorems on `Gateway`, `Redaction`, `Singleton` with `Agents`, `ProxyRouting`, `ControlPlane`, `ConfigStore`, `Hub`, `Sessions`, and on `ScanCacheLRU` (`ScanCacheProofs`) | one module for each; `Hub` and `Sessions`, whose results the dashboard shows, share `DashboardProofs` |

Abstractions. A secret is an element that also names its rule and layer; a text
is a sequence of lines with the secrets in each (`Gateway`) or a sequence of byte offsets and label
cells (`Redaction`, with characters of one or two bytes; a layer reports
positions in bytes or, as the entropy layer and the sidecar do, in characters).
`Uncompiled` are the rules whose pattern Go's regexp refuses: compilePatterns
leaves them out silently. A signature is a flag only an unaltered bundle carries. A
process is a station. Whether a request is intercepted and its JSON parses is a
choice of outcome ("foreign", "garbled", "chat"); how its parts are joined and
split is modelled. What the environment may do is the constant
`Faults` of a module, so that a theorem can say under which faults it holds.
The data race on the plain map of allowed words is the action `MapFault`: the
Go runtime may or may not notice it.

Definitions named as mutants in comments are changed copies of an action or
operator; `PROJECT.json` "mutants" says which property must fail when the copy
takes the place of the original.

## 3. Runs

| run | shows | bounds | states |
|---|---|---|---|
| `ScanCacheLRU` | `CacheConsistent`, `HoldsMostRecent`: the cache is what "most recently used" says | 3 texts, 2 results, sizes 0 to 3, 6 touches since the last Invalidate: every size is exceeded and a key touched, overwritten and evicted | 5 k |
| `Gateway` | `TypeOK`, `HonestStatus`, `ConfigInstalled`, and `RequestAnswered` under fairness | 1 request (which may be sent again and meets its own cached results), 1 applier, 2 layers (the second lazy), a body of two parts, 2 configurations that differ in rules, words and bypass, a timeout, cache of 1, failing saves, a hub whose queue fills up and is read again | 642 k |
| `Redaction` | `Positions`, `RoundTrip` for any reports; `AllFoundHidden`, `MaskedStays` for orderly layers | text of 5 bytes, labels shorter and longer than what they replace; 2 arbitrary layers on a text with and without a two-byte character, or 3 orderly ones; up to 2 findings per layer (`MaxReports`), each with a label of its own: labels before, behind and inside what a later layer finds | 2.1 M |
| `Singleton` | `TypeOK`, `OneDaemon`, `PidfileNamesHolder`, `SidecarOnFile`, and `ImplementsSlot`: the refinement of `DaemonSlot` | 3 processes: a holder, its replacer and a third that interferes; all faults, zombies, a stranger on the sidecar's port | 820 k |
| `Agents` | `SocketIsHolders`, `BoundOrReplaced`, and `SomebodyRuns` under fairness | 3 processes, started by 1 agent or by hand at any time, 1 crash, zombies, a fresh installation (proxy off): replacement happens before, between and after the requests of the agent | 398 k |
| `Routing` | `TypeOK`, `FirewallTracked`, `NoStaleRules` | 2 concurrent callers, 2 ports of each kind (successive daemons alternate), 1 domain, 2 addresses; refused prompts, failed lookups, no port, crashes also between script and record | 966 k |
| `RoutingSerial` | `SwitchConsistent`, and `RulesFollowDns` under fairness | 1 caller at a time, 1 domain, 2 addresses, every fault: also a refused flush at the start, one script that outlives its caller, an unwritable firewall.json, `redactr cleanup` beside the daemon | 1.0 M |
| `ControlPlane` | `TypeOK`, `TokenLimit`, `VersionNamesBundle`, `CachedIsIssued`, `CacheMonotone`, `NotModifiedIsCurrent`, `PolicyArrives` under fairness, and `ImplementsFeed`: the refinement of `PolicyFeed` | 1 organisation, token (of one use) and laptop, 2 device ids (so the limit can be exceeded), 1 build against admin updates, versions 0 to 2; replies lost, altered, replayed, with any ETag | 753 k |
| `Sessions` | `TypeOK`, and `RunawayReported`, `AlarmEnds` under fairness | 1 process (ended and started again any number of times), 1 AI host that moves between 2 addresses, 1 port, 2 connections at a time (direct and through the proxy at once), both callers, all faults | 968 k |
| `ConfigStore` | `InSync`, `OneCa`, and `Converges` under fairness | 2 daemons (one replaces the other), 2 configurations, 2 timer goroutines and the loop's, 3 changes (an edit can overlap an update while a reload is under way), faults "crash", "disk" (a save refused, or failed after the truncation), "rename" | 970 k |
| `Hub` | `Gapless`, and `HubServes` under fairness | 4 scans, 2 dashboards of which one may stall, queue of 1, send buffer of 1: one report is in the buffer, one being written, one queued, and the fourth scan blocks | 166 k |
| `RedactionUnicode` | a violation of `FoundIsReplaced`, section 5 | one layer that counts characters, a two-byte character | |

Deadlock is not checked where the system may stop: daemons that have all ended,
a text that is redacted, a control plane whose bounded versions and devices are
used up, a hub without scans and dashboards.

`ConfigInstalled` speaks of a quiet daemon whose last reload had no other applier
beside it; what overlapping appliers leave until then is in section 5. The run has
one applier; that overlapping ones are healed by the next reload that is alone is
the theorem `ChangesInstalled`, for any number of them. It and
`InSync` compare with the file: a change that was not saved is in memory only,
and saved by the next update.
`SwitchConsistent` is for one caller at a time, `NoStaleRules` for starts whose
flush is not refused and scripts that do not outlive their caller, and
`RulesFollowDns` for a controller that is in step with the anchor (`InStep`): one
whose record says what the anchor holds already asks for nothing.
`NotModifiedIsCurrent` and `PolicyArrives` are for one organisation; they, `CacheMonotone`
and the no-older part of `ImplementsFeed` are about laptops that nobody served an
old reply or a wrong ETag, as the code has no defence against either (section 5).
Tokens without a limit, and laptops that enroll with a second organisation, are
covered by the theorems only. `AllFoundHidden` and `MaskedStays` need orderly layers: their
findings do not overlap and start on a character of the text rather than inside
a label; and single-byte characters, as `RedactionUnicode` shows. `HonestStatus`
is about bodies that ReplaceLastUserMessage puts back the way they were taken
apart (`Straight`: no empty part, no secret that reaches over a newline), and
takes a secret that is found on a line for one that is hidden there, so it
presupposes `AllFoundHidden`. That results pass between concurrent requests
through the cache is covered by the theorem `StatusIsHonest`, for any number of
requests; the run has one, which meets its own earlier results.
`InSync` and `Converges` are for reloads shorter than the debouncing, and for
changes the watch saw; section 5 has the others.
`RunawayReported` is about tools outside a bound shell: section 5 has those
inside.

### Fairness

* `Gateway`: the goroutine of a request is scheduled, an armed timer fires, the
  HTTP client of a sidecar layer gives up (5 s). A layer never has to answer.
  Before a request goes upstream its scan is reported to the hub, which blocks
  while the queue is full: a sender on a Go channel is served in its turn, whence
  the strong fairness of `ReportScan`. `RequestAnswered` only speaks of behaviours
  in which the timeout stays on and the hub reads again and again; that it need
  not is `ScansGoOn` (section 5).
* `Agents`: daemon and agent processes are scheduled and signals
  delivered; users owe nothing. `SomebodyRuns` speaks of behaviours without a
  crash and without a zombie.
* `ConfigStore`: the goroutines of a daemon are scheduled and an armed timer
  fires (200 ms). Newcomers, editors and users owe nothing.
* `Hub`: Run and the goroutines that wait for it are scheduled, and a client that
  is awake again and again reads (`HubFairSpec`). `AwakeSpec`, under which the run
  checks `HubServes`, adds that a stalled client resumes: the code sets no
  deadline on a write, so this has to be assumed (section 5, `ScansGoOn`).
* `ProxyRouting`: the ticker of `RunReconcileLoop` fires (5 min), a script ends
  (after 60 s it is killed) and its caller goes on. The property
  speaks of an environment that has become calm: `CalmsDown` may happen, and
  lookups, prompts and addresses are steady from then on.
* `ControlPlane`: the ticker of `policySyncLoop` fires (10 min), requests are
  served; calm as above.
* `Sessions`: the ticker of `monitorLoop` fires (60 s), its goroutine is
  scheduled, its commands and its request end (each has a timeout), time passes;
  calm as above. The dashboard, users and tools owe nothing.

## 4. Proofs

| theorem | says | from |
|---|---|---|
| `GatewayProofs!TypeCorrect`, `StatusIsHonest` | `TypeOK`, `HonestStatus` (which is about `Straight` bodies) | `GatewayAssumption` |
| `GatewayProofs!ChangesInstalled` | `ConfigInstalled` | any number of appliers, overlapping too, and failing saves |
| `ScanCacheProofs!MapAndListInStep`, `LeastRecentlyUsed` | `CacheConsistent`, `HoldsMostRecent` | any size, 0 too |
| `RedactionProofs!RedactionPositions`, `RedactionRoundTrip`, `RedactionHides`, `RedactionMaskStays` | `Positions`, `RoundTrip`, `AllFoundHidden`, `MaskedStays` | `RedactionAssumption`: any length of text, labels, layers and findings per layer; the last two for orderly layers and single-byte characters, as the properties say |
| `SingletonProofs!SingletonTypes`, `MutualExclusion`, `PidfileCorrect`, `SidecarFileCorrect` | `TypeOK`, `OneDaemon`, `PidfileNamesHolder`, `SidecarOnFile` | `SingletonAssumption`, any faults |
| `SingletonProofs!SlotImplemented` | `ImplementsSlot` | `SingletonAssumption`, any faults |
| `SingletonProofs!AgentsRefine` | `AgentsSpec => Spec`: with agents the daemons are those of `Singleton` | any faults |
| `SingletonProofs!SocketBelongs`, `BoundCorrect` | `SocketIsHolders`, `BoundOrReplaced` | any faults |
| `ProxyRoutingProofs!RoutingTypes` | `TypeOK` | any faults |
| `ProxyRoutingProofs!FirewallCorrect` | `FirewallTracked` | no script that outlives its caller or lies about the load ("late", "load"), firewall.json can be written ("disk"), no concurrent cleanup; crashes anywhere |
| `ProxyRoutingProofs!StaleRulesReaped` | `NoStaleRules` | the flush of a start is not refused and no script outlives its caller ("reap", "late"); any other fault, refused prompts and a crash between script and record too |
| `ProxyRoutingProofs!SwitchCorrect` | `SwitchConsistent` | one caller at a time (`Serial`), any faults |
| `ControlPlaneProofs!ControlTypes`, `VersionsUnique`, `CacheSound` | `TypeOK`, `VersionNamesBundle`, `CachedIsIssued` | `ControlAssumption`; replies altered, replayed, with any ETag |
| `ControlPlaneProofs!NoRollback` | `CacheMonotone`, which is about laptops not misled | `ControlAssumption`, others may be misled |
| `ControlPlaneProofs!TokenLimitHolds` | `TokenLimit` | `ControlAssumption` |
| `ControlPlaneProofs!FeedImplemented` | `ImplementsFeed`, with Mislead as a step of the abstract feed | `ControlAssumption` |
| `ControlPlaneProofs!NotModifiedSound` | `NotModifiedIsCurrent` | one organisation; about laptops not misled |
| `ConfigStoreProofs!StoreTypes`, `OneCaHolds` | `TypeOK`, `OneCa` | `ConfigAssumption`, any faults |
| `ConfigStoreProofs!InSyncHolds` | `InSync` (rules and live settings) | failing saves of both kinds; no reload that outlasts the debouncing ("slow"); section 5 has the other case |
| `DashboardProofs!NoGaps` | `Gapless` | `HubAssumption` |
| `DashboardProofs!SessionTypes` | `TypeOK` | `SessionsAssumption`, any faults |

The inductive invariants and why they are needed:

* `HonestInv` (`Gateway`). The header of a finished request depends on a report
  another request may have put into the cache under other rules. The invariant
  says of the settings, of every applier on its way, of every cached report and
  of every scan in progress that each guarded secret of a layer already passed
  is found or its layer is on record as skipped (`Accounted`). For a `Straight`
  body each part gets its own line or, as there are at least as many lines as
  parts, a line in front of it, so nothing found is left (`LineNo` is the
  identity there).
* `ApplyInv` (`Gateway`). While a change is under way the settings are a
  mixture. The invariant says how far a reload that is alone has come
  (`Applying`): its copy is the file, the sinks below its index are those of its
  copy, the words inserted and the words to come make up the allowed ones. A PUT
  of the rules leaves the file ahead of the settings (`synced`) until its reload,
  and an applier that begins beside another sets `overlapped`, which only a
  reload that begins alone takes back.
* `CacheInv` (`ScanCacheLRU`). `Recent` relates the list to the history of
  touched keys: what is in front of a key in the list is exactly the set of keys
  touched since (so the list is sorted by last touch), and a touched key that is
  missing gave way to a full list of keys touched later.
* `RedactionInv` (`Redaction`). Whatever layers report, findings are spans of the
  text and what is masked is `Ordered`: entries that are not empty, one behind
  the other. From that alone follow `Positions` and `RoundTrip`. `Edge` is the
  place behind a label in the redacted text; there the shift has caught up, so
  each cell between two edges is known (`TextCells`), each position comes after
  a certain number of labels (`After`), and these are the ones toOriginalPos
  passes (`PassedIs`); it keeps the order of positions (`OriginalMonotone`), and
  never points into what is masked (`NotInside`). For orderly layers `Neat` adds
  that a finding covers what its layer saw (`Full`), that two findings are apart
  or one lies within the other and starts later (`Nested`), and that the entries
  cover all findings (`Covered`). So applyRedactions, which skips a finding that
  starts within another, and dedup, which drops one that is contained, lose no
  byte. `Nested` is what partly overlapping findings violate (section 5,
  `LongestWins`).
  What the loops of the code compute is a recursive function in the model, and
  the induction theorems of the library cannot be instantiated. The proofs go
  through the least element instead: `LeastNat` (from `WFMin`), then induction
  over a set of numbers (`UpTo`), then the existence of the function a loop
  computes (`Iterates`), from which its equations follow (`ShiftDef`,
  `WrittenDef`, `TurnsDef`).
* `SingletonInv` (`Singleton`). `OneDaemon` follows from `LockHeld` (whoever is
  past AcquireSingleton and before Release holds the flock); the pidfile is
  only written by a holder. `SidecarInv` adds that nobody has a sidecar before
  StartLazy, so reaping never hits the sidecar of the daemon that is up. Zombies
  are neither: they have ended and hold no lock.
  The refinement: `StationSteps` says that a step moves one process, which
  enters `Holding` only when the lock is free and leaves it for good; with
  `LockHeld` before and after the step, the owner is unique, so each step is
  Take, Leave, TurnedAway or none of them.
* `SocketInv`, `BoundInv` (`Agents`). Whoever bound the socket file last has not
  closed it, so it serves, runs, is about to close it or has ended; a daemon
  that serves holds the lock, by `LockHeld`, which carries over along
  `AgentsRefine` (each action of `AgentsNext` is one of `Next`, as the daemon an
  agent spawns is one whose parent may not wait). The daemon an agent had switch the proxy on serves, runs or is
  over, and its proxy stays started until the agent asks for the address.
* `FirewallInv` (`ProxyRouting`). Controller, file and anchor agree while no
  method holds `c.mu`. While one does, the anchor may be ahead: once the script
  has loaded, it holds the method's rules, which name the port of the daemon that
  is alive; a daemon that is down is off and has no method under way.
* `StaleInv` (`ProxyRouting`). Rules in the anchor, and those a method asks for,
  name the current port. That suffices without any record: ReapOrphans flushes
  the anchor whatever firewall.json says, so a crash between script and record
  does not matter to the next start. A refused flush of that start, or a script that
  runs after it, does, which is why both are excluded.
* `SwitchInv` (`ProxyRouting`). What each step of the one handler, and of Start,
  has reached: for instance that past the listen the port it carries is the
  server's, and past the state file that the file names it.
* `ControlPlane`: `TypeInv` adds to the types that a Sync past its request
  carries an organisation and a bundle (`SyncCarries`); `PolicyInv` that
  no issued version exceeds the stored one; `CacheInv` that a signed bundle on
  its way was issued, replayed or not; `FreshInv`, for laptops that are not
  misled, that it is no older than the cached one; `EtagInv`, for the same ones, that an
  ETag on disk, or one sent, is never ahead of the bundle beside it. A laptop that
  is misled leaves both for good (`Misleads`). The
  refinement needs the first four: a put is Issue by `PolicyInv`, Save is Fetch
  by `CacheInv` and `FreshInv`, Replay and ChangeTag are Mislead, and no other step touches the log or a copy. `TokenInv` adds to
  `TokenLimit` that a token which was not minted has enrolled nobody and that
  the devices of a token are finitely many, so that they can be counted.
* `ConfigStore`. `CaInv` says what ca.crt and ca.key hold at each stage of
  GenerateCA: the key is written last, so a complete key goes with the
  certificate that is there, and from then on neither is written again; only the
  holder of the lock is at one of these stages (`HolderInv`). `SyncInv` says what
  is still owed to the file. `StartInv`: a process that is starting and missed no
  write has read, or is writing, what the file holds. `ReloadInv`: a reload under
  way has read the file as it is, unless an event is unread or the reload was
  marked late when the timer was armed, and then the timer is armed still.
  `RunInv`: with neither event nor timer pending, the components agree with the
  file but for what a reload has in hand; memory need not (a refused save), but
  does where a callback is about to install from it. `UpdateInv`: an update
  belongs to a daemon that serves. Every write leaves an event or
  a process that is blind to it (`TouchedKeeps`), so the invariant has to be
  shown anew only for the writer's own start and for reads, swaps and installs.
  `StoreTypes` needs `FileInv`: past NewManager the file exists.
* `HubInv` (`Hub`). `Gapless` of every registered client, also of one that left
  and is not removed yet, with what Run has in hand and what is queued
  (`QueueInv`), and that a connection not yet registered was sent nothing.
* `OnHasPort` (`Sessions`): `TypeOK` alone is not inductive, since a tool may
  connect to Addr(), which is empty before the first start of the proxy.

Only model-checked: the liveness properties (`RequestAnswered`, `SomebodyRuns`,
`RulesFollowDns`, `PolicyArrives`, `RunawayReported`, `AlarmEnds`, `Converges`,
`HubServes`), as the prover has no rules for fairness.

## 5. Where documents and code disagree

The run `RedactionUnicode` shows a violation of `FoundIsReplaced`: the entropy layer
and the sidecar report positions in characters, pipeline and redactor slice bytes;
behind a character of two bytes the label lands one byte early and the last byte of
what was found leaves.

The other disagreements met while modelling are stated in the modules and can be
reproduced by giving the property to the run named here. `docs` is
`docs/superpowers/specs`.

| property | with | what the code does | what is said |
|---|---|---|---|
| `NothingFoundIsSent` | `Gateway`, a body with `parts` `<<{}, {1}, {2}>>` | ExtractLastUserMessage leaves out an empty tool_result, ReplaceLastUserMessage gives it a line of the redacted text (`proxy/extract.go:99`); the last part gets none and keeps its secret, under the status "full" | every request is scanned before it leaves, "replacing sensitive data" (README.md:47) |
| `RulesOnRecord` | `Routing` | a crash between Redirect (`firewall/controller.go:58`) and persist (67) leaves rules that are not on record; nothing in the program reads the record, start and `redactr cleanup` flush the anchor in any case | the file is for recovery after crashes (`firewall/state.go:12`) |
| `StartSucceeds` | `Agents` | an agent does not wait for the daemon it starts (`cli/client_unix.go:20`); replaced while the agent runs it stays a zombie, for which kill(pid, 0) succeeds, so the newcomer gives up with "still alive after SIGKILL" (`lifecycle.go:239`) and nobody runs | "always produces a clean, ready process" (process-lifecycle-design:10) |
| `CacheFresh` | `Gateway` | a scan that overlaps a reconfiguration caches its result after the cache was invalidated, and it is served from then on (`coordinator.go:55`) | the cache "must be invalidated on `Reconfigure`" (docs, detection-rule-config-design:204) |
| `ConfigInstalled` | `Gateway`, 2 appliers, no request, without the condition `~overlapped` | PUT /api/rules and the watcher install sink by sink without a common lock; a mixture can stay until the next reload that runs alone (`api/rules_handler.go:113`) | "Reconfigure is concurrency-safe" (docs, detection-rule-config-design:200) |
| `ThresholdInstalled` | `Gateway`, configurations with different thresholds | the reload does not install the entropy threshold (`daemon/daemon.go:249`) | "rules, thresholds, log level, bypass rules" reload (startup.md:132) |
| `ReadyLayerUsed` | `Gateway` | results without GLiNER stay cached after it is ready (`coordinator.go:34`) | "L1+L2 only until then" (docs, redactr-design:171) |
| `EnabledLayerStarted` | `Gateway` | a GLiNER rule switched on later starts no sidecar (`daemon.go:318`) | toggles take effect "without restarting the daemon" (detection-rule-config-design:198) |
| `NoFault` | `Gateway` | a plain map is filled while requests read it (`coordinator.go:28`) | "edit the file while running" (startup.md:132) |
| `EnabledRuleEnforced` | `Gateway` | patterns with a lookahead (`presidio.go:155` credit_card_luhn, 513 uk_nino, 734 password_prose) do not compile in Go and are skipped without a word (`presidio.go:815`) | credit_card_luhn is `TierAlwaysOn` (`rules/catalog.go:54`); "credit cards" (README.md:49) |
| `LongestWins` | `Redaction`, `Pipelines <- OneLayer` | of two partly overlapping findings the earlier is applied, and the end of the longer one stays (`redactor.go:39`) | "longest match wins" (redactr-design:182) |
| `CleanStart` | `Singleton` | a sidecar that does not listen yet, or whose port is not yet on file, is not reaped (`sidecar/manager.go:44`) | "always produces a clean, ready process" (process-lifecycle-design:10) |
| `StrangersSpared` | `Singleton` | the pid is checked once and signalled later (`lifecycle.go:210`); any program whose name holds "redactr" or is "go" passes the check (303), and whoever listens on the recorded port is taken for the sidecar (278) | on pid reuse "do not kill" (process-lifecycle-design:73) |
| `KeepsHostRules` | `RoutingSerial`, 2 domains | a failed lookup of one host makes the next reconcile remove the rules of that host (`firewall/dns_loop.go:26`) | "keep existing rules for that host" (transparent-proxy-design:188) |
| `OffMeansClosed` | `RoutingSerial` | Start while running forgets the first listener (`proxy.go:246`) | "port released" (redactr-design:89) |
| `TrayGreen` | `Routing` | an enable that a disable overtook reports a closed address (`routes.go:131`) | "only when the daemon is reachable and the proxy is live" (tray.go:15) |
| `EnabledIsRouted` | `RoutingSerial` | Start with Enabled installs no rules (`daemon.go:357`) | "listener up + routing installed" (transparent-proxy-design:242) |
| `ActiveMeansInstalled` | `Routing`, fault "load" | the script's status is not that of the load (`script_darwin.go:38`) | "Helper script exits with error" (transparent-proxy-design:187) |
| `ShutdownFlushes` | `Routing` | Stop ignores a refused Disable (`daemon.go:405`) | "also flush the anchor" (transparent-proxy-design:244) |
| `NotModifiedIsCurrent` | `ControlPlane`, 2 organisations and tokens, no build, 1 version | the ETag of an earlier enrollment is sent to the new server (`policysync.go:45`) | "re-enroll overwrites" (control-plane-a2:32) |
| `CacheMonotone`, `ImplementsFeed` | `ControlPlane`, without the exception for misled laptops | Sync compares no versions: an older bundle with its genuine signature replaces a newer one (`policysync.go:76`) | nothing; signatures are checked, freshness is not |
| `NotModifiedIsCurrent`, `PolicyArrives` | `ControlPlane`, without the exception for misled laptops | the ETag is an unsigned header (`policysync.go:81`): a changed one, or an old bundle saved before a crash that left a newer ETag, keeps the laptop at the old bundle | nothing |
| `ProtectedIsRouted` | `Sessions` | the bound flag wins over a direct connection (`sessions.go:213`) | protected means "no direct AI conn" (monitoring-a4-e-design:34) |
| `RoutedIsProtected` | `Sessions` | only the dashboard's handler tells the lister the proxy's address (`routes.go:342`); the monitor calls a routed tool unknown until somebody opens the page | protected means "via-proxy" too (monitoring-a4-e-design:34) |
| `ShellIsBound` | `Sessions` | proxy.pid survives a crash, and `redactr shell` trusts it (`cli/shell.go:114`) | an error "when the proxy is not running" (`cli/shell.go:23`) |
| `PinKeepsRest` | `ControlPlane`, 2 denylists | the image pin reads and writes in two transactions (`httpapi/server.go:380`) | "serialized store writes" (control-plane-a3-image-pipeline-design:52) |
| `InSync` | `ConfigStore`, fault "slow" | a reload that takes longer than the debouncing runs beside the next one, and the older file may have the last word (`config/watcher.go:90`) | "changes take effect immediately" (startup.md:132) |
| `NoBlindSpot` | `ConfigStore` | a change between Load and the start of the watcher is not seen, nor any after an editor replaced the file by a rename (`daemon.go:346`) | "hot-reloaded on edit" (README.md:206) |
| `NoRollback` | `ConfigStore` | Reload parses outside the lock and may put back what an Update has replaced since; the next Update saves it (`config.go:133`) | "Single source of truth" (redactr-design:289) |
| `DefaultsAreWritten` | `ConfigStore` | a reload that reads the truncated file installs the defaults, as an empty file is valid YAML (`config.go:129`) | on a bad file "keeping current config" (`watcher.go:57`) |
| `StartsAgain` | `ConfigStore` | after a crash inside GenerateCA every later start fails in LoadCA (`ca.go:57`) | "always produces a clean, ready process" (process-lifecycle-design:10) |
| `ScansGoOn` | `Hub`, `HubFairSpec` | a dashboard that stops reading blocks Run in WriteMessage, then the queue, then the requests that report (`ws.go:50`) | nothing; the property says what a reader of `proxy.go` would expect |
| `LaunchedIsProxied` | `Agents` | the daemon that switched the proxy on is replaced by one that read the configuration before; the agent gets an empty proxy address, which `Validate` lets pass (`cli/agent.go:50`) | "ensures the daemon + proxy are up" (`cli/agent.go`) |

## 6. Not modelled

Byte-level work (SNI, X.509, JSON bodies, pattern matching, checksums, entropy),
SQL reads, log output, command lines and files that are composed and never read
back by the program, the python models, and the firewall back ends that return
`ErrNotImplemented`. `PROJECT.json` has the reason for each component. In
particular:

* licensing: the daemon constructs and stops the manager and shows its claims;
  nothing calls Refresh or HasFeature;
* the MCP wrapper: it finds the daemon by state/api.port, which no code writes;
* errors the code ignores: of Manager.Update in the proxy switch
  (`routes.go:131`, 174: `on` in `ProxyRouting` is memory and file at once), and of
  the WriteFile of sidecar.port (`manager.go:49`);
* the local store: one transaction per call. The key of a report is its time in
  nanoseconds (`store.go:80`), so two reports of one tick share a key.

Two behaviours are modelled without a property of their own: a daemon that was up
before the enrollment never syncs (`daemon.go:372`; "deaf" in `ControlPlane`), and
Start decides by the configuration it read at its beginning (`daemon.go:357`;
`loaded` in `Agents`).

## 7. Plan

Done, in this order: `ScanCache`, `Gateway`, `Singleton`, `Redaction`,
`ProxyRouting`, `ControlPlane`, `Sessions`, `ConfigStore`, `Hub`, `Agents`, the
abstract specifications `DaemonSlot` and `PolicyFeed`, and the proofs above.

Every invariant, every action property and both refinements that a passing run
checks are also theorems, under the hypotheses of section 4; only liveness is left
to TLC.

Next:

1. The switch with saves of config.yaml that fail (`routes.go:131`), as `Gateway`
   has them.
2. An abstract switch that serial `ProxyRouting` implements; `SwitchInv` has the
   facts its refinement needs.
3. An abstract cache, a map that forgets, which `ScanCacheLRU` implements.
4. Action properties of `Agents` and `Hub` that follow from their invariants.
